CONSTANTS
  Tasks = {main, t1, t2}
  Main = main
  ExplicitIds = {}
  MaxSpans = 3
  Spawning = {"gather"}
  Exceptions = {}
  SetStatuses = {}
SPECIFICATION Spec
PROPERTY EndedSpansAreSaved
CHECK_DEADLOCK FALSE
