CONSTANTS
  Tasks = {main, t1}
  Main = main
  ExplicitIds = {job}
  MaxSpans = 3
  Spawning = {"gather", "task", "thread"}
  Exceptions = {"error"}
  SetStatuses = {"retry"}
SPECIFICATION Spec
INVARIANT StackMirrorsNesting
INVARIANT OwnParentEncloses
INVARIANT SavedIsTree
INVARIANT FailuresReachTheRecord
PROPERTY OwnSpansAreSaved
CHECK_DEADLOCK FALSE
