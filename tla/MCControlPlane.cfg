CONSTANTS
  r1 = r1
  both = both
  mem = mem
  neither = neither
  None = None
  Requests <- MCRequests
  MaxSpans = 2
  MaxBreaks = 1
  Runs = {r1}
  MemoryRecs = {both, mem}
  TableRecs = {both}
  Ops <- MCOps
  Clients = {c1}
SPECIFICATION Spec
INVARIANT ConnectedHasPool
INVARIANT StoresAgree
INVARIANT ReadsFollowWrites
INVARIANT AppliedIsAppliedAndAnnounced
PROPERTY Quiesces
CHECK_DEADLOCK FALSE
