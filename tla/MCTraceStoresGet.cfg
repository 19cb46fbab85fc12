CONSTANTS
  short = short
  long = long
  TraceIds = {short, long}
  Prefixed <- MCPrefixed
  SpanIds = {s1, s2}
  Clients = {c1, c2}
  MaxSaves = 2
  None = None
  Damaged = Damaged
SPECIFICATION Spec
SYMMETRY Symmetry
INVARIANT GetIsFull
