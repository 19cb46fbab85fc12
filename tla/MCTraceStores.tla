--------------------------- MODULE MCTraceStores ----------------------------
(* Two clients and two traces, the id of the first a prefix of the other's,   *)
(* whose producers may give a span the same id.                               *)
EXTENDS TraceStores, TLC

CONSTANTS short, long

MCPrefixed == [id \in TraceIds |-> IF id = short THEN {long} ELSE {}]

Symmetry == Permutations(Clients) \cup Permutations(SpanIds)
=============================================================================
