--------------------------- MODULE MCControlPlane ----------------------------
(* Three requests on one run and three recommendations: one known to both     *)
(* stores, one to memory only, one to neither.                                *)
EXTENDS ControlPlane

CONSTANTS r1, both, mem, neither

MCRequests == 1..3

\* Runs come one by POST /runs, or as two spans of one trace by POST /v1/traces.
One == [kind |-> "insert", runs |-> <<r1>>]
Two == [kind |-> "insert", runs |-> <<r1, r1>>]
Apply(rec) == [kind |-> "apply", rec |-> rec]
Ask(kind) == [kind |-> kind]

MCOps == <<
  {Two, Apply(both)},
  {One, Apply(mem), Ask("health")},
  {One, Apply(neither), Ask("recommendations"), Ask("signals")} >>
=============================================================================
