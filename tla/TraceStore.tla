----------------------------- MODULE TraceStore -----------------------------
(***************************************************************************)
(* What a trace store (store/base.py) promises its clients: a trace        *)
(* appears by a save in progress, whole, and disappears by a deletion in   *)
(* progress; a store without transactions may also leave the trace of a    *)
(* save in progress damaged, and only that one.                            *)
(***************************************************************************)
CONSTANTS TraceIds, None, Damaged

VARIABLES
  stored,    \* stored[id]: a record, Damaged, or None
  saving,    \* the records being saved
  removing   \* the ids of the traces being deleted

vars == <<stored, saving, removing>>

Init ==
  /\ stored = [id \in TraceIds |-> None]
  /\ saving = {} /\ removing = {}

\* Calls begin and end.
Calls == UNCHANGED stored

\* The effect of a save, which may end the call.
Store(rec) ==
  /\ rec \in saving
  /\ stored' = [stored EXCEPT ![rec.id] = rec]

Damage(rec) ==
  /\ rec \in saving
  /\ stored' = [stored EXCEPT ![rec.id] = Damaged]

\* The effect of a deletion on the traces it removes at once.
Remove(ids) ==
  /\ ids \subseteq removing
  /\ stored' = [id \in TraceIds |-> IF id \in ids THEN None ELSE stored[id]]

Next ==
  \/ Calls
  \/ \E rec \in saving : Store(rec) \/ Damage(rec)
  \/ \E ids \in SUBSET removing : Remove(ids)

Spec == Init /\ [][Next]_vars
=============================================================================
