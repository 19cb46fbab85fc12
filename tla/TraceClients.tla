---------------------------- MODULE TraceClients ----------------------------
(***************************************************************************)
(* Trace records and the callers of a trace store (store/base.py): the     *)
(* tracer, the server's threads, the command line.  Each is in one call at *)
(* a time.                                                                 *)
(***************************************************************************)
EXTENDS Naturals, FiniteSets

CONSTANTS
  Clients,   \* threads and processes that use the store
  TraceIds,
  Prefixed,  \* Prefixed[id]: the trace ids, other than id, that start with id
  SpanIds,   \* the producers' span ids: two traces may use the same
  MaxSaves,  \* bound: the records made in a behaviour
  None,      \* no record, no file, no client
  Damaged    \* stands for the part of a record

ASSUME RecordsAssumption == MaxSaves \in Nat /\ IsFiniteSet(SpanIds)
ASSUME PrefixedAssumption == Prefixed \in [TraceIds -> SUBSET TraceIds]

\* A TraceRecord: version tells the records of one trace apart, its content
\* is its non-empty set of spans (a record without spans is not saved).
Records == [id : TraceIds, version : 1..MaxSaves, spans : SUBSET SpanIds \ {{}}]

\* What get_trace() answers: nothing, an exception, or a record with the
\* summary of rec; whole when it also has the spans of rec, and no others.
NoAnswer == [kind |-> "no_answer"]
NotFound == [kind |-> "not_found"]
Raised   == [kind |-> "raised"]
Found(rec, whole) == [kind |-> "found", rec |-> rec, whole |-> whole]

VARIABLES
  op,      \* op[c]: the method client c is in, its arguments, what it has read, its
           \* next step; the files it has found are in todo
  made,    \* number of records made
  answer   \* the answer of the get_trace() that ends in this step

Idle == [kind |-> "idle", id |-> None, rec |-> None, todo |-> {}, step |-> 0]
Call(kind, id, rec) ==
  [kind |-> kind, id |-> id, rec |-> rec, todo |-> {}, step |-> 1]

CallsInit ==
  /\ op = [c \in Clients |-> Idle]
  /\ made = 0
  /\ answer = NoAnswer

Continue(c, o) ==
  /\ op' = [op EXCEPT ![c] = o]
  /\ answer' = NoAnswer
  /\ made' = made

Return(c, result) ==
  /\ op' = [op EXCEPT ![c] = Idle]
  /\ answer' = result
  /\ made' = made

In(c, kinds, step) == op[c].kind \in kinds /\ op[c].step = step

\* save_trace(record), of a new record of one of the traces.
CallSave(c, ids) ==
  /\ op[c] = Idle /\ made < MaxSaves
  /\ \E id \in ids, spans \in SUBSET SpanIds \ {{}} :
       LET rec == [id |-> id, version |-> made + 1, spans |-> spans]
       IN op' = [op EXCEPT ![c] = Call("save", id, rec)]
  /\ made' = made + 1
  /\ answer' = NoAnswer

\* get_trace(id), delete_trace(id), clear_all()
CallOther(c) ==
  /\ op[c] = Idle
  /\ \/ \E kind \in {"get", "delete"}, id \in TraceIds : Continue(c, Call(kind, id, None))
     \/ Continue(c, Call("clear", None, None))

CallsTypeOK ==
  /\ \A c \in Clients :
       /\ op[c].kind \in {"idle", "save", "get", "delete", "clear"}
       /\ op[c].id \in TraceIds \cup {None}
       /\ op[c].todo \subseteq TraceIds
       /\ op[c].step \in 0..4
       /\ op[c].kind = "save" => op[c].rec \in Records
  /\ made \in 0..MaxSaves
=============================================================================
