---------------------------- MODULE SqliteStore -----------------------------
(***************************************************************************)
(* The SQLite backend, store/sqlite.py.  Every method opens a connection   *)
(* of its own.  In WAL mode readers see the last commit and at most one    *)
(* connection writes: its first write statement takes the lock, waiting    *)
(* for it up to the timeout.  "with conn" commits, or rolls back when a    *)
(* statement raises; a process that dies leaves nothing of its transaction.*)
(***************************************************************************)
EXTENDS TraceClients

VARIABLES
  db,      \* the committed tables: traces (id -> row) and spans (span_id -> row)
  draft,   \* the tables as the writing connection sees them
  writer   \* the client with the write lock, or None

vars == <<db, draft, writer, op, made, answer>>

Empty == [traces |-> [id \in TraceIds |-> None], spans |-> [s \in SpanIds |-> None]]

Init == db = Empty /\ draft = Empty /\ writer = None /\ CallsInit

-----------------------------------------------------------------------------
(* The tables *)

SpanRow(rec) == [trace |-> rec.id, version |-> rec.version]

SpansOf(tables, id) ==
  {s \in SpanIds : tables.spans[s] # None /\ tables.spans[s].trace = id}

InsertTrace(tables, rec) == [tables EXCEPT !.traces[rec.id] = rec]

DeleteTraces(tables, ids) ==
  [tables EXCEPT !.traces = [id \in TraceIds |-> IF id \in ids THEN None ELSE @[id]]]

DeleteSpans(tables, ids) ==
  [tables EXCEPT !.spans = [s \in SpanIds |->
     IF \E id \in ids : s \in SpansOf(tables, id) THEN None ELSE @[s]]]

InsertSpans(tables, rec) ==
  [tables EXCEPT !.spans = [s \in SpanIds |->
     IF s \in rec.spans THEN SpanRow(rec) ELSE @[s]]]

\* Faulty variant: INSERT OR REPLACE, a span takes the row of a namesake.
DuplicatesReplace(tables, rec) == FALSE

\* The primary key of spans: another trace has a span with the id of one of
\* the record's.
Duplicates(tables, rec) == \E s \in rec.spans : tables.spans[s] # None

\* The statements of a method, one per step.
Statement(o, tables) ==
  CASE o.kind = "save"   /\ o.step = 1 -> InsertTrace(tables, o.rec)
    [] o.kind = "save"   /\ o.step = 2 -> DeleteSpans(tables, {o.id})
    [] o.kind = "save"   /\ o.step = 3 -> InsertSpans(tables, o.rec)
    [] o.kind = "delete" /\ o.step = 1 -> DeleteTraces(tables, {o.id})
    [] o.kind = "delete" /\ o.step = 2 -> DeleteSpans(tables, {o.id})
    [] o.kind = "clear"  /\ o.step = 1 -> DeleteSpans(tables, TraceIds)
    [] OTHER                           -> DeleteTraces(tables, TraceIds)

Statements(kind) == IF kind = "save" THEN 3 ELSE 2
Writes == {"save", "delete", "clear"}

-----------------------------------------------------------------------------
(* Transactions *)

Rollback == writer' = None /\ draft' = Empty

\* The next statement.  A duplicate span_id raises IntegrityError, which rolls
\* the whole transaction back.
Execute(c) ==
  LET tables == IF writer = c THEN draft ELSE db IN
  /\ op[c].kind \in Writes /\ op[c].step <= Statements(op[c].kind)
  /\ writer \in {None, c}
  /\ IF In(c, {"save"}, 3) /\ Duplicates(tables, op[c].rec)
     THEN Rollback /\ Return(c, NoAnswer)
     ELSE /\ writer' = c /\ draft' = Statement(op[c], tables)
          /\ Continue(c, [op[c] EXCEPT !.step = @ + 1])
  /\ UNCHANGED db

\* Faulty variant: every statement is a transaction of its own.
CommitEachStatement(c) ==
  /\ writer = c
  /\ db' = draft /\ draft' = Empty /\ writer' = None
  /\ IF op[c].step > Statements(op[c].kind)
     THEN Return(c, NoAnswer) ELSE Continue(c, op[c])

\* The transaction is committed and the method returns.
Commit(c) ==
  /\ writer = c /\ op[c].step > Statements(op[c].kind)
  /\ db' = draft /\ draft' = Empty /\ writer' = None
  /\ Return(c, NoAnswer)

\* "database is locked", once the timeout of ten seconds is over.
Locked(c) ==
  /\ op[c].kind \in Writes /\ writer \notin {None, c}
  /\ Return(c, NoAnswer)
  /\ UNCHANGED <<db, draft, writer>>

\* The process dies.
Crash(c) ==
  /\ op[c] # Idle
  /\ Return(c, NoAnswer)
  /\ IF writer = c THEN Rollback ELSE UNCHANGED <<writer, draft>>
  /\ UNCHANGED db

-----------------------------------------------------------------------------
(* Reading *)

Row(id) == IF db.traces[id] = None THEN {} ELSE {db.traces[id]}

\* Faulty variant: the prefix is looked up first.
SelectTraceByPrefix(c) ==
  /\ In(c, {"get"}, 1)
  /\ LET rows == Row(op[c].id) \cup UNION {Row(id) : id \in Prefixed[op[c].id]} IN
       \/ rows = {} /\ Return(c, NotFound)
       \/ \E row \in rows : Continue(c, [op[c] EXCEPT !.rec = row, !.step = 2])
  /\ UNCHANGED <<db, draft, writer>>

\* get_trace(): the row of the trace, else that of a trace whose id starts
\* with the argument (the latest by start time, which may be any) ...
SelectTrace(c) ==
  /\ In(c, {"get"}, 1)
  /\ LET rows == IF Row(op[c].id) # {} THEN Row(op[c].id)
                 ELSE UNION {Row(id) : id \in Prefixed[op[c].id]}
     IN \/ rows = {} /\ Return(c, NotFound)
        \/ \E row \in rows : Continue(c, [op[c] EXCEPT !.rec = row, !.step = 2])
  /\ UNCHANGED <<db, draft, writer>>

\* ... then its spans, in a transaction of their own.
SelectSpans(c) ==
  /\ In(c, {"get"}, 2)
  /\ LET rec  == op[c].rec
         rows == SpansOf(db, rec.id)
     IN Return(c, Found(rec, rows = rec.spans /\ \A s \in rows : db.spans[s] = SpanRow(rec)))
  /\ UNCHANGED <<db, draft, writer>>

Begin(c) ==
  /\ CallSave(c, TraceIds) \/ CallOther(c)
  /\ UNCHANGED <<db, draft, writer>>

Next == \E c \in Clients :
  \/ Begin(c)
  \/ Execute(c) \/ Commit(c) \/ Locked(c) \/ Crash(c)
  \/ SelectTrace(c) \/ SelectSpans(c)

Spec == Init /\ [][Next]_vars
-----------------------------------------------------------------------------
\* The record the two tables hold for each trace.
Stored == [id \in TraceIds |->
  LET row == db.traces[id]
      spans == SpansOf(db, id)
  IN IF row = None THEN IF spans = {} THEN None ELSE Damaged
     ELSE IF spans = row.spans /\ \A s \in spans : db.spans[s] = SpanRow(row)
          THEN row ELSE Damaged]

TypeOK ==
  /\ \A tables \in {db, draft} :
       /\ tables.traces \in [TraceIds -> Records \cup {None}]
       /\ tables.spans \in [SpanIds -> [trace : TraceIds, version : 1..MaxSaves] \cup {None}]
  /\ writer \in Clients \cup {None}
  /\ CallsTypeOK
=============================================================================
