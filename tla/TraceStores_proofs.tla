--------------------------- MODULE TraceStores_proofs ---------------------------
(***************************************************************************)
(* Either backend implements TraceStore, the abstract store, for any       *)
(* clients, traces, spans and prefixes; only a save of the file backend    *)
(* that is under way, crashed or met another one leaves damage; and a get  *)
(* that nothing disturbed is right.                                        *)
(*                                                                         *)
(* SQLite: the tables are consistent whenever they are committed, because  *)
(* the draft of the writer is what its statements so far make of them.     *)
(* JSONL: as long as one save of a trace has had its file open at once,    *)
(* the file is that of its save; other saves can only damage the trace.    *)
(***************************************************************************)
EXTENDS TraceStores, FiniteSetTheorems, TLAPS

Rows   == [trace : TraceIds, version : 1..MaxSaves]
Tables == [traces : [TraceIds -> Records \cup {None}], spans : [SpanIds -> Rows \cup {None}]]
Files  == [rec : Records \cup {Damaged}, lines : Nat, torn : BOOLEAN, more : BOOLEAN]
Kinds  == {"idle", "save", "get", "delete", "clear"}
Ops    == [kind : Kinds, id : TraceIds \cup {None}, rec : Records \cup Files \cup {None},
           todo : SUBSET TraceIds, step : 0..4]

Types ==
  /\ backend \in {"sqlite", "jsonl"}
  /\ op \in [Clients -> Ops] /\ made \in 0..MaxSaves
  /\ db \in Tables /\ draft \in Tables /\ writer \in Clients \cup {None}
  /\ files \in [TraceIds -> Files \cup {None}] /\ openers \in [TraceIds -> SUBSET Clients]
  /\ interrupted \subseteq TraceIds /\ overlapped \subseteq TraceIds
  /\ steady \subseteq Clients

\* What the arguments of a method are.
OpOK(o) ==
  /\ o.kind = "idle" => o = Idle
  /\ o.kind # "idle" => o.step >= 1
  /\ o.kind = "save" => o.rec \in Records /\ o.id = o.rec.id
  /\ o.kind \in {"get", "delete"} => o.id \in TraceIds

OpsOK == \A c \in Clients : OpOK(op[c])

-----------------------------------------------------------------------------
(* SQLite *)

\* Every trace of the tables is whole.
Consistent(tables) ==
  \A id \in TraceIds :
    LET row == tables.traces[id]
        spans == Sqlite!SpansOf(tables, id)
    IN  /\ row = None => spans = {}
        /\ row # None => /\ row.id = id /\ spans = row.spans
                         /\ \A s \in spans : tables.spans[s] = Sqlite!SpanRow(row)

\* What the statements of method o before its next one make of tables.
Drafted(o, tables) ==
  CASE o.kind = "save" /\ o.step = 2 -> Sqlite!InsertTrace(tables, o.rec)
    [] o.kind = "save" /\ o.step = 3 ->
         Sqlite!DeleteSpans(Sqlite!InsertTrace(tables, o.rec), {o.id})
    [] o.kind = "save" /\ o.step = 4 ->
         Sqlite!InsertSpans(
           Sqlite!DeleteSpans(Sqlite!InsertTrace(tables, o.rec), {o.id}), o.rec)
    [] o.kind = "delete" /\ o.step = 2 -> Sqlite!DeleteTraces(tables, {o.id})
    [] o.kind = "delete" /\ o.step = 3 ->
         Sqlite!DeleteSpans(Sqlite!DeleteTraces(tables, {o.id}), {o.id})
    [] o.kind = "clear" /\ o.step = 2 -> Sqlite!DeleteSpans(tables, TraceIds)
    [] OTHER -> Sqlite!DeleteTraces(Sqlite!DeleteSpans(tables, TraceIds), TraceIds)

Began(o) ==
  \/ o.kind = "save" /\ o.step \in 2..4
  \/ o.kind \in {"delete", "clear"} /\ o.step \in 2..3

\* A save that is past its last statement met no span of another trace.
NoDuplicates(o, tables) ==
  o.kind = "save" /\ o.step = 4 =>
    ~Sqlite!Duplicates(Sqlite!DeleteSpans(Sqlite!InsertTrace(tables, o.rec), {o.id}), o.rec)

SqliteOK ==
  /\ Consistent(db)
  /\ \A c \in Clients : op[c].kind \in Sqlite!Writes /\ op[c].step # 1 => writer = c
  /\ writer # None =>
       Began(op[writer]) /\ draft = Drafted(op[writer], db) /\ NoDuplicates(op[writer], db)

-----------------------------------------------------------------------------
(* JSONL *)

FileOK(id) ==
  LET f == files[id] IN
  /\ f = None => openers[id] = {}
  /\ f # None =>
       /\ f.rec # Damaged => f.rec.id = id /\ (f.torn => f.lines < Jsonl!Lines(f.rec))
       /\ Jsonl!Complete(f) \/ openers[id] # {} \/ id \in interrupted \cup overlapped
  /\ \A c \in openers[id] :
       /\ op[c].kind = "save" /\ op[c].id = id /\ op[c].step # 1
       /\ id \notin overlapped => openers[id] = {c} /\ f.rec = op[c].rec /\ ~f.more

JsonlOK ==
  /\ \A id \in TraceIds : FileOK(id)
  /\ \A c \in Clients : op[c].kind = "delete" => op[c].todo \subseteq {op[c].id}

-----------------------------------------------------------------------------
(* Undisturbed gets *)

\* Trace id is one that the get of client c should answer with.
Due(c, id) ==
  /\ id \in Candidates(op[c].id)
  /\ Stored[id] # None
  /\ id # op[c].id => Stored[op[c].id] = None

\* What client c has found so far.
FoundOK(c) ==
  /\ backend = "sqlite" /\ op[c].step # 1 =>
       /\ op[c].rec \in Records
       /\ Due(c, op[c].rec.id) /\ Stored[op[c].rec.id] = op[c].rec
  /\ backend = "jsonl" /\ op[c].step = 2 =>
       \E id \in TraceIds : op[c].todo = {id} /\ Due(c, id)
  /\ backend = "jsonl" /\ op[c].step \notin {1, 2} =>
       \E id \in TraceIds : /\ op[c].todo = {id} /\ Due(c, id)
                            /\ op[c].rec \in Files /\ files[id] = op[c].rec

SteadyOK ==
  \A c \in steady :
    /\ op[c].kind = "get"
    /\ \A id \in Candidates(op[c].id) : Stored[id] # Damaged
    /\ FoundOK(c)

IInv ==
  /\ Types /\ OpsOK
  /\ backend = "sqlite" => SqliteOK
  /\ backend = "jsonl" => JsonlOK
  /\ SteadyOK

-----------------------------------------------------------------------------
(* The tables *)

LEMMA TablesAreRecords ==
  ASSUME NEW tables \in Tables
  PROVE  /\ tables.traces \in [TraceIds -> Records \cup {None}]
         /\ tables.spans \in [SpanIds -> Rows \cup {None}]
BY DEF Tables

LEMMA RecordFacts ==
  ASSUME NEW rec \in Records
  PROVE  /\ rec # None /\ rec # Damaged /\ rec.id \in TraceIds
         /\ rec.spans \subseteq SpanIds /\ Sqlite!SpanRow(rec) \in Rows
         /\ Sqlite!SpanRow(rec) # None /\ Sqlite!SpanRow(rec).trace = rec.id
BY TokensAssumption DEF Records, Rows, Sqlite!SpanRow

LEMMA InsertTraceFacts ==
  ASSUME NEW tables \in Tables, NEW rec \in Records
  PROVE  LET new == Sqlite!InsertTrace(tables, rec)
         IN  /\ new \in Tables /\ new.spans = tables.spans
             /\ new.traces = [tables.traces EXCEPT ![rec.id] = rec]
BY RecordFacts DEF Tables, Sqlite!InsertTrace

LEMMA DeleteTracesFacts ==
  ASSUME NEW tables \in Tables, NEW ids
  PROVE  LET new == Sqlite!DeleteTraces(tables, ids)
         IN  /\ new \in Tables /\ new.spans = tables.spans
             /\ new.traces = [id \in TraceIds |-> IF id \in ids THEN None ELSE tables.traces[id]]
BY DEF Tables, Sqlite!DeleteTraces

LEMMA DeleteSpansFacts ==
  ASSUME NEW tables \in Tables, NEW ids
  PROVE  LET new == Sqlite!DeleteSpans(tables, ids)
         IN  /\ new \in Tables /\ new.traces = tables.traces
             /\ \A s \in SpanIds :
                  new.spans[s] = IF tables.spans[s] # None /\ tables.spans[s].trace \in ids
                                 THEN None ELSE tables.spans[s]
<1> DEFINE gone(s) == \E id \in ids : s \in Sqlite!SpansOf(tables, id)
           spans == [s \in SpanIds |-> IF gone(s) THEN None ELSE tables.spans[s]]
           new == Sqlite!DeleteSpans(tables, ids)
<1>1. new = [tables EXCEPT !.spans = spans]
  BY DEF Sqlite!DeleteSpans
<1>2. \A s \in SpanIds : gone(s) <=> tables.spans[s] # None /\ tables.spans[s].trace \in ids
  BY DEF Sqlite!SpansOf
<1>3. spans \in [SpanIds -> Rows \cup {None}]
  BY TablesAreRecords
<1> HIDE DEF spans
<1>4. new \in Tables /\ new.traces = tables.traces /\ new.spans = spans
  BY <1>1, <1>3 DEF Tables
<1> QED BY <1>2, <1>4 DEF spans

LEMMA InsertSpansFacts ==
  ASSUME NEW tables \in Tables, NEW rec \in Records
  PROVE  LET new == Sqlite!InsertSpans(tables, rec)
         IN  /\ new \in Tables /\ new.traces = tables.traces
             /\ \A s \in SpanIds :
                  new.spans[s] = IF s \in rec.spans THEN Sqlite!SpanRow(rec)
                                 ELSE tables.spans[s]
<1> DEFINE spans == [s \in SpanIds |-> IF s \in rec.spans THEN Sqlite!SpanRow(rec)
                                       ELSE tables.spans[s]]
           new == Sqlite!InsertSpans(tables, rec)
<1>1. new = [tables EXCEPT !.spans = spans]
  BY DEF Sqlite!InsertSpans
<1>2. spans \in [SpanIds -> Rows \cup {None}]
  BY TablesAreRecords, RecordFacts
<1> HIDE DEF spans
<1>3. new \in Tables /\ new.traces = tables.traces /\ new.spans = spans
  BY <1>1, <1>2 DEF Tables
<1> QED BY <1>3 DEF spans

\* A save that runs to its end leaves every trace whole.
LEMMA SaveConsistent ==
  ASSUME NEW tables \in Tables, Consistent(tables), NEW rec \in Records,
         ~Sqlite!Duplicates(
            Sqlite!DeleteSpans(Sqlite!InsertTrace(tables, rec), {rec.id}), rec)
  PROVE  LET new == Sqlite!InsertSpans(
                      Sqlite!DeleteSpans(Sqlite!InsertTrace(tables, rec), {rec.id}), rec)
         IN  Consistent(new) /\ new.traces = [tables.traces EXCEPT ![rec.id] = rec]
<1> DEFINE t2 == Sqlite!InsertTrace(tables, rec)
           t3 == Sqlite!DeleteSpans(t2, {rec.id})
           new == Sqlite!InsertSpans(t3, rec)
<1>1. /\ t2 \in Tables /\ t2.spans = tables.spans
      /\ t2.traces = [tables.traces EXCEPT ![rec.id] = rec]
  BY InsertTraceFacts
<1>2. /\ t3 \in Tables /\ t3.traces = t2.traces
      /\ \A s \in SpanIds :
           t3.spans[s] = IF t2.spans[s] # None /\ t2.spans[s].trace = rec.id
                         THEN None ELSE t2.spans[s]
  BY <1>1, DeleteSpansFacts
<1>3. \A s \in rec.spans : t3.spans[s] = None
  BY DEF Sqlite!Duplicates
<1> HIDE DEF t2, t3
<1>4. /\ new \in Tables /\ new.traces = t3.traces
      /\ \A s \in SpanIds : new.spans[s] = IF s \in rec.spans THEN Sqlite!SpanRow(rec)
                                           ELSE t3.spans[s]
  BY <1>2, InsertSpansFacts
<1> HIDE DEF new
<1>5. new.traces = [tables.traces EXCEPT ![rec.id] = rec]
  BY <1>1, <1>2, <1>4
<1>6. tables.traces \in [TraceIds -> Records \cup {None}]
  BY TablesAreRecords
<1>7. Sqlite!SpansOf(new, rec.id) = rec.spans
  BY <1>1, <1>2, <1>4, RecordFacts DEF Sqlite!SpansOf
<1>8. ASSUME NEW id \in TraceIds, id # rec.id
      PROVE  /\ Sqlite!SpansOf(new, id) = Sqlite!SpansOf(tables, id)
             /\ \A s \in Sqlite!SpansOf(new, id) : new.spans[s] = tables.spans[s]
  <2>1. \A s \in Sqlite!SpansOf(tables, id) : s \notin rec.spans /\ new.spans[s] = tables.spans[s]
    BY <1>1, <1>2, <1>3, <1>4, <1>8 DEF Sqlite!SpansOf
  <2>2. ASSUME NEW s \in SpanIds, new.spans[s] # None, new.spans[s].trace = id
        PROVE  new.spans[s] = tables.spans[s]
    <3>1. s \notin rec.spans
      BY <2>2, <1>4, <1>8, RecordFacts
    <3> QED BY <3>1, <2>2, <1>1, <1>2, <1>4
  <2> QED BY <2>1, <2>2 DEF Sqlite!SpansOf
<1>9. ASSUME NEW id \in TraceIds
      PROVE  LET row == new.traces[id]
                 spans == Sqlite!SpansOf(new, id)
             IN  /\ row = None => spans = {}
                 /\ row # None => /\ row.id = id /\ spans = row.spans
                                  /\ \A s \in spans : new.spans[s] = Sqlite!SpanRow(row)
  <2>1. CASE id = rec.id
    <3>1. new.traces[id] = rec
      BY <2>1, <1>5, <1>6
    <3>2. \A s \in rec.spans : new.spans[s] = Sqlite!SpanRow(rec)
      BY <1>4, RecordFacts
    <3> QED BY <2>1, <3>1, <3>2, <1>7, RecordFacts
  <2>2. CASE id # rec.id
    <3>1. new.traces[id] = tables.traces[id]
      BY <2>2, <1>5, <1>6
    <3> QED BY <2>2, <3>1, <1>8 DEF Consistent
  <2> QED BY <2>1, <2>2
<1> QED BY <1>5, <1>9 DEF Consistent, t2, t3, new

\* So does a deletion, whichever of its two statements is the first.
LEMMA DeletionConsistent ==
  ASSUME NEW tables \in Tables, Consistent(tables), NEW ids,
         NEW new \in Tables,
         new.traces = [id \in TraceIds |-> IF id \in ids THEN None ELSE tables.traces[id]],
         \A s \in SpanIds :
           new.spans[s] = IF tables.spans[s] # None /\ tables.spans[s].trace \in ids
                          THEN None ELSE tables.spans[s]
  PROVE  Consistent(new)
<1> SUFFICES ASSUME NEW id \in TraceIds
             PROVE  LET row == new.traces[id]
                        spans == Sqlite!SpansOf(new, id)
                    IN  /\ row = None => spans = {}
                        /\ row # None => /\ row.id = id /\ spans = row.spans
                                         /\ \A s \in spans : new.spans[s] = Sqlite!SpanRow(row)
  BY DEF Consistent
<1>1. CASE id \in ids
  <2>1. new.traces[id] = None
    BY <1>1
  <2>2. Sqlite!SpansOf(new, id) = {}
    BY <1>1 DEF Sqlite!SpansOf
  <2> QED BY <2>1, <2>2
<1>2. CASE id \notin ids
  <2>1. new.traces[id] = tables.traces[id]
    BY <1>2
  <2>2. Sqlite!SpansOf(new, id) = Sqlite!SpansOf(tables, id)
    BY <1>2 DEF Sqlite!SpansOf
  <2>3. \A s \in Sqlite!SpansOf(new, id) : new.spans[s] = tables.spans[s]
    BY <1>2 DEF Sqlite!SpansOf
  <2> QED BY <2>1, <2>2, <2>3 DEF Consistent
<1> QED BY <1>1, <1>2

-----------------------------------------------------------------------------
(* The transactions *)

\* A call goes on as o, with the tables as they are.
Goes(c, o) == op' = [op EXCEPT ![c] = o] /\ made' \in 0..MaxSaves

LEMMA SqliteStored ==
  ASSUME NEW tables \in Tables, Consistent(tables)
  PROVE  tables.traces = [id \in TraceIds |->
           LET row == tables.traces[id]
               spans == Sqlite!SpansOf(tables, id)
           IN IF row = None THEN IF spans = {} THEN None ELSE Damaged
              ELSE IF spans = row.spans
                      /\ \A s \in spans : tables.spans[s] = Sqlite!SpanRow(row)
                   THEN row ELSE Damaged]
<1>1. tables.traces \in [TraceIds -> Records \cup {None}]
  BY TablesAreRecords
<1>2. \A id \in TraceIds : tables.traces[id] =
           LET row == tables.traces[id]
               spans == Sqlite!SpansOf(tables, id)
           IN IF row = None THEN IF spans = {} THEN None ELSE Damaged
              ELSE IF spans = row.spans
                      /\ \A s \in spans : tables.spans[s] = Sqlite!SpanRow(row)
                   THEN row ELSE Damaged
  BY DEF Consistent
<1> QED BY <1>1, <1>2

LEMMA StoredIsTraces ==
  /\ Types /\ backend = "sqlite" /\ Consistent(db) => Stored = db.traces
  /\ Types' /\ backend' = "sqlite" /\ Consistent(db') => Stored' = db'.traces
<1>1. Types /\ backend = "sqlite" /\ Consistent(db) => Stored = db.traces
  BY SqliteStored DEF Types, Stored, Sqlite!Stored
<1>2. Types' /\ backend' = "sqlite" /\ Consistent(db') => Stored' = db'.traces
  BY SqliteStored DEF Types, Stored, Sqlite!Stored
<1> QED BY <1>1, <1>2

LEMMA CallsAreOps ==
  ASSUME NEW kind \in Kinds \ {"idle", "save"}, NEW id \in TraceIds \cup {None},
         kind \in {"get", "delete"} => id \in TraceIds
  PROVE  Call(kind, id, None) \in Ops /\ OpOK(Call(kind, id, None))
BY DEF Call, Ops, Kinds, OpOK, Idle

LEMMA IdleIsOp == Idle \in Ops /\ OpOK(Idle) /\ Idle.kind = "idle" /\ Idle.step = 0
BY DEF Idle, Ops, Kinds, OpOK

\* A step of client c that is not one of the transaction under way.
LEMMA SqliteQuiet ==
  ASSUME Types, OpsOK, SqliteOK, NEW c \in Clients, NEW o \in Ops, OpOK(o), Goes(c, o),
         UNCHANGED <<db, draft, writer, backend, jsonlVars>>, steady' \subseteq Clients,
         writer # c, o.kind \in Sqlite!Writes => o.step = 1
  PROVE  Types' /\ OpsOK' /\ SqliteOK'
<1>1. Types' /\ OpsOK'
  BY DEF Types, OpsOK, Goes, jsonlVars
<1>2. \A d \in Clients : op'[d] = IF d = c THEN o ELSE op[d]
  BY DEF Goes, Types
<1>3. writer # None => op'[writer] = op[writer]
  BY <1>2 DEF Types
<1>4. SqliteOK'
  BY <1>2, <1>3 DEF SqliteOK
<1> QED BY <1>1, <1>4

LEMMA StatementType ==
  ASSUME NEW tables \in Tables, NEW o \in Ops, OpOK(o), o.kind \in Sqlite!Writes
  PROVE  Sqlite!Statement(o, tables) \in Tables
<1>1. \A ids : /\ Sqlite!DeleteTraces(tables, ids) \in Tables
               /\ Sqlite!DeleteSpans(tables, ids) \in Tables
  BY DeleteTracesFacts, DeleteSpansFacts
<1>2. \A rec \in Records : /\ Sqlite!InsertTrace(tables, rec) \in Tables
                           /\ Sqlite!InsertSpans(tables, rec) \in Tables
  BY InsertTraceFacts, InsertSpansFacts
<1>3. o.kind = "save" => o.rec \in Records
  BY DEF OpOK
<1> QED BY <1>1, <1>2, <1>3 DEF Sqlite!Statement

\* The next statement makes of the draft what the draft should be next.
LEMMA StatementDrafts ==
  ASSUME NEW o \in Ops, NEW next \in Ops, o.kind \in Sqlite!Writes,
         o.step \in 1..Sqlite!Statements(o.kind), NEW tables, NEW before,
         next.kind = o.kind, next.id = o.id, next.rec = o.rec, next.step = o.step + 1,
         tables = IF o.step = 1 THEN before ELSE Drafted(o, before)
  PROVE  Began(next) /\ Sqlite!Statement(o, tables) = Drafted(next, before)
<1>1. CASE o.kind = "save"
  <2>1. o.step \in {1, 2, 3}
    BY <1>1 DEF Sqlite!Statements
  <2>2. CASE o.step = 1
    BY <1>1, <2>2 DEF Began, Sqlite!Statement, Drafted
  <2>3. CASE o.step = 2
    BY <1>1, <2>3 DEF Began, Sqlite!Statement, Drafted
  <2>4. CASE o.step = 3
    BY <1>1, <2>4 DEF Began, Sqlite!Statement, Drafted
  <2> QED BY <2>1, <2>2, <2>3, <2>4
<1>2. CASE o.kind \in {"delete", "clear"}
  <2>1. o.step \in {1, 2}
    BY <1>2 DEF Sqlite!Statements
  <2>2. CASE o.step = 1
    BY <1>2, <2>2 DEF Began, Sqlite!Statement, Drafted
  <2>3. CASE o.step = 2
    BY <1>2, <2>3 DEF Began, Sqlite!Statement, Drafted
  <2> QED BY <2>1, <2>2, <2>3
<1> QED BY <1>1, <1>2 DEF Sqlite!Writes

LEMMA NextOp ==
  ASSUME NEW o \in Ops, OpOK(o), o.kind # "idle", o.step \in 1..3
  PROVE  LET next == [o EXCEPT !.step = @ + 1]
         IN  /\ next \in Ops /\ OpOK(next)
             /\ next.kind = o.kind /\ next.id = o.id /\ next.rec = o.rec /\ next.todo = o.todo
             /\ next.step = o.step + 1
BY DEF Ops, OpOK

LEMMA ExecuteOK ==
  ASSUME Types, OpsOK, SqliteOK, NEW c \in Clients, Sqlite!Execute(c),
         UNCHANGED <<backend, jsonlVars>>, steady' \subseteq Clients
  PROVE  /\ Types' /\ OpsOK' /\ SqliteOK' /\ db' = db
         /\ op' = [op EXCEPT ![c] = op'[c]] /\ op'[c].kind # "get"
<1> DEFINE o == op[c]
           tables == IF writer = c THEN draft ELSE db
           next == [o EXCEPT !.step = @ + 1]
<1>1. /\ o \in Ops /\ OpOK(o) /\ o.kind \in Sqlite!Writes
      /\ o.step \in Nat /\ o.step <= Sqlite!Statements(o.kind)
      /\ writer \in {None, c} /\ db' = db /\ None \notin Clients
  BY TokensAssumption DEF Sqlite!Execute, Types, OpsOK, Ops
<1>2. o.step >= 1 /\ o.step \in 1..Sqlite!Statements(o.kind) /\ o.step \in 1..3
  BY <1>1 DEF OpOK, Sqlite!Writes, Sqlite!Statements
<1>3. \A d \in Clients : d # c /\ op[d].kind \in Sqlite!Writes => op[d].step = 1
  BY <1>1 DEF SqliteOK
<1>4. CASE Sqlite!In(c, {"save"}, 3) /\ Sqlite!Duplicates(tables, o.rec)
  <2>1. Goes(c, Idle) /\ writer' = None /\ draft' = Sqlite!Empty
    BY <1>4 DEF Sqlite!Execute, Sqlite!Rollback, Sqlite!Return, Goes, Types,
                Idle, Sqlite!Idle
  <2>2. Sqlite!Empty \in Tables
    BY DEF Sqlite!Empty, Tables
  <2>3. op' \in [Clients -> Ops] /\ op'[c] = Idle /\ \A d \in Clients : d # c => op'[d] = op[d]
    BY <2>1, IdleIsOp DEF Goes, Types
  <2>4. Types' /\ OpsOK'
    BY <1>1, <2>1, <2>2, <2>3, IdleIsOp DEF Types, OpsOK, Goes, jsonlVars
  <2>5. SqliteOK'
    BY <1>1, <1>3, <2>1, <2>3, IdleIsOp DEF SqliteOK, Sqlite!Writes
  <2> QED BY <1>1, <2>1, <2>3, <2>4, <2>5, IdleIsOp DEF Goes
<1>5. CASE ~(Sqlite!In(c, {"save"}, 3) /\ Sqlite!Duplicates(tables, o.rec))
  <2>1. Goes(c, next) /\ writer' = c /\ draft' = Sqlite!Statement(o, tables)
    BY <1>5 DEF Sqlite!Execute, Sqlite!Continue, Goes, Types
  <2>2. /\ next \in Ops /\ OpOK(next) /\ next.kind = o.kind /\ next.id = o.id
        /\ next.rec = o.rec /\ next.step = o.step + 1
    BY <1>1, <1>2, NextOp DEF Sqlite!Writes
  <2> HIDE DEF next
  <2>3. op' \in [Clients -> Ops] /\ op'[c] = next /\ \A d \in Clients : d # c => op'[d] = op[d]
    BY <2>1, <2>2 DEF Goes, Types
  <2>4. tables \in Tables /\ draft' \in Tables
    BY <1>1, <2>1, StatementType DEF Types
  <2>5. Types' /\ OpsOK'
    BY <1>1, <2>1, <2>2, <2>3, <2>4 DEF Types, OpsOK, Goes, jsonlVars
  <2>6. tables = IF o.step = 1 THEN db ELSE Drafted(o, db)
    BY <1>1 DEF SqliteOK, Began
  <2>7. Began(next) /\ draft' = Drafted(next, db)
    BY <1>1, <1>2, <2>1, <2>2, <2>6, StatementDrafts
  <2>8. NoDuplicates(next, db)
    <3>1. SUFFICES ASSUME next.kind = "save", next.step = 4
          PROVE ~Sqlite!Duplicates(
                   Sqlite!DeleteSpans(Sqlite!InsertTrace(db, o.rec), {o.id}), o.rec)
      BY <2>2 DEF NoDuplicates
    <3>2. o.kind = "save" /\ o.step = 3
      BY <3>1, <2>2, <1>1
    <3>3. tables = Sqlite!DeleteSpans(Sqlite!InsertTrace(db, o.rec), {o.id})
      BY <3>2, <2>6 DEF Drafted
    <3> QED BY <3>2, <3>3, <1>5 DEF Sqlite!In
  <2>9. SqliteOK'
    BY <1>1, <1>3, <2>1, <2>3, <2>7, <2>8 DEF SqliteOK
  <2> QED BY <1>1, <2>1, <2>2, <2>3, <2>5, <2>9 DEF Goes, Sqlite!Writes
<1> QED BY <1>4, <1>5

\* The traces that a deletion removes.
Removes(o) == IF o.kind = "delete" THEN {o.id} ELSE IF o.kind = "clear" THEN TraceIds ELSE {}

LEMMA DeletionDrafted ==
  ASSUME NEW o \in Ops, OpOK(o), o.kind \in {"delete", "clear"}, o.step = 3,
         NEW tables \in Tables, Consistent(tables)
  PROVE  LET new == Drafted(o, tables)
         IN  /\ Consistent(new)
             /\ new.traces = [id \in TraceIds |-> IF id \in Removes(o) THEN None
                                                  ELSE tables.traces[id]]
<1> DEFINE new == Drafted(o, tables)
           ids == Removes(o)
<1>1. CASE o.kind = "delete"
  <2> DEFINE t == Sqlite!DeleteTraces(tables, {o.id})
  <2>1. /\ t \in Tables /\ t.spans = tables.spans
        /\ t.traces = [id \in TraceIds |-> IF id \in {o.id} THEN None ELSE tables.traces[id]]
    BY DeleteTracesFacts
  <2>2. new = Sqlite!DeleteSpans(t, {o.id}) /\ ids = {o.id}
    BY <1>1 DEF Drafted, Removes
  <2> HIDE DEF t, new, ids
  <2>3. /\ new \in Tables /\ new.traces = t.traces
        /\ \A s \in SpanIds :
             new.spans[s] = IF t.spans[s] # None /\ t.spans[s].trace \in {o.id}
                            THEN None ELSE t.spans[s]
    BY <2>1, <2>2, DeleteSpansFacts
  <2>4. new.traces = [id \in TraceIds |-> IF id \in ids THEN None ELSE tables.traces[id]]
    BY <2>1, <2>2, <2>3
  <2>5. \A s \in SpanIds :
             new.spans[s] = IF tables.spans[s] # None /\ tables.spans[s].trace \in ids
                            THEN None ELSE tables.spans[s]
    BY <2>1, <2>2, <2>3
  <2>6. Consistent(new)
    BY <2>3, <2>4, <2>5, DeletionConsistent
  <2> QED BY <2>4, <2>6 DEF new, ids
<1>2. CASE o.kind = "clear"
  <2> DEFINE t == Sqlite!DeleteSpans(tables, TraceIds)
  <2>1. /\ t \in Tables /\ t.traces = tables.traces
        /\ \A s \in SpanIds :
             t.spans[s] = IF tables.spans[s] # None /\ tables.spans[s].trace \in TraceIds
                          THEN None ELSE tables.spans[s]
    BY DeleteSpansFacts
  <2>2. new = Sqlite!DeleteTraces(t, TraceIds) /\ ids = TraceIds
    BY <1>2 DEF Drafted, Removes
  <2> HIDE DEF t, new, ids
  <2>3. /\ new \in Tables /\ new.spans = t.spans
        /\ new.traces = [id \in TraceIds |-> IF id \in TraceIds THEN None ELSE t.traces[id]]
    BY <2>1, <2>2, DeleteTracesFacts
  <2>4. new.traces = [id \in TraceIds |-> IF id \in ids THEN None ELSE tables.traces[id]]
    BY <2>1, <2>2, <2>3
  <2>5. \A s \in SpanIds :
             new.spans[s] = IF tables.spans[s] # None /\ tables.spans[s].trace \in ids
                            THEN None ELSE tables.spans[s]
    BY <2>1, <2>2, <2>3
  <2>6. Consistent(new)
    BY <2>3, <2>4, <2>5, DeletionConsistent
  <2> QED BY <2>4, <2>6 DEF new, ids
<1> QED BY <1>1, <1>2

LEMMA CommitOK ==
  ASSUME Types, OpsOK, SqliteOK, NEW c \in Clients, Sqlite!Commit(c),
         UNCHANGED <<backend, jsonlVars>>, steady' \subseteq Clients
  PROVE  /\ Types' /\ OpsOK' /\ SqliteOK'
         /\ op' = [op EXCEPT ![c] = Idle] /\ op[c].kind # "get"
         /\ \/ /\ op[c].kind = "save"
               /\ db'.traces = [db.traces EXCEPT ![op[c].rec.id] = op[c].rec]
            \/ db'.traces = [id \in TraceIds |-> IF id \in Removes(op[c]) THEN None
                                                 ELSE db.traces[id]]
<1> DEFINE o == op[c]
<1>1. /\ o \in Ops /\ OpOK(o) /\ writer = c /\ o.step > Sqlite!Statements(o.kind)
      /\ db' = draft /\ draft' = Sqlite!Empty /\ writer' = None /\ Goes(c, Idle)
      /\ None \notin Clients
  BY TokensAssumption DEF Sqlite!Commit, Sqlite!Return, Types, OpsOK, Goes, Idle, Sqlite!Idle
<1>2. Began(o) /\ draft = Drafted(o, db) /\ NoDuplicates(o, db) /\ Consistent(db) /\ db \in Tables
  BY <1>1 DEF SqliteOK, Types
<1>3. /\ Consistent(draft)
      /\ \/ o.kind = "save" /\ draft.traces = [db.traces EXCEPT ![o.rec.id] = o.rec]
         \/ /\ o.kind \in {"delete", "clear"}
            /\ draft.traces = [id \in TraceIds |-> IF id \in Removes(o) THEN None
                                                   ELSE db.traces[id]]
  <2>1. CASE o.kind = "save"
    <3>1. o.step = 4 /\ o.rec \in Records /\ o.id = o.rec.id
      BY <2>1, <1>1, <1>2 DEF Began, Sqlite!Statements, OpOK
    <3>2. /\ draft = Sqlite!InsertSpans(Sqlite!DeleteSpans(
                       Sqlite!InsertTrace(db, o.rec), {o.rec.id}), o.rec)
          /\ ~Sqlite!Duplicates(Sqlite!DeleteSpans(
                Sqlite!InsertTrace(db, o.rec), {o.rec.id}), o.rec)
      BY <2>1, <3>1, <1>2 DEF Drafted, NoDuplicates
    <3> QED BY <2>1, <3>1, <3>2, <1>2, SaveConsistent
  <2>2. CASE o.kind \in {"delete", "clear"}
    <3>1. o.step = 3
      BY <2>2, <1>1, <1>2 DEF Began, Sqlite!Statements
    <3> QED BY <2>2, <3>1, <1>1, <1>2, DeletionDrafted
  <2> QED BY <2>1, <2>2, <1>2 DEF Began
<1>4. op' \in [Clients -> Ops] /\ op'[c] = Idle /\ \A d \in Clients : d # c => op'[d] = op[d]
  BY <1>1, IdleIsOp DEF Goes, Types
<1>5. Types' /\ OpsOK'
  <2>1. Sqlite!Empty \in Tables
    BY DEF Sqlite!Empty, Tables
  <2> QED BY <2>1, <1>1, <1>4, IdleIsOp DEF Types, OpsOK, Goes, jsonlVars
<1>6. SqliteOK'
  BY <1>1, <1>3, <1>4, IdleIsOp DEF SqliteOK, Sqlite!Writes
<1> QED BY <1>1, <1>2, <1>3, <1>5, <1>6 DEF Goes, Began

\* A call fails, or its process dies: the transaction is rolled back, if it was
\* the one under way.
LEMMA SqliteFails ==
  ASSUME Types, OpsOK, SqliteOK, NEW c \in Clients, Sqlite!Locked(c) \/ Sqlite!Crash(c),
         UNCHANGED <<backend, jsonlVars>>, steady' \subseteq Clients
  PROVE  /\ Types' /\ OpsOK' /\ SqliteOK' /\ db' = db
         /\ op' = [op EXCEPT ![c] = Idle] /\ answer' = NoAnswer
<1>1. Goes(c, Idle) /\ db' = db /\ answer' = NoAnswer
  BY DEF Sqlite!Locked, Sqlite!Crash, Sqlite!Return, Goes, Types, Idle, Sqlite!Idle,
         NoAnswer, Sqlite!NoAnswer
<1>2. CASE writer # c
  <2>1. UNCHANGED <<db, draft, writer>>
    BY <1>2 DEF Sqlite!Locked, Sqlite!Crash
  <2>2. Types' /\ OpsOK' /\ SqliteOK'
    BY <1>1, <1>2, <2>1, IdleIsOp, SqliteQuiet DEF Sqlite!Writes
  <2> QED BY <1>1, <2>2 DEF Goes
<1>3. CASE writer = c
  <2>1. writer' = None /\ draft' = Sqlite!Empty /\ None \notin Clients
    BY <1>3, TokensAssumption DEF Sqlite!Locked, Sqlite!Crash, Sqlite!Rollback
  <2>2. Sqlite!Empty \in Tables
    BY DEF Sqlite!Empty, Tables
  <2>3. op' \in [Clients -> Ops] /\ op'[c] = Idle /\ \A d \in Clients : d # c => op'[d] = op[d]
    BY <1>1, IdleIsOp DEF Goes, Types
  <2>4. Types' /\ OpsOK'
    BY <1>1, <2>1, <2>2, <2>3, IdleIsOp DEF Types, OpsOK, Goes, jsonlVars
  <2>5. SqliteOK'
    BY <1>1, <1>3, <2>1, <2>3, IdleIsOp DEF SqliteOK, Sqlite!Writes
  <2> QED BY <1>1, <2>4, <2>5 DEF Goes
<1> QED BY <1>2, <1>3

-----------------------------------------------------------------------------
(* The calls *)

\* A new call of client c, of either backend.
BeginsSave(c, ids) ==
  /\ op[c] = Idle /\ made < MaxSaves
  /\ \E id \in ids, spans \in SUBSET SpanIds \ {{}} :
       op' = [op EXCEPT ![c] = Call("save", id, [id |-> id, version |-> made + 1,
                                                 spans |-> spans])]
  /\ made' = made + 1 /\ answer' = NoAnswer

BeginsOther(c) ==
  /\ op[c] = Idle /\ made' = made /\ answer' = NoAnswer
  /\ \/ \E kind \in {"get", "delete"}, id \in TraceIds :
          op' = [op EXCEPT ![c] = Call(kind, id, None)]
     \/ op' = [op EXCEPT ![c] = Call("clear", None, None)]

LEMMA BeginsCall ==
  ASSUME Types, NEW c \in Clients, NEW ids \in SUBSET TraceIds,
         BeginsSave(c, ids) \/ BeginsOther(c)
  PROVE  /\ op[c] = Idle /\ op'[c] \in Ops /\ OpOK(op'[c]) /\ Goes(c, op'[c])
         /\ op'[c].step = 1 /\ op'[c].todo = {} /\ answer' = NoAnswer
         /\ op'[c].kind = "save" => op'[c].id \in ids
<1>1. /\ op \in [Clients -> Ops] /\ made \in Nat /\ made \in 0..MaxSaves /\ MaxSaves \in Nat
      /\ op[c] = Idle /\ answer' = NoAnswer
  BY RecordsAssumption DEF Types, BeginsSave, BeginsOther
<1>2. CASE BeginsSave(c, ids)
  <2>1. PICK id \in ids, spans \in SUBSET SpanIds \ {{}} :
          op' = [op EXCEPT ![c] = Call("save", id, [id |-> id, version |-> made + 1,
                                                    spans |-> spans])]
    BY <1>2 DEF BeginsSave
  <2> DEFINE rec == [id |-> id, version |-> made + 1, spans |-> spans]
             o == Call("save", id, rec)
  <2>2. rec \in Records /\ made' \in 0..MaxSaves
    BY <1>1, <1>2 DEF Records, BeginsSave
  <2>3. /\ o \in Ops /\ OpOK(o) /\ o.step = 1 /\ o.todo = {} /\ o.kind = "save" /\ o.id = id
    <3>1. rec.id = id
      OBVIOUS
    <3> HIDE DEF rec
    <3> QED BY <2>2, <3>1 DEF Call, Ops, Kinds, OpOK, Idle
  <2>4. op'[c] = o /\ op' = [op EXCEPT ![c] = o]
    BY <1>1, <2>1
  <2> QED BY <1>1, <2>2, <2>3, <2>4 DEF Goes
<1>3. CASE BeginsOther(c)
  <2>1. PICK kind \in {"get", "delete", "clear"}, id \in TraceIds \cup {None} :
          /\ kind \in {"get", "delete"} => id \in TraceIds
          /\ op' = [op EXCEPT ![c] = Call(kind, id, None)]
    BY <1>3 DEF BeginsOther
  <2> DEFINE o == Call(kind, id, None)
  <2>2. o \in Ops /\ OpOK(o) /\ o.step = 1 /\ o.todo = {} /\ o.kind # "save"
    BY <2>1, CallsAreOps DEF Call, Kinds
  <2>3. op'[c] = o
    BY <1>1, <2>1
  <2> QED BY <1>1, <1>3, <2>1, <2>2, <2>3 DEF Goes, BeginsOther
<1> QED BY <1>2, <1>3

LEMMA SqliteBegins ==
  ASSUME NEW c \in Clients, Sqlite!Begin(c)
  PROVE  (BeginsSave(c, TraceIds) \/ BeginsOther(c)) /\ UNCHANGED <<db, draft, writer>>
BY DEF Sqlite!Begin, Sqlite!CallSave, Sqlite!CallOther, Sqlite!Continue, Sqlite!Call, Call,
       BeginsSave, BeginsOther, Idle, Sqlite!Idle, NoAnswer, Sqlite!NoAnswer

LEMMA SqliteBeginOK ==
  ASSUME Types, OpsOK, SqliteOK, NEW c \in Clients, Sqlite!Begin(c),
         UNCHANGED <<backend, jsonlVars>>, steady' \subseteq Clients
  PROVE  /\ Types' /\ OpsOK' /\ SqliteOK' /\ db' = db /\ answer' = NoAnswer
         /\ op[c] = Idle /\ op' = [op EXCEPT ![c] = op'[c]] /\ op'[c].step = 1
<1>1. (BeginsSave(c, TraceIds) \/ BeginsOther(c)) /\ UNCHANGED <<db, draft, writer>>
  BY SqliteBegins
<1>2. /\ op[c] = Idle /\ op'[c] \in Ops /\ OpOK(op'[c]) /\ Goes(c, op'[c])
      /\ op'[c].step = 1 /\ answer' = NoAnswer
  BY <1>1, BeginsCall
<1>3. writer # c
  <2>1. op[c].kind = "idle"
    BY <1>2, IdleIsOp
  <2> QED BY <2>1, TokensAssumption DEF SqliteOK, Began
<1> QED BY <1>1, <1>2, <1>3, SqliteQuiet DEF Goes

\* A get goes on with what it has read.
LEMMA ReadOp ==
  ASSUME NEW o \in Ops, NEW rec \in Records \cup Files \cup {None}, NEW step \in {2, 3}
  PROVE  LET next == [o EXCEPT !.rec = rec, !.step = step]
         IN  /\ next \in Ops /\ next.rec = rec /\ next.step = step
             /\ next.kind = o.kind /\ next.id = o.id /\ next.todo = o.todo
<1>1. step \in 0..4
  OBVIOUS
<1> HIDE DEF Kinds, Files, Records
<1> QED BY <1>1 DEF Ops

\* What a get finds first is a trace that it should answer with.
LEMMA SelectTraceOK ==
  ASSUME Types, OpsOK, SqliteOK, backend = "sqlite", NEW c \in Clients, Sqlite!SelectTrace(c),
         UNCHANGED <<backend, jsonlVars>>, steady' \subseteq Clients
  PROVE  /\ Types' /\ OpsOK' /\ SqliteOK' /\ db' = db /\ op' = [op EXCEPT ![c] = op'[c]]
         /\ op[c].kind = "get"
         /\ \/ /\ op'[c] = Idle /\ answer' = NotFound
               /\ \A id \in Candidates(op[c].id) : Stored[id] = None
            \/ /\ op'[c].kind = "get" /\ op'[c].id = op[c].id /\ answer' = NoAnswer
               /\ op'[c].rec \in Records
               /\ Due(c, op'[c].rec.id) /\ Stored[op'[c].rec.id] = op'[c].rec
<1> DEFINE o == op[c]
           rows == IF Sqlite!Row(o.id) # {} THEN Sqlite!Row(o.id)
                   ELSE UNION {Sqlite!Row(id) : id \in Prefixed[o.id]}
<1>1. /\ o \in Ops /\ OpOK(o) /\ o.kind = "get" /\ o.step = 1 /\ o.id \in TraceIds
      /\ UNCHANGED <<db, draft, writer>>
  BY DEF Sqlite!SelectTrace, Sqlite!In, Types, OpsOK, OpOK
<1>2. writer # c
  BY <1>1, TokensAssumption DEF SqliteOK, Began
<1>3. Stored = db.traces /\ db.traces \in [TraceIds -> Records \cup {None}]
  BY StoredIsTraces, TablesAreRecords DEF SqliteOK, Types
<1>4. Prefixed[o.id] \subseteq TraceIds /\ Candidates(o.id) = {o.id} \cup Prefixed[o.id]
  BY <1>1, PrefixedAssumption DEF Candidates
<1>5. CASE rows = {} /\ Sqlite!Return(c, Sqlite!NotFound)
  <2>1. Goes(c, Idle) /\ answer' = NotFound
    BY <1>5 DEF Sqlite!Return, Sqlite!NotFound, NotFound, Goes, Types, Idle, Sqlite!Idle
  <2>2. Types' /\ OpsOK' /\ SqliteOK'
    BY <1>1, <1>2, <2>1, IdleIsOp, SqliteQuiet DEF Sqlite!Writes
  <2>3. \A id \in Candidates(o.id) : Sqlite!Row(id) = {}
    BY <1>4, <1>5
  <2>4. \A id \in Candidates(o.id) : Stored[id] = None
    BY <2>3, <1>3 DEF Sqlite!Row
  <2>5. op' = [op EXCEPT ![c] = Idle] /\ op'[c] = Idle
    BY <2>1 DEF Goes, Types
  <2> QED BY <1>1, <2>1, <2>2, <2>4, <2>5
<1>6. CASE \E row \in rows : Sqlite!Continue(c, [o EXCEPT !.rec = row, !.step = 2])
  <2>1. PICK row \in rows : Sqlite!Continue(c, [o EXCEPT !.rec = row, !.step = 2])
    BY <1>6
  <2>2. PICK id \in Candidates(o.id) :
          row \in Sqlite!Row(id) /\ (id # o.id => Sqlite!Row(o.id) = {})
    BY <1>4
  <2>3. id \in TraceIds /\ db.traces[id] = row /\ row # None /\ row \in Records
    BY <2>2, <1>1, <1>3, <1>4 DEF Sqlite!Row
  <2>4. row.id = id
    BY <2>3 DEF SqliteOK, Consistent
  <2>5. id # o.id => Stored[o.id] = None
    BY <2>2, <1>3 DEF Sqlite!Row
  <2> DEFINE next == [o EXCEPT !.rec = row, !.step = 2]
  <2>6. /\ next \in Ops /\ next.kind = "get" /\ next.id = o.id /\ next.rec = row /\ next.step = 2
    <3>1. row \in Records \cup Files \cup {None}
      BY <2>3
    <3> HIDE DEF o, rows
    <3> QED BY <1>1, <3>1, ReadOp
  <2>7. Goes(c, next) /\ answer' = NoAnswer
    BY <2>1 DEF Sqlite!Continue, Goes, Types, NoAnswer, Sqlite!NoAnswer
  <2> HIDE DEF next
  <2>8. OpOK(next)
    BY <2>6, <1>1 DEF OpOK
  <2>9. Types' /\ OpsOK' /\ SqliteOK'
    BY <1>1, <1>2, <2>6, <2>7, <2>8, SqliteQuiet DEF Sqlite!Writes
  <2>10. op' = [op EXCEPT ![c] = next] /\ op'[c] = next
    BY <2>6, <2>7 DEF Goes, Types
  <2>11. Due(c, row.id) /\ Stored[row.id] = row
    BY <2>2, <2>3, <2>4, <2>5, <1>3 DEF Due
  <2> QED BY <1>1, <2>3, <2>6, <2>7, <2>9, <2>10, <2>11
<1> QED BY <1>5, <1>6 DEF Sqlite!SelectTrace

\* The spans that are stored with a trace that is stored are its spans.
LEMMA SelectSpansOK ==
  ASSUME Types, OpsOK, SqliteOK, backend = "sqlite", NEW c \in Clients, Sqlite!SelectSpans(c),
         UNCHANGED <<backend, jsonlVars>>, steady' \subseteq Clients
  PROVE  /\ Types' /\ OpsOK' /\ SqliteOK' /\ db' = db /\ op' = [op EXCEPT ![c] = Idle]
         /\ op[c].kind = "get" /\ op[c].step = 2
         /\ op[c].rec \in Records /\ Stored[op[c].rec.id] = op[c].rec
              => answer' = Found(op[c].rec, TRUE)
<1>1. /\ op[c] \in Ops /\ op[c].kind = "get" /\ op[c].step = 2
      /\ UNCHANGED <<db, draft, writer>>
      /\ Goes(c, Idle)
  BY DEF Sqlite!SelectSpans, Sqlite!In, Sqlite!Return, Types, Goes, Idle, Sqlite!Idle
<1>2. writer # c
  BY <1>1, TokensAssumption DEF SqliteOK, Began
<1>3. Types' /\ OpsOK' /\ SqliteOK'
  BY <1>1, <1>2, IdleIsOp, SqliteQuiet DEF Sqlite!Writes
<1>4. ASSUME op[c].rec \in Records, Stored[op[c].rec.id] = op[c].rec
      PROVE  answer' = Found(op[c].rec, TRUE)
  <2>1. op[c].rec.id \in TraceIds /\ op[c].rec # None
    BY <1>4, RecordFacts
  <2>2. db.traces[op[c].rec.id] = op[c].rec
    BY <1>4, StoredIsTraces DEF SqliteOK
  <2>3. /\ Sqlite!SpansOf(db, op[c].rec.id) = op[c].rec.spans
        /\ \A s \in Sqlite!SpansOf(db, op[c].rec.id) : db.spans[s] = Sqlite!SpanRow(op[c].rec)
    BY <2>1, <2>2 DEF SqliteOK, Consistent
  <2> QED BY <2>3 DEF Sqlite!SelectSpans, Sqlite!Return, Sqlite!Found, Found
<1> QED BY <1>1, <1>3, <1>4 DEF Goes

-----------------------------------------------------------------------------
(* The files *)

LEMMA LinesType ==
  ASSUME NEW rec \in Records
  PROVE  Jsonl!Lines(rec) \in Nat /\ Jsonl!Lines(rec) >= 1
<1>1. IsFiniteSet(rec.spans)
  <2>1. rec.spans \in SUBSET SpanIds
    BY RecordFacts
  <2> QED BY <2>1, FS_Subset, RecordsAssumption
<1>2. Cardinality(rec.spans) \in Nat
  BY <1>1, FS_CardinalityType
<1>3. Jsonl!Cardinality(rec.spans) = Cardinality(rec.spans)
  BY DEF Jsonl!Cardinality, Cardinality
<1> QED BY <1>2, <1>3 DEF Jsonl!Lines

\* The record that a file holds.
Shown(f) == IF f = None THEN None ELSE IF Jsonl!Complete(f) THEN f.rec ELSE Damaged

LEMMA JsonlStored ==
  /\ backend = "jsonl" => Stored = [id \in TraceIds |-> Shown(files[id])]
  /\ backend' = "jsonl" => Stored' = [id \in TraceIds |-> Shown(files'[id])]
BY DEF Stored, Jsonl!Stored, Shown

LEMMA FileType ==
  ASSUME NEW f \in Files
  PROVE  /\ f.rec \in Records \cup {Damaged} /\ f.lines \in Nat
         /\ f.torn \in BOOLEAN /\ f.more \in BOOLEAN /\ f # None
BY TokensAssumption DEF Files

LEMMA NewFile ==
  ASSUME NEW rec \in Records \cup {Damaged}, NEW lines \in Nat, NEW torn \in BOOLEAN,
         NEW more \in BOOLEAN
  PROVE  LET f == Jsonl!File(rec, lines, torn, more)
         IN  f \in Files /\ f.rec = rec /\ f.lines = lines /\ f.torn = torn /\ f.more = more
BY DEF Files, Jsonl!File

\* A file holds the record it begins with, or it is damaged.
LEMMA ShownFile ==
  ASSUME NEW f \in Files
  PROVE  /\ Jsonl!Complete(f) => Shown(f) = f.rec /\ f.rec \in Records /\ ~f.more
         /\ ~Jsonl!Complete(f) => Shown(f) = Damaged
BY FileType DEF Shown, Jsonl!Complete

\* A step of client c that touches no file but that of trace id.
LEMMA FileStep ==
  ASSUME Types, OpsOK, backend = "jsonl", NEW c \in Clients, NEW o, o \in Ops, OpOK(o), Goes(c, o),
         NEW id \in TraceIds, NEW f, f \in Files \cup {None}, files' = [files EXCEPT ![id] = f],
         openers' \in [TraceIds -> SUBSET Clients], interrupted' \subseteq TraceIds,
         overlapped' \subseteq TraceIds, UNCHANGED <<db, draft, writer, backend>>,
         steady' \subseteq Clients
  PROVE  /\ Types' /\ OpsOK' /\ op' = [op EXCEPT ![c] = op'[c]] /\ op'[c] = o
         /\ \A d \in Clients : d # c => op'[d] = op[d]
         /\ files'[id] = f /\ \A x \in TraceIds : x # id => files'[x] = files[x]
         /\ Stored' = [Stored EXCEPT ![id] = Shown(f)]
<1>1. files'[id] = f /\ \A x \in TraceIds : x # id => files'[x] = files[x]
  BY DEF Types
<1>2. op'[c] = o /\ (\A d \in Clients : d # c => op'[d] = op[d])
      /\ op' = [op EXCEPT ![c] = op'[c]]
  BY DEF Goes, Types
<1>3. Types' /\ OpsOK'
  <2>1. files' \in [TraceIds -> Files \cup {None}]
    BY DEF Types
  <2>2. op' \in [Clients -> Ops] /\ made' \in 0..MaxSaves
    BY DEF Types, Goes
  <2>3. OpsOK'
    BY <1>2 DEF OpsOK
  <2> QED BY <2>1, <2>2, <2>3 DEF Types
<1>4. Stored' = [Stored EXCEPT ![id] = Shown(f)]
  <2>1. /\ Stored = [x \in TraceIds |-> Shown(files[x])]
        /\ Stored' = [x \in TraceIds |-> Shown(files'[x])]
    BY JsonlStored
  <2> HIDE DEF Shown
  <2> QED BY <1>1, <2>1
<1> QED BY <1>1, <1>2, <1>3, <1>4

\* It leaves every trace as it is that it does not touch.
LEMMA OtherTraces ==
  ASSUME NEW c \in Clients, NEW id \in TraceIds, FileOK(id),
         \A d \in Clients : d # c => op'[d] = op[d], openers[id] \subseteq Clients,
         files'[id] = files[id], openers'[id] = openers[id], c \notin openers[id],
         id \in interrupted' <=> id \in interrupted, id \in overlapped' <=> id \in overlapped
  PROVE  FileOK(id)'
<1>1. \A d \in openers[id] : op'[d] = op[d]
  OBVIOUS
<1> QED BY <1>1 DEF FileOK

\* A client that has no file open, or another trace's, is not among the openers.
LEMMA NotAnOpener ==
  ASSUME JsonlOK, NEW c \in Clients, NEW id \in TraceIds,
         op[c].kind # "save" \/ op[c].step = 1 \/ op[c].id # id
  PROVE  c \notin openers[id]
BY DEF JsonlOK, FileOK

\* A step of client c that changes no file.
LEMMA JsonlQuiet ==
  ASSUME Types, OpsOK, JsonlOK, NEW c \in Clients, NEW o \in Ops, OpOK(o), Goes(c, o),
         UNCHANGED <<db, draft, writer, backend, files, openers, interrupted, overlapped>>,
         steady' \subseteq Clients,
         \A id \in TraceIds : c \notin openers[id],
         o.kind = "delete" => o.todo \subseteq {o.id}
  PROVE  Types' /\ OpsOK' /\ JsonlOK'
<1>1. Types' /\ OpsOK'
  BY DEF Types, OpsOK, Goes
<1>2. \A d \in Clients : op'[d] = IF d = c THEN o ELSE op[d]
  BY DEF Goes, Types
<1>3. \A id \in TraceIds : FileOK(id)'
  <2> TAKE id \in TraceIds
  <2>1. FileOK(id) /\ openers[id] \subseteq Clients
    BY DEF JsonlOK, Types
  <2> QED BY <1>2, <2>1, OtherTraces
<1>4. \A d \in Clients : op'[d].kind = "delete" => op'[d].todo \subseteq {op'[d].id}
  BY <1>2 DEF JsonlOK
<1> QED BY <1>1, <1>3, <1>4 DEF JsonlOK

LEMMA JsonlBegins ==
  ASSUME NEW c \in Clients, Jsonl!Begin(c)
  PROVE  /\ BeginsSave(c, TraceIds) \/ BeginsOther(c)
         /\ UNCHANGED <<files, openers, interrupted, overlapped>>
BY DEF Jsonl!Begin, Jsonl!CallSave, Jsonl!CallOther, Jsonl!Continue, Jsonl!Call, Call,
       BeginsSave, BeginsOther, Idle, Jsonl!Idle, NoAnswer, Jsonl!NoAnswer

LEMMA JsonlBeginOK ==
  ASSUME Types, OpsOK, JsonlOK, NEW c \in Clients, Jsonl!Begin(c),
         UNCHANGED <<backend, sqliteVars>>, steady' \subseteq Clients
  PROVE  /\ Types' /\ OpsOK' /\ JsonlOK' /\ files' = files /\ answer' = NoAnswer
         /\ op[c] = Idle /\ op' = [op EXCEPT ![c] = op'[c]] /\ op'[c].step = 1
<1>1. /\ BeginsSave(c, TraceIds) \/ BeginsOther(c)
      /\ UNCHANGED <<files, openers, interrupted, overlapped>>
  BY JsonlBegins
<1>2. /\ op[c] = Idle /\ op'[c] \in Ops /\ OpOK(op'[c]) /\ Goes(c, op'[c])
      /\ op'[c].step = 1 /\ op'[c].todo = {} /\ answer' = NoAnswer
  BY <1>1, BeginsCall
<1>3. \A id \in TraceIds : c \notin openers[id]
  BY <1>2, NotAnOpener, IdleIsOp
<1> QED BY <1>1, <1>2, <1>3, JsonlQuiet DEF Goes, sqliteVars

\* A save goes on with its next step.
LEMMA StepOp ==
  ASSUME NEW o \in Ops, OpOK(o), o.kind = "save", NEW step \in {2, 3}
  PROVE  LET next == [o EXCEPT !.step = step]
         IN  /\ next \in Ops /\ OpOK(next) /\ next.kind = "save" /\ next.id = o.id
             /\ next.rec = o.rec /\ next.step = step
<1> DEFINE next == [o EXCEPT !.step = step]
<1>1. step \in 0..4
  OBVIOUS
<1>2. /\ next \in Ops /\ next.kind = "save" /\ next.id = o.id
      /\ next.rec = o.rec /\ next.step = step
  <2> HIDE DEF Kinds, Files, Records
  <2> QED BY <1>1 DEF Ops
<1> HIDE DEF next
<1>3. OpOK(next)
  BY <1>1, <1>2 DEF OpOK
<1> QED BY <1>2, <1>3 DEF next

\* What is known of a client that saves.
LEMMA Saver ==
  ASSUME Types, OpsOK, NEW c \in Clients, op[c].kind = "save"
  PROVE  /\ op[c] \in Ops /\ OpOK(op[c]) /\ op[c].rec \in Records /\ op[c].rec # Damaged
         /\ op[c].id \in TraceIds /\ op[c].id = op[c].rec.id
         /\ files[op[c].id] \in Files \cup {None} /\ openers[op[c].id] \subseteq Clients
BY RecordFacts DEF Types, OpsOK, OpOK

\* A save step keeps the traces of the others, and their calls.
LEMMA SaveKeeps ==
  ASSUME Types, OpsOK, JsonlOK, NEW c \in Clients, op[c].kind = "save", NEW id \in TraceIds,
         id = op[c].id, \A d \in Clients : d # c => op'[d] = op[d], op'[c].kind \in {"save", "idle"},
         \A x \in TraceIds : x # id => /\ files'[x] = files[x] /\ openers'[x] = openers[x]
                                       /\ x \in interrupted' <=> x \in interrupted
                                       /\ x \in overlapped' <=> x \in overlapped,
         FileOK(id)'
  PROVE  JsonlOK'
<1>1. ASSUME NEW x \in TraceIds, x # id PROVE FileOK(x)'
  <2>1. FileOK(x) /\ openers[x] \subseteq Clients /\ c \notin openers[x]
    BY <1>1, NotAnOpener DEF JsonlOK, Types
  <2> QED BY <1>1, <2>1, OtherTraces
<1>2. \A d \in Clients : op'[d].kind = "delete" => op'[d].todo \subseteq {op'[d].id}
  BY DEF JsonlOK
<1> QED BY <1>1, <1>2 DEF JsonlOK

\* A file that is opened is empty, and shows as damage.
LEMMA OpenOK ==
  ASSUME Types, OpsOK, JsonlOK, backend = "jsonl", NEW c \in Clients, Jsonl!Open(c),
         UNCHANGED <<backend, sqliteVars>>, steady' \subseteq Clients
  PROVE  /\ Types' /\ OpsOK' /\ JsonlOK' /\ op' = [op EXCEPT ![c] = op'[c]]
         /\ op[c].kind = "save" /\ op'[c].kind # "get"
         /\ Stored' = [Stored EXCEPT ![op[c].rec.id] = Damaged]
<1>0. PICK id : id = op[c].id
  OBVIOUS
<1> DEFINE next == [op[c] EXCEPT !.step = 2]
           f == Jsonl!File(op[c].rec, 0, FALSE, FALSE)
<1>1. /\ op[c].kind = "save" /\ op[c].step = 1 /\ op' = [op EXCEPT ![c] = next]
      /\ made' = made /\ files' = [files EXCEPT ![id] = f]
      /\ openers' = [openers EXCEPT ![id] = @ \cup {c}]
      /\ interrupted' = interrupted \ {id}
      /\ overlapped' = IF openers[id] = {} THEN overlapped \ {id} ELSE overlapped \cup {id}
  BY <1>0 DEF Jsonl!Open, Jsonl!In, Jsonl!Continue
<1>2. /\ op[c] \in Ops /\ OpOK(op[c]) /\ op[c].rec \in Records /\ op[c].rec # Damaged
      /\ id \in TraceIds /\ id = op[c].rec.id /\ openers[id] \subseteq Clients
  BY <1>0, <1>1, Saver
<1>3. /\ next \in Ops /\ OpOK(next) /\ next.kind = "save" /\ next.id = id
      /\ next.rec = op[c].rec /\ next.step = 2
  BY <1>0, <1>1, <1>2, StepOp
<1>4. f \in Files /\ f.rec = op[c].rec /\ f.lines = 0 /\ f.torn = FALSE /\ f.more = FALSE
  BY <1>2 DEF Files, Jsonl!File
<1>5. Jsonl!Lines(f.rec) \in Nat /\ Jsonl!Lines(f.rec) >= 1
  BY <1>2, <1>4, LinesType
<1>6. ~Jsonl!Complete(f) /\ Shown(f) = Damaged /\ f # None
  <2> HIDE DEF f
  <2>1. ~Jsonl!Complete(f)
    BY <1>4, <1>5 DEF Jsonl!Complete
  <2> QED BY <1>4, <2>1, ShownFile, FileType
<1>7. Goes(c, next)
  BY <1>1 DEF Goes, Types
<1>8. /\ openers' \in [TraceIds -> SUBSET Clients] /\ interrupted' \subseteq TraceIds
      /\ overlapped' \subseteq TraceIds /\ openers'[id] = openers[id] \cup {c}
      /\ \A x \in TraceIds : x # id => openers'[x] = openers[x]
  BY <1>1, <1>2 DEF Types
<1> HIDE DEF next, f
<1>9. /\ Types' /\ OpsOK' /\ op' = [op EXCEPT ![c] = op'[c]] /\ op'[c] = next
      /\ \A d \in Clients : d # c => op'[d] = op[d]
      /\ files'[id] = f /\ \A x \in TraceIds : x # id => files'[x] = files[x]
      /\ Stored' = [Stored EXCEPT ![id] = Shown(f)]
  <2>1. f \in Files \cup {None} /\ UNCHANGED <<db, draft, writer, backend>>
    BY <1>4 DEF sqliteVars
  <2>2. next \in Ops /\ OpOK(next) /\ Goes(c, next) /\ files' = [files EXCEPT ![id] = f]
    BY <1>1, <1>3, <1>7
  <2>3. /\ openers' \in [TraceIds -> SUBSET Clients] /\ interrupted' \subseteq TraceIds
        /\ overlapped' \subseteq TraceIds /\ id \in TraceIds
    BY <1>2, <1>8
  <2> QED BY <2>1, <2>2, <2>3, FileStep
<1>10. FileOK(id)'
  <2>1. \A d \in openers'[id] : /\ op'[d].kind = "save" /\ op'[d].id = id /\ op'[d].step # 1
                                /\ id \notin overlapped' => openers'[id] = {d}
                                     /\ files'[id].rec = op'[d].rec /\ ~files'[id].more
    <3>1. CASE openers[id] = {}
      BY <3>1, <1>3, <1>4, <1>8, <1>9
    <3>2. CASE openers[id] # {}
      <4>1. id \in overlapped'
        BY <1>1, <3>2
      <4>2. \A d \in openers[id] : op[d].kind = "save" /\ op[d].id = id /\ op[d].step # 1
        BY <1>2 DEF JsonlOK, FileOK
      <4> QED BY <1>1, <1>2, <1>3, <1>8, <1>9, <4>1, <4>2
    <3> QED BY <3>1, <3>2
  <2> QED BY <1>2, <1>4, <1>6, <1>8, <1>9, <2>1 DEF FileOK
<1>11. JsonlOK'
  <2>1. /\ \A x \in TraceIds : x # id => /\ files'[x] = files[x] /\ openers'[x] = openers[x]
                                         /\ x \in interrupted' <=> x \in interrupted
                                         /\ x \in overlapped' <=> x \in overlapped
        /\ op'[c].kind \in {"save", "idle"}
    BY <1>1, <1>3, <1>8, <1>9
  <2> QED BY <1>0, <1>1, <1>2, <1>9, <1>10, <2>1, SaveKeeps
<1> QED BY <1>1, <1>2, <1>3, <1>6, <1>9, <1>11

\* What is written makes a file that begins with the client's record, or that
\* is damaged; alone, the client writes at the front of its own.
LEMMA WrittenFacts ==
  ASSUME Types, OpsOK, JsonlOK, NEW c \in Clients, Jsonl!Writing(c), Jsonl!Linked(c),
         NEW f, f \in Jsonl!Written(c)
  PROVE  /\ f \in Files
         /\ f.rec # Damaged => f.rec.id = op[c].id /\ (f.torn => f.lines < Jsonl!Lines(f.rec))
         /\ f.rec = op[c].rec \/ f.more
         /\ op[c].id \notin overlapped => f.rec = op[c].rec /\ ~f.more
<1> DEFINE rec == op[c].rec
           id == op[c].id
           g == files[id]
<1>1. /\ rec \in Records /\ rec # Damaged /\ id \in TraceIds /\ rec.id = id
      /\ g \in Files \cup {None} /\ c \in openers[id]
  BY Saver DEF Jsonl!Writing, Jsonl!Linked
<1>2. FileOK(id)
  BY <1>1 DEF JsonlOK
<1>3. g \in Files /\ g # None
  BY <1>1, <1>2 DEF FileOK
<1>4. /\ g.rec \in Records \cup {Damaged} /\ g.lines \in Nat /\ g.torn \in BOOLEAN
      /\ g.more \in BOOLEAN
  BY <1>3, FileType
<1>5. id \notin overlapped => g.rec = rec /\ ~g.more
  BY <1>1, <1>2 DEF FileOK
<1>6. CASE Jsonl!Leads(c, g)
  <2> DEFINE done == IF g.rec = rec THEN g.lines ELSE 0
  <2>1. done \in Nat /\ Jsonl!Lines(rec) \in Nat
    BY <1>1, <1>4, LinesType
  <2>2. PICK lines \in done..Jsonl!Lines(rec), torn \in BOOLEAN, more \in BOOLEAN :
          /\ f = Jsonl!File(rec, lines, torn, more)
          /\ f.torn => f.lines < Jsonl!Lines(rec)
          /\ f.more => g.more \/ (g.rec # rec /\ ~Jsonl!Empty(g))
    BY <1>1, <1>6 DEF Jsonl!Written
  <2>3. lines \in Nat
    BY <2>1, <2>2
  <2>4. f \in Files /\ f.rec = rec /\ f.lines = lines /\ f.torn = torn /\ f.more = more
    BY <1>1, <2>2, <2>3, NewFile
  <2> QED BY <1>1, <1>5, <2>2, <2>4
<1>7. CASE ~Jsonl!Leads(c, g)
  <2>1. id \in overlapped
    BY <1>5, <1>7 DEF Jsonl!Leads
  <2>2. f = Jsonl!Mixed \/ f = [g EXCEPT !.more = TRUE]
    BY <1>1, <1>7 DEF Jsonl!Written
  <2>3. CASE f = Jsonl!Mixed
    <3>1. f \in Files /\ f.rec = Damaged /\ f.more = TRUE
      BY <2>3 DEF Files, Jsonl!File, Jsonl!Mixed
    <3> HIDE DEF g
    <3> QED BY <2>1, <3>1
  <2>4. CASE f = [g EXCEPT !.more = TRUE]
    <3>1. /\ f \in Files /\ f.rec = g.rec /\ f.lines = g.lines /\ f.torn = g.torn
          /\ f.more = TRUE
      BY <1>3, <2>4 DEF Files
    <3> QED BY <1>2, <1>3, <1>7, <2>1, <3>1 DEF FileOK
  <2> QED BY <2>2, <2>3, <2>4
<1> QED BY <1>6, <1>7

\* It is of the record, or of no record.
LEMMA WrittenShown ==
  ASSUME NEW f \in Files, NEW rec, f.rec = rec \/ f.more
  PROVE  Shown(f) \in {Damaged, rec}
BY ShownFile

\* Flushing leaves the file under way, or completes it.
LEMMA FlushOK ==
  ASSUME Types, OpsOK, JsonlOK, backend = "jsonl", NEW c \in Clients, Jsonl!Flush(c),
         UNCHANGED <<backend, sqliteVars>>, steady' \subseteq Clients
  PROVE  /\ Types' /\ OpsOK' /\ JsonlOK' /\ op' = [op EXCEPT ![c] = op'[c]]
         /\ op[c].kind = "save" /\ op'[c].kind # "get"
         /\ \E x \in {Damaged, op[c].rec} : Stored' = [Stored EXCEPT ![op[c].rec.id] = x]
<1>0. PICK id : id = op[c].id
  OBVIOUS
<1> DEFINE next == [op[c] EXCEPT !.step = 3]
<1>1. /\ Jsonl!Writing(c) /\ Jsonl!Linked(c) /\ op[c].kind = "save"
      /\ op' = [op EXCEPT ![c] = next] /\ made' = made
      /\ UNCHANGED <<openers, interrupted, overlapped>>
  BY DEF Jsonl!Flush, Jsonl!Continue, Jsonl!Writing
<1>2. PICK f \in Jsonl!Written(c) : files' = [files EXCEPT ![id] = f]
  BY <1>0 DEF Jsonl!Flush
<1>3. /\ f \in Files
      /\ f.rec # Damaged => f.rec.id = id /\ (f.torn => f.lines < Jsonl!Lines(f.rec))
      /\ f.rec = op[c].rec \/ f.more
      /\ id \notin overlapped => f.rec = op[c].rec /\ ~f.more
  BY <1>0, <1>1, WrittenFacts
<1>4. /\ op[c] \in Ops /\ OpOK(op[c]) /\ op[c].rec \in Records /\ op[c].rec # Damaged
      /\ id \in TraceIds /\ id = op[c].rec.id /\ openers[id] \subseteq Clients
  BY <1>0, <1>1, Saver
<1>5. /\ next \in Ops /\ OpOK(next) /\ next.kind = "save" /\ next.id = id
      /\ next.rec = op[c].rec /\ next.step = 3
  BY <1>0, <1>1, <1>4, StepOp
<1>6. Goes(c, next) /\ f # None
  BY <1>1, <1>3, FileType DEF Goes, Types
<1> HIDE DEF next
<1>7. /\ Types' /\ OpsOK' /\ op' = [op EXCEPT ![c] = op'[c]] /\ op'[c] = next
      /\ \A d \in Clients : d # c => op'[d] = op[d]
      /\ files'[id] = f /\ \A x \in TraceIds : x # id => files'[x] = files[x]
      /\ Stored' = [Stored EXCEPT ![id] = Shown(f)]
  <2>1. /\ openers' \in [TraceIds -> SUBSET Clients] /\ interrupted' \subseteq TraceIds
        /\ overlapped' \subseteq TraceIds /\ UNCHANGED <<db, draft, writer, backend>>
    BY <1>1 DEF Types, sqliteVars
  <2>2. f \in Files \cup {None}
    BY <1>3
  <2> QED BY <1>2, <1>4, <1>5, <1>6, <2>1, <2>2, FileStep
<1>8. FileOK(id)'
  <2>1. FileOK(id) /\ c \in openers[id]
    BY <1>0, <1>1, <1>4 DEF JsonlOK, Jsonl!Linked
  <2>2. \A d \in openers[id] :
          /\ op[d].kind = "save" /\ op[d].id = id
          /\ op'[d].kind = op[d].kind /\ op'[d].id = op[d].id /\ op'[d].rec = op[d].rec
          /\ op'[d].step # 1 \/ op'[d].step = op[d].step
    BY <1>0, <1>1, <1>4, <1>5, <1>7, <2>1 DEF FileOK
  <2>3. \A d \in openers'[id] : /\ op'[d].kind = "save" /\ op'[d].id = id /\ op'[d].step # 1
                                /\ id \notin overlapped' => openers'[id] = {d}
                                     /\ files'[id].rec = op'[d].rec /\ ~files'[id].more
    <3> TAKE d \in openers'[id]
    <3>1. op'[d].kind = "save" /\ op'[d].id = id /\ op'[d].step # 1
      BY <1>1, <2>1, <2>2 DEF FileOK
    <3>2. ASSUME id \notin overlapped'
          PROVE  openers'[id] = {d} /\ files'[id].rec = op'[d].rec /\ ~files'[id].more
      <4>1. openers[id] = {d} /\ d = c
        BY <1>1, <2>1, <3>2 DEF FileOK
      <4> QED BY <1>1, <1>3, <1>5, <1>7, <3>2, <4>1
    <3> QED BY <3>1, <3>2
  <2> QED BY <1>1, <1>3, <1>6, <1>7, <2>1, <2>3 DEF FileOK
<1>9. JsonlOK'
  <2>1. /\ \A x \in TraceIds : x # id => /\ files'[x] = files[x] /\ openers'[x] = openers[x]
                                         /\ x \in interrupted' <=> x \in interrupted
                                         /\ x \in overlapped' <=> x \in overlapped
        /\ op'[c].kind \in {"save", "idle"}
    BY <1>1, <1>5, <1>7
  <2> QED BY <1>0, <1>1, <1>4, <1>7, <1>8, <2>1, SaveKeeps
<1>10. Shown(f) \in {Damaged, op[c].rec}
  BY <1>3, WrittenShown
<1> QED BY <1>1, <1>4, <1>5, <1>7, <1>9, <1>10

\* The client goes from the openers, and its call ends.
LEMMA UnopenedFacts ==
  ASSUME Types, JsonlOK, NEW c \in Clients, Jsonl!Unopened(c)
  PROVE  /\ openers' \in [TraceIds -> SUBSET Clients]
         /\ \A id \in TraceIds : openers'[id] = openers[id] \ {c}
         /\ \A id \in TraceIds : id # op[c].id => openers'[id] = openers[id]
<1>1. \A id \in TraceIds : id # op[c].id => c \notin openers[id]
  BY NotAnOpener
<1> QED BY <1>1 DEF Jsonl!Unopened, Types

\* The file of a client that closes it alone is complete.
LEMMA CloseOK ==
  ASSUME Types, OpsOK, JsonlOK, backend = "jsonl", NEW c \in Clients, Jsonl!Close(c),
         UNCHANGED <<backend, sqliteVars>>, steady' \subseteq Clients
  PROVE  /\ Types' /\ OpsOK' /\ JsonlOK' /\ op' = [op EXCEPT ![c] = Idle]
         /\ op[c].kind = "save"
         /\ \/ Stored' = Stored
            \/ \E x \in {Damaged, op[c].rec} : Stored' = [Stored EXCEPT ![op[c].rec.id] = x]
<1>0. PICK id : id = op[c].id
  OBVIOUS
<1>1. /\ Jsonl!Writing(c) /\ op[c].kind = "save" /\ Goes(c, Idle) /\ Jsonl!Unopened(c)
      /\ UNCHANGED <<interrupted, overlapped>>
  BY DEF Jsonl!Close, Jsonl!Writing, Jsonl!Return, Types, Goes, Idle, Jsonl!Idle
<1>2. /\ op[c].rec \in Records /\ op[c].rec # Damaged /\ id \in TraceIds /\ id = op[c].rec.id
      /\ files[id] \in Files \cup {None} /\ openers[id] \subseteq Clients
  BY <1>0, <1>1, Saver
<1>3. /\ openers' \in [TraceIds -> SUBSET Clients]
      /\ \A x \in TraceIds : openers'[x] = openers[x] \ {c}
      /\ \A x \in TraceIds : x # id => openers'[x] = openers[x]
  BY <1>0, <1>1, UnopenedFacts
<1>4. FileOK(id)
  BY <1>2 DEF JsonlOK
<1>5. CASE Jsonl!Linked(c)
  <2>1. PICK f \in Jsonl!Finished(c) : files' = [files EXCEPT ![id] = f]
    BY <1>0, <1>5 DEF Jsonl!Close
  <2>2. /\ f \in Jsonl!Written(c) \/ f = files[id]
        /\ Jsonl!Leads(c, files[id]) => f.rec = op[c].rec /\ f.lines = Jsonl!Lines(op[c].rec)
    BY <1>0, <1>2 DEF Jsonl!Finished
  <2>3. c \in openers[id] /\ files[id] \in Files
    BY <1>0, <1>2, <1>4, <1>5 DEF Jsonl!Linked, FileOK
  <2>4. /\ f \in Files
        /\ f.rec # Damaged => f.rec.id = id /\ (f.torn => f.lines < Jsonl!Lines(f.rec))
        /\ f.rec = op[c].rec \/ f.more \/ f = files[id]
        /\ id \notin overlapped => f.rec = op[c].rec /\ ~f.more
    <3>1. CASE f \in Jsonl!Written(c)
      BY <1>0, <1>1, <1>5, <3>1, WrittenFacts
    <3>2. CASE f = files[id]
      BY <1>4, <2>3, <3>2, FileType DEF FileOK
    <3> QED BY <2>2, <3>1, <3>2
  <2>5. f # None /\ (Shown(f) \in {Damaged, op[c].rec} \/ f = files[id])
    BY <2>4, WrittenShown, FileType
  <2>6. id \notin overlapped => Jsonl!Complete(f) /\ openers[id] = {c}
    <3>1. id \notin overlapped => Jsonl!Leads(c, files[id]) /\ openers[id] = {c}
      BY <1>4, <2>3 DEF FileOK, Jsonl!Leads
    <3> QED BY <1>2, <2>2, <2>4, <3>1 DEF Jsonl!Complete
  <2>7. /\ Types' /\ OpsOK' /\ op' = [op EXCEPT ![c] = op'[c]] /\ op'[c] = Idle
        /\ \A d \in Clients : d # c => op'[d] = op[d]
        /\ files'[id] = f /\ \A x \in TraceIds : x # id => files'[x] = files[x]
        /\ Stored' = [Stored EXCEPT ![id] = Shown(f)]
    <3>1. /\ interrupted' \subseteq TraceIds /\ overlapped' \subseteq TraceIds
          /\ UNCHANGED <<db, draft, writer, backend>> /\ f \in Files \cup {None}
      BY <1>1, <2>4 DEF Types, sqliteVars
    <3>2. openers' \in [TraceIds -> SUBSET Clients] /\ id \in TraceIds /\ Goes(c, Idle)
      BY <1>1, <1>2, <1>3
    <3> QED BY <2>1, <3>1, <3>2, IdleIsOp, FileStep
  <2>8. FileOK(id)'
    <3>1. \A d \in openers'[id] : /\ op'[d].kind = "save" /\ op'[d].id = id /\ op'[d].step # 1
                                  /\ id \in overlapped'
      <4> TAKE d \in openers'[id]
      <4>1. d \in openers[id] /\ d # c /\ op'[d] = op[d]
        BY <1>2, <1>3, <2>7
      <4> QED BY <1>1, <1>4, <2>6, <4>1 DEF FileOK
    <3>2. Jsonl!Complete(f) \/ id \in overlapped'
      BY <1>1, <2>6
    <3> QED BY <2>4, <2>5, <2>7, <3>1, <3>2 DEF FileOK
  <2>9. JsonlOK'
    <3>1. /\ \A x \in TraceIds : x # id => /\ files'[x] = files[x] /\ openers'[x] = openers[x]
                                           /\ x \in interrupted' <=> x \in interrupted
                                           /\ x \in overlapped' <=> x \in overlapped
          /\ op'[c].kind \in {"save", "idle"}
      BY <1>1, <1>3, <2>7, IdleIsOp
    <3> QED BY <1>0, <1>1, <1>2, <2>7, <2>8, <3>1, SaveKeeps
  <2>10. f = files[id] => Stored' = Stored
    <3>1. f = files[id] => files' = files
      BY <2>1 DEF Types
    <3>2. backend' = "jsonl"
      OBVIOUS
    <3> QED BY <3>1, <3>2, JsonlStored
  <2> QED BY <1>1, <1>2, <2>5, <2>7, <2>9, <2>10
<1>6. CASE ~Jsonl!Linked(c)
  <2>1. files' = files /\ \A x \in TraceIds : c \notin openers[x]
    BY <1>0, <1>1, <1>6, NotAnOpener DEF Jsonl!Close, Jsonl!Linked
  <2>2. openers' = openers
    <3>1. \A x \in TraceIds : openers'[x] = openers[x]
      BY <1>3, <2>1
    <3>2. openers \in [TraceIds -> SUBSET Clients]
      BY DEF Types
    <3> QED BY <1>3, <3>1, <3>2
  <2>3. UNCHANGED <<db, draft, writer, backend, files, openers, interrupted, overlapped>>
    BY <1>1, <2>1, <2>2 DEF sqliteVars
  <2>4. Types' /\ OpsOK' /\ JsonlOK'
    BY <1>1, <2>1, <2>3, IdleIsOp, JsonlQuiet
  <2>5. Stored' = Stored
    BY <2>1, JsonlStored
  <2> QED BY <1>1, <2>4, <2>5 DEF Goes
<1> QED BY <1>5, <1>6

\* A call fails or its process dies: no file changes, but what the client wrote
\* is left as it is.
LEMMA JsonlCrashOK ==
  ASSUME Types, OpsOK, JsonlOK, backend = "jsonl", NEW c \in Clients, Jsonl!Crash(c),
         UNCHANGED <<backend, sqliteVars>>, steady' \subseteq Clients
  PROVE  /\ Types' /\ OpsOK' /\ JsonlOK' /\ files' = files
         /\ op' = [op EXCEPT ![c] = Idle] /\ answer' = NoAnswer
<1>1. /\ Goes(c, Idle) /\ UNCHANGED <<files, overlapped>> /\ answer' = NoAnswer
      /\ interrupted' = interrupted \cup {id \in TraceIds : c \in openers[id]}
      /\ Jsonl!Unopened(c)
  BY DEF Jsonl!Crash, Jsonl!Return, Goes, Types, Idle, Jsonl!Idle, NoAnswer, Jsonl!NoAnswer
<1>2. /\ openers' \in [TraceIds -> SUBSET Clients]
      /\ \A id \in TraceIds : openers'[id] = openers[id] \ {c}
  BY <1>1, UnopenedFacts
<1>3. /\ op' = [op EXCEPT ![c] = Idle] /\ op'[c] = Idle
      /\ \A d \in Clients : d # c => op'[d] = op[d]
  BY <1>1 DEF Goes, Types
<1>4. Types' /\ OpsOK'
  <2>1. op' \in [Clients -> Ops] /\ made' \in 0..MaxSaves
    BY <1>1, IdleIsOp DEF Goes, Types
  <2>2. interrupted' \subseteq TraceIds /\ overlapped' \subseteq TraceIds
    BY <1>1 DEF Types
  <2>3. OpsOK'
    BY <1>3, IdleIsOp DEF OpsOK
  <2> QED BY <1>1, <1>2, <2>1, <2>2, <2>3 DEF Types, sqliteVars
<1>5. ASSUME NEW id \in TraceIds PROVE FileOK(id)'
  <2>1. FileOK(id) /\ openers[id] \subseteq Clients
    BY <1>5 DEF JsonlOK, Types
  <2>2. CASE c \notin openers[id]
    <3>1. openers'[id] = openers[id] /\ (id \in interrupted' <=> id \in interrupted)
      BY <1>1, <1>2, <2>2
    <3> QED BY <1>1, <1>3, <2>1, <2>2, <3>1, OtherTraces
  <2>3. CASE c \in openers[id]
    <3>1. id \in interrupted' /\ \A d \in openers'[id] : d \in openers[id] /\ op'[d] = op[d]
      BY <1>1, <1>2, <1>3, <1>5, <2>1, <2>3
    <3>2. files[id] # None /\ (id \notin overlapped => openers'[id] = {})
      BY <1>2, <2>1, <2>3 DEF FileOK
    <3> QED BY <1>1, <2>1, <3>1, <3>2 DEF FileOK
  <2> QED BY <2>2, <2>3
<1>6. JsonlOK'
  <2>1. \A d \in Clients : op'[d].kind = "delete" => op'[d].todo \subseteq {op'[d].id}
    BY <1>3, IdleIsOp DEF JsonlOK
  <2> QED BY <1>5, <2>1 DEF JsonlOK
<1> QED BY <1>1, <1>3, <1>4, <1>6

\* A method goes on with the files it has found.
LEMMA TodoOp ==
  ASSUME NEW o \in Ops, NEW todo \in SUBSET TraceIds, NEW step \in {2}
  PROVE  /\ LET next == [o EXCEPT !.step = step, !.todo = todo]
            IN  /\ next \in Ops /\ next.todo = todo /\ next.step = step
                /\ next.kind = o.kind /\ next.id = o.id
         /\ LET next == [o EXCEPT !.todo = todo, !.step = step]
            IN  /\ next \in Ops /\ next.todo = todo /\ next.step = step
                /\ next.kind = o.kind /\ next.id = o.id
<1>1. step \in 0..4
  OBVIOUS
<1> HIDE DEF Kinds, Files, Records
<1> QED BY <1>1 DEF Ops

LEMMA GlobOK ==
  ASSUME Types, OpsOK, JsonlOK, NEW c \in Clients, Jsonl!Glob(c),
         UNCHANGED <<backend, sqliteVars>>, steady' \subseteq Clients
  PROVE  /\ Types' /\ OpsOK' /\ JsonlOK' /\ files' = files
         /\ op' = [op EXCEPT ![c] = op'[c]] /\ op[c].kind # "get" /\ op'[c].kind # "get"
<1> DEFINE ids == IF op[c].kind = "delete" THEN {op[c].id} ELSE TraceIds
           found == {id \in ids : files[id] # None}
           next == [op[c] EXCEPT !.step = 2, !.todo = found]
<1>1. /\ op[c] \in Ops /\ OpOK(op[c]) /\ op[c].kind \in {"delete", "clear"}
      /\ op' = [op EXCEPT ![c] = next] /\ made' = made
      /\ UNCHANGED <<files, openers, interrupted, overlapped>>
  BY DEF Jsonl!Glob, Jsonl!In, Jsonl!Continue, Types, OpsOK
<1>2. found \in SUBSET TraceIds /\ (op[c].kind = "delete" => found \subseteq {op[c].id})
  BY <1>1 DEF OpOK
<1>3. op' = [op EXCEPT ![c] = op'[c]] /\ op'[c] = next /\ Goes(c, next)
  BY <1>1 DEF Types, Goes
<1> HIDE DEF found
<1>4. /\ next \in Ops /\ next.kind = op[c].kind /\ next.id = op[c].id /\ next.todo = found
      /\ next.step = 2
  BY <1>1, <1>2, TodoOp
<1> HIDE DEF next
<1>5. OpOK(next)
  BY <1>1, <1>4 DEF OpOK
<1>6. UNCHANGED <<db, draft, writer, backend, files, openers, interrupted, overlapped>>
  BY <1>1 DEF sqliteVars
<1>7. \A id \in TraceIds : c \notin openers[id]
  BY <1>1, NotAnOpener
<1>8. Types' /\ OpsOK' /\ JsonlOK'
  BY <1>1, <1>2, <1>3, <1>4, <1>5, <1>6, <1>7, JsonlQuiet
<1> QED BY <1>1, <1>3, <1>4, <1>8

\* A deletion removes the traces it is about, one by one.
LEMMA UnlinkOK ==
  ASSUME Types, OpsOK, JsonlOK, backend = "jsonl", NEW c \in Clients, Jsonl!Unlink(c),
         UNCHANGED <<backend, sqliteVars>>, steady' \subseteq Clients
  PROVE  /\ Types' /\ OpsOK' /\ JsonlOK'
         /\ op' = [op EXCEPT ![c] = op'[c]] /\ op[c].kind # "get" /\ op'[c].kind # "get"
         /\ \/ Stored' = Stored
            \/ \E id \in Removes(op[c]) \cap TraceIds : Stored' = [Stored EXCEPT ![id] = None]
<1>1. /\ op[c] \in Ops /\ OpOK(op[c]) /\ op[c].kind \in {"delete", "clear"} /\ op[c].step = 2
      /\ UNCHANGED <<db, draft, writer, backend, interrupted, overlapped>>
      /\ op[c].todo \subseteq Removes(op[c]) \cap TraceIds
      /\ \A id \in TraceIds : c \notin openers[id]
  <2>1. op[c].kind \in {"delete", "clear"}
    BY DEF Jsonl!Unlink, Jsonl!In
  <2>2. \A id \in TraceIds : c \notin openers[id]
    BY <2>1, NotAnOpener
  <2> QED BY <2>1, <2>2 DEF Jsonl!Unlink, Jsonl!In, Types, OpsOK, Ops, JsonlOK, Removes, sqliteVars
<1>2. CASE Jsonl!Return(c, Jsonl!NoAnswer) /\ UNCHANGED <<files, openers>>
  <2>1. Goes(c, Idle)
    BY <1>2 DEF Jsonl!Return, Goes, Types, Idle, Jsonl!Idle
  <2>2. Types' /\ OpsOK' /\ JsonlOK'
    BY <1>1, <1>2, <2>1, IdleIsOp, JsonlQuiet
  <2>3. op' = [op EXCEPT ![c] = Idle] /\ op'[c] = Idle
    BY <2>1 DEF Goes, Types
  <2>4. Stored' = Stored
    BY <1>1, <1>2, JsonlStored
  <2> QED BY <1>1, <2>2, <2>3, <2>4, IdleIsOp
<1>3. ASSUME NEW id \in op[c].todo,
             Jsonl!Continue(c, [op[c] EXCEPT !.todo = @ \ {id}]),
             files' = [files EXCEPT ![id] = None], openers' = [openers EXCEPT ![id] = {}]
      PROVE  /\ Types' /\ OpsOK' /\ JsonlOK'
             /\ op' = [op EXCEPT ![c] = op'[c]] /\ op'[c].kind # "get"
             /\ Stored' = [Stored EXCEPT ![id] = None]
  <2> DEFINE next == [op[c] EXCEPT !.todo = @ \ {id}]
  <2>1. op' = [op EXCEPT ![c] = next] /\ made' = made
    BY <1>3 DEF Jsonl!Continue
  <2>2. /\ next \in Ops /\ next.kind = op[c].kind /\ next.id = op[c].id
        /\ next.todo = op[c].todo \ {id} /\ next.step = 2
    BY <1>1 DEF Ops
  <2> HIDE DEF next
  <2>3. OpOK(next) /\ Goes(c, next)
    BY <1>1, <2>1, <2>2 DEF OpOK, Goes, Types
  <2>4. id \in TraceIds
    BY <1>1
  <2>5. /\ openers' \in [TraceIds -> SUBSET Clients] /\ openers'[id] = {}
        /\ \A x \in TraceIds : x # id => openers'[x] = openers[x]
        /\ interrupted' \subseteq TraceIds /\ overlapped' \subseteq TraceIds
    BY <1>1, <1>3, <2>4 DEF Types
  <2>6. /\ Types' /\ OpsOK' /\ op' = [op EXCEPT ![c] = op'[c]] /\ op'[c] = next
        /\ \A d \in Clients : d # c => op'[d] = op[d]
        /\ files'[id] = None /\ \A x \in TraceIds : x # id => files'[x] = files[x]
        /\ Stored' = [Stored EXCEPT ![id] = Shown(None)]
    <3>1. None \in Files \cup {None} /\ UNCHANGED <<db, draft, writer, backend>>
      BY <1>1
    <3>2. next \in Ops /\ OpOK(next) /\ Goes(c, next)
      BY <2>2, <2>3
    <3>3. /\ openers' \in [TraceIds -> SUBSET Clients] /\ interrupted' \subseteq TraceIds
          /\ overlapped' \subseteq TraceIds
      BY <2>5
    <3>4. files' = [files EXCEPT ![id] = None]
      BY <1>3
    <3> QED BY <3>1, <3>2, <3>3, <3>4, <2>4, FileStep
  <2>7. ASSUME NEW x \in TraceIds PROVE FileOK(x)'
    <3>1. CASE x = id
      BY <2>5, <2>6, <3>1 DEF FileOK
    <3>2. CASE x # id
      <4>1. FileOK(x) /\ openers[x] \subseteq Clients
        BY <2>7 DEF JsonlOK, Types
      <4> QED BY <1>1, <2>5, <2>6, <3>2, <4>1, OtherTraces
    <3> QED BY <3>1, <3>2
  <2>8. JsonlOK'
    <3>1. \A d \in Clients : op'[d].kind = "delete" => op'[d].todo \subseteq {op'[d].id}
      BY <2>2, <2>6 DEF JsonlOK
    <3> QED BY <2>7, <3>1 DEF JsonlOK
  <2> QED BY <1>1, <2>2, <2>6, <2>8 DEF Shown
<1> QED BY <1>1, <1>2, <1>3 DEF Jsonl!Unlink

\* The file that a get finds first is that of a trace that it should answer with.
LEMMA FindOK ==
  ASSUME Types, OpsOK, JsonlOK, backend = "jsonl", NEW c \in Clients, Jsonl!Find(c),
         UNCHANGED <<backend, sqliteVars>>, steady' \subseteq Clients
  PROVE  /\ Types' /\ OpsOK' /\ JsonlOK' /\ files' = files /\ op' = [op EXCEPT ![c] = op'[c]]
         /\ op[c].kind = "get"
         /\ \/ /\ op'[c] = Idle /\ answer' = NotFound
               /\ \A id \in Candidates(op[c].id) : Stored[id] = None
            \/ /\ op'[c].kind = "get" /\ op'[c].id = op[c].id /\ op'[c].step = 2
               /\ \E id \in TraceIds : op'[c].todo = {id} /\ Due(c, id)
<1> DEFINE o == op[c]
           exact == {o.id} \cap {id \in TraceIds : files[id] # None}
           matches == IF exact # {} THEN exact ELSE {id \in Prefixed[o.id] : files[id] # None}
<1>1. /\ o \in Ops /\ OpOK(o) /\ o.kind = "get" /\ o.step = 1 /\ o.id \in TraceIds
      /\ UNCHANGED <<db, draft, writer, backend, files, openers, interrupted, overlapped>>
      /\ \A id \in TraceIds : c \notin openers[id]
  <2>1. op[c].kind = "get"
    BY DEF Jsonl!Find, Jsonl!In
  <2>2. \A id \in TraceIds : c \notin openers[id]
    BY <2>1, NotAnOpener
  <2> QED BY <2>1, <2>2 DEF Jsonl!Find, Jsonl!In, Types, OpsOK, OpOK, sqliteVars
<1>2. \A id \in TraceIds : Stored[id] = None <=> files[id] = None
  BY JsonlStored, FileType, RecordFacts, TokensAssumption DEF Types, Shown
<1>3. Prefixed[o.id] \subseteq TraceIds /\ Candidates(o.id) = {o.id} \cup Prefixed[o.id]
  BY <1>1, PrefixedAssumption DEF Candidates
<1>4. CASE matches = {} /\ Jsonl!Return(c, Jsonl!NotFound)
  <2>1. Goes(c, Idle) /\ answer' = NotFound
    BY <1>4 DEF Jsonl!Return, Jsonl!NotFound, NotFound, Goes, Types, Idle, Jsonl!Idle
  <2>2. Types' /\ OpsOK' /\ JsonlOK'
    BY <1>1, <2>1, IdleIsOp, JsonlQuiet
  <2>3. \A id \in Candidates(o.id) : Stored[id] = None
    BY <1>1, <1>2, <1>3, <1>4
  <2>4. op' = [op EXCEPT ![c] = Idle] /\ op'[c] = Idle
    BY <2>1 DEF Goes, Types
  <2> QED BY <1>1, <2>1, <2>2, <2>3, <2>4
<1>5. CASE \E id \in matches : Jsonl!Continue(c, [o EXCEPT !.todo = {id}, !.step = 2])
  <2>1. PICK id \in matches : Jsonl!Continue(c, [o EXCEPT !.todo = {id}, !.step = 2])
    BY <1>5
  <2>2. /\ id \in TraceIds /\ id \in Candidates(o.id) /\ files[id] # None
        /\ id # o.id => files[o.id] = None
    BY <1>1, <1>3
  <2> HIDE DEF exact, matches
  <2> DEFINE next == [o EXCEPT !.todo = {id}, !.step = 2]
  <2>3. next \in Ops /\ next.kind = "get" /\ next.id = o.id /\ next.todo = {id} /\ next.step = 2
    <3>1. {id} \in SUBSET TraceIds
      BY <2>2
    <3> HIDE DEF o
    <3> QED BY <1>1, <3>1, TodoOp
  <2>4. Goes(c, next)
    BY <2>1 DEF Jsonl!Continue, Goes, Types
  <2> HIDE DEF next
  <2>5. OpOK(next)
    BY <1>1, <2>3 DEF OpOK
  <2>6. Types' /\ OpsOK' /\ JsonlOK'
    BY <1>1, <2>3, <2>4, <2>5, JsonlQuiet
  <2>7. op' = [op EXCEPT ![c] = next] /\ op'[c] = next
    BY <2>3, <2>4 DEF Goes, Types
  <2>8. Due(c, id)
    BY <1>1, <1>2, <2>2 DEF Due
  <2> QED BY <1>1, <2>2, <2>3, <2>6, <2>7, <2>8
<1> QED BY <1>4, <1>5 DEF Jsonl!Find

LEMMA OpenToReadOK ==
  ASSUME Types, OpsOK, JsonlOK, backend = "jsonl", NEW c \in Clients, Jsonl!OpenToRead(c),
         UNCHANGED <<backend, sqliteVars>>, steady' \subseteq Clients
  PROVE  /\ Types' /\ OpsOK' /\ JsonlOK' /\ files' = files /\ op' = [op EXCEPT ![c] = op'[c]]
         /\ op[c].kind = "get" /\ op[c].step = 2
         /\ \/ /\ op'[c] = Idle
               /\ \E id \in op[c].todo : Stored[id] = None
            \/ /\ op'[c].kind = "get" /\ op'[c].id = op[c].id /\ op'[c].step = 3
               /\ op'[c].todo = op[c].todo /\ op'[c].rec \in Files
               /\ \E id \in op[c].todo : files[id] = op'[c].rec
<1> DEFINE o == op[c]
<1>1. /\ o \in Ops /\ OpOK(o) /\ o.kind = "get" /\ o.step = 2 /\ o.todo \subseteq TraceIds
      /\ UNCHANGED <<db, draft, writer, backend, files, openers, interrupted, overlapped>>
      /\ \A id \in TraceIds : c \notin openers[id]
  <2>1. op[c].kind = "get"
    BY DEF Jsonl!OpenToRead, Jsonl!In
  <2>2. \A id \in TraceIds : c \notin openers[id]
    BY <2>1, NotAnOpener
  <2> QED BY <2>1, <2>2 DEF Jsonl!OpenToRead, Jsonl!In, Types, OpsOK, Ops, sqliteVars
<1>2. PICK id \in o.todo :
        IF files[id] = None THEN Jsonl!Return(c, Jsonl!Raised)
        ELSE Jsonl!Continue(c, [o EXCEPT !.rec = files[id], !.step = 3])
  BY DEF Jsonl!OpenToRead
<1>3. id \in TraceIds
  BY <1>1
<1>4. CASE files[id] = None
  <2>1. Goes(c, Idle)
    BY <1>2, <1>4 DEF Jsonl!Return, Goes, Types, Idle, Jsonl!Idle
  <2>2. Types' /\ OpsOK' /\ JsonlOK'
    BY <1>1, <2>1, IdleIsOp, JsonlQuiet
  <2>3. Stored[id] = None
    BY <1>3, <1>4, JsonlStored DEF Shown
  <2>4. op' = [op EXCEPT ![c] = Idle] /\ op'[c] = Idle
    BY <2>1 DEF Goes, Types
  <2> QED BY <1>1, <2>2, <2>3, <2>4
<1>5. CASE files[id] # None
  <2> DEFINE f == files[id]
             next == [o EXCEPT !.rec = f, !.step = 3]
  <2>1. f \in Files
    BY <1>3, <1>5 DEF Types
  <2>2. Goes(c, next)
    BY <1>2, <1>5 DEF Jsonl!Continue, Goes, Types
  <2>3. /\ next \in Ops /\ next.kind = "get" /\ next.id = o.id /\ next.rec = f /\ next.step = 3
        /\ next.todo = o.todo
    <3>1. f \in Records \cup Files \cup {None}
      BY <2>1
    <3> HIDE DEF o, f
    <3> QED BY <1>1, <3>1, ReadOp
  <2> HIDE DEF next
  <2>4. OpOK(next)
    BY <1>1, <2>3 DEF OpOK
  <2>5. Types' /\ OpsOK' /\ JsonlOK'
    BY <1>1, <2>2, <2>3, <2>4, JsonlQuiet
  <2>6. op' = [op EXCEPT ![c] = next] /\ op'[c] = next
    BY <2>2, <2>3 DEF Goes, Types
  <2> QED BY <1>1, <2>1, <2>3, <2>5, <2>6
<1> QED BY <1>4, <1>5

\* A file that nothing writes is read as it is stored.
LEMMA ReadOK ==
  ASSUME Types, OpsOK, JsonlOK, backend = "jsonl", NEW c \in Clients, Jsonl!Read(c),
         UNCHANGED <<backend, sqliteVars>>, steady' \subseteq Clients
  PROVE  /\ Types' /\ OpsOK' /\ JsonlOK' /\ files' = files /\ op' = [op EXCEPT ![c] = Idle]
         /\ op[c].kind = "get" /\ op[c].step = 3
         /\ \A id \in TraceIds : /\ op[c].todo = {id} /\ op[c].rec \in Files
                                  /\ files[id] = op[c].rec /\ Stored[id] # Damaged
              => answer' = Found(Stored[id], TRUE)
<1>1. /\ op[c] \in Ops /\ op[c].kind = "get" /\ op[c].step = 3 /\ Goes(c, Idle)
      /\ UNCHANGED <<db, draft, writer, backend, files, openers, interrupted, overlapped>>
  BY DEF Jsonl!Read, Jsonl!In, Jsonl!Return, Types, Goes, Idle, Jsonl!Idle, sqliteVars
<1>2. \A id \in TraceIds : c \notin openers[id]
  BY <1>1, NotAnOpener
<1>3. Types' /\ OpsOK' /\ JsonlOK'
  BY <1>1, <1>2, IdleIsOp, JsonlQuiet
<1>4. ASSUME NEW id \in TraceIds, op[c].todo = {id}, op[c].rec \in Files,
             files[id] = op[c].rec, Stored[id] # Damaged
      PROVE  answer' = Found(Stored[id], TRUE)
  <2> DEFINE f == op[c].rec
  <2>1. Stored[id] = Shown(f)
    BY <1>4, JsonlStored
  <2>2. Jsonl!Complete(f) /\ Stored[id] = f.rec /\ f.rec \in Records /\ f.more = FALSE
    BY <1>4, <2>1, ShownFile, FileType
  <2>3. f.torn = FALSE
    <3>1. f.torn \in BOOLEAN /\ (f.torn => f.lines < Jsonl!Lines(f.rec))
      BY <1>4, <2>2, FileType, RecordFacts, TokensAssumption DEF JsonlOK, FileOK
    <3>2. f.lines = Jsonl!Lines(f.rec) /\ f.lines \in Nat
      BY <1>4, <2>2, FileType DEF Jsonl!Complete
    <3> HIDE DEF f
    <3>3. ~(f.lines < Jsonl!Lines(f.rec))
      BY <3>2
    <3> QED BY <3>1, <3>3
  <2>4. PICK result \in Jsonl!Parsed(f) : Jsonl!Return(c, result)
    BY <1>4 DEF Jsonl!Read
  <2>5. answer' = Jsonl!Found(f.rec, Jsonl!Complete(f))
    BY <2>2, <2>3, <2>4 DEF Jsonl!Return, Jsonl!Parsed
  <2>6. Jsonl!Complete(f) = TRUE
    BY <2>2 DEF Jsonl!Complete
  <2> QED BY <2>2, <2>5, <2>6 DEF Jsonl!Found, Found
<1> QED BY <1>1, <1>3, <1>4 DEF Goes

-----------------------------------------------------------------------------
(* The steps of either backend *)

\* What a step of client c may make of the traces: nothing, what the save it is
\* in does, or what the deletion it is in does.
Effect(c) ==
  \/ Stored' = Stored
  \/ /\ op[c].kind = "save"
     /\ \E x \in {Damaged, op[c].rec} : Stored' = [Stored EXCEPT ![op[c].rec.id] = x]
  \/ \E ids \in SUBSET (Removes(op[c]) \cap TraceIds) :
       Stored' = [id \in TraceIds |-> IF id \in ids THEN None ELSE Stored[id]]

\* What it may make of its call.
Outcome(c) ==
  \/ op[c] = Idle /\ op'[c].step = 1
  \/ op[c].kind # "get" /\ op'[c].kind # "get"
  \/ /\ op[c].kind = "get" /\ op'[c].kind # "get"
     /\ answer' = NoAnswer \/ (c \in steady => answer' \in Expected(op[c].id))
  \/ /\ op[c].kind = "get" /\ op'[c].kind = "get" /\ op'[c].id = op[c].id
     /\ Stored' = Stored /\ (c \in steady => FoundOK(c)')

LEMMA DueIsExpected ==
  ASSUME Types, OpsOK, NEW c \in Clients, op[c].kind = "get"
  PROVE  /\ \A id \in TraceIds : Due(c, id) => Found(Stored[id], TRUE) \in Expected(op[c].id)
         /\ (\A id \in Candidates(op[c].id) : Stored[id] = None)
              => NotFound \in Expected(op[c].id)
<1>1. op[c].id \in TraceIds
  BY DEF OpsOK, OpOK
<1>2. ASSUME NEW id \in TraceIds, Due(c, id)
      PROVE  Found(Stored[id], TRUE) \in Expected(op[c].id)
  <2>1. CASE id = op[c].id
    BY <1>2, <2>1 DEF Due, Expected
  <2>2. CASE id # op[c].id
    <3> DEFINE others == {x \in Prefixed[op[c].id] : Stored[x] # None}
    <3>1. Stored[op[c].id] = None /\ id \in others
      BY <1>2, <2>2 DEF Due, Candidates
    <3>2. Expected(op[c].id) = {Found(Stored[x], TRUE) : x \in others}
      BY <3>1 DEF Expected
    <3> QED BY <3>1, <3>2
  <2> QED BY <2>1, <2>2
<1>3. (\A id \in Candidates(op[c].id) : Stored[id] = None) => NotFound \in Expected(op[c].id)
  BY DEF Candidates, Expected
<1> QED BY <1>2, <1>3

\* Nothing is stored differently when the tables, or the files, are the same.
LEMMA SameStored ==
  /\ /\ Types /\ Types' /\ SqliteOK /\ SqliteOK' /\ backend = "sqlite" /\ backend' = "sqlite"
     /\ db' = db
     => Stored' = Stored
  /\ backend = "jsonl" /\ backend' = "jsonl" /\ files' = files => Stored' = Stored
<1>1. ASSUME Types, Types', SqliteOK, SqliteOK', backend = "sqlite", backend' = "sqlite",
             db' = db
      PROVE  Stored' = Stored
  <2>1. Consistent(db) /\ Consistent(db')
    BY <1>1 DEF SqliteOK
  <2> QED BY <1>1, <2>1, StoredIsTraces
<1>2. ASSUME backend = "jsonl", backend' = "jsonl", files' = files
      PROVE  Stored' = Stored
  BY <1>2, JsonlStored
<1> QED BY <1>1, <1>2

StepOK(c) ==
  /\ Types' /\ OpsOK'
  /\ backend = "sqlite" => SqliteOK'
  /\ backend = "jsonl" => JsonlOK'
  /\ op' = [op EXCEPT ![c] = op'[c]]
  /\ Effect(c) /\ Outcome(c)

LEMMA SqliteStep ==
  ASSUME IInv, backend = "sqlite", UNCHANGED <<backend, jsonlVars>>, steady' \subseteq Clients,
         Sqlite!Next
  PROVE  \E c \in Clients : StepOK(c)
<1>1. PICK c \in Clients :
        \/ Sqlite!Begin(c)
        \/ Sqlite!Execute(c) \/ Sqlite!Commit(c) \/ Sqlite!Locked(c) \/ Sqlite!Crash(c)
        \/ Sqlite!SelectTrace(c) \/ Sqlite!SelectSpans(c)
  BY DEF Sqlite!Next
<1>2. Types /\ OpsOK /\ SqliteOK /\ SteadyOK /\ op[c] \in Ops /\ OpOK(op[c])
      /\ backend' = "sqlite" /\ Idle.kind = "idle"
  BY IdleIsOp DEF IInv, Types, OpsOK
<1>3. op' = [op EXCEPT ![c] = Idle] => op'[c] = Idle
  BY <1>2 DEF Types
<1>4. Types' /\ SqliteOK' /\ db' = db => Stored' = Stored
  BY <1>2, SameStored
<1>5. CASE Sqlite!Begin(c)
  <2>1. /\ Types' /\ OpsOK' /\ SqliteOK' /\ db' = db
        /\ op[c] = Idle /\ op' = [op EXCEPT ![c] = op'[c]] /\ op'[c].step = 1
    BY <1>2, <1>5, SqliteBeginOK
  <2> QED BY <1>2, <1>4, <2>1 DEF StepOK, Effect, Outcome
<1>6. CASE Sqlite!Execute(c)
  <2>1. /\ Types' /\ OpsOK' /\ SqliteOK' /\ db' = db
        /\ op' = [op EXCEPT ![c] = op'[c]] /\ op'[c].kind # "get"
    BY <1>2, <1>6, ExecuteOK
  <2>2. op[c].kind # "get"
    BY <1>6 DEF Sqlite!Execute, Sqlite!Writes
  <2> QED BY <1>2, <1>4, <2>1, <2>2 DEF StepOK, Effect, Outcome
<1>7. CASE Sqlite!Commit(c)
  <2>1. /\ Types' /\ OpsOK' /\ SqliteOK'
        /\ op' = [op EXCEPT ![c] = Idle] /\ op[c].kind # "get"
        /\ \/ /\ op[c].kind = "save"
              /\ db'.traces = [db.traces EXCEPT ![op[c].rec.id] = op[c].rec]
           \/ db'.traces = [id \in TraceIds |-> IF id \in Removes(op[c]) THEN None
                                                ELSE db.traces[id]]
    BY <1>2, <1>7, CommitOK
  <2>2. Stored = db.traces /\ Stored' = db'.traces
    BY <1>2, <2>1, StoredIsTraces DEF SqliteOK
  <2>3. Effect(c)
    <3>1. CASE op[c].kind = "save"
               /\ db'.traces = [db.traces EXCEPT ![op[c].rec.id] = op[c].rec]
      BY <2>2, <3>1 DEF Effect
    <3>2. CASE db'.traces = [id \in TraceIds |-> IF id \in Removes(op[c]) THEN None
                                                 ELSE db.traces[id]]
      <4> DEFINE ids == Removes(op[c]) \cap TraceIds
      <4>1. Stored' = [id \in TraceIds |-> IF id \in ids THEN None ELSE Stored[id]]
        BY <2>2, <3>2
      <4> QED BY <4>1 DEF Effect
    <3> QED BY <2>1, <3>1, <3>2
  <2> QED BY <1>2, <1>3, <2>1, <2>3 DEF StepOK, Outcome
<1>8. CASE Sqlite!Locked(c) \/ Sqlite!Crash(c)
  <2>1. /\ Types' /\ OpsOK' /\ SqliteOK' /\ db' = db
        /\ op' = [op EXCEPT ![c] = Idle] /\ answer' = NoAnswer
    BY <1>2, <1>8, SqliteFails
  <2> QED BY <1>2, <1>3, <1>4, <2>1 DEF StepOK, Effect, Outcome
<1>9. CASE Sqlite!SelectTrace(c)
  <2>1. /\ Types' /\ OpsOK' /\ SqliteOK' /\ db' = db /\ op' = [op EXCEPT ![c] = op'[c]]
        /\ op[c].kind = "get"
        /\ \/ /\ op'[c] = Idle /\ answer' = NotFound
              /\ \A id \in Candidates(op[c].id) : Stored[id] = None
           \/ /\ op'[c].kind = "get" /\ op'[c].id = op[c].id
              /\ op'[c].rec \in Records
              /\ Due(c, op'[c].rec.id) /\ Stored[op'[c].rec.id] = op'[c].rec
    BY <1>2, <1>9, SelectTraceOK
  <2>2. Stored' = Stored
    BY <1>4, <2>1
  <2>3. CASE op'[c] = Idle /\ answer' = NotFound
             /\ \A id \in Candidates(op[c].id) : Stored[id] = None
    BY <1>2, <2>1, <2>2, <2>3, DueIsExpected DEF StepOK, Effect, Outcome
  <2>4. CASE /\ op'[c].kind = "get" /\ op'[c].id = op[c].id
             /\ op'[c].rec \in Records
             /\ Due(c, op'[c].rec.id) /\ Stored[op'[c].rec.id] = op'[c].rec
    <3>1. FoundOK(c)'
      BY <1>2, <2>2, <2>4 DEF FoundOK, Due
    <3> QED BY <1>2, <2>1, <2>2, <2>4, <3>1 DEF StepOK, Effect, Outcome
  <2> QED BY <2>1, <2>3, <2>4
<1>10. CASE Sqlite!SelectSpans(c)
  <2>1. /\ Types' /\ OpsOK' /\ SqliteOK' /\ db' = db /\ op' = [op EXCEPT ![c] = Idle]
        /\ op[c].kind = "get" /\ op[c].step = 2
        /\ op[c].rec \in Records /\ Stored[op[c].rec.id] = op[c].rec
             => answer' = Found(op[c].rec, TRUE)
    BY <1>2, <1>10, SelectSpansOK
  <2>2. ASSUME c \in steady PROVE answer' \in Expected(op[c].id)
    <3>1. op[c].rec \in Records /\ Due(c, op[c].rec.id) /\ Stored[op[c].rec.id] = op[c].rec
      BY <1>2, <2>1, <2>2 DEF SteadyOK, FoundOK
    <3>2. op[c].rec.id \in TraceIds
      BY <3>1, RecordFacts
    <3> QED BY <1>2, <2>1, <3>1, <3>2, DueIsExpected
  <2> QED BY <1>2, <1>3, <1>4, <2>1, <2>2 DEF StepOK, Effect, Outcome
<1> QED BY <1>1, <1>5, <1>6, <1>7, <1>8, <1>9, <1>10

LEMMA JsonlStep ==
  ASSUME IInv, backend = "jsonl", UNCHANGED <<backend, sqliteVars>>, steady' \subseteq Clients,
         Jsonl!Next
  PROVE  \E c \in Clients : StepOK(c)
<1>1. PICK c \in Clients :
        \/ Jsonl!Begin(c)
        \/ Jsonl!Open(c) \/ Jsonl!Flush(c) \/ Jsonl!Close(c) \/ Jsonl!Crash(c)
        \/ Jsonl!Find(c) \/ Jsonl!OpenToRead(c) \/ Jsonl!Read(c)
        \/ Jsonl!Glob(c) \/ Jsonl!Unlink(c)
  BY DEF Jsonl!Next
<1>2. Types /\ OpsOK /\ JsonlOK /\ SteadyOK /\ op[c] \in Ops /\ OpOK(op[c])
      /\ backend' = "jsonl" /\ Idle.kind = "idle"
  BY IdleIsOp DEF IInv, Types, OpsOK
<1>3. op' = [op EXCEPT ![c] = Idle] => op'[c] = Idle
  BY <1>2 DEF Types
<1>4. files' = files => Stored' = Stored
  BY <1>2, SameStored
<1>5. CASE Jsonl!Begin(c)
  <2>1. /\ Types' /\ OpsOK' /\ JsonlOK' /\ files' = files
        /\ op[c] = Idle /\ op' = [op EXCEPT ![c] = op'[c]] /\ op'[c].step = 1
    BY <1>2, <1>5, JsonlBeginOK
  <2> QED BY <1>2, <1>4, <2>1 DEF StepOK, Effect, Outcome
<1>6. CASE Jsonl!Open(c)
  <2>1. /\ Types' /\ OpsOK' /\ JsonlOK' /\ op' = [op EXCEPT ![c] = op'[c]]
        /\ op[c].kind = "save" /\ op'[c].kind # "get"
        /\ Stored' = [Stored EXCEPT ![op[c].rec.id] = Damaged]
    BY <1>2, <1>6, OpenOK
  <2> QED BY <1>2, <2>1 DEF StepOK, Effect, Outcome
<1>7. CASE Jsonl!Flush(c)
  <2>1. /\ Types' /\ OpsOK' /\ JsonlOK' /\ op' = [op EXCEPT ![c] = op'[c]]
        /\ op[c].kind = "save" /\ op'[c].kind # "get"
        /\ \E x \in {Damaged, op[c].rec} : Stored' = [Stored EXCEPT ![op[c].rec.id] = x]
    BY <1>2, <1>7, FlushOK
  <2> QED BY <1>2, <2>1 DEF StepOK, Effect, Outcome
<1>8. CASE Jsonl!Close(c)
  <2>1. /\ Types' /\ OpsOK' /\ JsonlOK' /\ op' = [op EXCEPT ![c] = Idle]
        /\ op[c].kind = "save"
        /\ \/ Stored' = Stored
           \/ \E x \in {Damaged, op[c].rec} : Stored' = [Stored EXCEPT ![op[c].rec.id] = x]
    BY <1>2, <1>8, CloseOK
  <2> QED BY <1>2, <1>3, <2>1 DEF StepOK, Effect, Outcome
<1>9. CASE Jsonl!Crash(c)
  <2>1. /\ Types' /\ OpsOK' /\ JsonlOK' /\ files' = files
        /\ op' = [op EXCEPT ![c] = Idle] /\ answer' = NoAnswer
    BY <1>2, <1>9, JsonlCrashOK
  <2> QED BY <1>2, <1>3, <1>4, <2>1 DEF StepOK, Effect, Outcome
<1>10. CASE Jsonl!Find(c)
  <2>1. /\ Types' /\ OpsOK' /\ JsonlOK' /\ files' = files /\ op' = [op EXCEPT ![c] = op'[c]]
        /\ op[c].kind = "get"
        /\ \/ /\ op'[c] = Idle /\ answer' = NotFound
              /\ \A id \in Candidates(op[c].id) : Stored[id] = None
           \/ /\ op'[c].kind = "get" /\ op'[c].id = op[c].id /\ op'[c].step = 2
              /\ \E id \in TraceIds : op'[c].todo = {id} /\ Due(c, id)
    BY <1>2, <1>10, FindOK
  <2>2. Stored' = Stored
    BY <1>4, <2>1
  <2>3. CASE op'[c] = Idle /\ answer' = NotFound
             /\ \A id \in Candidates(op[c].id) : Stored[id] = None
    BY <1>2, <2>1, <2>2, <2>3, DueIsExpected DEF StepOK, Effect, Outcome
  <2>4. CASE /\ op'[c].kind = "get" /\ op'[c].id = op[c].id /\ op'[c].step = 2
             /\ \E id \in TraceIds : op'[c].todo = {id} /\ Due(c, id)
    <3>1. FoundOK(c)'
      BY <1>2, <2>2, <2>4 DEF FoundOK, Due
    <3> QED BY <1>2, <2>1, <2>2, <2>4, <3>1 DEF StepOK, Effect, Outcome
  <2> QED BY <2>1, <2>3, <2>4
<1>11. CASE Jsonl!OpenToRead(c)
  <2>1. /\ Types' /\ OpsOK' /\ JsonlOK' /\ files' = files /\ op' = [op EXCEPT ![c] = op'[c]]
        /\ op[c].kind = "get" /\ op[c].step = 2
        /\ \/ /\ op'[c] = Idle
              /\ \E id \in op[c].todo : Stored[id] = None
           \/ /\ op'[c].kind = "get" /\ op'[c].id = op[c].id /\ op'[c].step = 3
              /\ op'[c].todo = op[c].todo /\ op'[c].rec \in Files
              /\ \E id \in op[c].todo : files[id] = op'[c].rec
    BY <1>2, <1>11, OpenToReadOK
  <2>2. Stored' = Stored
    BY <1>4, <2>1
  <2>3. c \in steady => \E id \in TraceIds : op[c].todo = {id} /\ Due(c, id)
    BY <1>2, <2>1 DEF SteadyOK, FoundOK
  <2>4. CASE op'[c] = Idle /\ \E id \in op[c].todo : Stored[id] = None
    <3>1. c \notin steady
      BY <2>3, <2>4 DEF Due
    <3> QED BY <1>2, <2>1, <2>2, <2>4, <3>1 DEF StepOK, Effect, Outcome
  <2>5. CASE /\ op'[c].kind = "get" /\ op'[c].id = op[c].id /\ op'[c].step = 3
             /\ op'[c].todo = op[c].todo /\ op'[c].rec \in Files
             /\ \E id \in op[c].todo : files[id] = op'[c].rec
    <3>1. ASSUME c \in steady PROVE FoundOK(c)'
      <4>1. PICK id \in TraceIds : op[c].todo = {id} /\ Due(c, id)
        BY <2>3, <3>1
      <4>2. op'[c].todo = {id} /\ Due(c, id)' /\ files'[id] = op'[c].rec
        BY <2>1, <2>2, <2>5, <4>1 DEF Due
      <4> QED BY <1>2, <2>5, <4>2 DEF FoundOK
    <3> QED BY <1>2, <2>1, <2>2, <2>5, <3>1 DEF StepOK, Effect, Outcome
  <2> QED BY <2>1, <2>4, <2>5
<1>12. CASE Jsonl!Read(c)
  <2>1. /\ Types' /\ OpsOK' /\ JsonlOK' /\ files' = files /\ op' = [op EXCEPT ![c] = Idle]
        /\ op[c].kind = "get" /\ op[c].step = 3
        /\ \A id \in TraceIds : /\ op[c].todo = {id} /\ op[c].rec \in Files
                                 /\ files[id] = op[c].rec /\ Stored[id] # Damaged
             => answer' = Found(Stored[id], TRUE)
    BY <1>2, <1>12, ReadOK
  <2>2. ASSUME c \in steady PROVE answer' \in Expected(op[c].id)
    <3>1. PICK id \in TraceIds : /\ op[c].todo = {id} /\ Due(c, id)
                                 /\ op[c].rec \in Files /\ files[id] = op[c].rec
      BY <1>2, <2>1, <2>2 DEF SteadyOK, FoundOK
    <3>2. Stored[id] # Damaged
      BY <1>2, <2>2, <3>1 DEF Due, SteadyOK
    <3> QED BY <1>2, <2>1, <3>1, <3>2, DueIsExpected
  <2> QED BY <1>2, <1>3, <1>4, <2>1, <2>2 DEF StepOK, Effect, Outcome
<1>13. CASE Jsonl!Glob(c)
  <2>1. /\ Types' /\ OpsOK' /\ JsonlOK' /\ files' = files
        /\ op' = [op EXCEPT ![c] = op'[c]] /\ op[c].kind # "get" /\ op'[c].kind # "get"
    BY <1>2, <1>13, GlobOK
  <2> QED BY <1>2, <1>4, <2>1 DEF StepOK, Effect, Outcome
<1>14. CASE Jsonl!Unlink(c)
  <2>1. /\ Types' /\ OpsOK' /\ JsonlOK'
        /\ op' = [op EXCEPT ![c] = op'[c]] /\ op[c].kind # "get" /\ op'[c].kind # "get"
        /\ \/ Stored' = Stored
           \/ \E id \in Removes(op[c]) \cap TraceIds : Stored' = [Stored EXCEPT ![id] = None]
    BY <1>2, <1>14, UnlinkOK
  <2>2. ASSUME NEW id \in Removes(op[c]) \cap TraceIds, Stored' = [Stored EXCEPT ![id] = None]
        PROVE  Effect(c)
    <3>1. Stored' = [x \in TraceIds |-> IF x \in {id} THEN None ELSE Stored[x]]
      <4>1. DOMAIN Stored = TraceIds
        BY <1>2, JsonlStored
      <4> QED BY <2>2, <4>1, JsonlStored, <1>2
    <3>2. {id} \in SUBSET (Removes(op[c]) \cap TraceIds)
      OBVIOUS
    <3> QED BY <3>1, <3>2 DEF Effect
  <2>3. Effect(c)
    BY <2>1, <2>2 DEF Effect
  <2> QED BY <1>2, <2>1, <2>3 DEF StepOK, Outcome
<1> QED BY <1>1, <1>5, <1>6, <1>7, <1>8, <1>9, <1>10, <1>11, <1>12, <1>13, <1>14

-----------------------------------------------------------------------------
(* The invariant *)

LEMMA InitIInv == Init => IInv
<1> SUFFICES ASSUME Init PROVE IInv
  OBVIOUS
<1>1. /\ backend \in {"sqlite", "jsonl"} /\ steady = {}
      /\ db = Sqlite!Empty /\ draft = Sqlite!Empty /\ writer = None
      /\ files = [id \in TraceIds |-> None] /\ openers = [id \in TraceIds |-> {}]
      /\ interrupted = {} /\ overlapped = {}
      /\ op = [c \in Clients |-> Idle] /\ made = 0
  BY DEF Init, Sqlite!Init, Jsonl!Init, Sqlite!CallsInit, Sqlite!Idle, Idle
<1>2. Sqlite!Empty \in Tables /\ Consistent(Sqlite!Empty)
  BY DEF Sqlite!Empty, Tables, Consistent, Sqlite!SpansOf
<1>3. \A c \in Clients : op[c] = Idle
  BY <1>1
<1>4. Types /\ OpsOK
  BY <1>1, <1>2, <1>3, IdleIsOp, RecordsAssumption DEF Types, OpsOK
<1>5. SqliteOK /\ JsonlOK
  BY <1>1, <1>2, <1>3, IdleIsOp DEF SqliteOK, JsonlOK, FileOK, Sqlite!Writes
<1>6. SteadyOK
  BY <1>1 DEF SteadyOK
<1> QED BY <1>4, <1>5, <1>6 DEF IInv

\* What a get has found stays what it should answer with as long as nothing
\* touches its candidates.
LEMMA SteadyStays ==
  ASSUME IInv, Types', OpsOK', backend = "jsonl" => JsonlOK', backend' = backend,
         NEW d \in Clients, d \in steady, op'[d] = op[d],
         \A id \in Candidates(op[d].id) : Stored'[id] # Damaged /\ Stored'[id] = Stored[id]
  PROVE  FoundOK(d)'
<1>1. /\ Types /\ op[d].kind = "get" /\ FoundOK(d) /\ op[d].id \in Candidates(op[d].id)
      /\ \A id \in Candidates(op[d].id) : Stored[id] # Damaged
  BY DEF IInv, SteadyOK, Candidates
<1>2. \A id : Due(d, id) => Due(d, id)'
  BY <1>1 DEF Due
<1>3. CASE backend = "sqlite"
  BY <1>1, <1>2, <1>3 DEF FoundOK, Due
<1>4. CASE backend = "jsonl"
  <2>1. op[d].step = 2 => \E id \in TraceIds : op[d].todo = {id} /\ Due(d, id)'
    BY <1>1, <1>2, <1>4 DEF FoundOK
  <2>2. ASSUME op[d].step \notin {1, 2}
        PROVE  \E id \in TraceIds : /\ op[d].todo = {id} /\ Due(d, id)'
                                    /\ op[d].rec \in Files /\ files'[id] = op[d].rec
    <3> DEFINE f == op[d].rec
    <3>1. PICK id \in TraceIds : op[d].todo = {id} /\ Due(d, id) /\ f \in Files /\ files[id] = f
      BY <1>1, <1>4, <2>2 DEF FoundOK
    <3> DEFINE g == files'[id]
    <3>2. Stored'[id] = Stored[id] /\ Stored[id] # Damaged /\ f # None
      BY <1>1, <3>1, FileType DEF Due
    <3>3. Stored[id] = Shown(f) /\ Stored'[id] = Shown(g) /\ g \in Files \cup {None}
      BY <1>4, <3>1, JsonlStored DEF Types
    <3>4. Jsonl!Complete(f) /\ Shown(f) = f.rec /\ f.rec \in Records /\ ~f.more
      BY <3>1, <3>2, <3>3, ShownFile
    <3>5. g \in Files
      BY <3>2, <3>3, <3>4, RecordFacts DEF Shown
    <3>6. Jsonl!Complete(g) /\ g.rec = f.rec /\ ~g.more
      BY <3>2, <3>3, <3>4, <3>5, ShownFile
    <3>7. f.torn = FALSE /\ g.torn = FALSE /\ f.lines = g.lines /\ f.more = g.more
      <4>1. /\ f.lines = Jsonl!Lines(f.rec) /\ g.lines = Jsonl!Lines(f.rec)
            /\ f.lines \in Nat /\ g.lines \in Nat
            /\ f.torn \in BOOLEAN /\ g.torn \in BOOLEAN /\ f.more \in BOOLEAN /\ g.more \in BOOLEAN
        BY <3>1, <3>4, <3>5, <3>6, FileType DEF Jsonl!Complete
      <4>2. (f.torn => f.lines < Jsonl!Lines(f.rec)) /\ (g.torn => g.lines < Jsonl!Lines(g.rec))
        <5>1. FileOK(id) /\ FileOK(id)' /\ f.rec # Damaged
          BY <1>4, <3>4, RecordFacts DEF IInv, JsonlOK
        <5>2. f # None /\ g # None
          BY <3>1, <3>5, FileType
        <5> QED BY <3>1, <3>6, <5>1, <5>2 DEF FileOK
      <4> HIDE DEF f, g
      <4>3. ~(f.lines < Jsonl!Lines(f.rec)) /\ ~(g.lines < Jsonl!Lines(g.rec))
        BY <4>1, <3>6
      <4> QED BY <4>1, <4>2, <4>3, <3>4, <3>6
    <3>8. f = g
      <4> HIDE DEF f, g
      <4> QED BY <3>1, <3>5, <3>6, <3>7 DEF Files
    <3> QED BY <1>2, <3>1, <3>8
  <2> QED BY <1>4, <2>1, <2>2 DEF FoundOK
<1> QED BY <1>1, <1>3, <1>4 DEF Types

LEMMA NextIInv ==
  ASSUME IInv, Next
  PROVE  IInv' /\ \E c \in Clients : StepOK(c)
<1>1. /\ backend' = backend /\ steady' \subseteq Clients
      /\ steady' = {c \in Clients :
           /\ op'[c].kind = "get"
           /\ c \in steady \/ op[c] = Idle
           /\ \A id \in Candidates(op'[c].id) : Stored'[id] # Damaged /\ Stored'[id] = Stored[id]}
  BY DEF Next
<1>2. PICK c \in Clients : StepOK(c)
  <2>1. CASE backend = "sqlite" /\ Sqlite!Next /\ UNCHANGED jsonlVars
    BY <1>1, <2>1, SqliteStep
  <2>2. CASE backend = "jsonl" /\ Jsonl!Next /\ UNCHANGED sqliteVars
    BY <1>1, <2>2, JsonlStep
  <2> QED BY <2>1, <2>2 DEF Next
<1>3. /\ Types' /\ OpsOK' /\ op \in [Clients -> Ops]
      /\ backend = "sqlite" => SqliteOK'
      /\ backend = "jsonl" => JsonlOK'
      /\ \A d \in Clients : d # c => op'[d] = op[d]
      /\ Outcome(c)
  BY <1>2 DEF StepOK, IInv, Types
<1>4. SteadyOK'
  <2>1. SUFFICES ASSUME NEW d \in Clients, d \in steady'
        PROVE  /\ op'[d].kind = "get"
               /\ \A id \in Candidates(op'[d].id) : Stored'[id] # Damaged
               /\ FoundOK(d)'
    BY <1>1 DEF SteadyOK
  <2>2. /\ op'[d].kind = "get" /\ (d \in steady \/ op[d] = Idle)
        /\ \A id \in Candidates(op'[d].id) : Stored'[id] # Damaged /\ Stored'[id] = Stored[id]
    BY <1>1, <2>1
  <2>3. CASE d # c
    <3>1. op'[d] = op[d] /\ d \in steady
      BY <1>3, <2>2, <2>3, IdleIsOp
    <3> QED BY <1>1, <1>3, <2>2, <3>1, SteadyStays
  <2>4. CASE d = c
    <3>1. CASE op[c] = Idle /\ op'[c].step = 1
      BY <2>2, <2>4, <3>1 DEF FoundOK
    <3>2. CASE op[c].kind = "get" /\ (c \in steady => FoundOK(c)')
      BY <2>2, <2>4, <3>2, IdleIsOp
    <3> QED BY <1>3, <2>2, <2>4, <3>1, <3>2 DEF Outcome
  <2> QED BY <2>2, <2>3, <2>4
<1> QED BY <1>1, <1>2, <1>3, <1>4 DEF IInv

LEMMA StutterIInv == ASSUME IInv, UNCHANGED vars PROVE IInv'
<1>1. UNCHANGED <<backend, db, draft, writer, files, openers, interrupted, overlapped, op, made,
                  answer, steady>>
  BY DEF vars, sqliteVars, jsonlVars
<1>2. Stored' = Stored
  BY <1>1 DEF Stored, Sqlite!Stored, Jsonl!Stored, Sqlite!SpansOf
<1>3. Types' /\ OpsOK'
  BY <1>1 DEF IInv, Types, OpsOK
<1>4. backend' = "sqlite" => SqliteOK'
  BY <1>1 DEF IInv, SqliteOK
<1>5. backend' = "jsonl" => JsonlOK'
  BY <1>1 DEF IInv, JsonlOK, FileOK
<1>6. SteadyOK'
  BY <1>1, <1>2 DEF IInv, SteadyOK, FoundOK, Due
<1> QED BY <1>3, <1>4, <1>5, <1>6 DEF IInv

LEMMA IInvHolds == Spec => []IInv
<1>1. IInv /\ [Next]_vars => IInv'
  BY NextIInv, StutterIInv
<1> QED BY InitIInv, <1>1, PTL DEF Spec

-----------------------------------------------------------------------------
(* The results *)

\* Half a trace is only ever in a file that a save is writing, left by a crash
\* or shared with another save: the tables of the database are consistent
\* whenever they are committed (sqlite.py:72-130, jsonl.py:32-45).
THEOREM DamageHasACauseThm == Spec => []DamageHasACause
<1>1. IInv => DamageHasACause
  <2> SUFFICES ASSUME IInv, NEW id \in TraceIds, Stored[id] = Damaged
               PROVE  /\ backend = "jsonl"
                      /\ openers[id] # {} \/ id \in interrupted \cup overlapped
    BY DEF DamageHasACause
  <2>1. Types
    BY DEF IInv
  <2>2. CASE backend = "sqlite"
    <3>1. Stored = db.traces /\ db.traces[id] \in Records \cup {None}
      BY <2>1, <2>2, StoredIsTraces, TablesAreRecords DEF IInv, SqliteOK, Types
    <3> QED BY <3>1, RecordFacts, TokensAssumption
  <2>3. CASE backend = "jsonl"
    <3>1. Shown(files[id]) = Damaged /\ files[id] \in Files \cup {None} /\ FileOK(id)
      BY <2>1, <2>3, JsonlStored DEF Types, IInv, JsonlOK
    <3>2. files[id] # None /\ ~Jsonl!Complete(files[id])
      BY <3>1, ShownFile, RecordFacts, TokensAssumption DEF Shown
    <3> QED BY <2>3, <3>1, <3>2 DEF FileOK
  <2> QED BY <2>1, <2>2, <2>3 DEF Types
<1> QED BY IInvHolds, <1>1, PTL

\* Either backend does what a trace store promises: a trace changes only to a
\* record that is being saved, is damaged only by a save of it that is under
\* way, alone or beside another, and goes only by a deletion of it
\* (store/base.py:14-42).
THEOREM ImplementsThm == Spec => Implements
<1> DEFINE saving == {op[c].rec : c \in {d \in Clients : op[d].kind = "save"}}
           removing == UNION {IF op[c].kind = "delete" THEN {op[c].id}
                              ELSE IF op[c].kind = "clear" THEN TraceIds ELSE {} : c \in Clients}
<1>1. Init => Promise!Init
  <2> SUFFICES ASSUME Init PROVE Promise!Init
    OBVIOUS
  <2>1. \A c \in Clients : op[c].kind = "idle"
    BY IdleIsOp DEF Init, Sqlite!Init, Sqlite!CallsInit, Sqlite!Idle, Idle
  <2>2. Stored = [id \in TraceIds |-> None]
    <3>1. IInv
      BY InitIInv
    <3>2. CASE backend = "sqlite"
      BY <3>1, <3>2, StoredIsTraces DEF IInv, SqliteOK, Init, Sqlite!Init, Sqlite!Empty
    <3>3. CASE backend = "jsonl"
      BY <3>3, JsonlStored DEF Shown, Init, Jsonl!Init
    <3> QED BY <3>2, <3>3 DEF Init
  <2>3. saving = {} /\ removing = {}
    BY <2>1
  <2> QED BY <2>2, <2>3 DEF Promise!Init
<1>2. ASSUME IInv, Next PROVE [Promise!Next]_(Promise!vars)
  <2>1. PICK c \in Clients : StepOK(c)
    BY <1>2, NextIInv
  <2>2. CASE Stored' = Stored
    BY <2>2 DEF Promise!Next, Promise!Calls
  <2>3. CASE op[c].kind = "save"
             /\ \E x \in {Damaged, op[c].rec} : Stored' = [Stored EXCEPT ![op[c].rec.id] = x]
    <3>1. op[c].rec \in saving
      BY <2>3
    <3> QED BY <2>3, <3>1 DEF Promise!Next, Promise!Store, Promise!Damage
  <2>4. CASE \E ids \in SUBSET (Removes(op[c]) \cap TraceIds) :
               Stored' = [id \in TraceIds |-> IF id \in ids THEN None ELSE Stored[id]]
    <3>1. Removes(op[c]) \subseteq removing
      BY DEF Removes
    <3> QED BY <2>4, <3>1 DEF Promise!Next, Promise!Remove
  <2> QED BY <2>1, <2>2, <2>3, <2>4 DEF StepOK, Effect
<1>3. ASSUME IInv, UNCHANGED vars PROVE UNCHANGED Promise!vars
  <2>1. Stored' = Stored
    BY <1>3 DEF Stored, Sqlite!Stored, Jsonl!Stored, Sqlite!SpansOf, vars, sqliteVars, jsonlVars
  <2> QED BY <1>3, <2>1 DEF Promise!vars, vars
<1>4. IInv /\ [Next]_vars => [Promise!Next]_(Promise!vars)
  BY <1>2, <1>3
<1> QED BY IInvHolds, <1>1, <1>4, PTL DEF Spec, Implements, Promise!Spec

\* get_trace() answers with what is stored, the whole of it, when no trace it
\* may answer with is damaged, and none is written or deleted meanwhile
\* (sqlite.py:135-177, jsonl.py:47-86).
THEOREM UndisturbedGetIsRightThm == Spec => UndisturbedGetIsRight
<1> DEFINE Right == \A c \in steady : op'[c] = Idle /\ answer' # NoAnswer =>
                      answer' \in Expected(op[c].id)
<1>1. ASSUME IInv, Next PROVE Right
  <2> SUFFICES ASSUME NEW d \in steady, op'[d] = Idle, answer' # NoAnswer
               PROVE  answer' \in Expected(op[d].id)
    OBVIOUS
  <2>1. PICK c \in Clients : StepOK(c)
    BY <1>1, NextIInv
  <2>2. d \in Clients /\ op[d].kind = "get" /\ op \in [Clients -> Ops]
    BY <1>1 DEF IInv, Types, SteadyOK
  <2>3. d = c
    BY <2>1, <2>2, IdleIsOp DEF StepOK
  <2> QED BY <2>1, <2>2, <2>3, IdleIsOp DEF StepOK, Outcome
<1>2. ASSUME IInv, UNCHANGED vars PROVE [Right]_vars
  BY <1>2
<1>3. IInv /\ [Next]_vars => [Right]_vars
  BY <1>1, <1>2
<1> QED BY IInvHolds, <1>3, PTL DEF Spec, UndisturbedGetIsRight
================================================================================
