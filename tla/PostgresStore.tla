--------------------------- MODULE PostgresStore ----------------------------
(***************************************************************************)
(* The control plane's store: tables in Postgres behind a connection pool, *)
(* with maps in memory as the fallback.  A method runs to its next await   *)
(* without interruption; what it awaits is a statement that Postgres       *)
(* executes and answers at times of its own, in any order for the          *)
(* connections of the pool, or whose connection breaks before or after it  *)
(* was executed.  A run's row stands for the columns that ON CONFLICT      *)
(* updates; a version names the submission that wrote it.                  *)
(***************************************************************************)
EXTENDS Naturals, SequencesExt

CONSTANTS
  Requests,    \* the store's callers, numbered in their order of arrival
  MaxSpans,    \* bound: spans of one OTLP request
  MaxBreaks,   \* bound: connections that break
  Runs,
  MemoryRecs,  \* the recommendations seedDefaults() puts in memory
  TableRecs,   \* the recommendations the table holds
  Ops,         \* caller -> what it may ask for: [kind |-> "insert", runs |-> ...],
               \*   [kind |-> "apply", rec |-> ...], or a query, [kind |-> ...]
  None

ASSUME PostgresStoreAssumption ==
  /\ Requests = 1..Cardinality(Requests)
  /\ MaxSpans \in Nat \ {0} /\ MaxBreaks \in Nat
  /\ None \notin Requests \X (1..MaxSpans)
  /\ Runs \cap (MemoryRecs \cup TableRecs) = {}
  /\ \A q \in Requests : \A op \in Ops[q] :
       /\ op.kind \in {"insert", "apply", "recommendations", "signals", "health"}
       /\ op.kind = "insert" => op.runs \in Seq(Runs) /\ Len(op.runs) \in 1..MaxSpans

Versions == Requests \X (1..MaxSpans)

VARIABLES
  pool,       \* "none", "open", or "ending" while close() awaits pool.end()
  connected,  \* isConnected
  starting,   \* where init() is: "connecting", "creating" or "done"
  memRuns,    \* inMemoryRuns: run -> version, or None
  memRecs,    \* inMemoryRecommendations: recommendation -> status
  pgRuns,     \* table runs
  pgRecs,     \* table recommendations
  call,       \* caller -> what it asked for and how far it is
  query,      \* version -> what became of the statement its caller awaits
  settled,    \* ghost: runs and recommendations written and answered since
              \*   the last disturbance
  disturbed,  \* ghost: callers that were waiting during a disturbance
  raced       \* ghost: runs written while another write was on its way

dbVars == <<pgRuns, pgRecs>>
memVars == <<memRuns, memRecs>>
storeVars == <<pool, connected, starting, memRuns, memRecs, pgRuns, pgRecs,
               call, query, settled, disturbed, raced>>

Idle == [stage |-> "idle", op |-> None, at |-> 0, before |-> {}, stale |-> {}]

\* The constructor and init()'s call of connect().
Init ==
  /\ pool \in {"none", "open"}
  /\ starting = IF pool = "open" THEN "connecting" ELSE "done"
  /\ connected = FALSE
  /\ memRuns = [r \in Runs |-> None] /\ pgRuns = memRuns
  /\ memRecs = [r \in MemoryRecs |-> "open"]
  /\ pgRecs = [r \in TableRecs |-> "open"]
  /\ call = [q \in Requests |-> Idle]
  /\ query = [v \in Versions |-> "none"]
  /\ settled = {} /\ disturbed = {} /\ raced = {}

Waiting(q) == call[q].stage = "waiting"
Answered(q) == call[q].stage = "answered"
RunOf(v) == call[v[1]].op.runs[v[2]]

\* The writes of run r that Postgres may still execute.
Pending(r) ==
  {v \in Versions : /\ query[v] \in {"sent", "lost"}
                    /\ call[v[1]].op.kind = "insert" /\ RunOf(v) = r}

\* A statement failed, or isConnected changed: what was written before may no
\* longer be where it is read.
Disturb(Q) ==
  /\ settled' = {}
  /\ disturbed' = disturbed \cup Q \cup {q \in Requests : Waiting(q)}

\* this.isConnected && this.pool
Usable == connected /\ pool # "none"

-----------------------------------------------------------------------------
(* The methods, as steps of caller q; p is the progress of its call.         *)

\* await this.pool.query(...), which a pool that is ending rejects.
Send(q, p) ==
  /\ call' = [call EXCEPT ![q] = [p EXCEPT !.stage = "waiting"]]
  /\ query' = [query EXCEPT
                 ![<<q, p.at>>] = IF pool = "open" THEN "sent" ELSE "refused"]
  /\ IF pool = "open"
     THEN UNCHANGED <<settled, disturbed>>
     ELSE Disturb({q})

\* The method returns, having written items and shown stale ones.  Of the two
\* ghosts before and stale the caller keeps what an undisturbed one shows stale
\* although it was written before.
Answer(q, p, items, stale) ==
  /\ call' = [call EXCEPT ![q] =
                [p EXCEPT !.stage = "answered", !.before = {},
                          !.stale = IF q \in disturbed THEN {}
                                    ELSE stale \cap p.before]]
  /\ settled' = IF q \in disturbed THEN settled ELSE settled \cup items
  /\ disturbed' = disturbed \ {q}
  /\ UNCHANGED query

\* The runs numbered from..to of op, kept in memory in their order.
Kept(q, op, from, to) ==
  [r \in Runs |->
     LET at == {i \in from..to : op.runs[i] = r}
     IN  IF at = {} THEN memRuns[r] ELSE <<q, Max(at)>>]

\* insertRun(run), from run number i on: memory first, then Postgres.
\* Without Postgres nothing is awaited, and the rest is kept in one step.
Insert(q, p, i) ==
  LET runs == p.op.runs
  IN  /\ IF Usable
         THEN /\ memRuns' = Kept(q, p.op, i, i)
              /\ Send(q, [p EXCEPT !.at = i])
              /\ raced' = IF Pending(runs[i]) = {}
                          THEN raced \ {runs[i]}
                          ELSE raced \cup {runs[i]}
         ELSE /\ memRuns' = Kept(q, p.op, i, Len(runs))
              /\ Answer(q, p, ToSet(runs), {})
              /\ UNCHANGED raced
      /\ UNCHANGED <<memRecs, connected>>

\* applyRecommendation(), its second half: the copy in memory, if any.
ApplyInMemory(q, p) ==
  LET known == {p.op.rec} \cap MemoryRecs
  IN  /\ memRecs' = [r \in MemoryRecs |->
                       IF r \in known THEN "applied" ELSE memRecs[r]]
      /\ Answer(q, p, known, {})
      /\ UNCHANGED <<memRuns, raced, connected>>

\* What getRecommendations() lists as open, or getGoldenSignals() leaves out.
StaleInMemory(op) ==
  CASE op.kind = "recommendations" ->
         {r \in MemoryRecs : memRecs[r] = "open"}
    [] op.kind = "signals" -> {r \in Runs : memRuns[r] = None}
    [] OTHER -> {}

StaleInTables(op) ==
  CASE op.kind = "recommendations" -> {r \in TableRecs : pgRecs[r] = "open"}
    [] op.kind = "signals" -> {r \in Runs : pgRuns[r] = None}
    [] OTHER -> {}

\* A query method's result without Postgres.
ReadMemory(q, p) ==
  /\ Answer(q, p, {}, StaleInMemory(p.op))
  /\ UNCHANGED <<memVars, raced, connected>>

\* The first step of a method: to its await, or to its end without Postgres.
Call(q, op) ==
  LET p == [Idle EXCEPT !.op = op, !.at = 1, !.before = settled]
  IN  /\ call[q].stage = "idle"
      /\ \A r \in Requests : r < q => call[r].stage # "idle"
      /\ \/ op.kind = "insert" /\ Insert(q, p, 1)
         \/ /\ op.kind # "insert" /\ Usable
            /\ Send(q, p)
            /\ UNCHANGED <<memVars, raced, connected>>
         \/ op.kind = "apply" /\ ~Usable /\ ApplyInMemory(q, p)
         \/ op.kind \notin {"insert", "apply"} /\ ~Usable /\ ReadMemory(q, p)
      /\ UNCHANGED <<pool, starting, dbVars>>

\* Faulty variant: insertRun() does not catch the error, and the handler, rejected,
\* never answers.
InsertReturnsUncaught(q, p) ==
  /\ query[<<q, p.at>>] = "done" /\ p.at = Len(p.op.runs)
  /\ Answer(q, p, ToSet(p.op.runs), {})
  /\ UNCHANGED <<memVars, raced, connected>>

\* insertRun() after its await: an error is only logged.
InsertReturns(q, p) ==
  IF p.at = Len(p.op.runs)
  THEN /\ Answer(q, p, ToSet(p.op.runs), {})
       /\ UNCHANGED <<memVars, raced, connected>>
  ELSE Insert(q, p, p.at + 1)

\* Faulty variant: the number of updated rows is not looked at.
ApplyReturnsUnlessFailed(q, p, ok) ==
  IF ok
  THEN /\ Answer(q, p, {p.op.rec}, {})
       /\ UNCHANGED <<memVars, raced, connected>>
  ELSE ApplyInMemory(q, p)

\* applyRecommendation() after its await.
ApplyReturns(q, p, ok) ==
  IF ok /\ p.op.rec \in TableRecs
  THEN /\ Answer(q, p, {p.op.rec}, {})
       /\ UNCHANGED <<memVars, raced, connected>>
  ELSE ApplyInMemory(q, p)

\* Faulty variant: the maps in memory are taken for a cache of the tables.
ReadReturnsCached(q, p, ok) == ReadMemory(q, p)

\* getRecommendations() and getGoldenSignals() after their await; a table
\* without recommendations is answered from memory as well.
ReadReturns(q, p, ok) ==
  IF ok /\ (p.op.kind = "recommendations" => TableRecs # {})
  THEN /\ Answer(q, p, {}, p.stale)
       /\ UNCHANGED <<memVars, raced, connected>>
  ELSE ReadMemory(q, p)

\* getHealth() after its await: a failed probe ends the use of Postgres.
HealthReturns(q, p, ok) ==
  /\ connected' = (connected /\ ok)
  /\ IF connected' = connected
     THEN Answer(q, p, {}, {})
     ELSE /\ call' = [call EXCEPT ![q] = [p EXCEPT !.stage = "answered",
                                                   !.before = {}, !.stale = {}]]
          /\ Disturb({})
          /\ UNCHANGED query
  /\ UNCHANGED <<memVars, raced>>

Return(q) ==
  LET p == call[q]
      outcome == query[<<q, p.at>>]
      ok == outcome = "done"
  IN  /\ Waiting(q) /\ outcome # "sent"
      /\ \/ p.op.kind = "insert" /\ InsertReturns(q, p)
         \/ p.op.kind = "apply" /\ ApplyReturns(q, p, ok)
         \/ p.op.kind \in {"recommendations", "signals"} /\ ReadReturns(q, p, ok)
         \/ p.op.kind = "health" /\ HealthReturns(q, p, ok)
      /\ UNCHANGED <<pool, starting, dbVars>>

-----------------------------------------------------------------------------
(* init() and close().                                                       *)

\* The connections that the pool has lent out.
Lent ==
  {v \in Versions : Waiting(v[1]) /\ call[v[1]].at = v[2]
                      /\ query[v] \in {"sent", "done"}}

\* init(): connect, create the tables, release the connection.
Connect(ok) ==
  /\ starting = "connecting"
  /\ starting' = IF ok THEN "creating" ELSE "done"
  /\ UNCHANGED <<pool, connected, memVars, dbVars, call, query, settled,
                 disturbed, raced>>

CreateTables(ok) ==
  /\ starting = "creating" /\ starting' = "done"
  /\ connected' = ok
  /\ IF ok THEN Disturb({}) ELSE UNCHANGED <<settled, disturbed>>
  /\ UNCHANGED <<pool, memVars, dbVars, call, query, raced>>

\* close(): pool.end() waits for the connections that are lent out.
BeginClose ==
  /\ pool = "open" /\ pool' = "ending"
  /\ UNCHANGED <<connected, starting, memVars, dbVars, call, query, settled,
                 disturbed, raced>>

\* Faulty variant: pool.end() is not awaited.
EndCloseAtOnce ==
  /\ pool = "ending" /\ pool' = "none" /\ connected' = FALSE
  /\ IF connected THEN Disturb({}) ELSE UNCHANGED <<settled, disturbed>>
  /\ UNCHANGED <<starting, memVars, dbVars, call, query, raced>>

EndClose ==
  /\ pool = "ending" /\ starting = "done" /\ Lent = {}
  /\ pool' = "none" /\ connected' = FALSE
  /\ IF connected THEN Disturb({}) ELSE UNCHANGED <<settled, disturbed>>
  /\ UNCHANGED <<starting, memVars, dbVars, call, query, raced>>

-----------------------------------------------------------------------------
(* Postgres.                                                                 *)

\* Faulty variant: ON CONFLICT DO NOTHING.
StoredOnce(v) == [pgRuns EXCEPT ![RunOf(v)] = IF @ = None THEN v ELSE @]

\* INSERT ... ON CONFLICT DO UPDATE.
Stored(v) == [pgRuns EXCEPT ![RunOf(v)] = v]

\* The statement takes effect, also one whose caller has lost its connection.
Execute(v) ==
  LET op == call[v[1]].op
  IN  /\ \/ query[v] = "sent" /\ query' = [query EXCEPT ![v] = "done"]
         \/ /\ query[v] = "lost" /\ op.kind \in {"insert", "apply"}
            /\ query' = [query EXCEPT ![v] = "void"]
      /\ pgRuns' = IF op.kind = "insert"
                   THEN Stored(v) ELSE pgRuns
      /\ pgRecs' = [r \in TableRecs |->
                      IF op.kind = "apply" /\ op.rec = r
                      THEN "applied" ELSE pgRecs[r]]
      /\ call' = [call EXCEPT ![v[1]].stale = IF query[v] = "lost" THEN {}
                                            ELSE StaleInTables(op)]
      /\ UNCHANGED <<pool, connected, starting, memVars, settled, disturbed,
                     raced>>

Broken == {v \in Versions : query[v] \in {"lost", "void"}}

\* The connection breaks before the statement was executed, or after.
Break(v) ==
  /\ v \in Lent /\ Cardinality(Broken) < MaxBreaks
  /\ query' = [query EXCEPT ![v] = IF @ = "sent" THEN "lost" ELSE "void"]
  /\ Disturb({})
  /\ UNCHANGED <<pool, connected, starting, memVars, dbVars, call, raced>>

Start(q) == \E op \in Ops[q] : Call(q, op)

StoreNext ==
  \/ \E q \in Requests : Start(q) \/ Return(q)
  \/ \E ok \in BOOLEAN : Connect(ok) \/ CreateTables(ok)
  \/ BeginClose \/ EndClose
  \/ \E v \in Versions : Execute(v) \/ Break(v)

-----------------------------------------------------------------------------
(* Types of the state.                                                       *)
StoreTypeOK ==
  /\ pool \in {"none", "open", "ending"} /\ connected \in BOOLEAN
  /\ starting \in {"connecting", "creating", "done"}
  /\ memRuns \in [Runs -> Versions \cup {None}]
  /\ pgRuns \in [Runs -> Versions \cup {None}]
  /\ memRecs \in [MemoryRecs -> {"open", "applied"}]
  /\ pgRecs \in [TableRecs -> {"open", "applied"}]
  /\ \A q \in Requests :
       /\ call[q].stage \in {"idle", "waiting", "answered"}
       /\ call[q].op \in Ops[q] \cup {None}
       /\ call[q].at \in 0..MaxSpans
       /\ call[q].before \subseteq Runs \cup MemoryRecs \cup TableRecs
       /\ call[q].stale \subseteq Runs \cup MemoryRecs \cup TableRecs
  /\ query \in [Versions -> {"none", "sent", "done", "lost", "void", "refused"}]
  /\ settled \subseteq Runs \cup MemoryRecs \cup TableRecs
  /\ disturbed \subseteq Requests /\ raced \subseteq Runs

\* A store that uses Postgres has a pool, also when close() comes while init()
\* is still creating the tables (db.ts:221, :567).
ConnectedHasPool == connected => pool # "none"

\* A run that was written undisturbed, with no other write of it on its way,
\* is in Postgres as it is in memory (db.ts:401-439).
StoresAgree ==
  \A r \in (settled \cap Runs) \ raced :
    connected /\ Pending(r) = {} => pgRuns[r] = memRuns[r]

\* A reader that was not disturbed sees what was written, and answered, before
\* it called: the run is counted, and the applied recommendation is not listed
\* as open, wherever they were written and are read (db.ts:260-399).
ReadsFollowWrites ==
  \A q \in Requests : Answered(q) => call[q].stale = {}
=============================================================================
