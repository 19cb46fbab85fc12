------------------------- MODULE ControlPlane_proofs -------------------------
(***************************************************************************)
(* What the control plane promises its callers, for any requests, runs and *)
(* recommendations, and any interleaving of init(), close(), the answers   *)
(* of Postgres and the connections that break.                             *)
(*                                                                         *)
(* The pool: close() may come while init() still creates the tables, and   *)
(* init() then sets isConnected; the pool outlives that because pool.end() *)
(* waits for init()'s connection.                                          *)
(*                                                                         *)
(* The two stores: what a caller wrote undisturbed was executed by         *)
(* Postgres if it is connected, and is in memory if it is not; and the     *)
(* version that memory has of a run is the last that Postgres executes, if *)
(* no two writes of it were on their way at once.                          *)
(***************************************************************************)
EXTENDS ControlPlane, WellFoundedInduction, TLAPS

PoolOK ==
  /\ connected => starting = "done" /\ pool # "none"
  /\ starting # "done" => pool # "none"

Items      == Runs \cup MemoryRecs \cup TableRecs
Operations == UNION {Ops[q] : q \in Requests}
Progress == [stage  : {"idle", "waiting", "answered"},
             op     : Operations \cup {None},
             at     : 0..MaxSpans,
             before : SUBSET Items,
             stale  : SUBSET Items]

Types ==
  /\ pool \in {"none", "open", "ending"} /\ connected \in BOOLEAN
  /\ starting \in {"connecting", "creating", "done"}
  /\ memRuns \in [Runs -> Versions \cup {None}]
  /\ pgRuns \in [Runs -> Versions \cup {None}]
  /\ memRecs \in [MemoryRecs -> {"open", "applied"}]
  /\ pgRecs \in [TableRecs -> {"open", "applied"}]
  /\ call \in [Requests -> Progress]
  /\ query \in [Versions -> {"none", "sent", "done", "lost", "void", "refused"}]
  /\ settled \subseteq Items /\ disturbed \subseteq Requests /\ raced \subseteq Runs

\* How far the call p of caller q is, and that it showed nothing stale.
CallOK(q, p) ==
  /\ p.stage = "idle" => p = Idle
  /\ p.stage # "idle" =>
       /\ p.op \in Ops[q] /\ p.at >= 1
       /\ p.op.kind = "insert" => p.at <= Len(p.op.runs)
       /\ p.op.kind # "insert" => p.at = 1
  /\ p.stage = "answered" => p.stale = {}

CallsOK == \A q \in Requests : CallOK(q, call[q])

\* A statement that was not answered is awaited by its caller.
QueriesOK ==
  /\ \A v \in Versions :
       /\ query[v] = "sent" => Waiting(v[1]) /\ call[v[1]].at = v[2]
       /\ query[v] # "none" => /\ starting = "done" /\ call[v[1]].stage # "idle"
                               /\ v[2] <= call[v[1]].at
  /\ \A q \in Requests : Waiting(q) => query[<<q, call[q].at>>] # "none"

\* The version in memory is one that an insert wrote.
Wrote(v, r) ==
  /\ call[v[1]].stage # "idle" /\ call[v[1]].op.kind = "insert"
  /\ v[2] <= Len(call[v[1]].op.runs) /\ RunOf(v) = r

MemoryOK == \A r \in Runs : memRuns[r] # None => Wrote(memRuns[r], r)

\* Postgres has what it has executed.
ExecutedOK ==
  \A v \in Versions : query[v] \in {"done", "void"} =>
    LET op == call[v[1]].op IN
    /\ op.kind = "insert" => pgRuns[RunOf(v)] # None
    /\ op.kind = "apply" /\ op.rec \in TableRecs => pgRecs[op.rec] = "applied"

\* Only the version in memory may still be executed, and no other was since.
AgreeOn(r) ==
  /\ Pending(r) \subseteq {memRuns[r]}
  /\ memRuns[r] # None /\ query[memRuns[r]] \in {"done", "void"} => pgRuns[r] = memRuns[r]

AgreeOK == connected => \A r \in Runs \ raced : AgreeOn(r)

Sent == {"sent", "done", "lost", "void"}
WasSent(r) == memRuns[r] # None /\ query[memRuns[r]] \in Sent

InTables(x) ==
  /\ x \in TableRecs => pgRecs[x] = "applied"
  /\ x \in Runs => pgRuns[x] # None
  /\ x \in MemoryRecs \ TableRecs => memRecs[x] = "applied"

InMemory(x) ==
  /\ x \in MemoryRecs => memRecs[x] = "applied"
  /\ x \in Runs => memRuns[x] # None

\* What is settled is where it is read.
IsSettled(x) ==
  /\ connected => InTables(x) /\ (x \in Runs => WasSent(x))
  /\ ~connected => InMemory(x)

SettledOK == \A x \in settled : IsSettled(x)

\* What an undisturbed caller relies on while it waits.
Relies(q, p) ==
  /\ connected
  /\ \A j \in 1..(p.at - 1) : query[<<q, j>>] = "done"
  /\ query[<<q, p.at>>] \in {"sent", "done"}
  /\ p.op.kind = "insert" => \A j \in 1..p.at : WasSent(p.op.runs[j])
  /\ \A x \in p.before : InTables(x)
  /\ p.op.kind \in {"recommendations", "signals"} /\ query[<<q, p.at>>] = "done"
       => p.stale \cap p.before = {}

UndisturbedOK == \A q \in Requests \ disturbed : Waiting(q) => Relies(q, call[q])

StoreInv ==
  /\ PoolOK /\ Types /\ CallsOK /\ QueriesOK /\ MemoryOK /\ ExecutedOK
  /\ AgreeOK /\ SettledOK /\ UndisturbedOK

-----------------------------------------------------------------------------
(* The operators *)

\* A nonempty set of naturals up to a bound has a greatest element.
LEMMA GreatestNatural ==
  ASSUME NEW n \in Nat, NEW S \in SUBSET (0..n), S # {}
  PROVE  Max(S) \in S /\ \A x \in S : x <= Max(S)
<1> DEFINE Above == {m \in Nat : \A x \in S : x <= m}
<1>1. n \in Above
  OBVIOUS
<1>2. PICK m \in Above : \A k \in Above : ~(<<k, m>> \in OpToRel(<, Nat))
  BY <1>1, NatLessThanWellFounded, WFMin
<1>3. \A k \in Above : ~(k < m)
  BY <1>2 DEF OpToRel
<1>4. m \in S
  <2> SUFFICES ASSUME m \notin S PROVE FALSE
    OBVIOUS
  <2>1. \A x \in S : x <= m - 1 /\ m - 1 \in Nat
    OBVIOUS
  <2>2. m - 1 \in Above
    BY <2>1
  <2> QED BY <1>3, <2>2
<1>5. \E x \in S : \A y \in S : x >= y
  BY <1>4
<1>6. Max(S) \in S /\ \A y \in S : Max(S) >= y
  BY <1>5 DEF Max
<1> QED BY <1>6

LEMMA VersionFacts ==
  /\ \A v \in Versions : v[1] \in Requests /\ v[2] \in 1..MaxSpans /\ v = <<v[1], v[2]>>
                         /\ v # None
  /\ \A q \in Requests, i \in 1..MaxSpans : <<q, i>> \in Versions
BY PostgresStoreAssumption DEF Versions

\* An insert has runs, of the kinds of requests only it does.
LEMMA InsertFacts ==
  ASSUME NEW q \in Requests, NEW op \in Ops[q], op.kind = "insert"
  PROVE  /\ Len(op.runs) \in 1..MaxSpans /\ DOMAIN op.runs = 1..Len(op.runs)
         /\ \A i \in 1..Len(op.runs) : op.runs[i] \in Runs
         /\ \A x : x \in ToSet(op.runs) <=> \E i \in 1..Len(op.runs) : op.runs[i] = x
BY PostgresStoreAssumption DEF ToSet

IsKept(m, q, op, from, to) ==
  /\ m \in [Runs -> Versions \cup {None}]
  /\ \A r \in Runs :
       \/ \E i \in from..to : op.runs[i] = r /\ m[r] = <<q, i>>
       \/ m[r] = memRuns[r] /\ \A i \in from..to : op.runs[i] # r

LEMMA KeptFacts ==
  ASSUME Types, NEW q \in Requests, NEW op \in Ops[q], op.kind = "insert",
         NEW from \in 1..Len(op.runs), NEW to \in from..Len(op.runs)
  PROVE  IsKept(Kept(q, op, from, to), q, op, from, to)
<1> DEFINE m == Kept(q, op, from, to)
<1>1. Len(op.runs) \in 1..MaxSpans
  BY InsertFacts
<1>2. ASSUME NEW r \in Runs
      PROVE  \/ \E i \in from..to : op.runs[i] = r /\ m[r] = <<q, i>>
             \/ m[r] = memRuns[r] /\ \A i \in from..to : op.runs[i] # r
  <2> DEFINE at == {i \in from..to : op.runs[i] = r}
  <2>1. CASE at = {}
    BY <2>1 DEF Kept
  <2>2. CASE at # {}
    <3>1. at \in SUBSET (0..to) /\ to \in Nat
      BY <1>1
    <3>2. Max(at) \in at
      BY <2>2, <3>1, GreatestNatural
    <3>3. m[r] = <<q, Max(at)>>
      BY <2>2 DEF Kept
    <3> QED BY <3>2, <3>3
  <2> QED BY <2>1, <2>2
<1>3. ASSUME NEW r \in Runs PROVE m[r] \in Versions \cup {None}
  <2> HIDE DEF m
  <2>1. CASE m[r] = memRuns[r]
    BY <2>1 DEF Types
  <2>2. CASE \E i \in from..to : m[r] = <<q, i>>
    <3>1. PICK i \in from..to : m[r] = <<q, i>>
      BY <2>2
    <3>2. i \in 1..MaxSpans
      BY <1>1, PostgresStoreAssumption
    <3> QED BY <3>1, <3>2, VersionFacts
  <2> QED BY <1>2, <2>1, <2>2
<1>4. m \in [Runs -> Versions \cup {None}]
  <2>1. m = [r \in Runs |-> m[r]]
    BY DEF Kept
  <2> HIDE DEF m
  <2> QED BY <1>3, <2>1
<1> QED BY <1>2, <1>4 DEF IsKept

LEMMA IdleFacts ==
  Idle \in Progress /\ Idle.stage = "idle" /\ Idle.stale = {} /\ Idle.before = {}
BY PostgresStoreAssumption DEF Idle, Progress

\* A call that waits, advances, or shows what Postgres answered.
LEMMA CallWaits ==
  ASSUME NEW p \in Progress
  PROVE  LET w == [p EXCEPT !.stage = "waiting"]
         IN  /\ w \in Progress /\ w.stage = "waiting" /\ w.op = p.op /\ w.at = p.at
             /\ w.before = p.before /\ w.stale = p.stale
BY DEF Progress

LEMMA CallAdvances ==
  ASSUME NEW p \in Progress, NEW at \in 0..MaxSpans
  PROVE  LET w == [p EXCEPT !.at = at]
         IN  /\ w \in Progress /\ w.stage = p.stage /\ w.op = p.op /\ w.at = at
             /\ w.before = p.before /\ w.stale = p.stale
BY DEF Progress

LEMMA CallShows ==
  ASSUME NEW p \in Progress, NEW stale \in SUBSET Items
  PROVE  LET w == [p EXCEPT !.stale = stale]
         IN  /\ w \in Progress /\ w.stage = p.stage /\ w.op = p.op /\ w.at = p.at
             /\ w.before = p.before /\ w.stale = stale
BY DEF Progress

-----------------------------------------------------------------------------
(* The steps of a caller *)

\* What call p of caller q may be when it goes on.
GoesOn(q, p) ==
  /\ p.op \in Ops[q] /\ p.at \in 1..MaxSpans
  /\ p.op.kind = "insert" => p.at <= Len(p.op.runs)
  /\ p.op.kind # "insert" => p.at = 1
  /\ call[q].stage # "idle" => call[q].op = p.op

\* A statement is sent for a caller whose earlier ones are answered.
LEMMA SendOK ==
  ASSUME StoreInv, NEW q \in Requests, NEW p \in Progress, GoesOn(q, p), connected,
         Send(q, p), UNCHANGED <<pool, starting, connected, memRecs, pgRuns, pgRecs>>,
         query[<<q, p.at>>] = "none",
         \A j \in 1..MaxSpans : query[<<q, j>>] # "none" => j < p.at /\ query[<<q, j>>] # "sent",
         q \notin disturbed =>
           /\ \A j \in 1..(p.at - 1) : query[<<q, j>>] = "done"
           /\ p.op.kind = "insert" => \A j \in 1..(p.at - 1) : WasSent(p.op.runs[j])
           /\ \A x \in p.before : InTables(x),
         p.op.kind = "insert" =>
           /\ memRuns' = [memRuns EXCEPT ![p.op.runs[p.at]] = <<q, p.at>>]
           /\ raced' = IF Pending(p.op.runs[p.at]) = {} THEN raced \ {p.op.runs[p.at]}
                       ELSE raced \cup {p.op.runs[p.at]},
         p.op.kind # "insert" => memRuns' = memRuns /\ raced' = raced
  PROVE  StoreInv'
<1> DEFINE w == [p EXCEPT !.stage = "waiting"]
           v == <<q, p.at>>
           run == p.op.runs[p.at]
<1>1. /\ PoolOK /\ Types /\ CallsOK /\ QueriesOK /\ MemoryOK /\ ExecutedOK
      /\ AgreeOK /\ SettledOK /\ UndisturbedOK
      /\ starting = "done" /\ pool # "none" /\ v \in Versions
      /\ p.op \in Ops[q] /\ p.at \in 1..MaxSpans
  BY VersionFacts DEF StoreInv, PoolOK, GoesOn
<1>2. /\ w \in Progress /\ w.stage = "waiting" /\ w.op = p.op /\ w.at = p.at
      /\ w.before = p.before /\ w.stale = p.stale
  BY CallWaits
<1>3. call' = [call EXCEPT ![q] = w]
  BY DEF Send
<1> HIDE DEF w
<1>4. call'[q] = w /\ \A c \in Requests : c # q => call'[c] = call[c]
  BY <1>1, <1>3 DEF Types
<1>5. /\ query' \in [Versions -> {"none", "sent", "done", "lost", "void", "refused"}]
      /\ query'[v] = IF pool = "open" THEN "sent" ELSE "refused"
      /\ \A u \in Versions : u # v => query'[u] = query[u]
  BY <1>1 DEF Send, Types
<1>6. /\ pool = "open" => settled' = settled /\ disturbed' = disturbed
      /\ pool # "open" => /\ settled' = {} /\ q \in disturbed'
                          /\ \A c \in Requests : Waiting(c) => c \in disturbed'
      /\ settled' \subseteq Items /\ disturbed' \subseteq Requests
  BY <1>1 DEF Send, Disturb, Types
<1>7. \A c \in Requests : call[c].stage # "idle" =>
        call'[c].op = call[c].op /\ call'[c].stage # "idle"
  BY <1>2, <1>4 DEF GoesOn
<1>8. p.op.kind = "insert" =>
        /\ run \in Runs /\ p.at <= Len(p.op.runs)
        /\ memRuns'[run] = v /\ \A r \in Runs : r # run => memRuns'[r] = memRuns[r]
        /\ memRuns' \in [Runs -> Versions \cup {None}] /\ raced' \subseteq Runs
  BY <1>1, InsertFacts DEF GoesOn, Types
<1>9. Types' /\ PoolOK'
  <2>1. memRuns' \in [Runs -> Versions \cup {None}] /\ raced' \subseteq Runs
    BY <1>1, <1>8 DEF Types
  <2>2. call' \in [Requests -> Progress]
    BY <1>1, <1>2, <1>3 DEF Types
  <2> QED BY <1>1, <1>5, <1>6, <2>1, <2>2 DEF Types, PoolOK
<1>10. CallsOK'
  <2>1. CallOK(q, w)
    BY <1>2 DEF CallOK, GoesOn
  <2> QED BY <1>1, <1>4, <2>1 DEF CallsOK, CallOK
<1>11. \A u \in Versions : u # v /\ query[u] # "none" =>
        /\ call[u[1]].stage # "idle" /\ u[1] \in Requests
        /\ u[1] = q => query[u] # "sent" /\ u[2] < p.at
  BY <1>1, VersionFacts DEF QueriesOK
<1>12. QueriesOK'
  <2>1. ASSUME NEW u \in Versions
        PROVE  /\ query'[u] = "sent" => Waiting(u[1])' /\ call'[u[1]].at = u[2]
               /\ query'[u] # "none" => /\ starting' = "done" /\ call'[u[1]].stage # "idle"
                                        /\ u[2] <= call'[u[1]].at
    <3>1. CASE u = v
      BY <1>1, <1>2, <1>4, <3>1 DEF Waiting
    <3>2. CASE u # v
      <4>1. query'[u] = query[u] /\ u[1] \in Requests /\ u[2] \in 1..MaxSpans
        BY <1>5, <3>2, VersionFacts
      <4>2. CASE u[1] = q
        BY <1>1, <1>2, <1>4, <1>11, <3>2, <4>1, <4>2, PostgresStoreAssumption
      <4>3. CASE u[1] # q
        BY <1>1, <1>4, <4>1, <4>3 DEF QueriesOK, Waiting
      <4> QED BY <4>2, <4>3
    <3> QED BY <3>1, <3>2
  <2>2. ASSUME NEW c \in Requests, Waiting(c)' PROVE query'[<<c, call'[c].at>>] # "none"
    <3>1. CASE c = q
      BY <1>2, <1>4, <1>5, <3>1
    <3>2. CASE c # q
      <4>1. Waiting(c) /\ call'[c] = call[c] /\ query[<<c, call[c].at>>] # "none"
        BY <1>1, <1>4, <2>2, <3>2 DEF Waiting, QueriesOK
      <4>2. call[c].at \in 1..MaxSpans
        BY <1>1, <4>1, InsertFacts, PostgresStoreAssumption
           DEF Types, Progress, CallsOK, CallOK, Waiting
      <4>3. <<c, call[c].at>> \in Versions /\ <<c, call[c].at>> # v
        BY <3>2, <4>2, VersionFacts
      <4> QED BY <1>5, <4>1, <4>3
    <3> QED BY <3>1, <3>2
  <2> QED BY <2>1, <2>2 DEF QueriesOK
<1>13. MemoryOK'
  <2> SUFFICES ASSUME NEW r \in Runs, memRuns'[r] # None PROVE Wrote(memRuns[r], r)'
    BY DEF MemoryOK
  <2>1. CASE p.op.kind = "insert" /\ r = run
    <3>1. memRuns'[r] = v /\ v[1] = q /\ v[2] = p.at
      BY <1>8, <2>1
    <3>2. call'[q].stage # "idle" /\ call'[q].op = p.op /\ p.at <= Len(p.op.runs)
      BY <1>2, <1>4, <1>8, <2>1
    <3> QED BY <2>1, <3>1, <3>2 DEF Wrote, RunOf
  <2>2. CASE ~(p.op.kind = "insert" /\ r = run)
    <3>1. memRuns'[r] = memRuns[r]
      BY <1>8, <2>2
    <3>2. memRuns[r] \in Versions /\ Wrote(memRuns[r], r)
      BY <1>1, <3>1 DEF MemoryOK, Types
    <3> QED BY <1>7, <3>1, <3>2, VersionFacts DEF Wrote, RunOf
  <2> QED BY <2>1, <2>2
<1>14. ExecutedOK'
  <2> SUFFICES ASSUME NEW u \in Versions, query'[u] \in {"done", "void"}
               PROVE  LET op == call'[u[1]].op IN
                      /\ op.kind = "insert" => pgRuns'[RunOf(u)'] # None
                      /\ op.kind = "apply" /\ op.rec \in TableRecs => pgRecs'[op.rec] = "applied"
    BY DEF ExecutedOK
  <2>1. u # v /\ query[u] = query'[u]
    BY <1>5
  <2>2. call'[u[1]].op = call[u[1]].op
    BY <1>7, <1>11, <2>1
  <2> QED BY <1>1, <2>1, <2>2 DEF ExecutedOK, RunOf
\* The version that memory has is not the new one, unless it is of its run.
<1>15. \A r \in Runs : ~(p.op.kind = "insert" /\ r = run) =>
         memRuns'[r] = memRuns[r] /\ (memRuns[r] # None => memRuns[r] \in Versions \ {v})
  <2> SUFFICES ASSUME NEW r \in Runs, ~(p.op.kind = "insert" /\ r = run)
               PROVE  memRuns'[r] = memRuns[r] /\ (memRuns[r] # None => memRuns[r] \in Versions \ {v})
    OBVIOUS
  <2>1. memRuns'[r] = memRuns[r]
    BY <1>8
  <2>2. memRuns[r] # v
    <3> SUFFICES ASSUME memRuns[r] = v PROVE FALSE
      OBVIOUS
    <3>1. Wrote(v, r)
      BY <1>1, VersionFacts DEF MemoryOK
    <3>2. call[q].op = p.op /\ p.op.kind = "insert" /\ p.op.runs[p.at] = r
      BY <3>1 DEF Wrote, RunOf, GoesOn
    <3> QED BY <3>2
  <2> QED BY <1>1, <2>1, <2>2 DEF Types
<1>16. AgreeOK'
  <2> SUFFICES ASSUME NEW r \in Runs, r \notin raced' PROVE AgreeOn(r)'
    BY DEF AgreeOK
  <2>1. \A u \in Pending(r)' : (u = v /\ p.op.kind = "insert" /\ run = r) \/ u \in Pending(r)
    <3> SUFFICES ASSUME NEW u \in Versions, query'[u] \in {"sent", "lost"},
                        call'[u[1]].op.kind = "insert", RunOf(u)' = r
                 PROVE  (u = v /\ p.op.kind = "insert" /\ run = r) \/ u \in Pending(r)
      BY DEF Pending
    <3>1. CASE u = v
      BY <1>2, <1>4, <3>1 DEF RunOf
    <3>2. CASE u # v
      <4>1. query[u] = query'[u] /\ call'[u[1]].op = call[u[1]].op
        BY <1>5, <1>7, <1>11, <3>2
      <4> QED BY <4>1 DEF Pending, RunOf
    <3> QED BY <3>1, <3>2
  <2>2. CASE p.op.kind = "insert" /\ r = run
    <3>1. Pending(r) = {}
      BY <2>2
    <3> QED BY <1>5, <1>8, <2>1, <2>2, <3>1 DEF AgreeOn
  <2>3. CASE ~(p.op.kind = "insert" /\ r = run)
    <3>1. r \notin raced /\ AgreeOn(r)
      BY <1>1, <2>3 DEF AgreeOK
    <3>2. memRuns'[r] = memRuns[r] /\ (memRuns[r] # None => memRuns[r] \in Versions \ {v})
      BY <1>15, <2>3
    <3>3. Pending(r)' \subseteq Pending(r)
      BY <2>1, <2>3
    <3> QED BY <1>5, <3>1, <3>2, <3>3 DEF AgreeOn
  <2> QED BY <2>2, <2>3
<1>17. \A x : InTables(x) => InTables(x)'
  BY DEF InTables
<1>18. ASSUME NEW r \in Runs, WasSent(r), pool = "open" PROVE WasSent(r)'
  <2>1. CASE p.op.kind = "insert" /\ r = run
    BY <1>1, <1>5, <1>8, <1>18, <2>1, VersionFacts DEF WasSent, Sent
  <2>2. CASE ~(p.op.kind = "insert" /\ r = run)
    BY <1>5, <1>15, <1>18, <2>2 DEF WasSent
  <2> QED BY <2>1, <2>2
<1>19. SettledOK'
  BY <1>1, <1>6, <1>17, <1>18 DEF SettledOK, IsSettled
<1>20. UndisturbedOK'
  <2> SUFFICES ASSUME NEW c \in Requests, c \notin disturbed', Waiting(c)'
               PROVE  Relies(c, call[c])'
    BY DEF UndisturbedOK
  <2>1. CASE c = q
    <3>1. pool = "open" /\ q \notin disturbed /\ query'[v] = "sent"
      BY <1>5, <1>6, <2>1
    <3>2. \A j \in 1..(p.at - 1) : <<q, j>> \in Versions /\ <<q, j>> # v
      BY <1>1, VersionFacts, PostgresStoreAssumption
    <3>3. p.op.kind = "insert" => \A j \in 1..p.at : WasSent(p.op.runs[j])'
      <4> SUFFICES ASSUME p.op.kind = "insert", NEW j \in 1..p.at
                   PROVE  WasSent(p.op.runs[j])'
        OBVIOUS
      <4>1. p.op.runs[j] \in Runs
        BY <1>1, <1>8, InsertFacts
      <4>2. CASE j = p.at
        BY <1>1, <1>8, <3>1, <4>2, VersionFacts DEF WasSent, Sent
      <4>3. CASE j # p.at
        <5>1. j \in 1..(p.at - 1)
          BY <1>1, <4>3
        <5> QED BY <1>18, <3>1, <4>1, <5>1
      <4> QED BY <4>2, <4>3
    <3> QED BY <1>2, <1>4, <1>5, <1>17, <2>1, <3>1, <3>2, <3>3 DEF Relies
  <2>2. CASE c # q
    <3>1. pool = "open" /\ c \notin disturbed /\ call'[c] = call[c] /\ Relies(c, call[c])
      BY <1>1, <1>4, <1>6, <2>2 DEF UndisturbedOK, Waiting
    <3>2. /\ call[c].at \in 1..MaxSpans /\ call[c].op \in Ops[c]
          /\ call[c].op.kind = "insert" => call[c].at <= Len(call[c].op.runs)
      BY <1>1, <2>2, <3>1, PostgresStoreAssumption
         DEF Types, Progress, CallsOK, CallOK, Waiting
    <3>3. \A j \in 1..call[c].at : query'[<<c, j>>] = query[<<c, j>>]
      BY <1>5, <2>2, <3>2, VersionFacts, PostgresStoreAssumption
    <3>4. call[c].op.kind = "insert" => \A j \in 1..call[c].at : call[c].op.runs[j] \in Runs
      BY <3>2, InsertFacts, PostgresStoreAssumption
    <3>5. query'[<<c, call[c].at>>] = query[<<c, call[c].at>>]
      BY <3>2, <3>3
    <3>6. \A j \in 1..(call[c].at - 1) : query'[<<c, j>>] = query[<<c, j>>]
      BY <3>2, <3>3
    <3> QED BY <1>17, <1>18, <3>1, <3>4, <3>5, <3>6 DEF Relies
  <2> QED BY <2>1, <2>2
<1> QED BY <1>9, <1>10, <1>12, <1>13, <1>14, <1>16, <1>19, <1>20 DEF StoreInv

\* A caller is answered.
LEMMA AnswerOK ==
  ASSUME StoreInv, NEW q \in Requests, NEW p \in Progress, GoesOn(q, p),
         NEW items \in SUBSET Items, NEW stale \in SUBSET Items,
         Answer(q, p, items, stale),
         UNCHANGED <<pool, starting, connected, pgRuns, pgRecs, raced>>,
         \A j \in 1..MaxSpans : query[<<q, j>>] # "none" => j <= p.at /\ query[<<q, j>>] # "sent",
         memRecs' \in [MemoryRecs -> {"open", "applied"}],
         \A r \in MemoryRecs : memRecs[r] = "applied" => memRecs'[r] = "applied",
         memRuns' \in [Runs -> Versions \cup {None}],
         \A r \in Runs :
           \/ memRuns'[r] = memRuns[r]
           \/ /\ ~connected /\ p.op.kind = "insert"
              /\ \E i \in 1..Len(p.op.runs) : p.op.runs[i] = r /\ memRuns'[r] = <<q, i>>,
         q \notin disturbed => stale \cap p.before = {} /\ \A x \in items : IsSettled(x)'
  PROVE  StoreInv'
<1> DEFINE show == IF q \in disturbed THEN {} ELSE stale \cap p.before
<1>1. /\ PoolOK /\ Types /\ CallsOK /\ QueriesOK /\ MemoryOK /\ ExecutedOK
      /\ AgreeOK /\ SettledOK /\ UndisturbedOK
      /\ p.op \in Ops[q] /\ p.at \in 1..MaxSpans
  BY DEF StoreInv, GoesOn
<1>2. PICK none \in SUBSET Items : none = {}
  OBVIOUS
<1> DEFINE a == [p EXCEPT !.stage = "answered", !.before = {}, !.stale = none]
<1>3. /\ a \in Progress /\ a.stage = "answered" /\ a.op = p.op /\ a.at = p.at /\ a.stale = none
  <2>1. "answered" \in {"idle", "waiting", "answered"} /\ {} \in SUBSET Items
    OBVIOUS
  <2> QED BY <2>1, Zenon DEF Progress
<1>4. /\ call' = [call EXCEPT ![q] = a] /\ query' = query
      /\ settled' = IF q \in disturbed THEN settled ELSE settled \cup items
      /\ disturbed' = disturbed \ {q}
  <2>1. show = none
    BY <1>2
  <2>2. call' = [call EXCEPT ![q] = [p EXCEPT !.stage = "answered", !.before = {}, !.stale = show]]
    BY DEF Answer
  <2> HIDE DEF show
  <2> QED BY <2>1, <2>2 DEF Answer
<1> HIDE DEF a
<1>5. call'[q] = a /\ \A c \in Requests : c # q => call'[c] = call[c]
  BY <1>1, <1>4 DEF Types
<1>6. \A c \in Requests : call[c].stage # "idle" =>
        call'[c].op = call[c].op /\ call'[c].stage # "idle"
  BY <1>3, <1>5 DEF GoesOn
<1>7. Types' /\ PoolOK'
  <2>1. call' \in [Requests -> Progress]
    BY <1>1, <1>3, <1>4 DEF Types
  <2>2. settled' \subseteq Items /\ disturbed' \subseteq Requests
    BY <1>1, <1>4 DEF Types
  <2> QED BY <1>1, <1>4, <2>1, <2>2 DEF Types, PoolOK
<1>8. CallsOK'
  <2>1. CallOK(q, a)
    BY <1>1, <1>2, <1>3 DEF CallOK, GoesOn
  <2> QED BY <1>1, <1>5, <2>1 DEF CallsOK
<1>9. QueriesOK'
  <2>1. ASSUME NEW u \in Versions
        PROVE  /\ query'[u] = "sent" => Waiting(u[1])' /\ call'[u[1]].at = u[2]
               /\ query'[u] # "none" => /\ starting' = "done" /\ call'[u[1]].stage # "idle"
                                        /\ u[2] <= call'[u[1]].at
    <3>1. u[1] \in Requests /\ u[2] \in 1..MaxSpans /\ u = <<u[1], u[2]>>
      BY VersionFacts
    <3>2. CASE u[1] = q
      BY <1>1, <1>3, <1>4, <1>5, <3>1, <3>2 DEF QueriesOK
    <3>3. CASE u[1] # q
      BY <1>1, <1>4, <1>5, <3>1, <3>3 DEF QueriesOK, Waiting
    <3> QED BY <3>2, <3>3
  <2>2. ASSUME NEW c \in Requests, Waiting(c)' PROVE query'[<<c, call'[c].at>>] # "none"
    BY <1>1, <1>3, <1>4, <1>5, <2>2 DEF Waiting, QueriesOK
  <2> QED BY <2>1, <2>2 DEF QueriesOK
<1>10. MemoryOK'
  <2> SUFFICES ASSUME NEW r \in Runs, memRuns'[r] # None PROVE Wrote(memRuns[r], r)'
    BY DEF MemoryOK
  <2>1. CASE memRuns'[r] = memRuns[r]
    <3>1. memRuns[r] \in Versions /\ Wrote(memRuns[r], r)
      BY <1>1, <2>1 DEF MemoryOK, Types
    <3> QED BY <1>6, <2>1, <3>1, VersionFacts DEF Wrote, RunOf
  <2>2. CASE p.op.kind = "insert" /\ \E i \in 1..Len(p.op.runs) :
               p.op.runs[i] = r /\ memRuns'[r] = <<q, i>>
    <3>1. PICK i \in 1..Len(p.op.runs) : p.op.runs[i] = r /\ memRuns'[r] = <<q, i>>
      BY <2>2
    <3>2. memRuns'[r][1] = q /\ memRuns'[r][2] = i /\ i <= Len(p.op.runs)
      BY <1>1, <2>2, <3>1, InsertFacts
    <3>3. call'[q].stage # "idle" /\ call'[q].op = p.op
      BY <1>3, <1>5
    <3> QED BY <2>2, <3>1, <3>2, <3>3 DEF Wrote, RunOf
  <2> QED BY <2>1, <2>2
<1>11. \A u \in Versions : query[u] # "none" => call'[u[1]].op = call[u[1]].op
  BY <1>1, <1>6, VersionFacts DEF QueriesOK
<1>12. ExecutedOK'
  BY <1>1, <1>4, <1>11 DEF ExecutedOK, RunOf
<1>13. connected => memRuns' = memRuns
  BY <1>1 DEF Types
<1>14. AgreeOK'
  <2> SUFFICES ASSUME connected, NEW r \in Runs, r \notin raced PROVE AgreeOn(r)'
    BY DEF AgreeOK
  <2>1. Pending(r)' \subseteq Pending(r)
    BY <1>4, <1>11 DEF Pending, RunOf
  <2> QED BY <1>1, <1>4, <1>13, <2>1 DEF AgreeOK, AgreeOn
<1>15. \A x : InTables(x) => InTables(x)'
  BY DEF InTables
<1>16. ASSUME connected, NEW r PROVE WasSent(r)' <=> WasSent(r)
  BY <1>4, <1>13, <1>16 DEF WasSent
<1>17. SettledOK'
  <2>1. ASSUME NEW x, InMemory(x) PROVE InMemory(x)'
    <3>1. CASE x \in Runs
      <4>1. ASSUME NEW i \in 1..Len(p.op.runs), p.op.kind = "insert" PROVE <<q, i>> # None
        <5>1. i \in 1..MaxSpans
          BY <1>1, <4>1, InsertFacts, PostgresStoreAssumption
        <5> QED BY <5>1, PostgresStoreAssumption
      <4>2. memRuns'[x] # None
        <5>1. memRuns[x] # None
          BY <2>1, <3>1 DEF InMemory
        <5>2. \/ memRuns'[x] = memRuns[x]
              \/ p.op.kind = "insert" /\ \E i \in 1..Len(p.op.runs) : memRuns'[x] = <<q, i>>
          BY <3>1
        <5> QED BY <4>1, <5>1, <5>2
      <4> QED BY <2>1, <4>2 DEF InMemory
    <3>2. CASE x \notin Runs
      BY <2>1, <3>2 DEF InMemory
    <3> QED BY <3>1, <3>2
  <2>2. \A x : IsSettled(x) => IsSettled(x)'
    BY <1>15, <1>16, <2>1 DEF IsSettled
  <2> QED BY <1>1, <1>4, <2>2 DEF SettledOK
<1>18. UndisturbedOK'
  <2> SUFFICES ASSUME NEW c \in Requests, c \notin disturbed', Waiting(c)'
               PROVE  Relies(c, call[c])'
    BY DEF UndisturbedOK
  <2>1. c # q /\ call'[c] = call[c]
    BY <1>3, <1>5 DEF Waiting
  <2>2. Relies(c, call[c])
    BY <1>1, <1>4, <2>1 DEF UndisturbedOK, Waiting
  <2> QED BY <1>4, <1>15, <1>16, <2>1, <2>2 DEF Relies
<1> QED BY <1>7, <1>8, <1>9, <1>10, <1>12, <1>14, <1>17, <1>18 DEF StoreInv

LEMMA UsableOK ==
  ASSUME StoreInv PROVE Usable <=> connected
BY DEF StoreInv, PoolOK, Usable

\* The progress of a call that begins.
NewProgress(op) == [Idle EXCEPT !.op = op, !.at = 1, !.before = settled]

\* The call that begins has sent nothing.
LEMMA NewFacts ==
  ASSUME StoreInv, NEW q \in Requests, NEW op \in Ops[q], call[q].stage = "idle",
         NEW p, p = NewProgress(op)
  PROVE  /\ p \in Progress /\ p.op = op /\ p.at = 1 /\ p.before = settled
         /\ GoesOn(q, p)
         /\ \A j \in 1..MaxSpans : <<q, j>> \in Versions /\ query[<<q, j>>] = "none"
<1>1. settled \in SUBSET Items /\ op \in Operations
  BY DEF StoreInv, Types, Operations
<1>2. 1 \in 1..MaxSpans /\ 1 \in 0..MaxSpans
  BY PostgresStoreAssumption
<1>3. /\ p \in Progress /\ p.op = op /\ p.at = 1 /\ p.before = settled
  BY <1>1, <1>2, IdleFacts, Zenon DEF Progress, NewProgress
<1>4. GoesOn(q, p)
  BY <1>2, <1>3, InsertFacts DEF GoesOn
<1>5. ASSUME NEW j \in 1..MaxSpans
      PROVE  <<q, j>> \in Versions /\ query[<<q, j>>] = "none"
  <2>1. <<q, j>> \in Versions
    BY VersionFacts
  <2> QED BY <2>1 DEF StoreInv, QueriesOK
<1> QED BY <1>3, <1>4, <1>5

\* What a caller keeps when it has a run of its own kept in memory.
LEMMA KeepsOne ==
  ASSUME Types, NEW q \in Requests, NEW op \in Ops[q], op.kind = "insert",
         NEW i \in 1..Len(op.runs), memRuns' = Kept(q, op, i, i)
  PROVE  memRuns' = [memRuns EXCEPT ![op.runs[i]] = <<q, i>>]
<1>1. i \in i..Len(op.runs) /\ i..i = {i}
  BY InsertFacts
<1>2. /\ memRuns' \in [Runs -> Versions \cup {None}]
      /\ \A r \in Runs : \/ op.runs[i] = r /\ memRuns'[r] = <<q, i>>
                         \/ memRuns'[r] = memRuns[r] /\ op.runs[i] # r
  <2> DEFINE m == Kept(q, op, i, i)
  <2>1. /\ m \in [Runs -> Versions \cup {None}]
        /\ \A r \in Runs :
             \/ \E k \in i..i : op.runs[k] = r /\ m[r] = <<q, k>>
             \/ m[r] = memRuns[r] /\ \A k \in i..i : op.runs[k] # r
    <3>1. IsKept(Kept(q, op, i, i), q, op, i, i)
      BY <1>1, KeptFacts
    <3> QED BY <3>1, Zenon DEF IsKept
  <2> HIDE DEF m
  <2> QED BY <1>1, <2>1 DEF m
<1> QED BY <1>2 DEF Types

\* insertRun(), from the run that is the next one.
LEMMA InsertOK ==
  ASSUME StoreInv, NEW q \in Requests, NEW p \in Progress, p.op.kind = "insert",
         NEW i \in 1..Len(p.op.runs), p.op \in Ops[q],
         call[q].stage # "idle" => call[q].op = p.op,
         p.at \in 1..Len(p.op.runs),
         Insert(q, p, i), UNCHANGED <<pool, starting, pgRuns, pgRecs>>,
         \A j \in 1..MaxSpans : query[<<q, j>>] # "none" => j < i /\ j <= p.at /\ query[<<q, j>>] # "sent",
         ~connected /\ q \notin disturbed => i = 1,
         connected /\ q \notin disturbed =>
           /\ \A j \in 1..(i - 1) : query[<<q, j>>] = "done" /\ WasSent(p.op.runs[j])
           /\ \A x \in p.before : InTables(x)
  PROVE  StoreInv'
<1>1. /\ Types /\ PoolOK /\ (Usable <=> connected) /\ Len(p.op.runs) \in 1..MaxSpans
      /\ i \in 1..MaxSpans /\ p.at \in 1..MaxSpans /\ i \in 0..MaxSpans
      /\ p.op.runs[i] \in Runs
  <2>1. Len(p.op.runs) \in 1..MaxSpans /\ p.op.runs[i] \in Runs
    BY InsertFacts
  <2>2. Types /\ PoolOK
    BY DEF StoreInv
  <2> QED BY <2>1, <2>2, UsableOK, PostgresStoreAssumption
<1>2. CASE connected
  <2> DEFINE w == [p EXCEPT !.at = i]
  <2>1. /\ w \in Progress /\ w.op = p.op /\ w.at = i /\ w.before = p.before
    BY <1>1, CallAdvances
  <2>2. /\ Send(q, w) /\ memRuns' = Kept(q, p.op, i, i) /\ UNCHANGED <<memRecs, connected>>
        /\ raced' = IF Pending(p.op.runs[i]) = {} THEN raced \ {p.op.runs[i]}
                    ELSE raced \cup {p.op.runs[i]}
    BY <1>1, <1>2 DEF Insert
  <2> HIDE DEF w
  <2>3. memRuns' = [memRuns EXCEPT ![w.op.runs[w.at]] = <<q, w.at>>]
    <3>1. memRuns' = [memRuns EXCEPT ![p.op.runs[i]] = <<q, i>>]
      BY <1>1, <2>2, KeepsOne
    <3> QED BY <2>1, <3>1
  <2>4. GoesOn(q, w)
    BY <1>1, <2>1 DEF GoesOn
  <2>5. /\ query[<<q, w.at>>] = "none"
        /\ \A j \in 1..MaxSpans : query[<<q, j>>] # "none" => j < w.at /\ query[<<q, j>>] # "sent"
    BY <1>1, <2>1
  <2>6. q \notin disturbed =>
           /\ \A j \in 1..(w.at - 1) : query[<<q, j>>] = "done"
           /\ w.op.kind = "insert" => \A j \in 1..(w.at - 1) : WasSent(w.op.runs[j])
           /\ \A x \in w.before : InTables(x)
    BY <1>2, <2>1
  <2>7. w.op.kind = "insert" =>
           /\ memRuns' = [memRuns EXCEPT ![w.op.runs[w.at]] = <<q, w.at>>]
           /\ raced' = IF Pending(w.op.runs[w.at]) = {} THEN raced \ {w.op.runs[w.at]}
                       ELSE raced \cup {w.op.runs[w.at]}
    BY <2>1, <2>2, <2>3
  <2>8. w.op.kind # "insert" => memRuns' = memRuns /\ raced' = raced
    BY <2>1
  <2>9. UNCHANGED <<pool, starting, connected, memRecs, pgRuns, pgRecs>>
    BY <2>2
  <2> QED BY <1>2, <2>1, <2>2, <2>4, <2>5, <2>6, <2>7, <2>8, <2>9, SendOK
<1>3. CASE ~connected
  <2> DEFINE m == Kept(q, p.op, i, Len(p.op.runs))
             items == ToSet(p.op.runs)
  <2>0. \A x \in items : \E k \in 1..Len(p.op.runs) : p.op.runs[k] = x /\ x \in Runs
    <3>1. /\ \A k \in 1..Len(p.op.runs) : p.op.runs[k] \in Runs
          /\ \A x : x \in ToSet(p.op.runs) <=> \E k \in 1..Len(p.op.runs) : p.op.runs[k] = x
      BY InsertFacts, Zenon
    <3> QED BY <3>1
  <2>1. /\ memRuns' = m /\ Answer(q, p, items, {}) /\ UNCHANGED <<raced, memRecs, connected>>
    BY <1>1, <1>3 DEF Insert
  <2>2. /\ m \in [Runs -> Versions \cup {None}]
        /\ \A r \in Runs :
             \/ \E k \in i..Len(p.op.runs) : p.op.runs[k] = r /\ m[r] = <<q, k>>
             \/ m[r] = memRuns[r] /\ \A k \in i..Len(p.op.runs) : p.op.runs[k] # r
    <3>1. Types /\ Len(p.op.runs) \in i..Len(p.op.runs)
      BY <1>1
    <3>2. IsKept(Kept(q, p.op, i, Len(p.op.runs)), q, p.op, i, Len(p.op.runs))
      BY <3>1, KeptFacts
    <3> QED BY <3>2, Zenon DEF IsKept
  <2> HIDE DEF m
  <2>3. items \in SUBSET Items /\ {} \in SUBSET Items
    <3> HIDE DEF items
    <3> QED BY <2>0 DEF Items
  <2>4. GoesOn(q, p)
    BY <1>1 DEF GoesOn
  <2>5. \A r \in Runs :
           \/ memRuns'[r] = memRuns[r]
           \/ /\ ~connected /\ p.op.kind = "insert"
              /\ \E k \in 1..Len(p.op.runs) : p.op.runs[k] = r /\ memRuns'[r] = <<q, k>>
    BY <1>1, <1>3, <2>1, <2>2
  <2>6. ASSUME q \notin disturbed, NEW x \in items PROVE IsSettled(x)'
    <3>1. PICK k \in 1..Len(p.op.runs) : p.op.runs[k] = x /\ x \in Runs
      BY <2>0, <2>6
    <3>2. i = 1
      BY <1>3, <2>6
    <3>3. PICK l \in 1..Len(p.op.runs) : memRuns'[x] = <<q, l>>
      BY <2>1, <2>2, <3>1, <3>2
    <3>4. <<q, l>> # None
      <4>1. l \in 1..MaxSpans
        BY <1>1, PostgresStoreAssumption
      <4> QED BY <4>1, PostgresStoreAssumption
    <3>5. InMemory(x)'
      BY <3>1, <3>3, <3>4, PostgresStoreAssumption DEF InMemory
    <3> QED BY <1>3, <2>1, <3>5 DEF IsSettled
  <2> HIDE DEF items
  <2>7. /\ memRuns' \in [Runs -> Versions \cup {None}]
        /\ memRecs' \in [MemoryRecs -> {"open", "applied"}]
        /\ \A r \in MemoryRecs : memRecs[r] = "applied" => memRecs'[r] = "applied"
        /\ \A j \in 1..MaxSpans : query[<<q, j>>] # "none" => j <= p.at /\ query[<<q, j>>] # "sent"
    BY <1>1, <2>1, <2>2 DEF Types
  <2>8. q \notin disturbed => {} \cap p.before = {} /\ \A x \in items : IsSettled(x)'
    BY <2>6
  <2>9. UNCHANGED <<pool, starting, connected, pgRuns, pgRecs, raced>>
    BY <2>1
  <2> QED BY <2>1, <2>3, <2>4, <2>5, <2>7, <2>8, <2>9, AnswerOK
<1> QED BY <1>2, <1>3

LEMMA StaleIsItems ==
  ASSUME NEW op PROVE StaleInMemory(op) \in SUBSET Items /\ StaleInTables(op) \in SUBSET Items
BY DEF StaleInMemory, StaleInTables, Items

\* A caller is answered who had nothing kept in memory.
LEMMA PlainAnswerOK ==
  ASSUME StoreInv, NEW q \in Requests, NEW p \in Progress, GoesOn(q, p),
         NEW items \in SUBSET Items, NEW stale \in SUBSET Items,
         Answer(q, p, items, stale),
         UNCHANGED <<pool, starting, connected, pgRuns, pgRecs, memRuns, memRecs, raced>>,
         \A j \in 1..MaxSpans : query[<<q, j>>] # "none" => j <= p.at /\ query[<<q, j>>] # "sent",
         q \notin disturbed => stale \cap p.before = {} /\ \A x \in items : IsSettled(x)'
  PROVE  StoreInv'
<1>1. Types
  BY DEF StoreInv
<1>2. /\ memRecs' \in [MemoryRecs -> {"open", "applied"}]
      /\ \A r \in MemoryRecs : memRecs[r] = "applied" => memRecs'[r] = "applied"
      /\ memRuns' \in [Runs -> Versions \cup {None}]
  BY <1>1 DEF Types
<1>3. \A r \in Runs :
           \/ memRuns'[r] = memRuns[r]
           \/ /\ ~connected /\ p.op.kind = "insert"
              /\ \E i \in 1..Len(p.op.runs) : p.op.runs[i] = r /\ memRuns'[r] = <<q, i>>
  OBVIOUS
<1> QED BY <1>2, <1>3, AnswerOK

\* applyRecommendation() ends in memory.
LEMMA ApplyInMemoryOK ==
  ASSUME StoreInv, NEW q \in Requests, NEW p \in Progress, GoesOn(q, p), p.op.kind = "apply",
         ApplyInMemory(q, p), UNCHANGED <<pool, starting, pgRuns, pgRecs>>,
         \A j \in 1..MaxSpans : query[<<q, j>>] # "none" => j <= p.at /\ query[<<q, j>>] # "sent",
         q \notin disturbed /\ connected => p.op.rec \notin TableRecs
  PROVE  StoreInv'
<1> DEFINE known == {p.op.rec} \cap MemoryRecs
<1>1. Types
  BY DEF StoreInv
<1>2. /\ memRecs' = [r \in MemoryRecs |-> IF r \in known THEN "applied" ELSE memRecs[r]]
      /\ Answer(q, p, known, {})
      /\ UNCHANGED <<memRuns, raced, connected>>
  BY DEF ApplyInMemory
<1>3. /\ memRecs' \in [MemoryRecs -> {"open", "applied"}]
      /\ \A r \in MemoryRecs : memRecs[r] = "applied" => memRecs'[r] = "applied"
      /\ memRuns' \in [Runs -> Versions \cup {None}]
      /\ known \in SUBSET Items /\ {} \in SUBSET Items
  BY <1>1, <1>2 DEF Types, Items
<1>4. ASSUME q \notin disturbed, NEW x \in known PROVE IsSettled(x)'
  <2>1. x = p.op.rec /\ x \in MemoryRecs /\ x \notin Runs /\ memRecs'[x] = "applied"
    BY <1>2, PostgresStoreAssumption
  <2> QED BY <1>2, <1>4, <2>1 DEF IsSettled, InTables, InMemory
<1> HIDE DEF known
<1>5. \A r \in Runs :
           \/ memRuns'[r] = memRuns[r]
           \/ /\ ~connected /\ p.op.kind = "insert"
              /\ \E i \in 1..Len(p.op.runs) : p.op.runs[i] = r /\ memRuns'[r] = <<q, i>>
  BY <1>2
<1>6. q \notin disturbed => {} \cap p.before = {} /\ \A x \in known : IsSettled(x)'
  BY <1>4
<1>7. UNCHANGED <<pool, starting, connected, pgRuns, pgRecs, raced>>
  BY <1>2
<1> QED BY <1>2, <1>3, <1>5, <1>6, <1>7, AnswerOK

\* A query is answered from memory.
LEMMA ReadMemoryOK ==
  ASSUME StoreInv, NEW q \in Requests, NEW p \in Progress, GoesOn(q, p),
         ReadMemory(q, p), UNCHANGED <<pool, starting, pgRuns, pgRecs>>,
         \A j \in 1..MaxSpans : query[<<q, j>>] # "none" => j <= p.at /\ query[<<q, j>>] # "sent",
         q \notin disturbed => StaleInMemory(p.op) \cap p.before = {}
  PROVE  StoreInv'
<1>1. /\ Answer(q, p, {}, StaleInMemory(p.op))
      /\ UNCHANGED <<pool, starting, connected, pgRuns, pgRecs, memRuns, memRecs, raced>>
  BY DEF ReadMemory, memVars
<1>2. StaleInMemory(p.op) \in SUBSET Items /\ {} \in SUBSET Items
  BY StaleIsItems
<1>3. q \notin disturbed =>
        StaleInMemory(p.op) \cap p.before = {} /\ \A x \in {} : IsSettled(x)'
  OBVIOUS
<1> QED BY <1>1, <1>2, <1>3, PlainAnswerOK

LEMMA StartOK ==
  ASSUME StoreInv, NEW q \in Requests, Start(q) PROVE StoreInv'
<1>1. PICK op \in Ops[q] : Call(q, op)
  BY DEF Start
<1>2. PICK p : p = NewProgress(op)
  OBVIOUS
<1>3. /\ call[q].stage = "idle" /\ UNCHANGED <<pool, starting, pgRuns, pgRecs>>
      /\ \/ op.kind = "insert" /\ Insert(q, p, 1)
         \/ /\ op.kind # "insert" /\ Usable
            /\ Send(q, p)
            /\ UNCHANGED <<memVars, raced, connected>>
         \/ op.kind = "apply" /\ ~Usable /\ ApplyInMemory(q, p)
         \/ op.kind \notin {"insert", "apply"} /\ ~Usable /\ ReadMemory(q, p)
  BY <1>1, <1>2, Zenon DEF Call, NewProgress, dbVars
<1>4. /\ p \in Progress /\ p.op = op /\ p.at = 1 /\ p.before = settled
      /\ GoesOn(q, p)
      /\ \A j \in 1..MaxSpans : <<q, j>> \in Versions /\ query[<<q, j>>] = "none"
  BY <1>2, <1>3, NewFacts
<1>5. /\ Types /\ SettledOK /\ (Usable <=> connected)
      /\ 1 \in 1..MaxSpans /\ \A j \in 1..(1 - 1) : FALSE
  BY UsableOK, PostgresStoreAssumption DEF StoreInv
<1>6. \A x \in settled : IsSettled(x)
  BY <1>5 DEF SettledOK
<1>7. CASE op.kind = "insert" /\ Insert(q, p, 1)
  <2>1. 1 \in 1..Len(p.op.runs)
    BY <1>4, <1>7, InsertFacts
  <2>2. connected /\ q \notin disturbed =>
           /\ \A j \in 1..(1 - 1) : query[<<q, j>>] = "done" /\ WasSent(p.op.runs[j])
           /\ \A x \in p.before : InTables(x)
    BY <1>4, <1>5, <1>6 DEF IsSettled
  <2>3. \A j \in 1..MaxSpans : query[<<q, j>>] # "none" => j < 1 /\ j <= p.at /\ query[<<q, j>>] # "sent"
    BY <1>4
  <2> QED BY <1>3, <1>4, <1>5, <1>7, <2>1, <2>2, <2>3, InsertOK
<1>8. CASE op.kind # "insert" /\ Usable /\ Send(q, p) /\ UNCHANGED <<memVars, raced, connected>>
  <2>1. /\ query[<<q, p.at>>] = "none" /\ connected /\ p.op.kind # "insert"
        /\ UNCHANGED <<pool, starting, connected, memRuns, memRecs, pgRuns, pgRecs, raced>>
    BY <1>3, <1>4, <1>5, <1>8 DEF memVars
  <2>2. \A j \in 1..MaxSpans : query[<<q, j>>] # "none" => j < p.at /\ query[<<q, j>>] # "sent"
    BY <1>4
  <2>3. q \notin disturbed =>
           /\ \A j \in 1..(p.at - 1) : query[<<q, j>>] = "done"
           /\ p.op.kind = "insert" => \A j \in 1..(p.at - 1) : WasSent(p.op.runs[j])
           /\ \A x \in p.before : InTables(x)
    BY <1>4, <1>5, <1>6, <2>1 DEF IsSettled
  <2> QED BY <1>4, <1>8, <2>1, <2>2, <2>3, SendOK
<1>9. CASE op.kind = "apply" /\ ~Usable /\ ApplyInMemory(q, p)
  BY <1>3, <1>4, <1>5, <1>9, ApplyInMemoryOK
<1>10. CASE op.kind \notin {"insert", "apply"} /\ ~Usable /\ ReadMemory(q, p)
  <2>1. StaleInMemory(p.op) \cap p.before = {}
    <3> SUFFICES ASSUME NEW x \in settled, x \in StaleInMemory(op) PROVE FALSE
      BY <1>4
    <3>1. InMemory(x)
      BY <1>5, <1>6, <1>10 DEF IsSettled
    <3> QED BY <1>5, <3>1 DEF StaleInMemory, InMemory
  <2> QED BY <1>3, <1>4, <1>5, <1>10, <2>1, ReadMemoryOK
<1> QED BY <1>3, <1>7, <1>8, <1>9, <1>10

\* A caller whose statement was answered; an undisturbed one has what it relies on.
LEMMA WaitingFacts ==
  ASSUME StoreInv, NEW q \in Requests, NEW p, p = call[q], Waiting(q),
         query[<<q, p.at>>] # "sent"
  PROVE  /\ p \in Progress /\ GoesOn(q, p)
         /\ \A j \in 1..MaxSpans : query[<<q, j>>] # "none" => j <= p.at /\ query[<<q, j>>] # "sent"
         /\ q \notin disturbed =>
              /\ connected
              /\ \A j \in 1..p.at : <<q, j>> \in Versions /\ query[<<q, j>>] = "done"
              /\ p.op.kind = "insert" => \A j \in 1..p.at : WasSent(p.op.runs[j])
              /\ \A x \in p.before : InTables(x)
              /\ p.op.kind \in {"recommendations", "signals"} => p.stale \cap p.before = {}
<1>1. /\ Types /\ CallsOK /\ QueriesOK /\ UndisturbedOK /\ call[q].stage = "waiting"
  BY DEF StoreInv, Waiting
<1>2. /\ p \in Progress /\ p.op \in Ops[q] /\ p.at >= 1 /\ p.at \in 0..MaxSpans
      /\ p.op.kind = "insert" => p.at <= Len(p.op.runs)
      /\ p.op.kind # "insert" => p.at = 1
  BY <1>1 DEF Types, Progress, CallsOK, CallOK
<1>3. p.at \in 1..MaxSpans
  BY <1>2, PostgresStoreAssumption
<1>4. GoesOn(q, p)
  BY <1>2, <1>3 DEF GoesOn
<1>5. ASSUME NEW j \in 1..MaxSpans, query[<<q, j>>] # "none"
      PROVE  j <= p.at /\ query[<<q, j>>] # "sent"
  <2>1. <<q, j>> \in Versions /\ <<q, j>>[1] = q /\ <<q, j>>[2] = j
    BY VersionFacts
  <2>2. /\ query[<<q, j>>] = "sent" => p.at = j
        /\ j <= p.at
    BY <1>1, <1>5, <2>1 DEF QueriesOK
  <2> QED BY <2>2
<1>6. ASSUME q \notin disturbed
      PROVE  /\ connected
             /\ \A j \in 1..p.at : <<q, j>> \in Versions /\ query[<<q, j>>] = "done"
             /\ p.op.kind = "insert" => \A j \in 1..p.at : WasSent(p.op.runs[j])
             /\ \A x \in p.before : InTables(x)
             /\ p.op.kind \in {"recommendations", "signals"} => p.stale \cap p.before = {}
  <2>1. Relies(q, p)
    BY <1>1, <1>6 DEF UndisturbedOK
  <2>2. query[<<q, p.at>>] = "done"
    BY <2>1 DEF Relies
  <2>3. ASSUME NEW j \in 1..p.at PROVE <<q, j>> \in Versions /\ query[<<q, j>>] = "done"
    <3>1. j \in 1..MaxSpans
      BY <1>3, PostgresStoreAssumption
    <3>2. j = p.at \/ j \in 1..(p.at - 1)
      BY <1>3
    <3> QED BY <2>1, <2>2, <3>1, <3>2, VersionFacts DEF Relies
  <2> QED BY <2>1, <2>2, <2>3 DEF Relies
<1> QED BY <1>2, <1>4, <1>5, <1>6

\* A disturbance: nothing is settled, and whoever waits is disturbed.
LEMMA DisturbOK ==
  ASSUME Types, NEW Q \in SUBSET Requests, Disturb(Q),
         \A c \in Requests : Waiting(c)' => Waiting(c)
  PROVE  /\ settled' \subseteq Items /\ disturbed' \subseteq Requests
         /\ SettledOK' /\ UndisturbedOK'
<1>1. settled' = {} /\ disturbed' = disturbed \cup Q \cup {c \in Requests : Waiting(c)}
  BY DEF Disturb
<1>2. settled' \subseteq Items /\ disturbed' \subseteq Requests
  BY <1>1 DEF Types
<1>3. SettledOK'
  BY <1>1 DEF SettledOK
<1>4. UndisturbedOK'
  BY <1>1 DEF UndisturbedOK
<1> QED BY <1>2, <1>3, <1>4

\* The use of Postgres ends with the answer to caller q.
LEMMA EndedInDisturbance ==
  ASSUME StoreInv, NEW q \in Requests, Waiting(q), NEW a \in Progress,
         query[<<q, call[q].at>>] # "sent",
         a.stage = "answered", a.op = call[q].op, a.at = call[q].at, a.stale = {},
         call' = [call EXCEPT ![q] = a], query' = query, Disturb({}), connected' = FALSE,
         UNCHANGED <<pool, starting, memRuns, memRecs, pgRuns, pgRecs, raced>>
  PROVE  StoreInv'
<1>1. /\ PoolOK /\ Types /\ CallsOK /\ QueriesOK /\ MemoryOK /\ ExecutedOK
  BY DEF StoreInv
<1>2. call'[q] = a /\ \A c \in Requests : c # q => call'[c] = call[c]
  BY <1>1 DEF Types
<1>3. \A c \in Requests : /\ call'[c].op = call[c].op /\ call'[c].at = call[c].at
                          /\ call[c].stage # "idle" => call'[c].stage # "idle"
                          /\ Waiting(c)' => Waiting(c)
  BY <1>2 DEF Waiting
<1>4. /\ settled' \subseteq Items /\ disturbed' \subseteq Requests
      /\ SettledOK' /\ UndisturbedOK'
  <2>1. {} \in SUBSET Requests
    OBVIOUS
  <2> QED BY <1>1, <1>3, <2>1, DisturbOK
<1>5. Types' /\ PoolOK'
  <2>1. call' \in [Requests -> Progress]
    BY <1>1 DEF Types
  <2> QED BY <1>1, <1>4, <2>1 DEF Types, PoolOK
<1>6. CallsOK'
  <2>1. CallOK(q, a)
    BY <1>1 DEF CallsOK, CallOK, Waiting
  <2> QED BY <1>1, <1>2, <2>1 DEF CallsOK
<1>7. QueriesOK'
  <2>1. ASSUME NEW u \in Versions
        PROVE  /\ query'[u] = "sent" => Waiting(u[1])' /\ call'[u[1]].at = u[2]
               /\ query'[u] # "none" => /\ starting' = "done" /\ call'[u[1]].stage # "idle"
                                        /\ u[2] <= call'[u[1]].at
    <3>1. u[1] \in Requests /\ u = <<u[1], u[2]>>
      BY VersionFacts
    <3>2. query[u] = "sent" => u[1] # q
      BY <1>1, <3>1 DEF QueriesOK
    <3> QED BY <1>1, <1>2, <1>3, <3>1, <3>2 DEF QueriesOK, Waiting
  <2>2. \A c \in Requests : Waiting(c)' => query'[<<c, call'[c].at>>] # "none"
    BY <1>1, <1>3 DEF QueriesOK
  <2> QED BY <2>1, <2>2 DEF QueriesOK
<1>8. MemoryOK'
  <2> SUFFICES ASSUME NEW r \in Runs, memRuns[r] # None PROVE Wrote(memRuns[r], r)'
    BY DEF MemoryOK
  <2>1. memRuns[r] \in Versions /\ Wrote(memRuns[r], r)
    BY <1>1 DEF MemoryOK, Types
  <2> QED BY <1>3, <2>1, VersionFacts DEF Wrote, RunOf
<1>9. ExecutedOK'
  BY <1>1, <1>3, VersionFacts DEF ExecutedOK, RunOf
<1>10. AgreeOK'
  BY DEF AgreeOK
<1> QED BY <1>4, <1>5, <1>6, <1>7, <1>8, <1>9, <1>10 DEF StoreInv

LEMMA ReturnOK ==
  ASSUME StoreInv, NEW q \in Requests, Return(q) PROVE StoreInv'
<1>1. PICK p : p = call[q]
  OBVIOUS
<1>2. PICK ok : ok = (query[<<q, p.at>>] = "done")
  OBVIOUS
<1>3. /\ Waiting(q) /\ query[<<q, p.at>>] # "sent"
      /\ UNCHANGED <<pool, starting, pgRuns, pgRecs>>
      /\ \/ p.op.kind = "insert" /\ InsertReturns(q, p)
         \/ p.op.kind = "apply" /\ ApplyReturns(q, p, ok)
         \/ p.op.kind \in {"recommendations", "signals"} /\ ReadReturns(q, p, ok)
         \/ p.op.kind = "health" /\ HealthReturns(q, p, ok)
  BY <1>1, <1>2, Zenon DEF Return, dbVars
<1>4. /\ p \in Progress /\ GoesOn(q, p)
      /\ \A j \in 1..MaxSpans : query[<<q, j>>] # "none" => j <= p.at /\ query[<<q, j>>] # "sent"
      /\ q \notin disturbed =>
           /\ connected
           /\ \A j \in 1..p.at : <<q, j>> \in Versions /\ query[<<q, j>>] = "done"
           /\ p.op.kind = "insert" => \A j \in 1..p.at : WasSent(p.op.runs[j])
           /\ \A x \in p.before : InTables(x)
           /\ p.op.kind \in {"recommendations", "signals"} => p.stale \cap p.before = {}
  BY <1>1, <1>3, WaitingFacts
<1>5. /\ Types /\ ExecutedOK /\ p.op \in Ops[q] /\ p.at \in 1..MaxSpans
      /\ p.op = call[q].op /\ call[q].stage # "idle"
      /\ p.stale \in SUBSET Items /\ {} \in SUBSET Items
      /\ q \notin disturbed => ok
  <2>1. Types /\ ExecutedOK
    BY DEF StoreInv
  <2>2. p.op \in Ops[q] /\ p.at \in 1..MaxSpans
    BY <1>4 DEF GoesOn
  <2>3. p.op = call[q].op /\ call[q].stage # "idle"
    BY <1>1, <1>3 DEF Waiting
  <2>4. p.stale \in SUBSET Items
    BY <1>4 DEF Progress
  <2>5. q \notin disturbed => ok
    <3>1. p.at \in 1..p.at
      BY <2>2, PostgresStoreAssumption
    <3> QED BY <1>2, <1>4, <3>1
  <2> QED BY <2>1, <2>2, <2>3, <2>4, <2>5
<1>6. CASE p.op.kind = "insert" /\ InsertReturns(q, p)
  <2>1. /\ p.at \in 1..Len(p.op.runs) /\ Len(p.op.runs) \in 1..MaxSpans
        /\ \A i \in 1..Len(p.op.runs) : p.op.runs[i] \in Runs
        /\ \A x : x \in ToSet(p.op.runs) <=> \E i \in 1..Len(p.op.runs) : p.op.runs[i] = x
    <3>1. /\ Len(p.op.runs) \in 1..MaxSpans
          /\ \A i \in 1..Len(p.op.runs) : p.op.runs[i] \in Runs
          /\ \A x : x \in ToSet(p.op.runs) <=> \E i \in 1..Len(p.op.runs) : p.op.runs[i] = x
      BY <1>5, <1>6, InsertFacts, Zenon
    <3> QED BY <1>4, <1>5, <1>6, <3>1 DEF GoesOn
  <2>2. CASE p.at = Len(p.op.runs)
    <3> DEFINE items == ToSet(p.op.runs)
    <3>1. /\ Answer(q, p, items, {})
          /\ UNCHANGED <<pool, starting, connected, pgRuns, pgRecs, memRuns, memRecs, raced>>
      BY <1>3, <1>6, <2>2 DEF InsertReturns, memVars
    <3>2. \A x \in items : \E i \in 1..p.at : p.op.runs[i] = x /\ x \in Runs
      BY <2>1, <2>2
    <3> HIDE DEF items
    <3>3. items \in SUBSET Items
      BY <3>2 DEF Items
    <3>4. ASSUME q \notin disturbed, NEW x \in items PROVE IsSettled(x)'
      <4>1. PICK i \in 1..p.at : p.op.runs[i] = x /\ x \in Runs
        BY <3>2, <3>4
      <4>2. /\ <<q, i>> \in Versions /\ query[<<q, i>>] = "done" /\ connected /\ WasSent(x)
            /\ <<q, i>>[1] = q /\ <<q, i>>[2] = i
        BY <1>4, <1>6, <3>4, <4>1
      <4>3. pgRuns[x] # None
        BY <1>5, <1>6, <4>1, <4>2 DEF ExecutedOK, RunOf
      <4>4. InTables(x)
        BY <4>1, <4>3, PostgresStoreAssumption DEF InTables
      <4>5. query' = query
        BY <3>1 DEF Answer
      <4> QED BY <3>1, <4>2, <4>4, <4>5 DEF IsSettled, InTables, WasSent
    <3>5. q \notin disturbed => {} \cap p.before = {} /\ \A x \in items : IsSettled(x)'
      BY <3>4
    <3> QED BY <1>4, <1>5, <3>1, <3>3, <3>5, PlainAnswerOK
  <2>3. CASE p.at # Len(p.op.runs)
    <3>1. p.at + 1 \in 1..Len(p.op.runs) /\ Insert(q, p, p.at + 1) /\ (p.at + 1) - 1 = p.at
      BY <1>6, <2>1, <2>3 DEF InsertReturns
    <3>2. \A j \in 1..MaxSpans : query[<<q, j>>] # "none" =>
            j < p.at + 1 /\ j <= p.at /\ query[<<q, j>>] # "sent"
      BY <1>4, <1>5
    <3>3. connected /\ q \notin disturbed =>
           /\ \A j \in 1..((p.at + 1) - 1) : query[<<q, j>>] = "done" /\ WasSent(p.op.runs[j])
           /\ \A x \in p.before : InTables(x)
      BY <1>4, <1>6, <3>1
    <3>4. ~connected /\ q \notin disturbed => p.at + 1 = 1
      BY <1>4
    <3> QED BY <1>3, <1>4, <1>5, <1>6, <2>1, <3>1, <3>2, <3>3, <3>4, InsertOK
  <2> QED BY <2>2, <2>3
<1>7. CASE p.op.kind = "apply" /\ ApplyReturns(q, p, ok)
  <2>1. CASE ok /\ p.op.rec \in TableRecs
    <3> DEFINE items == {p.op.rec}
    <3>1. /\ Answer(q, p, items, {})
          /\ UNCHANGED <<pool, starting, connected, pgRuns, pgRecs, memRuns, memRecs, raced>>
      BY <1>3, <1>7, <2>1 DEF ApplyReturns, memVars
    <3>2. items \in SUBSET Items
      BY <2>1 DEF Items
    <3>3. ASSUME q \notin disturbed, NEW x \in items PROVE IsSettled(x)'
      <4>1. x = p.op.rec /\ x \in TableRecs /\ x \notin Runs
        BY <2>1, <3>3, PostgresStoreAssumption
      <4>2. <<q, p.at>> \in Versions /\ <<q, p.at>>[1] = q /\ query[<<q, p.at>>] = "done" /\ connected
        BY <1>4, <1>5, <3>3
      <4>3. pgRecs[x] = "applied"
        BY <1>5, <1>7, <4>1, <4>2 DEF ExecutedOK
      <4> QED BY <3>1, <4>1, <4>2, <4>3 DEF IsSettled, InTables
    <3> HIDE DEF items
    <3>4. q \notin disturbed => {} \cap p.before = {} /\ \A x \in items : IsSettled(x)'
      BY <3>3
    <3> QED BY <1>4, <1>5, <3>1, <3>2, <3>4, PlainAnswerOK
  <2>2. CASE ~(ok /\ p.op.rec \in TableRecs)
    <3>1. ApplyInMemory(q, p) /\ (q \notin disturbed /\ connected => p.op.rec \notin TableRecs)
      BY <1>5, <1>7, <2>2 DEF ApplyReturns
    <3> QED BY <1>3, <1>4, <1>7, <3>1, ApplyInMemoryOK
  <2> QED BY <2>1, <2>2
<1>8. CASE p.op.kind \in {"recommendations", "signals"} /\ ReadReturns(q, p, ok)
  <2>1. CASE ok /\ (p.op.kind = "recommendations" => TableRecs # {})
    <3>1. /\ Answer(q, p, {}, p.stale)
          /\ UNCHANGED <<pool, starting, connected, pgRuns, pgRecs, memRuns, memRecs, raced>>
      BY <1>3, <1>8, <2>1 DEF ReadReturns, memVars
    <3>2. q \notin disturbed => p.stale \cap p.before = {} /\ \A x \in {} : IsSettled(x)'
      BY <1>4, <1>8
    <3> QED BY <1>4, <1>5, <3>1, <3>2, PlainAnswerOK
  <2>2. CASE ~(ok /\ (p.op.kind = "recommendations" => TableRecs # {}))
    <3>1. ReadMemory(q, p)
      BY <1>8, <2>2 DEF ReadReturns
    <3>2. ASSUME q \notin disturbed PROVE StaleInMemory(p.op) \cap p.before = {}
      <4>1. p.op.kind = "recommendations" /\ TableRecs = {}
        BY <1>5, <2>2, <3>2
      <4>2. StaleInMemory(p.op) = {r \in MemoryRecs : memRecs[r] = "open"}
        BY <4>1 DEF StaleInMemory
      <4>3. \A x \in p.before : InTables(x)
        BY <1>4, <3>2
      <4> QED BY <4>1, <4>2, <4>3 DEF InTables
    <3> QED BY <1>3, <1>4, <3>1, <3>2, ReadMemoryOK
  <2> QED BY <2>1, <2>2
<1>9. CASE p.op.kind = "health" /\ HealthReturns(q, p, ok)
  <2>1. CASE connected' = connected
    <3>1. /\ Answer(q, p, {}, {})
          /\ UNCHANGED <<pool, starting, connected, pgRuns, pgRecs, memRuns, memRecs, raced>>
      BY <1>3, <1>9, <2>1 DEF HealthReturns, memVars
    <3>2. q \notin disturbed => {} \cap p.before = {} /\ \A x \in {} : IsSettled(x)'
      OBVIOUS
    <3> QED BY <1>4, <1>5, <3>1, <3>2, PlainAnswerOK
  <2>2. CASE connected' # connected
    <3>1. PICK none \in SUBSET Items : none = {}
      OBVIOUS
    <3> DEFINE a == [p EXCEPT !.stage = "answered", !.before = {}, !.stale = none]
    <3>2. /\ a \in Progress /\ a.stage = "answered" /\ a.op = p.op /\ a.at = p.at /\ a.stale = none
      <4>1. "answered" \in {"idle", "waiting", "answered"} /\ {} \in SUBSET Items /\ p \in Progress
        BY <1>4
      <4> QED BY <4>1, Zenon DEF Progress
    <3>3. /\ call' = [call EXCEPT ![q] = a] /\ Disturb({}) /\ query' = query
          /\ connected' = FALSE /\ UNCHANGED <<memRuns, memRecs, raced>>
      <4>1. call' = [call EXCEPT ![q] = [p EXCEPT !.stage = "answered", !.before = {}, !.stale = {}]]
        BY <1>9, <2>2 DEF HealthReturns
      <4>2. /\ Disturb({}) /\ query' = query
            /\ connected' = (connected /\ ok) /\ UNCHANGED <<memRuns, memRecs, raced>>
        BY <1>9, <2>2 DEF HealthReturns, memVars
      <4>3. connected' = FALSE
        BY <1>2, <1>5, <2>2, <4>2 DEF Types
      <4> QED BY <3>1, <4>1, <4>2, <4>3, Zenon
    <3> HIDE DEF a
    <3> QED BY <1>1, <1>3, <1>4, <3>1, <3>2, <3>3, EndedInDisturbance
  <2> QED BY <2>1, <2>2
<1> QED BY <1>3, <1>6, <1>7, <1>8, <1>9

-----------------------------------------------------------------------------
(* init(), close() and Postgres *)

\* What the statements and the calls say does not depend on the pool.
LEMMA PoolChanges ==
  ASSUME StoreInv, UNCHANGED <<memVars, dbVars, call, query, raced>>,
         PoolOK', pool' \in {"none", "open", "ending"}, connected' \in BOOLEAN,
         starting' \in {"connecting", "creating", "done"},
         starting = "done" => starting' = "done",
         connected' => connected \/ \A v \in Versions : query[v] = "none",
         \/ connected' = connected /\ UNCHANGED <<settled, disturbed>>
         \/ Disturb({})
  PROVE  StoreInv'
<1>1. /\ Types /\ CallsOK /\ QueriesOK /\ MemoryOK /\ ExecutedOK
      /\ AgreeOK /\ SettledOK /\ UndisturbedOK
      /\ UNCHANGED <<memRuns, memRecs, pgRuns, pgRecs, call, query, raced>>
  BY DEF StoreInv, memVars, dbVars
<1>2. \A c \in Requests : Waiting(c)' => Waiting(c)
  BY <1>1 DEF Waiting
<1>3. /\ settled' \subseteq Items /\ disturbed' \subseteq Requests
      /\ SettledOK' /\ UndisturbedOK'
  <2>1. CASE connected' = connected /\ UNCHANGED <<settled, disturbed>>
    <3>1. SettledOK'
      BY <1>1, <2>1 DEF SettledOK, IsSettled, InTables, InMemory, WasSent
    <3>2. UndisturbedOK'
      BY <1>1, <2>1 DEF UndisturbedOK, Relies, Waiting, InTables, WasSent
    <3> QED BY <1>1, <2>1, <3>1, <3>2 DEF Types
  <2>2. CASE Disturb({})
    <3>1. {} \in SUBSET Requests
      OBVIOUS
    <3> QED BY <1>1, <1>2, <2>2, <3>1, DisturbOK
  <2> QED BY <2>1, <2>2
<1>4. Types'
  BY <1>1, <1>3 DEF Types
<1>5. CallsOK' /\ QueriesOK' /\ MemoryOK' /\ ExecutedOK'
  BY <1>1 DEF CallsOK, QueriesOK, MemoryOK, ExecutedOK, Waiting, Wrote, RunOf
<1>6. AgreeOK'
  <2> SUFFICES ASSUME connected', NEW r \in Runs, r \notin raced PROVE AgreeOn(r)'
    BY <1>1 DEF AgreeOK
  <2>1. CASE connected
    BY <1>1, <2>1 DEF AgreeOK, AgreeOn, Pending, RunOf
  <2>2. CASE \A v \in Versions : query[v] = "none"
    <3>1. Pending(r)' = {}
      BY <1>1, <2>2 DEF Pending
    <3>2. memRuns[r] # None => memRuns[r] \in Versions
      BY <1>1 DEF Types
    <3> QED BY <1>1, <2>2, <3>1, <3>2 DEF AgreeOn
  <2> QED BY <2>1, <2>2
<1> QED BY <1>3, <1>4, <1>5, <1>6 DEF StoreInv

LEMMA StartupOK ==
  ASSUME StoreInv, NEW ok \in BOOLEAN, Connect(ok) \/ CreateTables(ok) PROVE StoreInv'
<1>1. PoolOK /\ Types /\ QueriesOK
  BY DEF StoreInv
<1>2. CASE Connect(ok)
  <2>1. /\ UNCHANGED <<memVars, dbVars, call, query, raced>> /\ starting = "connecting"
        /\ starting' \in {"connecting", "creating", "done"}
        /\ UNCHANGED <<pool, connected, settled, disturbed>>
    BY <1>2 DEF Connect
  <2>2. PoolOK'
    BY <1>1, <1>2 DEF Connect, PoolOK
  <2>3. pool' \in {"none", "open", "ending"} /\ connected' \in BOOLEAN
    BY <1>1, <2>1 DEF Types
  <2> QED BY <2>1, <2>2, <2>3, PoolChanges
<1>3. CASE CreateTables(ok)
  <2>1. /\ UNCHANGED <<memVars, dbVars, call, query, raced>> /\ starting = "creating"
        /\ starting' = "done" /\ pool' = pool /\ connected' = ok
        /\ IF ok THEN Disturb({}) ELSE UNCHANGED <<settled, disturbed>>
    BY <1>3 DEF CreateTables
  <2>2. PoolOK' /\ ~connected
    BY <1>1, <2>1 DEF PoolOK
  <2>3. pool' \in {"none", "open", "ending"}
    BY <1>1, <2>1 DEF Types
  <2>4. \A v \in Versions : query[v] = "none"
    BY <1>1, <2>1 DEF QueriesOK
  <2>5. (connected' = connected /\ UNCHANGED <<settled, disturbed>>) \/ Disturb({})
    BY <1>1, <2>1, <2>2 DEF Types
  <2> QED BY <2>1, <2>2, <2>3, <2>4, <2>5, PoolChanges
<1> QED BY <1>2, <1>3

LEMMA ShutdownOK ==
  ASSUME StoreInv, BeginClose \/ EndClose PROVE StoreInv'
<1>1. PoolOK /\ Types
  BY DEF StoreInv
<1>2. CASE BeginClose
  <2>1. /\ UNCHANGED <<memVars, dbVars, call, query, raced>> /\ pool' = "ending"
        /\ UNCHANGED <<connected, starting, settled, disturbed>>
    BY <1>2 DEF BeginClose
  <2>2. PoolOK'
    BY <1>1, <1>2 DEF BeginClose, PoolOK
  <2>3. /\ pool' \in {"none", "open", "ending"} /\ connected' \in BOOLEAN
        /\ starting' \in {"connecting", "creating", "done"}
    BY <1>1, <2>1 DEF Types
  <2> QED BY <2>1, <2>2, <2>3, PoolChanges
<1>3. CASE EndClose
  <2>1. /\ UNCHANGED <<memVars, dbVars, call, query, raced>> /\ pool' = "none"
        /\ starting = "done" /\ starting' = "done" /\ connected' = FALSE
        /\ IF connected THEN Disturb({}) ELSE UNCHANGED <<settled, disturbed>>
    BY <1>3 DEF EndClose
  <2>2. PoolOK'
    BY <2>1 DEF PoolOK
  <2>3. (connected' = connected /\ UNCHANGED <<settled, disturbed>>) \/ Disturb({})
    BY <1>1, <2>1 DEF Types
  <2> QED BY <2>1, <2>2, <2>3, PoolChanges
<1> QED BY <1>2, <1>3

\* A connection breaks.
LEMMA BreakOK ==
  ASSUME StoreInv, NEW v \in Versions, Break(v) PROVE StoreInv'
<1>1. /\ PoolOK /\ Types /\ CallsOK /\ QueriesOK /\ MemoryOK /\ ExecutedOK /\ AgreeOK
  BY DEF StoreInv
<1>2. /\ query[v] \in {"sent", "done"}
      /\ query' = [query EXCEPT ![v] = IF @ = "sent" THEN "lost" ELSE "void"]
      /\ Disturb({})
      /\ UNCHANGED <<pool, connected, starting, memRuns, memRecs, pgRuns, pgRecs, call, raced>>
  BY DEF Break, Lent, memVars, dbVars
<1>3. /\ query' \in [Versions -> {"none", "sent", "done", "lost", "void", "refused"}]
      /\ query[v] = "sent" => query'[v] = "lost"
      /\ query[v] = "done" => query'[v] = "void"
      /\ \A u \in Versions : u # v => query'[u] = query[u]
  BY <1>1, <1>2 DEF Types
<1>4. /\ settled' \subseteq Items /\ disturbed' \subseteq Requests
      /\ SettledOK' /\ UndisturbedOK'
  <2>1. {} \in SUBSET Requests /\ \A c \in Requests : Waiting(c)' => Waiting(c)
    BY <1>2 DEF Waiting
  <2> QED BY <1>1, <1>2, <2>1, DisturbOK
<1>5. Types' /\ PoolOK' /\ CallsOK' /\ MemoryOK'
  BY <1>1, <1>2, <1>3, <1>4 DEF Types, PoolOK, CallsOK, MemoryOK, Wrote, RunOf
<1>6. QueriesOK'
  <2>1. ASSUME NEW u \in Versions
        PROVE  /\ query'[u] = "sent" => query[u] = "sent"
               /\ query'[u] # "none" <=> query[u] # "none"
    BY <1>2, <1>3
  <2>2. ASSUME NEW c \in Requests, Waiting(c) PROVE <<c, call[c].at>> \in Versions
    <3>1. call[c].at \in 1..MaxSpans
      BY <1>1, <2>2, PostgresStoreAssumption
         DEF Types, Progress, CallsOK, CallOK, Waiting
    <3> QED BY <3>1, VersionFacts
  <2> QED BY <1>1, <1>2, <2>1, <2>2 DEF QueriesOK, Waiting
<1>7. ExecutedOK'
  <2>1. \A u \in Versions : query'[u] \in {"done", "void"} => query[u] \in {"done", "void"}
    BY <1>2, <1>3
  <2> QED BY <1>1, <1>2, <2>1 DEF ExecutedOK, RunOf
<1>8. AgreeOK'
  <2> SUFFICES ASSUME connected, NEW r \in Runs, r \notin raced PROVE AgreeOn(r)'
    BY <1>2 DEF AgreeOK
  <2>1. Pending(r)' \subseteq Pending(r)
    BY <1>2, <1>3 DEF Pending, RunOf
  <2>2. memRuns[r] # None /\ query'[memRuns[r]] \in {"done", "void"}
          => query[memRuns[r]] \in {"done", "void"}
    BY <1>1, <1>2, <1>3 DEF Types
  <2> QED BY <1>1, <1>2, <2>1, <2>2 DEF AgreeOK, AgreeOn
<1> QED BY <1>4, <1>5, <1>6, <1>7, <1>8 DEF StoreInv

\* Postgres executes a statement.
LEMMA ExecuteOK ==
  ASSUME StoreInv, NEW v \in Versions, Execute(v) PROVE StoreInv'
<1>1. /\ PoolOK /\ Types /\ CallsOK /\ QueriesOK /\ MemoryOK /\ ExecutedOK
      /\ AgreeOK /\ SettledOK /\ UndisturbedOK
  BY DEF StoreInv
<1>2. PICK q \in Requests : q = v[1]
  BY VersionFacts
<1>3. PICK op : op = call[q].op
  OBVIOUS
<1>4. PICK shown : shown = IF query[v] = "lost" THEN {} ELSE StaleInTables(op)
  OBVIOUS
<1>5. /\ \/ query[v] = "sent" /\ query' = [query EXCEPT ![v] = "done"]
         \/ /\ query[v] = "lost" /\ op.kind \in {"insert", "apply"}
            /\ query' = [query EXCEPT ![v] = "void"]
      /\ pgRuns' = IF op.kind = "insert" THEN [pgRuns EXCEPT ![RunOf(v)] = v] ELSE pgRuns
      /\ pgRecs' = [r \in TableRecs |->
                      IF op.kind = "apply" /\ op.rec = r THEN "applied" ELSE pgRecs[r]]
      /\ call' = [call EXCEPT ![q].stale = shown]
      /\ UNCHANGED <<pool, connected, starting, memRuns, memRecs, settled, disturbed, raced>>
  BY <1>2, <1>3, <1>4, Zenon DEF Execute, Stored, memVars
<1>6. PICK w : w = [call[q] EXCEPT !.stale = shown]
  OBVIOUS
<1>7. /\ call[q] \in Progress /\ shown \in SUBSET Items
  BY <1>1, <1>4, StaleIsItems DEF Types
<1>8. /\ w \in Progress /\ w.stage = call[q].stage /\ w.op = op /\ w.at = call[q].at
      /\ w.before = call[q].before /\ w.stale = shown
  BY <1>3, <1>6, <1>7, CallShows
<1>9. /\ call' = [call EXCEPT ![q] = w] /\ call'[q] = w
      /\ \A c \in Requests : c # q => call'[c] = call[c]
  BY <1>1, <1>5, <1>6 DEF Types
<1>10. \A c \in Requests : /\ call'[c].op = call[c].op /\ call'[c].at = call[c].at
                           /\ call'[c].stage = call[c].stage
                           /\ call'[c].before = call[c].before
                           /\ Waiting(c)' <=> Waiting(c)
  BY <1>3, <1>8, <1>9 DEF Waiting
<1>11. /\ query' \in [Versions -> {"none", "sent", "done", "lost", "void", "refused"}]
       /\ \/ query[v] = "sent" /\ query'[v] = "done"
          \/ query[v] = "lost" /\ query'[v] = "void"
       /\ \A u \in Versions : u # v => query'[u] = query[u]
  BY <1>1, <1>5 DEF Types
\* The call that v is a statement of.
<1>12. /\ call[q].stage # "idle" /\ op \in Ops[q] /\ v[2] <= call[q].at
       /\ query[v] = "sent" => Waiting(q) /\ call[q].at = v[2]
       /\ op.kind = "insert" => v[2] <= Len(op.runs) /\ RunOf(v) \in Runs /\ RunOf(v) = op.runs[v[2]]
  <2>1. /\ call[q].stage # "idle" /\ v[2] <= call[q].at
        /\ query[v] = "sent" => Waiting(q) /\ call[q].at = v[2]
    BY <1>1, <1>2, <1>11 DEF QueriesOK
  <2>2. op \in Ops[q] /\ (op.kind = "insert" => call[q].at <= Len(op.runs))
    BY <1>1, <1>3, <2>1 DEF CallsOK, CallOK
  <2>3. ASSUME op.kind = "insert"
        PROVE  v[2] <= Len(op.runs) /\ RunOf(v) \in Runs /\ RunOf(v) = op.runs[v[2]]
    <3>1. v[2] \in 1..MaxSpans /\ call[q].at \in 0..MaxSpans /\ Len(op.runs) \in 1..MaxSpans
      BY <1>7, <2>2, <2>3, VersionFacts, InsertFacts DEF Progress
    <3>2. v[2] \in 1..Len(op.runs)
      BY <2>1, <2>2, <2>3, <3>1, PostgresStoreAssumption
    <3> QED BY <1>2, <1>3, <2>2, <2>3, <3>2, InsertFacts DEF RunOf
  <2> QED BY <2>1, <2>2, <2>3
<1>13. /\ op.kind = "insert" => pgRuns'[RunOf(v)] = v
       /\ \A r \in Runs : \/ pgRuns'[r] = pgRuns[r]
                          \/ op.kind = "insert" /\ r = RunOf(v) /\ pgRuns'[r] = v
       /\ pgRuns' \in [Runs -> Versions \cup {None}]
  BY <1>1, <1>5, <1>12 DEF Types
<1>14. /\ \A r \in TableRecs : pgRecs[r] = "applied" => pgRecs'[r] = "applied"
       /\ op.kind = "apply" /\ op.rec \in TableRecs => pgRecs'[op.rec] = "applied"
       /\ op.kind # "apply" => \A r \in TableRecs : pgRecs'[r] = pgRecs[r]
       /\ pgRecs' \in [TableRecs -> {"open", "applied"}]
  BY <1>1, <1>5 DEF Types
<1>15. Types' /\ PoolOK'
  <2>1. call' \in [Requests -> Progress]
    BY <1>1, <1>8, <1>9 DEF Types
  <2> QED BY <1>1, <1>5, <1>11, <1>13, <1>14, <2>1 DEF Types, PoolOK
<1>16. CallsOK'
  <2>1. CallOK(q, w)
    <3>1. call[q].stage = "answered" => shown = {}
      <4>1. call[q].stage = "answered" => query[v] = "lost"
        BY <1>11, <1>12 DEF Waiting
      <4> QED BY <1>4, <4>1
    <3> QED BY <1>1, <1>3, <1>8, <1>12, <3>1 DEF CallsOK, CallOK
  <2> QED BY <1>1, <1>9, <2>1 DEF CallsOK
<1>17. QueriesOK'
  <2>1. ASSUME NEW u \in Versions
        PROVE  /\ query'[u] = "sent" => query[u] = "sent"
               /\ query'[u] # "none" <=> query[u] # "none"
    BY <1>11
  <2>2. ASSUME NEW c \in Requests, Waiting(c) PROVE <<c, call[c].at>> \in Versions
    <3>1. call[c].at \in 1..MaxSpans
      BY <1>1, <2>2, PostgresStoreAssumption
         DEF Types, Progress, CallsOK, CallOK, Waiting
    <3> QED BY <3>1, VersionFacts
  <2>3. \A u \in Versions : u[1] \in Requests
    BY VersionFacts
  <2> QED BY <1>1, <1>5, <1>10, <2>1, <2>2, <2>3 DEF QueriesOK
<1>18. MemoryOK'
  <2> SUFFICES ASSUME NEW r \in Runs, memRuns[r] # None PROVE Wrote(memRuns[r], r)'
    BY <1>5 DEF MemoryOK
  <2>1. memRuns[r] \in Versions /\ Wrote(memRuns[r], r)
    BY <1>1 DEF MemoryOK, Types
  <2> QED BY <1>5, <1>10, <2>1, VersionFacts DEF Wrote, RunOf
<1>19. ASSUME NEW u \in Versions PROVE call'[u[1]].op = call[u[1]].op /\ RunOf(u)' = RunOf(u)
  <2>1. u[1] \in Requests
    BY VersionFacts
  <2> QED BY <1>10, <2>1 DEF RunOf
<1>20. \A r \in Runs : pgRuns[r] # None => pgRuns'[r] # None
  BY <1>13, VersionFacts
<1>21. ExecutedOK'
  <2> SUFFICES ASSUME NEW u \in Versions, query'[u] \in {"done", "void"}
               PROVE  /\ call'[u[1]].op.kind = "insert" => pgRuns'[RunOf(u)'] # None
                      /\ call'[u[1]].op.kind = "apply" /\ call'[u[1]].op.rec \in TableRecs
                           => pgRecs'[call'[u[1]].op.rec] = "applied"
    BY DEF ExecutedOK
  <2>1. CASE u = v
    BY <1>2, <1>3, <1>12, <1>13, <1>14, <1>19, <2>1, VersionFacts
  <2>2. CASE u # v
    <3>1. query[u] \in {"done", "void"}
      BY <1>11, <2>2
    <3>2. /\ call[u[1]].op.kind = "insert" => pgRuns[RunOf(u)] # None
          /\ call[u[1]].op.kind = "apply" /\ call[u[1]].op.rec \in TableRecs
               => pgRecs[call[u[1]].op.rec] = "applied"
      BY <1>1, <3>1 DEF ExecutedOK
    <3>3. pgRuns[RunOf(u)] # None /\ call[u[1]].op.kind = "insert" => pgRuns'[RunOf(u)] # None
      BY <1>5, <1>12, <1>13, <1>20, VersionFacts
    <3> QED BY <1>14, <1>19, <3>2, <3>3
  <2> QED BY <2>1, <2>2
<1>22. AgreeOK'
  <2> SUFFICES ASSUME connected, NEW r \in Runs, r \notin raced PROVE AgreeOn(r)'
    BY <1>5 DEF AgreeOK
  <2>1. AgreeOn(r)
    BY <1>1 DEF AgreeOK
  <2>2. Pending(r)' \subseteq Pending(r)
    BY <1>11, <1>19 DEF Pending
  <2>3. memRuns'[r] = memRuns[r] /\ (memRuns[r] # None => memRuns[r] \in Versions)
    BY <1>1, <1>5 DEF Types
  <2>4. CASE op.kind = "insert" /\ r = RunOf(v)
    <3>1. v \in Pending(r)
      BY <1>2, <1>3, <1>11, <2>4 DEF Pending
    <3>2. memRuns[r] = v
      BY <2>1, <3>1 DEF AgreeOn
    <3> QED BY <1>13, <2>1, <2>2, <2>3, <2>4, <3>2 DEF AgreeOn
  <2>5. CASE ~(op.kind = "insert" /\ r = RunOf(v))
    <3>1. pgRuns'[r] = pgRuns[r]
      BY <1>13, <2>5
    <3>2. memRuns[r] # v \/ memRuns[r] = None
      <4>1. memRuns[r] # None => Wrote(memRuns[r], r)
        BY <1>1 DEF MemoryOK
      <4> QED BY <1>2, <1>3, <2>5, <4>1 DEF Wrote
    <3>3. memRuns[r] # None => query'[memRuns[r]] = query[memRuns[r]]
      BY <1>11, <2>3, <3>2
    <3> QED BY <2>1, <2>2, <2>3, <3>1, <3>3 DEF AgreeOn
  <2> QED BY <2>4, <2>5
<1>23. ASSUME NEW x, InTables(x) PROVE InTables(x)'
  BY <1>5, <1>14, <1>20, <1>23 DEF InTables
<1>24. ASSUME NEW r \in Runs, WasSent(r) PROVE WasSent(r)'
  <2>1. memRuns'[r] = memRuns[r] /\ memRuns[r] # None /\ memRuns[r] \in Versions
        /\ query[memRuns[r]] \in Sent
    BY <1>1, <1>5, <1>24 DEF WasSent, Types
  <2>2. query'[memRuns[r]] \in Sent
    BY <1>11, <2>1 DEF Sent
  <2> QED BY <2>1, <2>2 DEF WasSent
<1>25. SettledOK'
  <2>1. \A x : InMemory(x) => InMemory(x)'
    BY <1>5 DEF InMemory
  <2>2. \A x : IsSettled(x) => IsSettled(x)'
    BY <1>5, <1>23, <1>24, <2>1 DEF IsSettled
  <2> QED BY <1>1, <1>5, <2>2 DEF SettledOK
<1>26. UndisturbedOK'
  <2> SUFFICES ASSUME NEW c \in Requests, c \notin disturbed, Waiting(c)
               PROVE  Relies(c, call[c])'
    BY <1>5, <1>10 DEF UndisturbedOK
  <2>1. Relies(c, call[c])
    BY <1>1 DEF UndisturbedOK
  <2>2. /\ call[c].at \in 1..MaxSpans /\ call[c].op \in Ops[c]
        /\ call[c].op.kind = "insert" => call[c].at <= Len(call[c].op.runs)
    BY <1>1, PostgresStoreAssumption DEF Types, Progress, CallsOK, CallOK, Waiting
  <2>3. ASSUME NEW j \in 1..call[c].at
        PROVE  /\ <<c, j>> \in Versions
               /\ query[<<c, j>>] \in {"sent", "done"} => query'[<<c, j>>] \in {"sent", "done"}
               /\ query[<<c, j>>] = "done" => query'[<<c, j>>] = "done"
    <3>1. j \in 1..MaxSpans
      BY <2>2, PostgresStoreAssumption
    <3>2. <<c, j>> \in Versions
      BY <3>1, VersionFacts
    <3> QED BY <1>11, <3>2
  <2>4. ASSUME call[c].op.kind = "insert", NEW j \in 1..call[c].at
        PROVE  WasSent(call[c].op.runs[j])'
    <3>1. call[c].op.runs[j] \in Runs
      BY <2>2, <2>4, InsertFacts, PostgresStoreAssumption
    <3>2. PICK r \in Runs : r = call[c].op.runs[j]
      BY <3>1
    <3>3. WasSent(r)
      BY <2>1, <2>4, <3>2 DEF Relies
    <3>4. WasSent(r)'
      BY <1>24, <3>3
    <3>5. call'[c].op = call[c].op
      BY <1>10
    <3> QED BY <3>2, <3>4, <3>5 DEF WasSent
  <2>5. ASSUME call[c].op.kind \in {"recommendations", "signals"},
               query'[<<c, call[c].at>>] = "done"
        PROVE  call'[c].stale \cap call[c].before = {}
    <3>1. \A x \in call[c].before : InTables(x)
      BY <2>1 DEF Relies
    <3>2. CASE v = <<c, call[c].at>>
      <4>1. c = q /\ call'[c].stale = shown /\ op.kind \in {"recommendations", "signals"}
        BY <1>2, <1>3, <1>8, <1>9, <2>5, <3>2
      <4>2. query[v] = "sent"
        BY <1>11, <2>5, <3>2
      <4>3. shown = StaleInTables(op)
        BY <1>4, <4>2
      <4>4. CASE op.kind = "recommendations"
        <5>1. StaleInTables(op) = {r \in TableRecs : pgRecs[r] = "open"}
          BY <4>4 DEF StaleInTables
        <5> QED BY <3>1, <4>1, <4>3, <5>1 DEF InTables
      <4>5. CASE op.kind = "signals"
        <5>1. StaleInTables(op) = {r \in Runs : pgRuns[r] = None}
          BY <4>5 DEF StaleInTables
        <5> QED BY <3>1, <4>1, <4>3, <5>1 DEF InTables
      <4> QED BY <4>1, <4>4, <4>5
    <3>3. CASE v # <<c, call[c].at>>
      <4>1. <<c, call[c].at>> \in Versions /\ query[<<c, call[c].at>>] = "done"
        BY <1>11, <2>2, <2>5, <3>3, VersionFacts
      <4>2. c # q
        <5> SUFFICES ASSUME c = q PROVE FALSE
          OBVIOUS
        <5>1. v[2] \in 1..call[c].at /\ v = <<c, v[2]>>
          BY <1>2, <1>12, <2>2, VersionFacts, PostgresStoreAssumption
        <5>2. query[v] = "done"
          <6>1. v[2] \in 1..(call[c].at - 1)
            BY <2>2, <3>3, <5>1
          <6> QED BY <2>1, <5>1, <6>1 DEF Relies
        <5> QED BY <1>11, <5>2
      <4>3. call'[c] = call[c]
        BY <1>9, <4>2
      <4> QED BY <2>1, <2>5, <4>1, <4>3 DEF Relies
    <3> QED BY <3>2, <3>3
  <2>6. /\ \A j \in 1..(call[c].at - 1) : query'[<<c, j>>] = "done"
        /\ query'[<<c, call[c].at>>] \in {"sent", "done"}
    <3>1. \A j \in 1..(call[c].at - 1) : j \in 1..call[c].at
      BY <2>2
    <3>2. call[c].at \in 1..call[c].at
      BY <2>2
    <3> QED BY <2>1, <2>3, <3>1, <3>2 DEF Relies
  <2>7. connected /\ \A x \in call[c].before : InTables(x)'
    BY <1>23, <2>1 DEF Relies
  <2> QED BY <1>5, <1>10, <2>4, <2>5, <2>6, <2>7 DEF Relies
<1> QED BY <1>15, <1>16, <1>17, <1>18, <1>21, <1>22, <1>25, <1>26 DEF StoreInv

-----------------------------------------------------------------------------
(* The store's invariant *)

LEMMA InitStore == Init => StoreInv
<1> SUFFICES ASSUME Init PROVE StoreInv
  OBVIOUS
<1>1. /\ pool \in {"none", "open"} /\ connected = FALSE
      /\ starting = IF pool = "open" THEN "connecting" ELSE "done"
      /\ memRuns = [r \in Runs |-> None] /\ pgRuns = memRuns
      /\ memRecs = [r \in MemoryRecs |-> "open"] /\ pgRecs = [r \in TableRecs |-> "open"]
      /\ call = [q \in Requests |-> Idle] /\ query = [v \in Versions |-> "none"]
      /\ settled = {} /\ disturbed = {} /\ raced = {}
  BY DEF Init
<1>2. Types
  BY <1>1, IdleFacts DEF Types
<1>3. \A q \in Requests : call[q] = Idle /\ ~Waiting(q)
  BY <1>1, IdleFacts DEF Waiting
<1>4. CallsOK
  BY <1>3, IdleFacts DEF CallsOK, CallOK
<1>5. PoolOK /\ QueriesOK /\ MemoryOK /\ ExecutedOK /\ AgreeOK /\ SettledOK /\ UndisturbedOK
  BY <1>1, <1>3 DEF PoolOK, QueriesOK, MemoryOK, ExecutedOK, AgreeOK, SettledOK, UndisturbedOK
<1> QED BY <1>2, <1>4, <1>5 DEF StoreInv

LEMMA StutterStore ==
  ASSUME StoreInv, UNCHANGED storeVars PROVE StoreInv'
<1>1. UNCHANGED <<pool, connected, starting, memRuns, memRecs, pgRuns, pgRecs,
                  call, query, settled, disturbed, raced>>
  BY DEF storeVars
<1> QED BY <1>1 DEF StoreInv, PoolOK, Types, CallsOK, QueriesOK, MemoryOK, ExecutedOK, AgreeOK,
             SettledOK, UndisturbedOK, Waiting, Wrote, RunOf, AgreeOn, Pending, IsSettled,
             InTables, InMemory, WasSent, Relies

LEMMA StepStore ==
  ASSUME StoreInv, [Next]_vars PROVE StoreInv'
<1>1. ASSUME NEW q \in Requests, Arrive(q) PROVE StoreInv'
  BY <1>1, StartOK DEF Arrive
<1>2. ASSUME NEW q \in Requests, Resume(q) PROVE StoreInv'
  BY <1>2, ReturnOK DEF Resume
<1>3. ASSUME NEW c \in Clients, Join(c) PROVE StoreInv'
  BY <1>3, StutterStore DEF Join
<1>4. CASE Startup
  BY <1>4, StartupOK DEF Startup
<1>5. CASE Shutdown
  BY <1>5, ShutdownOK DEF Shutdown
<1>6. ASSUME NEW v \in Versions, Database(v) PROVE StoreInv'
  BY <1>6, ExecuteOK, BreakOK DEF Database
<1>7. CASE UNCHANGED vars
  BY <1>7, StutterStore DEF vars
<1> QED BY <1>1, <1>2, <1>3, <1>4, <1>5, <1>6, <1>7 DEF Next

LEMMA StoreInvariant == Spec => []StoreInv
<1>1. GatewayInit => StoreInv
  BY InitStore DEF GatewayInit
<1>2. StoreInv /\ [Next]_vars => StoreInv'
  BY StepStore
<1> QED BY <1>1, <1>2, PTL DEF Spec

\* A store that uses Postgres has a pool: close() may come while init() is still
\* creating the tables, but pool.end() waits for the connection that init() has
\* (db.ts:221, :567).
THEOREM PoolSafety == Spec => []ConnectedHasPool
<1>1. StoreInv => ConnectedHasPool
  BY DEF StoreInv, PoolOK, ConnectedHasPool
<1> QED BY <1>1, StoreInvariant, PTL

\* A run that was written undisturbed, with no other write of it on its way, is
\* in Postgres as it is in memory: insertRun() keeps it in memory before it sends
\* it, and returns when it was executed (db.ts:401-439).
THEOREM StoresAgreeThm == Spec => []StoresAgree
<1>1. ASSUME StoreInv, NEW r \in (settled \cap Runs) \ raced, connected, Pending(r) = {}
      PROVE  pgRuns[r] = memRuns[r]
  <2>1. Types /\ MemoryOK /\ AgreeOK /\ SettledOK
    BY <1>1 DEF StoreInv
  <2>2. WasSent(r) /\ AgreeOn(r)
    BY <1>1, <2>1 DEF SettledOK, IsSettled, AgreeOK
  <2>3. memRuns[r] \in Versions /\ Wrote(memRuns[r], r) /\ query[memRuns[r]] \in Sent
    BY <2>1, <2>2 DEF Types, MemoryOK, WasSent
  <2>4. query[memRuns[r]] \in {"done", "void"}
    BY <1>1, <2>3 DEF Sent, Pending, Wrote
  <2> QED BY <2>2, <2>4 DEF AgreeOn, WasSent
<1>2. StoreInv => StoresAgree
  BY <1>1 DEF StoresAgree
<1> QED BY <1>2, StoreInvariant, PTL

\* A reader that was not disturbed sees what was written, and answered, before
\* it called, whether it reads the tables or memory (db.ts:260-399).
THEOREM ReadsFollowWritesThm == Spec => []ReadsFollowWrites
<1>1. StoreInv => ReadsFollowWrites
  BY DEF StoreInv, CallsOK, CallOK, ReadsFollowWrites, Answered
<1> QED BY <1>1, StoreInvariant, PTL

-----------------------------------------------------------------------------
(* What is announced *)

\* One of the copies of a recommendation that is in memory is applied.
Applied(rec) ==
  rec \in MemoryRecs => \/ memRecs[rec] = "applied"
                        \/ rec \in TableRecs /\ pgRecs[rec] = "applied"

Announced(q) == q \in ToSet(history) /\ \A c \in present[q] : q \in received[c]

GatewayTypes ==
  /\ history \in Seq(Requests)
  /\ sockets \subseteq Clients
  /\ received \in [Clients -> SUBSET Requests]
  /\ present \in [Requests -> SUBSET Clients]

\* A client that was connected when a request arrived still is.
AnnouncedInv ==
  /\ GatewayTypes
  /\ \A q \in Requests : present[q] \subseteq sockets
  /\ \A q \in Requests :
       Answered(q) /\ call[q].op.kind = "apply" => Applied(call[q].op.rec) /\ Announced(q)

LEMMA Appended ==
  ASSUME NEW s \in Seq(Requests), NEW q \in Requests
  PROVE  /\ Append(s, q) \in Seq(Requests) /\ q \in ToSet(Append(s, q))
         /\ ToSet(s) \subseteq ToSet(Append(s, q))
<1>1. /\ Append(s, q) \in Seq(Requests) /\ Len(Append(s, q)) = Len(s) + 1 /\ Len(s) \in Nat
      /\ DOMAIN s = 1..Len(s) /\ DOMAIN Append(s, q) = 1..(Len(s) + 1)
      /\ Append(s, q)[Len(s) + 1] = q
      /\ \A i \in 1..Len(s) : Append(s, q)[i] = s[i]
  OBVIOUS
<1>2. Len(s) + 1 \in DOMAIN Append(s, q)
  BY <1>1
<1>3. \A i \in DOMAIN s : i \in DOMAIN Append(s, q) /\ Append(s, q)[i] = s[i]
  BY <1>1
<1> QED BY <1>1, <1>2, <1>3 DEF ToSet

\* A step of caller q changes no other call, keeps what is applied, and answers
\* an apply only when it is.
LEMMA SendStep ==
  ASSUME Types, NEW q \in Requests, NEW p \in Progress, Send(q, p)
  PROVE  (\A c \in Requests \ {q} : call'[c] = call[c]) /\ call'[q].stage = "waiting"
<1> DEFINE w == [p EXCEPT !.stage = "waiting"]
<1>1. w.stage = "waiting" /\ call' = [call EXCEPT ![q] = w]
  BY CallWaits DEF Send
<1> HIDE DEF w
<1> QED BY <1>1 DEF Types

LEMMA AnswerStep ==
  ASSUME Types, NEW q \in Requests, NEW p \in Progress, NEW items, NEW stale,
         Answer(q, p, items, stale)
  PROVE  (\A c \in Requests \ {q} : call'[c] = call[c]) /\ call'[q].op = p.op
<1> DEFINE show == IF q \in disturbed THEN {} ELSE stale \cap p.before
           a == [p EXCEPT !.stage = "answered", !.before = {}, !.stale = show]
<1>1. call' = [call EXCEPT ![q] = a]
  BY Zenon DEF Answer
<1>2. a.op = p.op
  BY Zenon DEF Progress
<1> HIDE DEF a
<1> QED BY <1>1, <1>2 DEF Types

\* What a step of caller q does to the calls and the recommendations.
CallerStep(q) ==
  /\ \A c \in Requests \ {q} : call'[c] = call[c]
  /\ \A r \in MemoryRecs : memRecs[r] = "applied" => memRecs'[r] = "applied"
  /\ call'[q].stage = "answered" /\ call'[q].op.kind = "apply" => Applied(call[q].op.rec)'

LEMMA InsertStep ==
  ASSUME Types, NEW q \in Requests, NEW p \in Progress, p.op \in Ops[q],
         p.op.kind = "insert", NEW i \in 1..Len(p.op.runs), Insert(q, p, i)
  PROVE  CallerStep(q)
<1>1. memRecs' = memRecs
  BY DEF Insert
<1>2. CASE Usable
  <2> DEFINE w == [p EXCEPT !.at = i]
  <2>1. i \in 0..MaxSpans
    BY InsertFacts, PostgresStoreAssumption
  <2>2. w \in Progress
    BY <2>1, CallAdvances
  <2>3. Send(q, w)
    BY <1>2 DEF Insert
  <2> HIDE DEF w
  <2> QED BY <1>1, <2>2, <2>3, SendStep DEF CallerStep
<1>3. CASE ~Usable
  <2>1. Answer(q, p, ToSet(p.op.runs), {})
    BY <1>3 DEF Insert
  <2>2. (\A c \in Requests \ {q} : call'[c] = call[c]) /\ call'[q].op = p.op
    BY <2>1, AnswerStep, Zenon
  <2> QED BY <1>1, <2>2 DEF CallerStep
<1> QED BY <1>2, <1>3

LEMMA ApplyStep ==
  ASSUME Types, NEW q \in Requests, NEW p \in Progress, ApplyInMemory(q, p)
  PROVE  CallerStep(q)
<1>1. /\ memRecs' = [r \in MemoryRecs |->
                       IF r \in {p.op.rec} \cap MemoryRecs THEN "applied" ELSE memRecs[r]]
      /\ Answer(q, p, {p.op.rec} \cap MemoryRecs, {})
  BY DEF ApplyInMemory
<1>2. (\A c \in Requests \ {q} : call'[c] = call[c]) /\ call'[q].op = p.op
  BY <1>1, AnswerStep
<1> QED BY <1>1, <1>2 DEF CallerStep, Applied

LEMMA ReadStep ==
  ASSUME Types, NEW q \in Requests, NEW p \in Progress, ReadMemory(q, p), p.op.kind # "apply"
  PROVE  CallerStep(q)
<1>1. Answer(q, p, {}, StaleInMemory(p.op)) /\ memRecs' = memRecs
  BY DEF ReadMemory, memVars
<1>2. (\A c \in Requests \ {q} : call'[c] = call[c]) /\ call'[q].op = p.op
  BY <1>1, AnswerStep
<1> QED BY <1>1, <1>2 DEF CallerStep

LEMMA StartStep ==
  ASSUME StoreInv, NEW q \in Requests, Start(q)
  PROVE  CallerStep(q) /\ ~Answered(q) /\ pgRecs' = pgRecs
<1>1. PICK op \in Ops[q] : Call(q, op)
  BY DEF Start
<1>2. PICK p : p = NewProgress(op)
  OBVIOUS
<1>3. /\ call[q].stage = "idle" /\ pgRecs' = pgRecs
      /\ \/ op.kind = "insert" /\ Insert(q, p, 1)
         \/ Send(q, p) /\ memRecs' = memRecs
         \/ ApplyInMemory(q, p)
         \/ op.kind \notin {"insert", "apply"} /\ ReadMemory(q, p)
  BY <1>1, <1>2, Zenon DEF Call, NewProgress, dbVars, memVars
<1>4. p \in Progress /\ p.op = op /\ Types
  BY <1>2, <1>3, NewFacts DEF StoreInv
<1>5. op.kind = "insert" => 1 \in 1..Len(p.op.runs)
  BY <1>4, InsertFacts
<1>6. CallerStep(q)
  <2>1. CASE op.kind = "insert" /\ Insert(q, p, 1)
    BY <1>4, <1>5, <2>1, InsertStep
  <2>2. CASE Send(q, p) /\ memRecs' = memRecs
    BY <1>4, <2>2, SendStep DEF CallerStep
  <2>3. CASE ApplyInMemory(q, p)
    BY <1>4, <2>3, ApplyStep
  <2>4. CASE op.kind \notin {"insert", "apply"} /\ ReadMemory(q, p)
    BY <1>4, <2>4, ReadStep
  <2> QED BY <1>3, <2>1, <2>2, <2>3, <2>4
<1> QED BY <1>3, <1>6 DEF Answered

LEMMA ReturnStep ==
  ASSUME StoreInv, NEW q \in Requests, Return(q)
  PROVE  CallerStep(q) /\ ~Answered(q) /\ pgRecs' = pgRecs
<1>1. PICK p : p = call[q]
  OBVIOUS
<1>2. PICK ok : ok = (query[<<q, p.at>>] = "done")
  OBVIOUS
<1>3. /\ Waiting(q) /\ query[<<q, p.at>>] # "sent" /\ pgRecs' = pgRecs
      /\ \/ p.op.kind = "insert" /\ InsertReturns(q, p)
         \/ p.op.kind = "apply" /\ ApplyReturns(q, p, ok)
         \/ p.op.kind \in {"recommendations", "signals"} /\ ReadReturns(q, p, ok)
         \/ p.op.kind = "health" /\ HealthReturns(q, p, ok)
  BY <1>1, <1>2, Zenon DEF Return, dbVars
<1> SUFFICES CallerStep(q)
  BY <1>3 DEF Answered, Waiting
<1>4. /\ p \in Progress /\ p.op \in Ops[q] /\ p.at \in 1..MaxSpans /\ Types /\ ExecutedOK
      /\ p.op.kind = "insert" => p.at <= Len(p.op.runs)
      /\ <<q, p.at>> \in Versions /\ <<q, p.at>>[1] = q
  <2>1. p \in Progress /\ GoesOn(q, p)
    BY <1>1, <1>3, WaitingFacts
  <2> QED BY <2>1, VersionFacts DEF GoesOn, StoreInv
<1>5. CASE p.op.kind = "insert" /\ InsertReturns(q, p)
  <2>1. CASE p.at = Len(p.op.runs)
    <3>1. Answer(q, p, ToSet(p.op.runs), {}) /\ memRecs' = memRecs
      BY <1>5, <2>1 DEF InsertReturns, memVars
    <3>2. (\A c \in Requests \ {q} : call'[c] = call[c]) /\ call'[q].op = p.op
      BY <1>4, <3>1, AnswerStep, Zenon
    <3> QED BY <1>5, <3>1, <3>2 DEF CallerStep
  <2>2. CASE p.at # Len(p.op.runs)
    <3>1. p.at + 1 \in 1..Len(p.op.runs) /\ Insert(q, p, p.at + 1)
      BY <1>4, <1>5, <2>2, InsertFacts DEF InsertReturns
    <3> QED BY <1>4, <1>5, <3>1, InsertStep
  <2> QED BY <2>1, <2>2
<1>6. CASE p.op.kind = "apply" /\ ApplyReturns(q, p, ok)
  <2>1. CASE ok /\ p.op.rec \in TableRecs
    <3>1. Answer(q, p, {p.op.rec}, {}) /\ memRecs' = memRecs
      BY <1>6, <2>1 DEF ApplyReturns, memVars
    <3>2. pgRecs[p.op.rec] = "applied"
      BY <1>1, <1>2, <1>4, <1>6, <2>1 DEF ExecutedOK
    <3>3. (\A c \in Requests \ {q} : call'[c] = call[c]) /\ call'[q].op = p.op
      BY <1>4, <3>1, AnswerStep, Zenon
    <3> QED BY <1>3, <2>1, <3>1, <3>2, <3>3 DEF CallerStep, Applied
  <2>2. CASE ~(ok /\ p.op.rec \in TableRecs)
    BY <1>4, <1>6, <2>2, ApplyStep DEF ApplyReturns
  <2> QED BY <2>1, <2>2
<1>7. CASE p.op.kind \in {"recommendations", "signals"} /\ ReadReturns(q, p, ok)
  <2>1. CASE Answer(q, p, {}, p.stale) /\ memRecs' = memRecs
    <3>1. (\A c \in Requests \ {q} : call'[c] = call[c]) /\ call'[q].op = p.op
      BY <1>4, <2>1, AnswerStep, Zenon
    <3> QED BY <1>7, <2>1, <3>1 DEF CallerStep
  <2>2. CASE ReadMemory(q, p)
    <3>1. p.op.kind # "apply"
      BY <1>7
    <3> QED BY <1>4, <2>2, <3>1, ReadStep, Zenon
  <2> QED BY <1>7, <2>1, <2>2 DEF ReadReturns, memVars
<1>8. CASE p.op.kind = "health" /\ HealthReturns(q, p, ok)
  <2> DEFINE a == [p EXCEPT !.stage = "answered", !.before = {}, !.stale = {}]
  <2>1. /\ Answer(q, p, {}, {}) \/ call' = [call EXCEPT ![q] = a]
        /\ memRecs' = memRecs
    BY <1>8, Zenon DEF HealthReturns, memVars
  <2>2. a.op = p.op
    BY <1>4, Zenon DEF Progress
  <2> HIDE DEF a
  <2>3. (\A c \in Requests \ {q} : call'[c] = call[c]) /\ call'[q].op = p.op
    <3>1. CASE Answer(q, p, {}, {})
      BY <1>4, <3>1, AnswerStep, Zenon
    <3>2. CASE call' = [call EXCEPT ![q] = a]
      BY <1>4, <2>2, <3>2 DEF Types
    <3> QED BY <2>1, <3>1, <3>2
  <2> QED BY <1>8, <2>1, <2>3 DEF CallerStep
<1> QED BY <1>3, <1>5, <1>6, <1>7, <1>8

\* What is applied or announced stays so.
Keeps ==
  /\ \A r \in MemoryRecs : memRecs[r] = "applied" => memRecs'[r] = "applied"
  /\ \A r \in TableRecs : pgRecs[r] = "applied" => pgRecs'[r] = "applied"
  /\ ToSet(history) \subseteq ToSet(history')
  /\ \A c \in Clients : received[c] \subseteq received'[c]

LEMMA StaysAnnounced ==
  ASSUME AnnouncedInv, Keeps, NEW q \in Requests, Answered(q), call[q].op.kind = "apply",
         call'[q].op = call[q].op, present'[q] = present[q]
  PROVE  Applied(call[q].op.rec)' /\ Announced(q)'
<1>1. Applied(call[q].op.rec) /\ Announced(q) /\ present[q] \subseteq Clients
  BY DEF AnnouncedInv, GatewayTypes
<1>2. Applied(call[q].op.rec)'
  BY <1>1 DEF Applied, Keeps
<1>3. Announced(q)'
  BY <1>1 DEF Announced, Keeps
<1> QED BY <1>2, <1>3

\* The handler of a request goes on.
LEMMA HandlerOK ==
  ASSUME AnnouncedInv, NEW q \in Requests, CallerStep(q), ~Answered(q), pgRecs' = pgRecs,
         Continue(q), sockets' = sockets,
         \A c \in Requests \ {q} : present'[c] = present[c],
         present' \in [Requests -> SUBSET Clients], present'[q] \subseteq sockets
  PROVE  AnnouncedInv'
<1>1. GatewayTypes
  BY DEF AnnouncedInv
<1>2. CASE call'[q].stage = "answered" /\ call'[q].op.kind = "apply"
  <2>1. /\ history' = Append(history, q)
        /\ received' = [c \in Clients |-> IF c \in sockets THEN received[c] \cup {q}
                                          ELSE received[c]]
    BY <1>2 DEF Continue, Dispatch
  <2>2. /\ history' \in Seq(Requests) /\ q \in ToSet(history')
        /\ ToSet(history) \subseteq ToSet(history')
    BY <1>1, <2>1, Appended DEF GatewayTypes
  <2>3. GatewayTypes' /\ Keeps
    BY <1>1, <2>1, <2>2 DEF GatewayTypes, Keeps, CallerStep
  <2>4. Announced(q)'
    BY <1>1, <2>1, <2>2 DEF GatewayTypes, Announced
  <2>5. ASSUME NEW c \in Requests, Answered(c)', call'[c].op.kind = "apply"
        PROVE  Applied(call[c].op.rec)' /\ Announced(c)'
    <3>1. CASE c = q
      BY <1>2, <2>4, <3>1 DEF CallerStep
    <3>2. CASE c # q
      <4>1. call'[c] = call[c] /\ Answered(c) /\ call[c].op.kind = "apply"
            /\ present'[c] = present[c]
        BY <2>5, <3>2 DEF CallerStep, Answered
      <4> QED BY <2>3, <4>1, StaysAnnounced
    <3> QED BY <3>1, <3>2
  <2>6. \A c \in Requests : present'[c] \subseteq sockets'
    BY DEF AnnouncedInv
  <2> QED BY <2>3, <2>5, <2>6 DEF AnnouncedInv
<1>3. CASE ~(call'[q].stage = "answered" /\ call'[q].op.kind = "apply")
  <2>1. history' = history /\ received' = received
    BY <1>3, Zenon DEF Continue, events
  <2>2. GatewayTypes' /\ Keeps
    BY <1>1, <2>1 DEF GatewayTypes, Keeps, CallerStep
  <2>3. ASSUME NEW c \in Requests, Answered(c)', call'[c].op.kind = "apply"
        PROVE  Applied(call[c].op.rec)' /\ Announced(c)'
    <3>1. c # q
      BY <1>3, <2>3 DEF Answered
    <3>2. call'[c] = call[c] /\ Answered(c) /\ call[c].op.kind = "apply"
          /\ present'[c] = present[c]
      BY <2>3, <3>1 DEF CallerStep, Answered
    <3> QED BY <2>2, <3>2, StaysAnnounced
  <2>4. \A c \in Requests : present'[c] \subseteq sockets'
    BY DEF AnnouncedInv
  <2> QED BY <2>2, <2>3, <2>4 DEF AnnouncedInv
<1> QED BY <1>2, <1>3

\* A step that answers nobody.
LEMMA OthersOK ==
  ASSUME AnnouncedInv, UNCHANGED <<history, received, present, memRecs>>,
         \A r \in TableRecs : pgRecs[r] = "applied" => pgRecs'[r] = "applied",
         \A q \in Requests : Answered(q)' => Answered(q) /\ call'[q].op = call[q].op,
         sockets \subseteq sockets', sockets' \subseteq Clients
  PROVE  AnnouncedInv'
<1>1. GatewayTypes' /\ Keeps
  BY DEF AnnouncedInv, GatewayTypes, Keeps
<1>2. \A q \in Requests : present'[q] \subseteq sockets'
  BY DEF AnnouncedInv
<1>3. ASSUME NEW q \in Requests, Answered(q)', call'[q].op.kind = "apply"
      PROVE  Applied(call[q].op.rec)' /\ Announced(q)'
  BY <1>1, <1>3, StaysAnnounced
<1> QED BY <1>1, <1>2, <1>3 DEF AnnouncedInv

LEMMA DatabaseStep ==
  ASSUME StoreInv, NEW v \in Versions, Execute(v) \/ Break(v)
  PROVE  /\ memRecs' = memRecs
         /\ \A r \in TableRecs : pgRecs[r] = "applied" => pgRecs'[r] = "applied"
         /\ \A q \in Requests : Answered(q)' => Answered(q) /\ call'[q].op = call[q].op
<1>1. CASE Execute(v)
  <2> DEFINE shown == IF query[v] = "lost" THEN {} ELSE StaleInTables(call[v[1]].op)
             w == [call[v[1]] EXCEPT !.stale = shown]
  <2>1. /\ memRecs' = memRecs
        /\ pgRecs' = [r \in TableRecs |->
             IF call[v[1]].op.kind = "apply" /\ call[v[1]].op.rec = r THEN "applied" ELSE pgRecs[r]]
        /\ call' = [call EXCEPT ![v[1]].stale = shown]
    BY <1>1, Zenon DEF Execute, memVars
  <2>2. v[1] \in Requests /\ call \in [Requests -> Progress] /\ shown \in SUBSET Items
    BY VersionFacts, StaleIsItems DEF StoreInv, Types
  <2>3. call' = [call EXCEPT ![v[1]] = w]
    BY <2>1, <2>2
  <2> HIDE DEF shown
  <2>4. w.stage = call[v[1]].stage /\ w.op = call[v[1]].op
    BY <2>2, CallShows
  <2> HIDE DEF w
  <2> QED BY <2>1, <2>2, <2>3, <2>4 DEF Answered
<1>2. CASE Break(v)
  BY <1>2 DEF Break, memVars, dbVars, Answered
<1> QED BY <1>1, <1>2

LEMMA StepAnnounced ==
  ASSUME StoreInv, AnnouncedInv, [Next]_vars PROVE AnnouncedInv'
<1>1. GatewayTypes /\ \A q \in Requests : present[q] \subseteq sockets
  BY DEF AnnouncedInv
<1>2. ASSUME NEW q \in Requests, Arrive(q) PROVE AnnouncedInv'
  <2>1. /\ Start(q) /\ Continue(q) /\ sockets' = sockets
        /\ present' = [present EXCEPT ![q] = sockets]
    BY <1>2 DEF Arrive
  <2>2. CallerStep(q) /\ ~Answered(q) /\ pgRecs' = pgRecs
    BY <2>1, StartStep
  <2>3. /\ \A c \in Requests \ {q} : present'[c] = present[c]
        /\ present' \in [Requests -> SUBSET Clients] /\ present'[q] \subseteq sockets
    BY <1>1, <2>1 DEF GatewayTypes
  <2> QED BY <2>1, <2>2, <2>3, HandlerOK
<1>3. ASSUME NEW q \in Requests, Resume(q) PROVE AnnouncedInv'
  <2>1. Return(q) /\ Continue(q) /\ sockets' = sockets /\ present' = present
    BY <1>3 DEF Resume
  <2>2. CallerStep(q) /\ ~Answered(q) /\ pgRecs' = pgRecs
    BY <2>1, ReturnStep
  <2>3. /\ \A c \in Requests \ {q} : present'[c] = present[c]
        /\ present' \in [Requests -> SUBSET Clients] /\ present'[q] \subseteq sockets
    BY <1>1, <2>1 DEF GatewayTypes
  <2> QED BY <2>1, <2>2, <2>3, HandlerOK
<1>4. ASSUME NEW c \in Clients, Join(c) PROVE AnnouncedInv'
  <2>1. /\ UNCHANGED <<history, received, present, memRecs, pgRecs, call>>
        /\ sockets' = sockets \cup {c}
    BY <1>4 DEF Join, storeVars, events
  <2>2. sockets \subseteq sockets' /\ sockets' \subseteq Clients
    BY <1>1, <2>1 DEF GatewayTypes
  <2> QED BY <2>1, <2>2, OthersOK DEF Answered
<1>5. CASE Startup \/ Shutdown \/ UNCHANGED vars
  <2>1. UNCHANGED <<history, received, present, sockets, memRecs, pgRecs, call>>
    BY <1>5 DEF Startup, Shutdown, Connect, CreateTables, BeginClose, EndClose,
                vars, storeVars, events, memVars, dbVars
  <2>2. sockets \subseteq sockets' /\ sockets' \subseteq Clients
    BY <1>1, <2>1 DEF GatewayTypes
  <2> QED BY <2>1, <2>2, OthersOK DEF Answered
<1>6. ASSUME NEW v \in Versions, Database(v) PROVE AnnouncedInv'
  <2>1. (Execute(v) \/ Break(v)) /\ UNCHANGED <<history, received, present, sockets>>
    BY <1>6 DEF Database, events
  <2>2. /\ memRecs' = memRecs
        /\ \A r \in TableRecs : pgRecs[r] = "applied" => pgRecs'[r] = "applied"
        /\ \A q \in Requests : Answered(q)' => Answered(q) /\ call'[q].op = call[q].op
    BY <2>1, DatabaseStep
  <2>3. sockets \subseteq sockets' /\ sockets' \subseteq Clients
    BY <1>1, <2>1 DEF GatewayTypes
  <2> QED BY <2>1, <2>2, <2>3, OthersOK
<1> QED BY <1>2, <1>3, <1>4, <1>5, <1>6 DEF Next

LEMMA GatewayInvariant == Spec => [](StoreInv /\ AnnouncedInv)
<1>1. GatewayInit => StoreInv /\ AnnouncedInv
  <2> SUFFICES ASSUME GatewayInit PROVE AnnouncedInv
    BY InitStore DEF GatewayInit
  <2>1. /\ history = <<>> /\ sockets = {} /\ received = [c \in Clients |-> {}]
        /\ present = [q \in Requests |-> {}] /\ call = [q \in Requests |-> Idle]
    BY DEF GatewayInit, Init
  <2>2. \A q \in Requests : ~Answered(q)
    BY <2>1, IdleFacts DEF Answered
  <2> QED BY <2>1, <2>2 DEF AnnouncedInv, GatewayTypes
<1>2. StoreInv /\ AnnouncedInv /\ [Next]_vars => StoreInv' /\ AnnouncedInv'
  BY StepStore, StepAnnounced
<1> QED BY <1>1, <1>2, PTL DEF Spec

\* Once the apply of a recommendation that is in memory is answered, one of its
\* copies is applied, every client connected all along has the event, and the
\* event is in the history: applyRecommendation() updates the table or, when no
\* row was, the copy in memory, and the handler announces it in the same turn of
\* the event loop (index.ts:140-169, db.ts:378-399).
THEOREM AppliedIsAppliedAndAnnouncedThm == Spec => []AppliedIsAppliedAndAnnounced
<1>1. AnnouncedInv => AppliedIsAppliedAndAnnounced
  BY DEF AnnouncedInv, AppliedIsAppliedAndAnnounced, Applied, Announced
<1> QED BY <1>1, GatewayInvariant, PTL

\* The types of the control plane's state.
THEOREM TypeCorrectness == Spec => []TypeOK
<1>1. StoreInv => StoreTypeOK
  <2> SUFFICES ASSUME StoreInv PROVE StoreTypeOK
    OBVIOUS
  <2>1. Types /\ CallsOK
    BY DEF StoreInv
  <2>2. ASSUME NEW q \in Requests
        PROVE  /\ call[q].stage \in {"idle", "waiting", "answered"}
               /\ call[q].op \in Ops[q] \cup {None}
               /\ call[q].at \in 0..MaxSpans
               /\ call[q].before \subseteq Items
               /\ call[q].stale \subseteq Items
    <3>1. call[q] \in Progress /\ CallOK(q, call[q])
      BY <2>1 DEF Types, CallsOK
    <3>2. call[q].op \in Ops[q] \cup {None}
      BY <3>1 DEF CallOK, Idle
    <3> QED BY <3>1, <3>2 DEF Progress
  <2> QED BY <2>1, <2>2 DEF StoreTypeOK, Types, Items
<1>2. StoreInv /\ AnnouncedInv => TypeOK
  BY <1>1 DEF AnnouncedInv, GatewayTypes, TypeOK
<1> QED BY <1>2, GatewayInvariant, PTL
================================================================================
