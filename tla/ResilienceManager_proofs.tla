---------------------- MODULE ResilienceManager_proofs ----------------------
(* Proofs about the failover manager, for any chain of providers, any number *)
(* of workers, any rules and any thresholds.                                 *)
EXTENDS ResilienceManager, WellFoundedInduction, TLAPS

(* What holds of one breaker between two of its methods.                     *)
Sound(b) ==
  /\ b.state = "closed" => b.failures < FailureThreshold
  /\ b.successes < HalfOpenSuccessNeeded
  /\ b.successes > 0 => b.state = "half_open"
  /\ b.cool > 0 => b.state = "open"

(* A new breaker, and a breaker after trip(), is sound; so is one whose clock *)
(* advanced or whose probe was allowed.                                       *)
LEMMA NewBreakerSound == NewBreaker \in Breaker /\ Sound(NewBreaker)
  BY BreakerAssumption DEF NewBreaker, Breaker, CircuitState, Sound

LEMMA TripSound ==
  ASSUME NEW b \in Breaker
  PROVE  Trip(b) \in Breaker /\ Sound(Trip(b)) /\ Trip(b).state = "open"
  BY BreakerAssumption DEF Trip, Breaker, CircuitState, Sound

LEMMA ElapseSound ==
  ASSUME NEW b \in Breaker, Sound(b)
  PROVE  /\ Elapse(b) \in Breaker /\ Sound(Elapse(b))
         /\ Elapse(b).state = b.state /\ Elapse(b).successes = b.successes
  BY BreakerAssumption DEF Elapse, Breaker, CircuitState, Sound

LEMMA ProbeSound ==
  ASSUME NEW b \in Breaker, Sound(b)
  PROVE  /\ Probe(b) \in Breaker /\ Sound(Probe(b))
         /\ Probe(b).state # b.state =>
              /\ b.state = "open" /\ b.cool = 0
              /\ Probe(b).state = "half_open" /\ Probe(b).successes = 0
         /\ Probe(b).state = b.state => Probe(b) = b
         /\ (Probe(b).state = "open") <=> ~CanExecute(b)
<1> USE DEF Breaker, CircuitState
<1>1. CASE b.state = "open" /\ b.cool = 0
  <2>1. Probe(b) = [state |-> "half_open", failures |-> b.failures,
                    successes |-> 0, cool |-> 0]
    BY <1>1 DEF Probe
  <2>2. Probe(b) \in Breaker /\ Sound(Probe(b))
    BY <2>1, BreakerAssumption DEF Sound
  <2>3. QED
    BY <1>1, <2>1, <2>2 DEF CanExecute
<1>2. CASE ~(b.state = "open" /\ b.cool = 0)
  BY <1>2 DEF Probe, CanExecute
<1>3. QED
  BY <1>1, <1>2

LEMMA CountFailureType ==
  ASSUME NEW b \in Breaker
  PROVE  /\ CountFailure(b) \in Breaker
         /\ CountFailure(b).state = b.state
         /\ CountFailure(b).successes = b.successes
         /\ CountFailure(b).cool = b.cool
  BY BreakerAssumption DEF CountFailure, Breaker, CircuitState

(* The tail of record_success(): it never leaves "open", closes a half-open   *)
(* breaker exactly at the last success needed, and counts one by one.         *)
LEMMA CountSuccessSound ==
  ASSUME NEW b \in Breaker, b.failures < FailureThreshold, Sound(b)
  PROVE  LET c == CountSuccess(b)
         IN /\ c \in Breaker /\ Sound(c)
            /\ b.state # "half_open" => c = b
            /\ b.state = "half_open" =>
                 \/ c.state = "half_open" /\ c.successes = b.successes + 1
                 \/ /\ c.state = "closed" /\ c.successes = 0
                    /\ b.successes + 1 >= HalfOpenSuccessNeeded
<1> USE DEF Breaker, CircuitState
<1>1. CASE b.state # "half_open"
  BY <1>1 DEF CountSuccess
<1>2. CASE b.state = "half_open" /\ b.successes + 1 >= HalfOpenSuccessNeeded
  <2>1. CountSuccess(b) = [state |-> "closed", failures |-> b.failures,
                           successes |-> 0, cool |-> b.cool]
    BY <1>2 DEF CountSuccess
  <2>2. QED
    BY <1>2, <2>1, BreakerAssumption DEF Sound
<1>3. CASE b.state = "half_open" /\ ~(b.successes + 1 >= HalfOpenSuccessNeeded)
  <2>1. CountSuccess(b) = [state |-> "half_open", failures |-> b.failures,
                           successes |-> b.successes + 1, cool |-> b.cool]
    BY <1>3 DEF CountSuccess
  <2>2. QED
    BY <1>3, <2>1, BreakerAssumption DEF Sound
<1>4. QED
  BY <1>1, <1>2, <1>3

(* record_success() and record_failure(), in any state of the breaker: only    *)
(* the last success needed closes a half-open one, a success that leaves it    *)
(* half-open is counted, and an open breaker stays open.                       *)
LEMMA RecordOutcomeSound ==
  ASSUME NEW b \in Breaker, Sound(b), NEW outcome \in Outcomes
  PROVE  LET c == RecordOutcome(b, outcome)
         IN /\ c \in Breaker /\ Sound(c)
            /\ b.state = "open" => c.state = "open"
            /\ c.state = "half_open" => b.state = "half_open"
            /\ b.state = "half_open" /\ c.state = "half_open" =>
                 /\ outcome \in {"good", "slow"}
                 /\ c.successes = b.successes + 1
            /\ b.state = "half_open" /\ c.state = "closed" =>
                 /\ outcome \in {"good", "slow"}
                 /\ b.successes + 1 >= HalfOpenSuccessNeeded
<1> DEFINE f == CountFailure(b)
           c == RecordOutcome(b, outcome)
<1>0. f \in Breaker /\ f.state = b.state /\ f.successes = b.successes /\ f.cool = b.cool
  BY CountFailureType
<1> HIDE DEF f
<1>1. CASE outcome = "error"
  <2> DEFINE g == [f EXCEPT !.successes = 0]
  <2>1. /\ g \in Breaker /\ g.state = b.state /\ g.successes = 0
        /\ g.cool = b.cool /\ g.failures = f.failures
    BY <1>0, BreakerAssumption DEF Breaker
  <2> HIDE DEF g
  <2>2. c = IF b.state = "half_open" \/ (b.state = "closed" /\ g.failures >= FailureThreshold)
            THEN Trip(g) ELSE g
    BY <1>1 DEF RecordOutcome, RecordFailure, f, g
  <2>3. CASE b.state = "half_open" \/ (b.state = "closed" /\ g.failures >= FailureThreshold)
    BY <2>1, <2>2, <2>3, TripSound
  <2>4. CASE ~(b.state = "half_open" \/ (b.state = "closed" /\ g.failures >= FailureThreshold))
    <3>1. c = g
      BY <2>2, <2>4
    <3>2. Sound(g)
      BY <2>1, <2>4, BreakerAssumption DEF Sound, Breaker
    <3>3. QED
      BY <2>1, <2>4, <3>1, <3>2 DEF Breaker, CircuitState
  <2>5. QED
    BY <2>3, <2>4
<1>2. CASE outcome = "low"
  <2>1. c = Trip(b)
    BY <1>2 DEF RecordOutcome, RecordSuccess
  <2>2. QED
    BY <2>1, TripSound
<1>3. CASE outcome = "slow"
  <2>1. c = IF f.failures >= FailureThreshold THEN Trip(b) ELSE CountSuccess(f)
    BY <1>3 DEF RecordOutcome, RecordSuccess, f
  <2>2. CASE f.failures >= FailureThreshold
    BY <2>1, <2>2, TripSound
  <2>3. CASE ~(f.failures >= FailureThreshold)
    <3>1. f.failures < FailureThreshold /\ Sound(f)
      BY <1>0, <2>3, BreakerAssumption DEF Sound, Breaker
    <3>2. QED
      BY <1>0, <1>3, <2>1, <2>3, <3>1, CountSuccessSound
  <2>4. QED
    BY <2>2, <2>3
<1>4. CASE outcome = "good"
  <2> DEFINE g == [b EXCEPT !.failures = 0]
  <2>1. /\ g \in Breaker /\ g.failures = 0 /\ g.state = b.state
        /\ g.successes = b.successes /\ g.cool = b.cool
    BY BreakerAssumption DEF Breaker
  <2>2. g.failures < FailureThreshold /\ Sound(g)
    BY <2>1, BreakerAssumption DEF Sound
  <2>3. c = CountSuccess(g)
    BY <1>4 DEF RecordOutcome, RecordSuccess
  <2> HIDE DEF g
  <2>4. QED
    BY <1>4, <2>1, <2>2, <2>3, CountSuccessSound
<1>5. QED
  BY <1>1, <1>2, <1>3, <1>4 DEF Outcomes

-----------------------------------------------------------------------------
(* The inductive invariant: types, and what the counters mean.               *)
IInv == TypeOK /\ CountersMatchState

LEMMA CountersAreSound ==
  CountersMatchState <=>
    \A p \in Providers : /\ Sound(breaker[p])
                         /\ breaker[p].state = "half_open" =>
                              breaker[p].successes = streak[p]
  BY DEF CountersMatchState, Sound

(* A nonempty set of naturals has a least element.                            *)
LEMMA LeastNatural ==
  ASSUME NEW S \in SUBSET Nat, S # {}
  PROVE  \E i \in S : \A j \in S : i <= j
<1>1. PICK i \in S : \A j \in S : ~(<<j, i>> \in OpToRel(<, Nat))
  BY NatLessThanWellFounded, WFMin
<1>2. \A j \in S : ~(j < i)
  BY <1>1 DEF OpToRel
<1>3. QED
  BY <1>2

(* The selected provider is the first of the chain that may execute; if none  *)
(* may, it is the fallback.                                                   *)
LEMMA SelectedIsFirst ==
  \E i \in DOMAIN Chain :
    /\ Selected = Chain[i]
    /\ \A j \in 1..(i - 1) : ~CanExecute(breaker[Chain[j]])
    /\ ~CanExecute(breaker[Chain[i]]) => i = Len(Chain)
<1> DEFINE able == {i \in DOMAIN Chain : CanExecute(breaker[Chain[i]])}
<1>0. DOMAIN Chain = 1..Len(Chain) /\ Len(Chain) \in Nat \ {0}
  BY ManagerAssumption
<1>1. CASE able = {}
  <2>1. Selected = Chain[Len(Chain)]
    BY <1>1 DEF Selected, Fallback
  <2>2. QED
    BY <1>0, <1>1, <2>1
<1>2. CASE able # {}
  <2> DEFINE first == CHOOSE i \in able : \A j \in able : i <= j
  <2>1. first \in able /\ \A j \in able : first <= j
    <3>1. able \in SUBSET Nat
      BY <1>0
    <3>2. \E i \in able : \A j \in able : i <= j
      BY <1>2, <3>1, LeastNatural
    <3>3. QED
      BY <3>2
  <2>2. Selected = Chain[first]
    BY <1>2 DEF Selected
  <2> HIDE DEF first
  <2>3. \A j \in 1..(first - 1) : j \notin able
    BY <1>0, <2>1
  <2>4. QED
    BY <1>0, <2>1, <2>2, <2>3
<1>3. QED
  BY <1>1, <1>2

LEMMA SelectedType == Selected \in Providers
  BY SelectedIsFirst DEF Providers

LEMMA InitIInv == Init => IInv
<1> SUFFICES ASSUME Init PROVE IInv
  OBVIOUS
<1>1. TypeOK
  BY NewBreakerSound, BreakerAssumption DEF Init, TypeOK
<1>2. CountersMatchState
  BY NewBreakerSound, BreakerAssumption DEF Init, CountersMatchState, NewBreaker
<1>3. QED
  BY <1>1, <1>2 DEF IInv

LEMMA SelectIInv ==
  ASSUME IInv, NEW w \in Workers, Select(w)
  PROVE  IInv'
<1> DEFINE p == Selected
<1>1. p \in Providers /\ breaker[p] \in Breaker /\ Sound(breaker[p])
  BY SelectedType, CountersAreSound DEF IInv, TypeOK
<1>2. breaker' = [breaker EXCEPT ![p] = Probe(breaker[p])]
  BY DEF Select
<1>3. streak' = IF Probe(breaker[p]).state # breaker[p].state
                THEN [streak EXCEPT ![p] = 0] ELSE streak
  BY <1>1, <1>2 DEF Select, IInv, TypeOK
<1>4. call' = [call EXCEPT ![w] = p] /\ calm' = calm /\ due' = {}
  BY DEF Select, NoPass
<1> HIDE DEF p
<1>5. Probe(breaker[p]) \in Breaker /\ Sound(Probe(breaker[p]))
  BY <1>1, ProbeSound
<1>6. TypeOK'
  BY <1>1, <1>2, <1>3, <1>4, <1>5, BreakerAssumption DEF IInv, TypeOK
<1>7. ASSUME NEW q \in Providers
      PROVE  /\ Sound(breaker'[q])
             /\ breaker'[q].state = "half_open" => breaker'[q].successes = streak'[q]
  <2>1. CASE q = p
    BY <1>1, <1>2, <1>3, <1>5, <2>1, ProbeSound, CountersAreSound DEF IInv, TypeOK
  <2>2. CASE q # p
    BY <1>2, <1>3, <2>2, CountersAreSound DEF IInv, TypeOK
  <2>3. QED
    BY <2>1, <2>2
<1>8. QED
  BY <1>6, <1>7 DEF IInv, CountersMatchState, Sound

LEMMA CompleteIInv ==
  ASSUME IInv, NEW w \in Workers, Complete(w)
  PROVE  IInv'
<1> DEFINE p == call[w]
<1>1. p \in Providers /\ breaker[p] \in Breaker /\ Sound(breaker[p])
  BY CountersAreSound DEF IInv, TypeOK, Complete
<1>2. PICK outcome \in Outcomes :
        /\ breaker' = [breaker EXCEPT ![p] = RecordOutcome(breaker[p], outcome)]
        /\ streak' = [streak EXCEPT ![p] =
             IF breaker[p].state = "half_open" /\ outcome \in {"good", "slow"}
             THEN streak[p] + 1 ELSE 0]
  BY DEF Complete, Outcomes
<1>3. call' = [call EXCEPT ![w] = Idle] /\ calm' = calm /\ due' = {}
  BY DEF Complete, NoPass
<1> DEFINE c == RecordOutcome(breaker[p], outcome)
<1>4. /\ c \in Breaker /\ Sound(c)
      /\ c.state = "half_open" => /\ breaker[p].state = "half_open"
                                  /\ outcome \in {"good", "slow"}
                                  /\ c.successes = breaker[p].successes + 1
  BY <1>1, RecordOutcomeSound
<1>5. breaker[p].state = "half_open" =>
        streak[p] = breaker[p].successes /\ streak[p] < HalfOpenSuccessNeeded
  BY <1>1, CountersAreSound DEF IInv, Sound
<1> HIDE DEF c, p
<1>6. TypeOK'
  <2>1. breaker' \in [Providers -> Breaker]
    BY <1>1, <1>2, <1>4 DEF IInv, TypeOK, c
  <2>2. streak' \in [Providers -> 0..HalfOpenSuccessNeeded]
    BY <1>1, <1>2, <1>5, BreakerAssumption DEF IInv, TypeOK
  <2>3. QED
    BY <1>3, <2>1, <2>2 DEF IInv, TypeOK
<1>7. ASSUME NEW q \in Providers
      PROVE  /\ Sound(breaker'[q])
             /\ breaker'[q].state = "half_open" => breaker'[q].successes = streak'[q]
  <2>1. CASE q = p
    <3>1. breaker'[q] = c
      BY <1>1, <1>2, <2>1 DEF IInv, TypeOK, c
    <3>2. QED
      BY <1>1, <1>2, <1>4, <1>5, <2>1, <3>1 DEF IInv, TypeOK
  <2>2. CASE q # p
    BY <1>2, <2>2, CountersAreSound DEF IInv, TypeOK
  <2>3. QED
    BY <2>1, <2>2
<1>8. QED
  BY <1>6, <1>7 DEF IInv, CountersMatchState, Sound

LEMMA EvaluateTraceIInv ==
  ASSUME IInv, EvaluateTrace
  PROVE  IInv'
<1>1. PICK tripped \in SUBSET Providers :
        /\ breaker' = [p \in Providers |->
             IF p \in tripped THEN Trip(breaker[p]) ELSE breaker[p]]
        /\ streak' = [p \in Providers |-> IF p \in tripped THEN 0 ELSE streak[p]]
        /\ due' \subseteq Providers
  <2> DEFINE Hits(met) == {r \in DOMAIN Rules : Rules[r].condition \in met}
             Raises(met) == {r \in Hits(met) : Rules[r].action = "webhook_dispatch"}
             Trips(rules) == {Rules[r].target : r \in
               {q \in rules : Rules[q].action = "circuit_breaker_trip"}}
             Tripped(met, end) == Trips({r \in Hits(met) : r < end})
             Pass(met, end) ==
               /\ breaker' = [p \in Providers |->
                    IF p \in Tripped(met, end) THEN Trip(breaker[p]) ELSE breaker[p]]
               /\ streak' = [p \in Providers |->
                    IF p \in Tripped(met, end) THEN 0 ELSE streak[p]]
               /\ due' = Trips(Hits(met))
  <2>0. PICK met \in SUBSET {Rules[r].condition : r \in DOMAIN Rules} :
          \E end \in Raises(met) \cup {Len(Rules) + 1} : Pass(met, end)
    BY DEF EvaluateTrace
  <2>1. PICK end \in Raises(met) \cup {Len(Rules) + 1} : Pass(met, end)
    BY <2>0
  <2>2. Tripped(met, end) \in SUBSET Providers /\ Trips(Hits(met)) \subseteq Providers
    BY ManagerAssumption
  <2>3. QED
    BY <2>1, <2>2
<1>2. call' = call /\ calm' = calm
  BY DEF EvaluateTrace
<1>3. \A p \in Providers : breaker'[p] \in Breaker /\ Sound(breaker'[p])
  BY <1>1, TripSound, CountersAreSound DEF IInv, TypeOK
<1>4. TypeOK'
  BY <1>1, <1>2, <1>3, BreakerAssumption DEF IInv, TypeOK
<1>5. \A p \in Providers :
        breaker'[p].state = "half_open" => breaker'[p].successes = streak'[p]
  BY <1>1, TripSound, CountersAreSound DEF IInv, TypeOK
<1>6. QED
  BY <1>3, <1>4, <1>5 DEF IInv, CountersMatchState, Sound

LEMMA TickIInv ==
  ASSUME IInv, Tick
  PROVE  IInv'
<1>1. /\ breaker' = [p \in Providers |-> Elapse(breaker[p])]
      /\ UNCHANGED <<call, calm, streak>> /\ due' = {}
  BY DEF Tick, NoPass
<1>2. \A p \in Providers :
        /\ breaker'[p] \in Breaker /\ Sound(breaker'[p])
        /\ breaker'[p].state = breaker[p].state
        /\ breaker'[p].successes = breaker[p].successes
  BY <1>1, ElapseSound, CountersAreSound DEF IInv, TypeOK
<1>3. TypeOK'
  BY <1>1, <1>2 DEF IInv, TypeOK
<1>4. \A p \in Providers :
        breaker'[p].state = "half_open" => breaker'[p].successes = streak'[p]
  BY <1>1, <1>2, CountersAreSound DEF IInv
<1>5. QED
  BY <1>2, <1>3, <1>4 DEF IInv, CountersMatchState, Sound

LEMMA NextIInv == IInv /\ [Next]_vars => IInv'
<1> SUFFICES ASSUME IInv, [Next]_vars PROVE IInv'
  OBVIOUS
<1>1. ASSUME NEW w \in Workers, Select(w) PROVE IInv'
  BY <1>1, SelectIInv
<1>2. ASSUME NEW w \in Workers, Complete(w) PROVE IInv'
  BY <1>2, CompleteIInv
<1>3. ASSUME NEW w \in Workers, Abandon(w) PROVE IInv'
  BY <1>3 DEF Abandon, NoPass, IInv, TypeOK, CountersMatchState
<1>4. CASE EvaluateTrace
  BY <1>4, EvaluateTraceIInv
<1>5. CASE Tick
  BY <1>5, TickIInv
<1>6. CASE Weather
  BY <1>6 DEF Weather, NoPass, IInv, TypeOK, CountersMatchState
<1>7. CASE UNCHANGED vars
  BY <1>7 DEF vars, IInv, TypeOK, CountersMatchState
<1>8. QED
  BY <1>1, <1>2, <1>3, <1>4, <1>5, <1>6, <1>7 DEF Next

(* Every variable keeps its type: counters stay in their bounds without the   *)
(* clamping the saturated model would hide.                                   *)
THEOREM TypeCorrect == Spec => []TypeOK
<1>1. IInv => TypeOK
  BY DEF IInv
<1>2. QED
  BY <1>1, InitIInv, NextIInv, PTL DEF Spec

(* Late answers, manual trips and remediation never put a breaker's counters  *)
(* at odds with its state.                                                    *)
THEOREM CountersSafe == Spec => []CountersMatchState
<1>1. IInv => CountersMatchState
  BY DEF IInv
<1>2. QED
  BY <1>1, InitIInv, NextIInv, PTL DEF Spec

-----------------------------------------------------------------------------
(* A breaker leaves "open" in one way: its cooldown is over and a caller asks *)
(* for it, which makes it half-open.                                          *)
THEOREM OpenOnlyHalfOpensThm == Spec => OpenOnlyHalfOpens
<1> DEFINE Step == \A p \in Providers :
             breaker[p].state = "open" /\ breaker'[p].state # "open" =>
               /\ breaker'[p].state = "half_open"
               /\ breaker[p].cool = 0
<1>1. IInv /\ [Next]_vars => [Step]_vars
  <2> SUFFICES ASSUME IInv, [Next]_vars,
                      NEW p \in Providers,
                      breaker[p].state = "open", breaker'[p].state # "open"
               PROVE  breaker'[p].state = "half_open" /\ breaker[p].cool = 0
    OBVIOUS
  <2>0. breaker \in [Providers -> Breaker] /\ \A q \in Providers : Sound(breaker[q])
    BY CountersAreSound DEF IInv, TypeOK
  <2>1. ASSUME NEW w \in Workers, Select(w)
        PROVE  breaker'[p].state = "half_open" /\ breaker[p].cool = 0
    <3>1. breaker' = [breaker EXCEPT ![Selected] = Probe(breaker[Selected])]
      BY <2>1 DEF Select
    <3>2. QED
      BY <2>0, <3>1, SelectedType, ProbeSound
  <2>2. ASSUME NEW w \in Workers, Complete(w)
        PROVE  FALSE
    <3>1. PICK outcome \in Outcomes :
            breaker' = [breaker EXCEPT ![call[w]] = RecordOutcome(breaker[call[w]], outcome)]
      BY <2>2 DEF Complete, Outcomes
    <3>2. QED
      BY <2>0, <3>1, RecordOutcomeSound
  <2>3. ASSUME NEW w \in Workers, Abandon(w)
        PROVE  FALSE
    BY <2>3 DEF Abandon
  <2>4. CASE EvaluateTrace
    <3>1. breaker'[p] = breaker[p] \/ breaker'[p] = Trip(breaker[p])
      BY <2>4 DEF EvaluateTrace
    <3>2. QED
      BY <2>0, <3>1, TripSound
  <2>5. CASE Tick
    BY <2>0, <2>5, ElapseSound DEF Tick
  <2>6. CASE Weather
    BY <2>6 DEF Weather
  <2>7. CASE UNCHANGED vars
    BY <2>7 DEF vars
  <2>8. QED
    BY <2>1, <2>2, <2>3, <2>4, <2>5, <2>6, <2>7 DEF Next
<1>2. QED
  BY <1>1, InitIInv, NextIInv, PTL DEF Spec, OpenOnlyHalfOpens

(* A half-open breaker closes only with the last of the successes needed, all *)
(* of them reported in a row since it half-opened.                            *)
THEOREM RecoveryIsEarnedThm == Spec => RecoveryIsEarned
<1> DEFINE Step == \A p \in Providers :
             breaker[p].state = "half_open" /\ breaker'[p].state = "closed" =>
               streak'[p] >= HalfOpenSuccessNeeded
<1>1. IInv /\ [Next]_vars => [Step]_vars
  <2> SUFFICES ASSUME IInv, [Next]_vars,
                      NEW p \in Providers,
                      breaker[p].state = "half_open", breaker'[p].state = "closed"
               PROVE  streak'[p] >= HalfOpenSuccessNeeded
    OBVIOUS
  <2>0. /\ breaker \in [Providers -> Breaker] /\ \A q \in Providers : Sound(breaker[q])
        /\ breaker[p].successes = streak[p]
        /\ streak \in [Providers -> 0..HalfOpenSuccessNeeded]
    BY CountersAreSound DEF IInv, TypeOK
  <2>1. ASSUME NEW w \in Workers, Select(w)
        PROVE  FALSE
    <3>1. breaker' = [breaker EXCEPT ![Selected] = Probe(breaker[Selected])]
      BY <2>1 DEF Select
    <3>2. QED
      BY <2>0, <3>1, SelectedType, ProbeSound
  <2>2. ASSUME NEW w \in Workers, Complete(w)
        PROVE  streak'[p] >= HalfOpenSuccessNeeded
    <3>1. PICK outcome \in Outcomes :
            /\ breaker' = [breaker EXCEPT ![call[w]] = RecordOutcome(breaker[call[w]], outcome)]
            /\ streak' = [streak EXCEPT ![call[w]] =
                 IF breaker[call[w]].state = "half_open" /\ outcome \in {"good", "slow"}
                 THEN streak[call[w]] + 1 ELSE 0]
      BY <2>2 DEF Complete, Outcomes
    <3>2. p = call[w]
      BY <2>0, <3>1
    <3>3. /\ breaker'[p] = RecordOutcome(breaker[p], outcome)
          /\ streak'[p] = IF outcome \in {"good", "slow"} THEN streak[p] + 1 ELSE 0
      BY <2>0, <3>1, <3>2
    <3>4. outcome \in {"good", "slow"} /\ breaker[p].successes + 1 >= HalfOpenSuccessNeeded
      BY <2>0, <3>3, RecordOutcomeSound
    <3>5. QED
      BY <2>0, <3>3, <3>4
  <2>3. ASSUME NEW w \in Workers, Abandon(w)
        PROVE  FALSE
    BY <2>3 DEF Abandon
  <2>4. CASE EvaluateTrace
    <3>1. breaker'[p] = breaker[p] \/ breaker'[p] = Trip(breaker[p])
      BY <2>4 DEF EvaluateTrace
    <3>2. QED
      BY <2>0, <3>1, TripSound
  <2>5. CASE Tick
    BY <2>0, <2>5, ElapseSound DEF Tick
  <2>6. CASE Weather
    BY <2>6 DEF Weather
  <2>7. CASE UNCHANGED vars
    BY <2>7 DEF vars
  <2>8. QED
    BY <2>1, <2>2, <2>3, <2>4, <2>5, <2>6, <2>7 DEF Next
<1>2. QED
  BY <1>1, InitIInv, NextIInv, PTL DEF Spec, RecoveryIsEarned

(* The continuity chain is honoured: a call goes past a provider only if that *)
(* one is tripped, and to a tripped one only if it is the last of the chain.  *)
THEOREM FirstHealthyProviderThm == Spec => FirstHealthyProvider
<1> DEFINE Step == \A w \in Workers : call[w] = Idle /\ call'[w] # Idle =>
             \E i \in DOMAIN Chain :
               /\ Chain[i] = call'[w]
               /\ \A j \in 1..(i - 1) : breaker'[Chain[j]].state = "open"
               /\ breaker'[Chain[i]].state = "open" => i = Len(Chain)
<1>1. IInv /\ [Next]_vars => [Step]_vars
  <2> SUFFICES ASSUME IInv, [Next]_vars,
                      NEW w \in Workers, call[w] = Idle, call'[w] # Idle
               PROVE  \E i \in DOMAIN Chain :
                        /\ Chain[i] = call'[w]
                        /\ \A j \in 1..(i - 1) : breaker'[Chain[j]].state = "open"
                        /\ breaker'[Chain[i]].state = "open" => i = Len(Chain)
    OBVIOUS
  <2>0. /\ breaker \in [Providers -> Breaker] /\ \A q \in Providers : Sound(breaker[q])
        /\ call \in [Workers -> Providers \cup {Idle}]
    BY CountersAreSound DEF IInv, TypeOK
  <2>1. ~Complete(w) /\ ~Abandon(w)
    BY DEF Complete, Abandon
  <2>2. PICK v \in Workers : Select(v) \/ Complete(v) \/ Abandon(v)
    BY DEF Next, EvaluateTrace, Tick, Weather, vars
  <2>3. v = w /\ Select(w)
    BY <2>0, <2>1, <2>2 DEF Select, Complete, Abandon
  <2>4. /\ breaker' = [breaker EXCEPT ![Selected] = Probe(breaker[Selected])]
        /\ call'[w] = Selected
    BY <2>0, <2>3 DEF Select
  <2>5. PICK i \in DOMAIN Chain :
          /\ Selected = Chain[i]
          /\ \A j \in 1..(i - 1) : ~CanExecute(breaker[Chain[j]])
          /\ ~CanExecute(breaker[Chain[i]]) => i = Len(Chain)
    BY SelectedIsFirst
  <2>6. breaker'[Chain[i]].state = "open" => i = Len(Chain)
    BY <2>0, <2>4, <2>5, SelectedType, ProbeSound
  <2>7. ASSUME NEW j \in 1..(i - 1)
        PROVE  breaker'[Chain[j]].state = "open"
    <3>1. j \in DOMAIN Chain /\ Chain[j] \in Providers
      BY <2>5, ManagerAssumption DEF Providers
    <3>2. breaker[Chain[j]].state = "open" /\ ~CanExecute(breaker[Chain[j]])
      BY <2>5 DEF CanExecute
    <3>3. breaker'[Chain[j]] = breaker[Chain[j]] \/ breaker'[Chain[j]] = Probe(breaker[Chain[j]])
      BY <2>0, <2>4, <3>1
    <3>4. QED
      BY <2>0, <3>1, <3>2, <3>3, ProbeSound
  <2>8. QED
    BY <2>4, <2>5, <2>6, <2>7
<1>2. QED
  BY <1>1, InitIInv, NextIInv, PTL DEF Spec, FirstHealthyProvider

-----------------------------------------------------------------------------
(* Nothing that raises comes before a trip in the engine's list of rules.     *)
AlertsComeLast ==
  \A q, r \in DOMAIN Rules :
    Rules[q].action = "webhook_dispatch" /\ Rules[r].action = "circuit_breaker_trip"
      => r < q

LEMMA DefaultAlertsComeLast == ASSUME Rules = DefaultRules PROVE AlertsComeLast
  BY DEF AlertsComeLast, DefaultRules, Rule

(* A pass that ends early has tripped all the providers it was to trip.       *)
LEMMA PassTrips ==
  ASSUME AlertsComeLast, IInv, EvaluateTrace
  PROVE  \A p \in due' : breaker'[p].state = "open"
<1> DEFINE Hits(met) == {r \in DOMAIN Rules : Rules[r].condition \in met}
           Raises(met) == {r \in Hits(met) : Rules[r].action = "webhook_dispatch"}
           Trips(rules) == {Rules[r].target : r \in
             {q \in rules : Rules[q].action = "circuit_breaker_trip"}}
           Tripped(met, end) == Trips({r \in Hits(met) : r < end})
           Pass(met, end) ==
             /\ breaker' = [p \in Providers |->
                  IF p \in Tripped(met, end) THEN Trip(breaker[p]) ELSE breaker[p]]
             /\ due' = Trips(Hits(met))
<1>1. PICK met \in SUBSET {Rules[r].condition : r \in DOMAIN Rules} :
        \E end \in Raises(met) \cup {Len(Rules) + 1} : Pass(met, end)
  BY DEF EvaluateTrace
<1>2. PICK end \in Raises(met) \cup {Len(Rules) + 1} : Pass(met, end)
  BY <1>1
<1>3. ASSUME NEW r \in Hits(met), Rules[r].action = "circuit_breaker_trip"
      PROVE  r < end
  <2>1. CASE end \in Raises(met)
    BY <1>3, <2>1 DEF AlertsComeLast
  <2>2. CASE end = Len(Rules) + 1
    <3>1. DOMAIN Rules = 1..Len(Rules) /\ Len(Rules) \in Nat
      BY ManagerAssumption
    <3> QED BY <1>3, <2>2, <3>1
  <2> QED BY <1>2, <2>1, <2>2
<1>4. Trips(Hits(met)) \subseteq Tripped(met, end) /\ Trips(Hits(met)) \subseteq Providers
  BY <1>3, ManagerAssumption
<1>5. \A p \in Providers : breaker[p] \in Breaker
  BY DEF IInv, TypeOK
<1> QED BY <1>2, <1>4, <1>5, TripSound

(* A quality collapse trips its provider in the pass that sees it, whatever   *)
(* else the trace triggers and wherever an alert raises, if the alerts come   *)
(* after the trips in the list of rules.                                      *)
THEOREM CollapseTripsThm == AlertsComeLast => (Spec => []CollapseTrips)
<1> SUFFICES ASSUME AlertsComeLast PROVE Spec => []CollapseTrips
  OBVIOUS
<1>1. Init => CollapseTrips
  BY DEF Init, CollapseTrips
<1>2. IInv /\ CollapseTrips /\ [Next]_vars => CollapseTrips'
  <2> SUFFICES ASSUME IInv, CollapseTrips, [Next]_vars PROVE CollapseTrips'
    OBVIOUS
  <2>1. CASE EvaluateTrace
    BY <2>1, PassTrips DEF CollapseTrips
  <2>2. CASE UNCHANGED vars
    BY <2>2 DEF vars, CollapseTrips
  <2>3. CASE Tick \/ Weather \/ \E w \in Workers : Select(w) \/ Complete(w) \/ Abandon(w)
    <3>1. due' = {}
      BY <2>3 DEF Tick, Weather, Select, Complete, Abandon, NoPass
    <3> QED BY <3>1 DEF CollapseTrips
  <2> QED BY <2>1, <2>2, <2>3 DEF Next
<1> QED BY <1>1, <1>2, InitIInv, NextIInv, PTL DEF Spec

(* So it does with the rules of _default_rules().                             *)
COROLLARY DefaultRulesTrip == Rules = DefaultRules => (Spec => []CollapseTrips)
  BY DefaultAlertsComeLast, CollapseTripsThm
================================================================================
