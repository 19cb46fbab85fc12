------------------------ MODULE CollectorBreaker_proofs ------------------------
(***************************************************************************)
(* The breaker of the collector behaves as if each call took effect at one *)
(* instant, for any number of threads: it implements AtomicBreaker.  The   *)
(* argument is that whoever is about to change the state holds its lock,   *)
(* so that no two threads are, and that the methods take the lock of the   *)
(* state whatever else they take.                                          *)
(***************************************************************************)
EXTENDS CollectorBreaker, TLAPS

\* Whoever changes the state is in a method and holds the state's lock.
ChangersHoldState ==
  \A t \in Threads : phase[t] # "enter" => call[t] # None /\ owner["state"] = t

IInv == TypeOK /\ ChangersHoldState

-----------------------------------------------------------------------------
(* Locks *)

LEMMA MethodsLockState ==
  ASSUME NEW t \in Threads, TypeOK, Inside(t)
  PROVE  call[t] \in Calls /\ owner["state"] = t
<1>1. call[t] \in Calls
  BY DEF Inside, TypeOK
<1>2. "state" \in Range(LockOrder(call[t]))
  <2>1. CASE call[t] = "state"
    <3>1. LockOrder(call[t]) = <<"state">>
      BY <2>1 DEF LockOrder
    <3> QED BY <3>1 DEF Range
  <2>2. CASE call[t] = "success"
    <3>1. LockOrder(call[t]) = <<"state", "failures">>
      BY <2>2 DEF LockOrder
    <3> QED BY <3>1 DEF Range
  <2>3. CASE call[t] \in {"failure", "slow"}
    <3>1. LockOrder(call[t]) = <<"failures", "state">>
      BY <2>3 DEF LockOrder
    <3>2. LockOrder(call[t])[2] = "state" /\ 2 \in DOMAIN LockOrder(call[t])
      BY <3>1
    <3> QED BY <3>2 DEF Range
  <2> QED BY <1>1, <2>1, <2>2, <2>3 DEF Calls
<1> QED BY <1>1, <1>2 DEF Inside, Held

\* Threads that change the state are alone.
LEMMA OneChanger ==
  ASSUME IInv, NEW t \in Threads, owner["state"] = t
  PROVE  /\ Writing = IF phase[t] = "write" THEN {t} ELSE {}
         /\ Changing = IF phase[t] # "enter" THEN {t} ELSE {}
<1>1. \A u \in Threads : phase[u] # "enter" => u = t
  BY DEF IInv, ChangersHoldState
<1> QED BY <1>1 DEF Writing, Changing

LEMMA TheOne == \A t : (CHOOSE u \in {t} : TRUE) = t
OBVIOUS

\* What a call that enters its method finds.
LEMMA EntersAlone ==
  ASSUME IInv, NEW t \in Threads, NEW calls, Enters(t, calls)
  PROVE  /\ call[t] \in Calls /\ call[t] \in calls /\ owner["state"] = t
         /\ Writing = {} /\ Changing = {}
         /\ EffectiveState = state
         /\ \A u \in Threads : phase[u] = "enter"
<1>1. phase[t] = "enter" /\ Inside(t) /\ call[t] \in calls
  BY DEF Enters
<1>2. call[t] \in Calls /\ owner["state"] = t
  BY <1>1, MethodsLockState DEF IInv
<1>3. Writing = {} /\ Changing = {}
  BY <1>1, <1>2, OneChanger
<1>4. \A u \in Threads : phase[u] = "enter"
  BY <1>3 DEF Changing
<1> QED BY <1>1, <1>2, <1>3, <1>4 DEF EffectiveState

\* What it leaves: nothing more to do, or a change of the state.
LEMMA ReturnsUnless ==
  ASSUME IInv, NEW t \in Threads, NEW change \in BOOLEAN,
         \A u \in Threads : phase[u] = "enter", owner["state"] = t, call[t] \in Calls,
         ReturnUnless(t, change), state' = state
  PROVE  /\ owner' \in [Locks -> Threads \cup {None}]
         /\ call' \in [Threads -> Calls \cup {None}]
         /\ phase' \in [Threads -> {"enter", "write", "stamp"}]
         /\ ChangersHoldState'
         /\ Changing' = Writing' /\ Changing' = IF change THEN {t} ELSE {}
         /\ EffectiveState' = IF change THEN Target(call[t]) ELSE state
<1>1. CASE change
  <2>1. phase' = [phase EXCEPT ![t] = "write"] /\ owner' = owner /\ call' = call
    BY <1>1 DEF ReturnUnless
  <2>2. Changing' = {t} /\ Writing' = {t}
    BY <2>1 DEF Changing, Writing, IInv, TypeOK
  <2>3. EffectiveState' = Target(call[t])
    BY <2>1, <2>2, TheOne DEF EffectiveState
  <2>4. call[t] # None
    BY DEF Calls, None
  <2> QED BY <1>1, <2>1, <2>2, <2>3, <2>4 DEF IInv, TypeOK, ChangersHoldState
<1>2. CASE ~change
  <2>1. /\ phase' = [phase EXCEPT ![t] = "enter"]
        /\ owner' = [l \in Locks |-> IF owner[l] = t THEN None ELSE owner[l]]
        /\ call' = [call EXCEPT ![t] = None]
    BY <1>2 DEF ReturnUnless, Return
  <2>2. \A u \in Threads : phase'[u] = "enter"
    BY <2>1 DEF IInv, TypeOK
  <2>3. Changing' = {} /\ Writing' = {}
    BY <2>2 DEF Changing, Writing
  <2>4. EffectiveState' = state
    BY <2>3 DEF EffectiveState
  <2>5. ChangersHoldState'
    BY <2>2 DEF ChangersHoldState
  <2> QED BY <1>2, <2>1, <2>3, <2>4, <2>5 DEF IInv, TypeOK
<1> QED BY <1>1, <1>2

-----------------------------------------------------------------------------
(* The methods take effect at one instant. *)

LEMMA ObserveIsAtomic ==
  ASSUME IInv, NEW t \in Threads, Observe(t)
  PROVE  IInv' /\ [Promise!Next]_(Promise!vars)
<1> DEFINE change == state = "open" /\ age >= RecoveryTimeout
<1>1. /\ ReturnUnless(t, change) /\ change \in BOOLEAN
      /\ state' = state /\ failures' = failures /\ age' = age
  BY DEF Observe
<1>2. /\ call[t] = "state" /\ call[t] \in Calls /\ owner["state"] = t
      /\ Changing = {} /\ EffectiveState = state
      /\ \A u \in Threads : phase[u] = "enter"
  BY EntersAlone DEF Observe
<1>3. /\ owner' \in [Locks -> Threads \cup {None}]
      /\ call' \in [Threads -> Calls \cup {None}]
      /\ phase' \in [Threads -> {"enter", "write", "stamp"}]
      /\ ChangersHoldState'
      /\ Changing' = IF change THEN {t} ELSE {}
      /\ EffectiveState' = IF change THEN Target(call[t]) ELSE state
  BY <1>1, <1>2, ReturnsUnless
<1>4. IInv'
  BY <1>1, <1>3 DEF IInv, TypeOK
<1>5. CASE change
  <2>1. Promise!Observe
    BY <1>1, <1>2, <1>3, <1>5 DEF Promise!Observe, Target
  <2> QED BY <1>4, <2>1 DEF Promise!Next
<1>6. CASE ~change
  <2>1. UNCHANGED Promise!vars
    BY <1>1, <1>2, <1>3, <1>6 DEF Promise!vars
  <2> QED BY <1>4, <2>1
<1> QED BY <1>5, <1>6

LEMMA ResetIsAtomic ==
  ASSUME IInv, NEW t \in Threads, Reset(t)
  PROVE  IInv' /\ [Promise!Next]_(Promise!vars)
<1> USE CollectorBreakerAssumption
<1> DEFINE change == state = "half_open"
<1>1. /\ ReturnUnless(t, change) /\ change \in BOOLEAN
      /\ state' = state /\ failures' = 0 /\ age' = age
  BY DEF Reset
<1>2. /\ call[t] = "success" /\ call[t] \in Calls /\ owner["state"] = t
      /\ Changing = {} /\ EffectiveState = state
      /\ \A u \in Threads : phase[u] = "enter"
  BY EntersAlone DEF Reset
<1>3. /\ owner' \in [Locks -> Threads \cup {None}]
      /\ call' \in [Threads -> Calls \cup {None}]
      /\ phase' \in [Threads -> {"enter", "write", "stamp"}]
      /\ ChangersHoldState'
      /\ Changing' = IF change THEN {t} ELSE {}
      /\ EffectiveState' = IF change THEN Target(call[t]) ELSE state
  BY <1>1, <1>2, ReturnsUnless
<1>4. IInv'
  BY <1>1, <1>3 DEF IInv, TypeOK
<1>5. Promise!Success
  <2>1. CASE change
    BY <1>1, <1>2, <1>3, <2>1 DEF Promise!Success, Target
  <2>2. CASE ~change
    BY <1>1, <1>2, <1>3, <2>2 DEF Promise!Success
  <2> QED BY <2>1, <2>2
<1> QED BY <1>4, <1>5 DEF Promise!Next

LEMMA CountIsAtomic ==
  ASSUME IInv, NEW t \in Threads, Count(t)
  PROVE  IInv' /\ [Promise!Next]_(Promise!vars)
<1> USE CollectorBreakerAssumption
<1> DEFINE slow == call[t] = "slow"
           change == slow \/ failures' >= FailureThreshold
<1>1. /\ ReturnUnless(t, change) /\ change \in BOOLEAN
      /\ state' = state /\ age' = age
      /\ failures' = IF failures < FailureThreshold THEN failures + 1 ELSE failures
  BY DEF Count
<1>2. /\ call[t] \in {"failure", "slow"} /\ call[t] \in Calls /\ owner["state"] = t
      /\ Changing = {} /\ EffectiveState = state
      /\ \A u \in Threads : phase[u] = "enter"
  BY EntersAlone DEF Count
<1> HIDE DEF change
<1>3. /\ owner' \in [Locks -> Threads \cup {None}]
      /\ call' \in [Threads -> Calls \cup {None}]
      /\ phase' \in [Threads -> {"enter", "write", "stamp"}]
      /\ ChangersHoldState'
      /\ Changing' = IF change THEN {t} ELSE {}
      /\ EffectiveState' = IF change THEN Target(call[t]) ELSE state
  BY <1>1, <1>2, ReturnsUnless
<1>4. IInv'
  <2>1. failures' \in 0..FailureThreshold
    BY <1>1 DEF IInv, TypeOK
  <2> QED BY <1>1, <1>3, <2>1 DEF IInv, TypeOK
<1>5. Promise!Failure(slow)
  <2>1. CASE change
    <3>1. EffectiveState' = "open"
      BY <1>2, <1>3, <2>1 DEF Target
    <3> QED BY <1>1, <1>2, <1>3, <2>1, <3>1 DEF Promise!Failure, change
  <2>2. CASE ~change
    BY <1>1, <1>2, <1>3, <2>2 DEF Promise!Failure, change
  <2> QED BY <2>1, <2>2
<1>6. slow \in BOOLEAN
  OBVIOUS
<1> QED BY <1>4, <1>5, <1>6 DEF Promise!Next

\* The write makes true what is already taken for it.
LEMMA WriteIsSilent ==
  ASSUME IInv, NEW t \in Threads, Write(t)
  PROVE  IInv' /\ UNCHANGED Promise!vars
<1>1. /\ phase[t] = "write" /\ state' = Target(call[t])
      /\ phase' = [phase EXCEPT ![t] = "stamp"]
      /\ failures' = failures /\ age' = age /\ owner' = owner /\ call' = call
  BY DEF Write
<1>2. owner["state"] = t /\ call[t] \in Calls
  BY <1>1 DEF IInv, TypeOK, ChangersHoldState
<1>3. Writing = {t} /\ Changing = {t}
  BY <1>1, <1>2, OneChanger
<1>4. EffectiveState = Target(call[t])
  BY <1>3, TheOne DEF EffectiveState
<1>5. Writing' = {} /\ Changing' = {t}
  BY <1>1, <1>3 DEF Writing, Changing, IInv, TypeOK
<1>6. EffectiveState' = Target(call[t])
  BY <1>1, <1>5 DEF EffectiveState
<1>7. Target(call[t]) \in {"closed", "open", "half_open"}
  BY DEF Target
<1>8. IInv'
  BY <1>1, <1>7 DEF IInv, TypeOK, ChangersHoldState
<1> QED BY <1>1, <1>3, <1>4, <1>5, <1>6, <1>8 DEF Promise!vars

LEMMA StampIsSilent ==
  ASSUME IInv, NEW t \in Threads, Stamp(t)
  PROVE  IInv' /\ UNCHANGED Promise!vars
<1> USE CollectorBreakerAssumption
<1>1. /\ phase[t] = "stamp" /\ age' = 0 /\ state' = state /\ failures' = failures
      /\ owner' = [l \in Locks |-> IF owner[l] = t THEN None ELSE owner[l]]
      /\ call' = [call EXCEPT ![t] = None]
      /\ phase' = [phase EXCEPT ![t] = "enter"]
  BY DEF Stamp, Return
<1>2. owner["state"] = t
  BY <1>1 DEF IInv, ChangersHoldState
<1>3. Writing = {} /\ Changing = {t}
  BY <1>1, <1>2, OneChanger
<1>4. \A u \in Threads : phase'[u] = "enter"
  BY <1>1, <1>3 DEF Changing, IInv, TypeOK
<1>5. Writing' = {} /\ Changing' = {}
  BY <1>4 DEF Writing, Changing
<1>6. EffectiveState' = EffectiveState
  BY <1>1, <1>3, <1>5 DEF EffectiveState
<1>7. IInv'
  BY <1>1, <1>4 DEF IInv, TypeOK, ChangersHoldState
<1> QED BY <1>1, <1>3, <1>5, <1>6, <1>7 DEF Promise!vars

LEMMA CallIsSilent ==
  ASSUME IInv, NEW t \in Threads, NEW c \in Calls, Call(t, c)
  PROVE  IInv' /\ UNCHANGED Promise!vars
<1>1. /\ call[t] = None /\ call' = [call EXCEPT ![t] = c]
      /\ UNCHANGED <<state, failures, age, owner, phase>>
  BY DEF Call
<1>2. IInv'
  BY <1>1 DEF IInv, TypeOK, ChangersHoldState
<1>3. Writing' = Writing /\ Changing' = Changing
  BY <1>1 DEF Writing, Changing
<1>4. EffectiveState' = EffectiveState
  <2>1. CASE Writing = {}
    BY <1>1, <1>3, <2>1 DEF EffectiveState
  <2>2. ASSUME NEW u \in Writing PROVE EffectiveState' = EffectiveState
    <3>1. u \in Threads /\ phase[u] = "write"
      BY <2>2 DEF Writing
    <3>2. owner["state"] = u /\ call[u] # None
      BY <3>1 DEF IInv, ChangersHoldState
    <3>3. Writing = {u}
      BY <3>1, <3>2, OneChanger
    <3>4. call'[u] = call[u]
      BY <1>1, <3>1, <3>2 DEF IInv, TypeOK
    <3> QED BY <1>3, <3>3, <3>4, TheOne DEF EffectiveState
  <2> QED BY <2>1, <2>2
<1> QED BY <1>1, <1>2, <1>3, <1>4 DEF Promise!vars

LEMMA AcquireIsSilent ==
  ASSUME IInv, NEW t \in Threads, Acquire(t)
  PROVE  IInv' /\ UNCHANGED Promise!vars
<1>1. /\ owner[Wanted(t)] = None /\ owner' = [owner EXCEPT ![Wanted(t)] = t]
      /\ UNCHANGED <<state, failures, age, call, phase>>
  BY DEF Acquire
<1>2. owner' \in [Locks -> Threads \cup {None}]
  BY <1>1 DEF IInv, TypeOK
<1>3. \A u \in Threads : owner["state"] = u => owner'["state"] = u
  BY <1>1, NoneIsNoThread DEF IInv, TypeOK, Locks
<1>4. IInv'
  BY <1>1, <1>2, <1>3 DEF IInv, TypeOK, ChangersHoldState
<1>5. Writing' = Writing /\ Changing' = Changing
  BY <1>1 DEF Writing, Changing
<1>6. EffectiveState' = EffectiveState
  BY <1>1, <1>5 DEF EffectiveState
<1> QED BY <1>1, <1>4, <1>5, <1>6 DEF Promise!vars

LEMMA SecondIsAtomic ==
  ASSUME IInv, Second
  PROVE  IInv' /\ [Promise!Next]_(Promise!vars)
<1> USE CollectorBreakerAssumption
<1>1. /\ age < RecoveryTimeout /\ age' = age + 1
      /\ UNCHANGED <<state, failures, owner, call, phase>>
  BY DEF Second
<1>2. IInv'
  BY <1>1 DEF IInv, TypeOK, ChangersHoldState
<1>3. Writing' = Writing /\ Changing' = Changing
  BY <1>1 DEF Writing, Changing
<1>4. EffectiveState' = EffectiveState
  BY <1>1, <1>3 DEF EffectiveState
<1>5. CASE Changing = {}
  <2>1. Promise!Second
    BY <1>1, <1>3, <1>4, <1>5 DEF Promise!Second
  <2> QED BY <1>2, <2>1 DEF Promise!Next
<1>6. CASE Changing # {}
  BY <1>1, <1>2, <1>3, <1>4, <1>6 DEF Promise!vars
<1> QED BY <1>5, <1>6

-----------------------------------------------------------------------------
LEMMA InitIsAtomic == Init => IInv /\ Promise!Init
<1> USE CollectorBreakerAssumption
<1> SUFFICES ASSUME Init PROVE IInv /\ Promise!Init
  OBVIOUS
<1>1. IInv
  BY DEF Init, IInv, TypeOK, ChangersHoldState
<1>2. Writing = {} /\ Changing = {}
  BY DEF Init, Writing, Changing
<1>3. EffectiveState = "closed"
  BY <1>2 DEF Init, EffectiveState
<1> QED BY <1>1, <1>2, <1>3 DEF Init, Promise!Init

LEMMA NextIsAtomic == IInv /\ [Next]_vars => IInv' /\ [Promise!Next]_(Promise!vars)
<1> SUFFICES ASSUME IInv, [Next]_vars PROVE IInv' /\ [Promise!Next]_(Promise!vars)
  OBVIOUS
<1>1. ASSUME NEW t \in Threads, Step(t) PROVE IInv' /\ [Promise!Next]_(Promise!vars)
  <2>1. CASE Acquire(t)  BY <2>1, AcquireIsSilent
  <2>2. CASE Observe(t)  BY <2>2, ObserveIsAtomic
  <2>3. CASE Reset(t)    BY <2>3, ResetIsAtomic
  <2>4. CASE Count(t)    BY <2>4, CountIsAtomic
  <2>5. CASE Write(t)    BY <2>5, WriteIsSilent
  <2>6. CASE Stamp(t)    BY <2>6, StampIsSilent
  <2> QED BY <1>1, <2>1, <2>2, <2>3, <2>4, <2>5, <2>6 DEF Step
<1>2. ASSUME NEW t \in Threads, NEW c \in Calls, Call(t, c)
      PROVE  IInv' /\ [Promise!Next]_(Promise!vars)
  BY <1>2, CallIsSilent
<1>3. CASE Second
  BY <1>3, SecondIsAtomic
<1>4. CASE UNCHANGED vars
  <2>1. IInv'
    BY <1>4 DEF vars, IInv, TypeOK, ChangersHoldState
  <2>2. Writing' = Writing /\ Changing' = Changing
    BY <1>4 DEF vars, Writing, Changing
  <2>3. EffectiveState' = EffectiveState
    BY <1>4, <2>2 DEF vars, EffectiveState
  <2> QED BY <1>4, <2>1, <2>2, <2>3 DEF vars, Promise!vars
<1> QED BY <1>1, <1>2, <1>3, <1>4 DEF Next

\* The variables keep their types (circuit_breaker.rs:35-113).
THEOREM TypeCorrect == Spec => []TypeOK
<1>1. IInv => TypeOK
  BY DEF IInv
<1> QED BY <1>1, InitIsAtomic, NextIsAtomic, PTL DEF Spec

\* Calls that go through the locks one by one behave as if each took effect at one
\* instant (circuit_breaker.rs:52-113).
THEOREM LinearizableThm == Spec => Linearizable
BY InitIsAtomic, NextIsAtomic, PTL DEF Spec, Linearizable, Promise!Spec

\* No failure that reaches the threshold leaves the breaker closed, and whoever
\* closes it has forgotten those that tripped it (circuit_breaker.rs:66-113).
THEOREM ClosedIsBelowThresholdThm == Spec => []ClosedIsBelowThreshold
<1> USE CollectorBreakerAssumption
<1>1. Init => ClosedIsBelowThreshold
  BY DEF Init, ClosedIsBelowThreshold
<1>2. IInv /\ IInv' /\ ClosedIsBelowThreshold /\ [Promise!Next]_(Promise!vars)
        => ClosedIsBelowThreshold'
  <2> SUFFICES ASSUME IInv, IInv', ClosedIsBelowThreshold, [Promise!Next]_(Promise!vars)
               PROVE  ClosedIsBelowThreshold'
    OBVIOUS
  <2>1. failures' \in Nat
    BY DEF IInv, TypeOK
  <2>2. CASE Promise!Observe
    BY <2>2 DEF Promise!Observe, ClosedIsBelowThreshold
  <2>3. CASE Promise!Success
    BY <2>3 DEF Promise!Success, ClosedIsBelowThreshold
  <2>4. ASSUME NEW slow \in BOOLEAN, Promise!Failure(slow)
        PROVE  ClosedIsBelowThreshold'
    BY <2>1, <2>4 DEF Promise!Failure, ClosedIsBelowThreshold
  <2>5. CASE Promise!Second
    BY <2>5 DEF Promise!Second, ClosedIsBelowThreshold
  <2>6. CASE UNCHANGED Promise!vars
    BY <2>6 DEF Promise!vars, ClosedIsBelowThreshold
  <2> QED BY <2>2, <2>3, <2>4, <2>5, <2>6 DEF Promise!Next
<1> QED BY <1>1, <1>2, InitIsAtomic, NextIsAtomic, PTL DEF Spec
==============================================================================
