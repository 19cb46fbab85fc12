------------------------- MODULE CollectorBreaker ---------------------------
(***************************************************************************)
(* The circuit breaker of crates/airun-collector/src/circuit_breaker.rs,   *)
(* called from several threads.  Its fields are behind a lock each, and    *)
(* every method takes the ones it needs one after the other, so one        *)
(* acquisition and one write are a step each here.                         *)
(*                                                                         *)
(* The lock of last_state_change is left out: it is only ever taken by the *)
(* thread that holds the lock of state, and dropped within a statement.    *)
(***************************************************************************)
EXTENDS Naturals, Sequences, Functions

CONSTANTS
  Threads,           \* the threads that share the breaker
  FailureThreshold,  \* BreakerConfig.failure_threshold
  RecoveryTimeout    \* BreakerConfig.recovery_timeout_secs

ASSUME CollectorBreakerAssumption ==
  /\ FailureThreshold \in Nat \ {0}
  /\ RecoveryTimeout \in Nat \ {0}

Locks == {"state", "failures"}
Calls == {"state", "success", "failure", "slow"}  \* "slow": a failure over the latency limit
None  == "none"
ASSUME NoneIsNoThread == None \notin Threads

VARIABLES
  state,     \* *state
  failures,  \* *consecutive_failures, up to FailureThreshold
  age,       \* seconds since *last_state_change, up to RecoveryTimeout
  owner,     \* owner[l]: the thread holding the write lock l, or None
  call,      \* call[t]: the method t is in, or None
  phase      \* phase[t]: "enter", then "write" and "stamp" if the state changes

vars == <<state, failures, age, owner, call, phase>>

Init ==
  /\ state = "closed" /\ failures = 0 /\ age = 0
  /\ owner = [l \in Locks |-> None]
  /\ call  = [t \in Threads |-> None]
  /\ phase = [t \in Threads |-> "enter"]

-----------------------------------------------------------------------------
(* Locking *)

\* Faulty variant: record_failure() does not lock the state it trips.
LockOrderTripsUnlocked(c) ==
  CASE c = "state"   -> <<"state">>
    [] c = "success" -> <<"state", "failures">>
    [] OTHER         -> <<"failures">>

\* The locks a method takes, in the order it takes them.
LockOrder(c) ==
  CASE c = "state"   -> <<"state">>
    [] c = "success" -> <<"state", "failures">>
    [] OTHER         -> <<"failures", "state">>

Held(t) == {l \in Locks : owner[l] = t}

Inside(t) == call[t] # None /\ Range(LockOrder(call[t])) \subseteq Held(t)

\* The lock t waits for.
Wanted(t) == Head(SelectSeq(LockOrder(call[t]), LAMBDA l : owner[l] # t))

Waiting(t) == call[t] # None /\ ~Inside(t)

Call(t, c) ==
  /\ call[t] = None
  /\ call' = [call EXCEPT ![t] = c]
  /\ UNCHANGED <<state, failures, age, owner, phase>>

Acquire(t) ==
  /\ Waiting(t)
  /\ owner[Wanted(t)] = None
  /\ owner' = [owner EXCEPT ![Wanted(t)] = t]
  /\ UNCHANGED <<state, failures, age, call, phase>>

\* Faulty variant: the guard of the counter is leaked.
ReturnLeaksGuard(t) ==
  /\ owner' = [owner EXCEPT !["state"] = IF @ = t THEN None ELSE @]
  /\ call'  = [call EXCEPT ![t] = None]
  /\ phase' = [phase EXCEPT ![t] = "enter"]

\* The guards are dropped when the method returns.
Return(t) ==
  /\ owner' = [l \in Locks |-> IF owner[l] = t THEN None ELSE owner[l]]
  /\ call'  = [call EXCEPT ![t] = None]
  /\ phase' = [phase EXCEPT ![t] = "enter"]

\* Return, or go on to change the state when change holds.
ReturnUnless(t, change) ==
  IF change
  THEN phase' = [phase EXCEPT ![t] = "write"] /\ UNCHANGED <<owner, call>>
  ELSE Return(t)

-----------------------------------------------------------------------------
(* The methods, once they hold their locks *)

Enters(t, calls) == Inside(t) /\ call[t] \in calls /\ phase[t] = "enter"

\* state()
Observe(t) ==
  /\ Enters(t, {"state"})
  /\ ReturnUnless(t, state = "open" /\ age >= RecoveryTimeout)
  /\ UNCHANGED <<state, failures, age>>

\* record_success()
Reset(t) ==
  /\ Enters(t, {"success"})
  /\ failures' = 0
  /\ ReturnUnless(t, state = "half_open")
  /\ UNCHANGED <<state, age>>

\* record_failure(latency_ms), in any state: an open breaker is stamped again.
Count(t) ==
  /\ Enters(t, {"failure", "slow"})
  /\ failures' = IF failures < FailureThreshold THEN failures + 1 ELSE failures
  /\ ReturnUnless(t, call[t] = "slow" \/ failures' >= FailureThreshold)
  /\ UNCHANGED <<state, age>>

Target(c) ==
  CASE c = "state" -> "half_open" [] c = "success" -> "closed" [] OTHER -> "open"

\* *state = ...
Write(t) ==
  /\ phase[t] = "write"
  /\ state' = Target(call[t])
  /\ phase' = [phase EXCEPT ![t] = "stamp"]
  /\ UNCHANGED <<failures, age, owner, call>>

\* *last_state_change = Utc::now(), and the method returns.
Stamp(t) ==
  /\ phase[t] = "stamp"
  /\ age' = 0
  /\ Return(t)
  /\ UNCHANGED <<state, failures>>

\* The wall clock advances by a second.
Second ==
  /\ age < RecoveryTimeout
  /\ age' = age + 1
  /\ UNCHANGED <<state, failures, owner, call, phase>>

Step(t) == Acquire(t) \/ Observe(t) \/ Reset(t) \/ Count(t) \/ Write(t) \/ Stamp(t)

Next ==
  \/ \E t \in Threads : Step(t) \/ \E c \in Calls : Call(t, c)
  \/ Second

Spec == Init /\ [][Next]_vars

(* A thread goes on with its method; a thread that waits for a lock that is   *)
(* free again and again gets it.                                              *)
Fairness == \A t \in Threads : SF_vars(Step(t))

FairSpec == Spec /\ Fairness
-----------------------------------------------------------------------------
TypeOK ==
  /\ state \in {"closed", "open", "half_open"}
  /\ failures \in 0..FailureThreshold
  /\ age \in 0..RecoveryTimeout
  /\ owner \in [Locks -> Threads \cup {None}]
  /\ call \in [Threads -> Calls \cup {None}]
  /\ phase \in [Threads -> {"enter", "write", "stamp"}]

(* A call takes effect when it has decided to change the state: the breaker   *)
(* is then as good as written and stamped.                                    *)
Writing == {t \in Threads : phase[t] = "write"}
Changing == {t \in Threads : phase[t] # "enter"}
EffectiveState ==
  IF Writing = {} THEN state ELSE Target(call[CHOOSE t \in Writing : TRUE])

Promise == INSTANCE AtomicBreaker WITH
  state <- EffectiveState, age <- IF Changing = {} THEN age ELSE 0

(* Concurrent calls behave as if each took effect at one instant.             *)
Linearizable == Promise!Spec

(* A breaker lets traffic through only below its failure threshold: whoever   *)
(* closed it has forgotten the failures that tripped it, and no failure that  *)
(* reaches the threshold leaves it closed.                                    *)
ClosedIsBelowThreshold == EffectiveState = "closed" => failures < FailureThreshold

(* Two threads hold a lock each and wait for the other's.                     *)
CrossedLocks ==
  \E t, u \in Threads : /\ Waiting(t) /\ owner[Wanted(t)] = u
                        /\ Waiting(u) /\ owner[Wanted(u)] = t

(* Every call returns, unless two threads have crossed their locks.           *)
CallsReturnOrCross ==
  \A t \in Threads : call[t] # None ~> (call[t] = None \/ CrossedLocks)

(* What SPECIFICATION.md says of the collector's "tri-state circuit breaker   *)
(* runtime": its concurrency is safe, no two calls wait for each other.       *)
LocksNeverCross == ~CrossedLocks
=============================================================================
