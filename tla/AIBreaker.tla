----------------------------- MODULE AIBreaker ------------------------------
(***************************************************************************)
(* The circuit breaker of resilience/breaker.py, as operators on one       *)
(* breaker.  Its methods take no lock; each runs to its end between two    *)
(* awaits of the host program, so one operator is one step.                *)
(*                                                                         *)
(* failures saturates at the threshold it is compared with; cool is the    *)
(* part of the recovery timeout still to run since last_trip_time.  The    *)
(* counters shown on dashboards only (trip_count, the reason, the windows  *)
(* of latencies and qualities) are left out.                               *)
(***************************************************************************)
EXTENDS Naturals

CONSTANTS
  FailureThreshold,      \* BreakerConfig.failure_threshold
  HalfOpenSuccessNeeded, \* BreakerConfig.half_open_success_needed
  RecoveryTimeout        \* BreakerConfig.recovery_timeout_sec, in clock ticks

ASSUME BreakerAssumption ==
  /\ FailureThreshold \in Nat \ {0}
  /\ HalfOpenSuccessNeeded \in Nat \ {0}
  /\ RecoveryTimeout \in Nat

CircuitState == {"closed", "open", "half_open"}

Breaker == [state     : CircuitState,
            failures  : 0..FailureThreshold,
            successes : 0..HalfOpenSuccessNeeded,
            cool      : 0..RecoveryTimeout]

NewBreaker == [state |-> "closed", failures |-> 0, successes |-> 0, cool |-> 0]

(* How an inference call ended, as record_success / record_failure see it:   *)
(* "low" is a success below the quality threshold, "slow" one of acceptable  *)
(* quality above the latency threshold.                                      *)
Outcomes == {"good", "slow", "low", "error"}

-----------------------------------------------------------------------------
\* Faulty variant: the probe is allowed before the cooldown is over.
CanExecuteEarly(b) == TRUE

\* can_execute(), its answer ...
CanExecute(b) == b.state = "open" => b.cool = 0

\* Faulty variant: the answer is yes, but the breaker stays open.
ProbeStaysOpen(b) == b

\* ... and its side effect: an open breaker that may execute turns half-open.
Probe(b) ==
  IF b.state = "open" /\ b.cool = 0
  THEN [b EXCEPT !.state = "half_open", !.successes = 0]
  ELSE b

\* Faulty variant: the half-open successes are not cleared.
TripKeepsSuccesses(b) ==
  [b EXCEPT !.state = "open", !.failures = 0, !.cool = RecoveryTimeout]

\* trip()
Trip(b) ==
  [state |-> "open", failures |-> 0, successes |-> 0, cool |-> RecoveryTimeout]

\* consecutive_failures += 1
CountFailure(b) ==
  [b EXCEPT !.failures = IF @ < FailureThreshold THEN @ + 1 ELSE @]

\* Faulty variant: any breaker is closed by enough successes, open ones too.
CountSuccessAnyState(b) ==
  IF b.successes + 1 >= HalfOpenSuccessNeeded
  THEN [b EXCEPT !.state = "closed", !.successes = 0]
  ELSE [b EXCEPT !.successes = @ + 1]

\* Faulty variant: the count is never compared with what is needed.
CountSuccessForever(b) ==
  IF b.state # "half_open" THEN b ELSE [b EXCEPT !.successes = @ + 1]

\* Faulty variant: off by one.
CountSuccessEarly(b) ==
  IF b.state # "half_open" THEN b
  ELSE IF b.successes + 2 >= HalfOpenSuccessNeeded
       THEN [b EXCEPT !.state = "closed", !.successes = 0]
       ELSE [b EXCEPT !.successes = @ + 1]

\* The tail of record_success(): only a half-open breaker counts successes.
CountSuccess(b) ==
  IF b.state # "half_open" THEN b
  ELSE IF b.successes + 1 >= HalfOpenSuccessNeeded
       THEN [b EXCEPT !.state = "closed", !.successes = 0]
       ELSE [b EXCEPT !.successes = @ + 1]

\* record_success(), in any state: also for a call that was dispatched before
\* the breaker tripped and answers late.
RecordSuccess(b, outcome) ==
  LET slow == CountFailure(b)
  IN CASE outcome = "low"  -> Trip(b)
       [] outcome = "slow" -> IF slow.failures >= FailureThreshold
                              THEN Trip(b) ELSE CountSuccess(slow)
       [] OTHER            -> CountSuccess([b EXCEPT !.failures = 0])

\* Faulty variant: the threshold is exceeded, not reached (and never when
\* the counter saturates).
RecordFailureLate(b) ==
  LET f == [CountFailure(b) EXCEPT !.successes = 0]
  IN IF b.state = "half_open" \/ (b.state = "closed" /\ f.failures > FailureThreshold)
     THEN Trip(f) ELSE f

\* record_failure()
RecordFailure(b) ==
  LET f == [CountFailure(b) EXCEPT !.successes = 0]
  IN IF \/ b.state = "half_open"
        \/ b.state = "closed" /\ f.failures >= FailureThreshold
     THEN Trip(f) ELSE f

RecordOutcome(b, outcome) ==
  IF outcome = "error" THEN RecordFailure(b) ELSE RecordSuccess(b, outcome)

\* time.time() advances by one tick.
Elapse(b) == [b EXCEPT !.cool = IF @ = 0 THEN 0 ELSE @ - 1]
=============================================================================
