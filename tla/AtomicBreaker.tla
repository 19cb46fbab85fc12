--------------------------- MODULE AtomicBreaker ----------------------------
(***************************************************************************)
(* What the collector's circuit breaker promises: every call of its three  *)
(* methods takes effect at one instant, although the method goes through   *)
(* three locks (CollectorBreaker).                                         *)
(***************************************************************************)
EXTENDS Naturals

CONSTANTS
  FailureThreshold,  \* BreakerConfig.failure_threshold
  RecoveryTimeout    \* BreakerConfig.recovery_timeout_secs

VARIABLES
  state,     \* "closed", "open" or "half_open"
  failures,  \* consecutive failures, up to FailureThreshold
  age        \* seconds since last_state_change, up to RecoveryTimeout

vars == <<state, failures, age>>

Init == state = "closed" /\ failures = 0 /\ age = 0

\* state(): an open breaker whose cooldown is over half-opens.
Observe ==
  /\ state = "open" /\ age >= RecoveryTimeout
  /\ state' = "half_open" /\ age' = 0
  /\ UNCHANGED failures

\* record_success()
Success ==
  /\ failures' = 0
  /\ IF state = "half_open"
     THEN state' = "closed" /\ age' = 0
     ELSE UNCHANGED <<state, age>>

\* record_failure(latency_ms); slow: above latency_threshold_ms.
Failure(slow) ==
  /\ failures' = IF failures < FailureThreshold THEN failures + 1 ELSE failures
  /\ IF slow \/ failures' >= FailureThreshold
     THEN state' = "open" /\ age' = 0
     ELSE UNCHANGED <<state, age>>

Second ==
  /\ age < RecoveryTimeout
  /\ age' = age + 1
  /\ UNCHANGED <<state, failures>>

Next == Observe \/ Success \/ (\E slow \in BOOLEAN : Failure(slow)) \/ Second

Spec == Init /\ [][Next]_vars
=============================================================================
