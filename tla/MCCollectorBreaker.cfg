\* record_success and record_failure take the locks in opposite orders, so the
\* system really may stop: MCCollectorBreakerLocks.cfg shows how.
CONSTANTS
  Threads = {t1, t2, t3}
  FailureThreshold = 2
  RecoveryTimeout = 2
SPECIFICATION FairSpec
PROPERTY Linearizable
PROPERTY CallsReturnOrCross
CHECK_DEADLOCK FALSE
