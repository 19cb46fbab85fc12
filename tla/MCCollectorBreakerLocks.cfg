CONSTANTS
  Threads = {t1, t2}
  FailureThreshold = 2
  RecoveryTimeout = 2
SPECIFICATION Spec
INVARIANT LocksNeverCross
CHECK_DEADLOCK FALSE
