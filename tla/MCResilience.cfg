CONSTANTS
  FailureThreshold = 2
  HalfOpenSuccessNeeded = 2
  RecoveryTimeout = 1
  Chain <- MCChain
  Workers = {w1, w2}
  Rules <- DefaultRules
SPECIFICATION FairSpec
INVARIANT TypeOK
INVARIANT CountersMatchState
INVARIANT CollapseTrips
PROPERTY OpenOnlyHalfOpens
PROPERTY RecoveryIsEarned
PROPERTY FirstHealthyProvider
PROPERTY PrimaryRecovers
