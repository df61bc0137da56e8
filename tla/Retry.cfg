SPECIFICATION FairSpec
CONSTANT Limits <- MCLimits
INVARIANTS
  TypeOK
  AttemptsAreUsed
  BackoffIsExponential
PROPERTY CallEnds
CHECK_DEADLOCK FALSE
