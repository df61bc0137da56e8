SPECIFICATION LoggedFairSpec
CONSTANT Clients <- Interfaces
INVARIANTS
  TypeOK
  LeakIsReported
  CleanupIsTried
  FailureIsNotMasked
  LogTellsTheFate
PROPERTY PingEnds
CHECK_DEADLOCK FALSE
