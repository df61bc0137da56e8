SPECIFICATION FairSpec
CONSTANTS
  Retries <- MCRetries
  Statuses <- MCStatuses
INVARIANTS
  TypeOK
  EventsTellTheCall
  LostTokenEndsTheCall
PROPERTIES
  ImplementsRetry
  CallEnds
CHECK_DEADLOCK FALSE
