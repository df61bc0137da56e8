SPECIFICATION Spec
CONSTANTS
  MaxClients = 3
  MaxCalls = 3
INVARIANTS
  TypeOK
  ShutdownIsOrdered
  FailureBlocksTheRest
CHECK_DEADLOCK FALSE
