SPECIFICATION StartupSpec
CONSTANTS
  Scenarios <- MCScenarios
  Volatile <- MCVolatile
INVARIANTS
  TypeOK
  OutcomeIsDocumented
  EnvironmentsAgree
  ClientsAreWhole
CHECK_DEADLOCK FALSE
