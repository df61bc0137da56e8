SPECIFICATION StartupSpec
CONSTANTS
  Scenarios <- MCScenarios
  Volatile <- MCVolatile
INVARIANT BlankIsUnset
CHECK_DEADLOCK FALSE
