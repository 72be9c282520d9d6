SPECIFICATION FairSpec
CONSTANTS
  Tokens = {"t1", "t2"}
  EnvToken = "nil"
  Callers = {1, 2}
  Checks <- MCChecks
  ChecksPage = 2
  Imports = {1, 2}
  DoneOptions <- MCDone
  Attempts = 2
  Scenarios <- MCScenarios
INVARIANTS TypeOK Converges Idempotent StatusEarned
PROPERTIES IntegrationsSettle
CHECK_DEADLOCK FALSE
