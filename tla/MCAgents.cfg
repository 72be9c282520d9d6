SPECIFICATION FairSpec
CONSTANTS
  Execs <- MCExecs
  Scenarios <- MCScenarios
INVARIANTS TypeOK OutcomeReported NothingLeaks NetworkNotLeaked
PROPERTIES AgentStops DeadSettles
CHECK_DEADLOCK FALSE
