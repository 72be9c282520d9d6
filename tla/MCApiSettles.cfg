SPECIFICATION FairSpec
CONSTANTS
  NumSteps = 2
  NumStages = 2
  StageOf <- OneEach
  Transition <- SecondManual
  GateSteps = {1}
  MaxRetries = 1
  MaxRows = 3
  MaxReqs = 3
  Ops = {"pause", "resume", "start", "cancel", "retry", "approve", "reject", "resolve", "halt", "fail", "breaker", "breach"}
  MaxOps = 2
  InitialJobs = 1
  Workers = {e1, e2}
  Clients = {c1}
INVARIANTS NotStranded
PROPERTY Settles
\* A run may come to rest for good: nobody has to give it another job.
CHECK_DEADLOCK FALSE
