SPECIFICATION Spec
CONSTANTS
  NumSteps = 2
  NumStages = 2
  StageOf <- OneEach
  Transition <- SecondManual
  GateSteps = {1}
  MaxRetries = 1
  MaxRows = 4
  MaxReqs = 3
  Ops = {"pause", "resume", "start", "cancel", "retry", "approve", "reject", "resolve", "halt", "breach", "crash", "expire", "fail", "breaker", "fault"}
  MaxOps = 2
  InitialJobs = 1
  Workers = {e1, e2}
  Clients = {c1}
INVARIANTS TypeOK ViewsSound StartsInOrder CompletedMeansAllDone ManualRespected 
PROPERTIES LedgerSpec 
\* A run may come to rest for good: nobody has to give it another job.
CHECK_DEADLOCK FALSE
