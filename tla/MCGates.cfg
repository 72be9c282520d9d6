SPECIFICATION Spec
CONSTANTS
  NumSteps = 3
  NumStages = 2
  StageOf <- TwoStages
  Transition <- GateThenManual
  GateSteps = {}
  MaxRetries = 1
  MaxRows = 6
  MaxReqs = 3
  Ops = {"approve", "reject", "start", "cancel", "retry", "fail", "breaker", "expire"}
  MaxOps = 3
  InitialJobs = 1
  Workers = {e1, e2}
  Clients = {c1}
INVARIANTS GateRespected StepExclusive
\* A run may come to rest for good: nobody has to give it another job.
CHECK_DEADLOCK FALSE
