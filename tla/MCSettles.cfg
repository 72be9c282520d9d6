SPECIFICATION FairSpec
CONSTANTS
  NumSteps = 3
  NumStages = 2
  StageOf <- TwoStages
  Transition <- GateThenManual
  GateSteps = {}
  MaxRetries = 1
  MaxRows = 4
  MaxReqs = 4
  Ops = {"approve", "reject", "start", "fail"}
  MaxOps = 5
  InitialJobs = 1
  Workers = {e1, e2}
  Clients = {c1}
INVARIANTS StoryFollowsRun
PROPERTY Settles
\* A run may come to rest for good: nobody has to give it another job.
CHECK_DEADLOCK FALSE
