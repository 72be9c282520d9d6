SPECIFICATION FairSpec
CONSTANTS
  Stories = {1, 2, 3}
  Plans <- MCPlans
  MaxRuns = 4
INVARIANTS TypeOK CycleIffRefused LayersSound GroupsInOrder EpicVerdict  PendingServed
PROPERTIES EpicSettles
CHECK_DEADLOCK FALSE
