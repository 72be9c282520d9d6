SPECIFICATION FairSpec
CONSTANTS
  Stories = {1, 2, 3}
  Plans <- MCGated
  MaxRuns = 4
INVARIANTS FilesExclusive
CHECK_DEADLOCK FALSE
