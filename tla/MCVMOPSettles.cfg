CONSTANTS
  Kinds <- Settling
  Ops = {1, 2, 3}
  MaxLag = 1
  Faults = FALSE
  Restarts = FALSE
  Deletable = {}
  SameSecond = FALSE
  HA = FALSE
  Prompt = TRUE
  None = None
SPECIFICATION FairSpec
INVARIANT NothingStuck
PROPERTY EveryOperationEnds
CHECK_DEADLOCK FALSE
