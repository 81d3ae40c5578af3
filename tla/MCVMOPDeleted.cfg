CONSTANTS
  Kinds <- OnlyMigrate
  Ops = {1}
  MaxLag = 3
  Faults = TRUE
  Restarts = FALSE
  Deletable = {1}
  SameSecond = FALSE
  HA = FALSE
  Prompt = FALSE
  None = None
SPECIFICATION FairSpec
PROPERTY DeletedLeavesNothing
CHECK_DEADLOCK FALSE
