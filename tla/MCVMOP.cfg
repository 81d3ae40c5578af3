CONSTANTS
  Kinds <- MigrationKinds
  Ops = {1, 2}
  MaxLag = 1
  Faults = TRUE
  Restarts = TRUE
  Deletable = {}
  SameSecond = FALSE
  HA = FALSE
  Prompt = FALSE
  None = None
SPECIFICATION Spec
INVARIANTS TypeOK OneActive
PROPERTY NeverReactivated
CHECK_DEADLOCK FALSE
