CONSTANTS
  VMs = {1, 2, 3, 4}
  MaxReplicas = 1
  Policies = {"NewestFirst", "Explicit"}
  Requests = {"r"}
  MaxEdits = 1
  SameSecond = FALSE
  SlowWatch = FALSE
  Faults = {"create", "delete", "restart", "relist", "request"}
  MaxFaults = 1
  None = None
SPECIFICATION FairSpec
INVARIANTS TypeOK SatisfiedIsSeen
PROPERTIES NeverOverDeletes Converges
CHECK_DEADLOCK FALSE
