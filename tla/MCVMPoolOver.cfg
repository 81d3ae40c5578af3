CONSTANTS
  VMs = {1, 2, 3, 4}
  MaxReplicas = 1
  Policies = {"NewestFirst", "Explicit"}
  Requests = {}
  MaxEdits = 0
  SameSecond = FALSE
  SlowWatch = FALSE
  Faults = {}
  MaxFaults = 0
  None = None
SPECIFICATION Spec
PROPERTY NoOverCreation
CHECK_DEADLOCK FALSE
