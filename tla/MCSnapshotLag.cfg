CONSTANTS
  DSnaps = {}
  VSnaps = {"v"}
  Own <- OneDisk
  Required = {"v"}
  Deletable = {"v", "of_v"}
  Agent = TRUE
  MaxPower = 1
  Faults = {"write", "disk", "volume", "call"}
  MaxFaults = 1
  Prompt = FALSE
  MaxVer = 10
  None = None
SPECIFICATION Spec
INVARIANTS TypeOK RequiredIsConsistent
CHECK_DEADLOCK FALSE
