CONSTANTS
  DSnaps = {"d"}
  VSnaps = {"v"}
  Own <- OneDisk
  Required = {"d", "v"}
  Deletable = {}
  Agent = TRUE
  MaxPower = 1
  Faults = {"volume", "write"}
  MaxFaults = 1
  Prompt = TRUE
  MaxVer = 40
  None = None
SPECIFICATION FairSpec
  
PROPERTIES   EverySnapshotEnds
CHECK_DEADLOCK FALSE
