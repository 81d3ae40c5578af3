CONSTANTS
  Images = {"a"}
  Late = {"a"}
  Deletable = {}
  MaxCreate = 1
  MaxCron = 2
  Timeouts = TRUE
  Faults = {"collect", "write", "cleaner"}
  MaxFaults = 1
  Prompt = TRUE
  None = None
SPECIFICATION FairSpec
PROPERTIES  MaintenanceEnds 
CHECK_DEADLOCK FALSE
