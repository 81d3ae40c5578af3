CONSTANTS
  Images = {"a"}
  Late = {"a"}
  Deletable = {"a"}
  MaxCreate = 2
  MaxCron = 1
  Timeouts = TRUE
  Faults = {"cleaner", "collect", "write", "attempt", "schedule"}
  MaxFaults = 1
  Prompt = FALSE
  None = None
SPECIFICATION Spec
INVARIANTS TypeOK ReadyIsStored
CHECK_DEADLOCK FALSE
