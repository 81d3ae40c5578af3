CONSTANTS
  n1 = n1
  n2 = n2
  Names = {n1, n2}
  NamespaceOf <- OneNamespace
  Addrs = {1}
  Usable = {1}
  HA = TRUE
  Requests = {AnyIP}
  MaxEdits = 0
  Deletable = {}
  Shared = {n1}
  Restarts = TRUE
  MaxInc = 1
  None = None
  AnyIP = AnyIP
SPECIFICATION Spec
INVARIANTS TypeOK BoundHasLease
CHECK_DEADLOCK FALSE
