CONSTANTS
  n1 = n1
  n2 = n2
  Names = {n1}
  NamespaceOf <- OneNamespace
  Addrs = {1, 2}
  Usable = {1, 2}
  HA = TRUE
  Requests = {1, 2, AnyIP}
  MaxEdits = 2
  Deletable = {}
  Shared = {}
  Restarts = FALSE
  MaxInc = 1
  None = None
  AnyIP = AnyIP
SPECIFICATION Spec
INVARIANT UniqueLabel
PROPERTY BoundAddressStable
CHECK_DEADLOCK FALSE
