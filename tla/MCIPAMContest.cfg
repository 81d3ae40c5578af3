CONSTANTS
  n1 = n1
  n2 = n2
  Names = {n1, n2}
  NamespaceOf <- OneNamespace
  Addrs = {1}
  Usable = {1}
  HA = TRUE
  Requests = {1}
  MaxEdits = 0
  Deletable = {n1, n2}
  Shared = {}
  Restarts = FALSE
  MaxInc = 1
  None = None
  AnyIP = AnyIP
SPECIFICATION Spec
INVARIANT BoundHasLease
SYMMETRY Symmetry
PROPERTIES ReferenceNotOverwritten ImplementsRental
CHECK_DEADLOCK FALSE
