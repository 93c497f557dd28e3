SPECIFICATION Spec
CONSTANTS
  Namespaces = {"one", "two"}
  Paths <- MCPaths
  Requests <- MCRequests
  UserVal = "user"
  None = None
  MaxGens = 4
  MaxPlans = 2
  MaxEdits = 1
INVARIANTS ExclusiveOwnership LedgerMatchesLive NeverWedged
PROPERTY EditsNeedApproval
CHECK_DEADLOCK FALSE
