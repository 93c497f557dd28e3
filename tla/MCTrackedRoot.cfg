CONSTANTS
  p1 = p1
  p2 = p2
  Caller = {p1, p2}
  None = None
  OutputLimit = 1
  TransferLimit = 1
  PipeRoom = 1
  Wanted = 1
  PollLimit = 2
  Branch <- BranchDef
  LockOf <- LockDef
  UrlOf <- UrlDef
  Children <- ChildrenDef
  Scenarios <- ScenariosDef
SPECIFICATION Spec
INVARIANTS UpdatesLinearize GrantsNeverWiden CallsAreConfined
PROPERTY CallsReturn
CHECK_DEADLOCK FALSE
