SPECIFICATION Spec
CONSTANTS
  Proc = {p1, p2}
  Dirs = {d1, d2, d3}
  Foreign = foreign
  None = None
  p1 = p1
  p2 = p2
  Bounds <- MCBounds
  MarkerTries = 3
  LayoutTries = 32
  LockTries = 2
INVARIANTS ReadyStays StoresAreTold
PROPERTY CallsEnd
CHECK_DEADLOCK FALSE
