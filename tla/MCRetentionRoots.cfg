SPECIFICATION Spec
CONSTANTS
  p1 = p1
  p2 = p2
  p3 = p3
  k1 = k1
  a = a
  b = b
  t1 = t1
  l1 = l1
  None = None
  Plan = {p1, p2, p3}
  Pack = {}
  Blob = {}
  Tree = {}
  Leaf = {}
  Places <- PlacesOf
  Entries <- EntriesOf
  Artifacts <- NoArtifacts
  Packs <- NoPacks
  Members <- MembersOf
  Authorities <- AllAuthorities
  Default <- Short
  Faults <- DeathsOrCuts
INVARIANTS HeadKept NeverWedged
CHECK_DEADLOCK FALSE
