SPECIFICATION FairSpec
CONSTANTS
  p1 = p1
  p2 = p2
  p3 = p3
  k1 = k1
  a = a
  b = b
  t1 = t1
  l1 = l1
  None = None
  Plan = {p1, p2}
  Pack = {k1}
  Blob = {a, b}
  Tree = {t1}
  Leaf = {l1}
  Places <- PlacesOf
  Entries <- EntriesOf
  Artifacts <- ArtifactsOf
  Packs <- PacksOf
  Members <- MembersOf
  Authorities <- AllAuthorities
  Default <- Short
  Faults <- DeathOrCut
INVARIANTS ClosureComplete
PROPERTIES NeverStuck
CHECK_DEADLOCK FALSE
