SPECIFICATION InsSpec
CONSTANTS
  p1 = p1
  p2 = p2
  k1 = k1
  b = b
  t1 = t1
  l1 = l1
  None = None
  Plan = {p1, p2}
  Pack = {k1}
  Blob = {b}
  Tree = {t1}
  Leaf = {l1}
  Artifacts <- ArtifactsOf
  Packs <- PacksOf
  Members <- MembersOf
  Places <- PlacesOf
  Entries <- EntriesOf
  Authorities <- AllAuthorities
  Default <- Short
  Faults <- NoFaults
  Scenarios <- DamagedOrBusy
  MaxFindings = 3
INVARIANT PlacesKept
PROPERTIES ReportsAreSnapshots CleanMeansSound ShownIsRetained
CHECK_DEADLOCK FALSE
