SPECIFICATION Spec
CONSTANTS
  None = None
  Proc = {p1, p2}
  Root = "root"
  Git = {"git"}
  Local = {"root", "local"}
  Source <- MCSource
  Names <- MCNames
  Order <- MCOrder
  Manifests <- MCManifests
  First <- MCFirst
  Descriptors <- MCDescriptors
  GitPack <- MCGitPack
  Inputs <- MCInputs
  UserLocks <- MCUserLocks
  Faults <- MCFaults
  MaxNodes = 3
  MaxEdges = 3
  MaxGraphBytes = 8
  DescriptorLimit = 4
  MaxProcessed = 14
  MaxEntries = 3
  MaxOps = 2
INVARIANTS LocksReliable
PROPERTY PublishedByItsWriter
SYMMETRY Symmetric
CHECK_DEADLOCK FALSE
