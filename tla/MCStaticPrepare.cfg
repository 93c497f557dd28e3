SPECIFICATION PrepareSpec
CONSTANTS
  MaxCollection = 3
  Words <- MCAllWords
  MaxNesting = 4
  MaxIterations = 3
  MaxNodes = 3
  MaxRange = 2
  Sources <- MCSources
  MaxIncludeDepth = 3
  MaxDocuments = 3
  MaxTypeDepth = 4
  Families <- MCFamilies
  Request <- MCRequest
  RichIncludeDepth = 3
  RichProfileDepth = 2
  RichItems = 3
  RichValueDepth = 4
  RichTotalValues = 10
  RichSteps = 40
  RichLoop = 4
  RichTotalLoop = 5
  RichRecords = 6
INVARIANTS
  RejectedForCause
  Explained
  LayersSound
  CheckedModulesExpand
PROPERTY
  Terminates
