SPECIFICATION Spec
CONSTANTS
  Null = Null
  Bad = Bad
  LongBytes = 40
  EngineItems = 3
  ArrayItems = 2
  MaxFrameBytes = 90
  MaxDepth = 12
  MaxMembers = 20
  MaxValues = 60
CHECK_DEADLOCK FALSE
INVARIANTS RequestHonoured ReplyUnderstood
PROPERTY Answered
