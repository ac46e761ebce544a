SPECIFICATION FairSpec
CONSTANTS
  None = None
  MaxId = 3
  MaxPushes = 1
INVARIANTS
  TypeOK WaiterServed AnswerMatches PutNeverBlocks AckComesNext FramesWhole
PROPERTY
  CommandsEnd
CHECK_DEADLOCK FALSE
