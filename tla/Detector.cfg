CONSTANTS
  Cams = {k1, k2}
  Txns = {x1, x2}
  None = None
  QueueMax = 2
SPECIFICATION FairSpec
INVARIANT AnsweredOnce
PROPERTY RoomAgain
CHECK_DEADLOCK FALSE
