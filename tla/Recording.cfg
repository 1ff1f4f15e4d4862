CONSTANTS
  Utcs = {"u1", "u2"}
  MaxFrame = 3
  Window = 1
  MaxCapture = 2
SPECIFICATION FairSpec
INVARIANTS ClipsDisjoint Guarded NoOrphan
PROPERTIES ClipComplete RecordingEnds
CHECK_DEADLOCK FALSE
