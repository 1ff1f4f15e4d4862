CONSTANTS
  a = a
  i = i
  b = b
  Members = {a, i, b}
  Category <- MCCategory
  Items <- MCItems
  Backends = {"insightface", "hailo"}
  Overrides = {}
  MaxFaces = 2
  MaxTxn = 2
  QueueMax = 2
  MaxClips = 1
SPECIFICATION Spec
INVARIANTS TypeOK Announced DiesOfRace StateCleared
CHECK_DEADLOCK FALSE
