CONSTANTS
  Onvif = {o1}
  Lambda = lambda
  Locks = {A, B}
  Contexts = {d1, d2}
  Txns = {x1, x2}
  None = None
  QueueMax = 1
SPECIFICATION MCSpec
INVARIANTS
  SnapshotStored
  
  SerialClickCovered
  SerialReleasedGone
PROPERTY SerialNoFallback
SYMMETRY Symmetry
CHECK_DEADLOCK FALSE
