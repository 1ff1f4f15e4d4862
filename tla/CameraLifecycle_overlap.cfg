CONSTANTS
  Inits = {i1, i2, i3}
  Captures = {c1, c2, c3}
  Monitors = {m1, m2, m3}
  None = None
SPECIFICATION MCFairSpec
INVARIANT NoCircle
PROPERTY UpdateEnds
CHECK_DEADLOCK FALSE
