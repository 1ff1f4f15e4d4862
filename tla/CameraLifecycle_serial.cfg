CONSTANTS
  Inits = {i1, i2}
  Captures = {c1, c2, c3, c4}
  Monitors = {m1, m2, m3, m4}
  None = None
SPECIFICATION FairSerialSpec
INVARIANTS Watched UnwantedStops NoStaleMonitor
PROPERTY CrashRecovered
CHECK_DEADLOCK FALSE
