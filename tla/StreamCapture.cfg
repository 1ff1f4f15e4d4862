CONSTANTS
  Callers = {c1, c2}
  Timers = {t1, t2}
  Txns = {x1, x2}
  None = None
  QueueMax = 1
SPECIFICATION FairSpec
INVARIANT SessionGuarded
PROPERTY SessionSpec
CHECK_DEADLOCK FALSE
