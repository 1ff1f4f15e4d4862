CONSTANTS
  MaxFrame = 4
  MaxTxn = 2
  MaxStops = 2
  Gop = 3
  Window = 1
  Budget = 1
  StoreMax = 3
SPECIFICATION Spec
INVARIANTS FrameBudget OwnSession PreRollHasTime
PROPERTIES WithinBudget DecoderOrder
CHECK_DEADLOCK FALSE
