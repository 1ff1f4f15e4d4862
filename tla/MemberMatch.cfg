CONSTANTS
  Fetchers = {f1, f2}
  Guests = {a, b}
  NoMember = NoMember
SPECIFICATION MCSpec
INVARIANTS SerialMatrixCurrent WrongOnlyOfRace
SYMMETRY Symmetry
CHECK_DEADLOCK FALSE
