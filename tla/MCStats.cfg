SPECIFICATION Spec
CONSTANTS
  Threads = {t1, t2}
  Counts = {1, 2}
  Width = 64
  MaxTotal = 5
  MaxClock = 3
INVARIANTS
  RateIsPossible
PROPERTIES
  SamplesAdvance
CHECK_DEADLOCK FALSE
