SPECIFICATION Spec
CONSTANTS
  Early = 1
  Window = 3
  MaxGapSize = 3
  MaxSeq = 5
  MaxSubs = 2
  Hasty = FALSE
  Faults <- NoFaults
INVARIANT ListenersHear
CHECK_DEADLOCK FALSE
