SPECIFICATION Spec
CONSTANTS
  Early = 1
  Window = 3
  MaxGapSize = 1
  MaxSeq = 5
  MaxSubs = 2
  Hasty = FALSE
  Faults <- FewFaults
INVARIANTS NothingSkipped QuietIsComplete
CHECK_DEADLOCK FALSE
