SPECIFICATION Spec
CONSTANTS
  None = None
  c1 = c1
  c2 = c2
  h1 = h1
  h2 = h2
  Call = {c1}
  Timed = {c1}
  Handler = {h1, h2}
  Scenarios <- CallScenarios
INVARIANTS TypeOK AnswersSettle WaitersAreReleased
PROPERTIES ImplementsLedger RootsAreStray
CHECK_DEADLOCK FALSE
