SPECIFICATION LiveSpec
CONSTANTS
  None = None
  c1 = c1
  c2 = c2
  h1 = h1
  h2 = h2
  Call = {c1, c2}
  Timed = {c1}
  Handler = {h1}
  Scenarios <- MaskScenarios
PROPERTIES DeadlinesSettle
CHECK_DEADLOCK FALSE
