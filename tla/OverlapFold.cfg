SPECIFICATION Spec
CONSTANTS
  None = None
  m1 = m1
  m2 = m2
  m3 = m3
  m4 = m4
  t1 = t1
  t2 = t2
  f1 = f1
  f2 = f2
  Message = {m1, m2}
  AfterTurn = {m2}
  MaxModelCalls = 1
  Flow = {f1, f2}
  Tool = {t1, t2}
  Remote = {}
  MaxAttempts = 2
  Scenarios <- PairScenarios
INVARIANTS FoldFaithful
SYMMETRY FlowSymmetry
CHECK_DEADLOCK FALSE
