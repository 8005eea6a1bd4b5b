SPECIFICATION Spec
CONSTANTS
  None = None
  m1 = m1
  m2 = m2
  m3 = m3
  m4 = m4
  t1 = t1
  t2 = t2
  f1 = f1
  f2 = f2
  Message = {m1, m2, m3, m4}
  AfterTurn = {m2, m3}
  MaxModelCalls = 2
  Flow = {f1}
  Tool = {t1, t2}
  Remote = {t2}
  MaxAttempts = 2
  Scenarios <- TurnScenarios
INVARIANTS UnsettledIsPending ReadOnce
PROPERTIES CallsWhenReady DeferredInOrder InterruptGates
CHECK_DEADLOCK FALSE
