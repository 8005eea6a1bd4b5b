SPECIFICATION Spec
CONSTANTS
  t1 = t1
  t2 = t2
  t3 = t3
  c1 = c1
  a = a
  b = b
  c = c
  plain = plain
  opens = opens
  turn = turn
  Trajectory = {t1, t2, t3}
  Channel = {c1}
  EnvelopeId = {a, b, c}
  Sem = {plain, opens}
  Turn = {turn}
  TurnOpened <- MCTurnOpened
  Batch <- MCBatch
  MaxSeq = 3
  NoKey = NoKey
  NoTurn = NoTurn
  NoHead = NoHead
  NoExpectation = NoExpectation
SYMMETRY Symmetry
INVARIANTS
  TypeOK
  ChainIntact
  ViewMatchesHead
  LineageIdsUnique
  TurnsOpenedOnce
  PublicationsFollowOrigins
  RetryAcknowledged
PROPERTIES
  ViewsAppendOnly
CHECK_DEADLOCK FALSE
