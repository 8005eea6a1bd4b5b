SPECIFICATION RepoSpec
CONSTANTS
  main = main
  ctx = ctx
  archive1 = archive1
  archive2 = archive2
  e1 = e1
  e2 = e2
  e3 = e3
  e4 = e4
  s1 = s1
  s2 = s2
  Trajectory = {main, ctx, archive1, archive2}
  Channel = {}
  EnvelopeId = {e1, e2, e3, e4}
  Sem = {s1, s2}
  Turn = {}
  TurnOpened <- MCTurnOpened
  Batch <- MCBatch
  MaxSeq = 3
  NoKey = NoKey
  NoTurn = NoTurn
  NoHead = NoHead
  NoExpectation = NoExpectation
  Main = main
  Context = {ctx}
  ArchiveHead <- MCArchiveHead
  EmptyState = EmptyState
SYMMETRY MCSymmetry
INVARIANTS RepoTypeOK LiveHeadsIntact WorktreeMatchesHead ForkPointsKept
PROPERTIES MainHistoryKept
CHECK_DEADLOCK FALSE
