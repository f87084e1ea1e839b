SPECIFICATION Spec
CONSTANTS
  Null = Null
  p1 = p1
  p2 = p2
  w1 = w1
  m1 = m1
  m2 = m2
  Proc = {p1, p2}
  WorkerId = {w1}
  WorkerOf <- MCWorkerShared
  Dispatch = {1}
  Token = {1, 2, 3, 4, 5}
  MsgId = {m1, m2}
  TxnAttempts = 2
  SweepLimit = 1
  Generated = {1}
  Stoppable = {p1}
SYMMETRY Symmetry
INVARIANTS
  TypeOK
  AtMostOneTransfer
  HonestOutcome
  MessageIdDurable
  MessageMirrorsDispatch
  ClaimedIffOwned
  StoppedMeansIdle
  LateNotesTruthful
PROPERTIES
  OnlyHolderOrExpiryReleases
