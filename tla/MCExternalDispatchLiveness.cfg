SPECIFICATION FairSpec
CONSTANTS
  Null = Null
  p1 = p1
  w1 = w1
  Proc = {p1}
  WorkerId = {w1}
  WorkerOf <- MCWorkerShared
  Dispatch = {1, 2}
  Token = {1, 2, 3}
  MsgId = {m1}
  TxnAttempts = 2
  SweepLimit = 1
  Generated = {1}
  Stoppable = {p1}
  FaultBudget = 2
PROPERTIES
  EventuallySettled
  SuppressionHonoured
  ImplementsLifecycle
