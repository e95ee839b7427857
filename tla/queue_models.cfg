SPECIFICATION Spec
CONSTANTS

  m1 = m1  m2 = m2  id1 = id1  None = None
  Tasks = {t1, t2, t3, t4}
  Models = {m1, m2}
  TaskModel <- TasksOnTwo
  Workers = {w1, w2}
  ModelOf <- WorkersOnTwo
  Ids = {w1, w2}
  IdOf <- OwnId
  Reapers = {r1, r2}
  ColonKeys <- ColonInM2
  MaxQueueDepth = 1
  MaxHandlers = 2
  FaultKinds = {"stop", "restart"}
  MaxFaults = 2
SYMMETRY TaskSymmetry
CHECK_DEADLOCK FALSE
INVARIANTS
  OneCopy
  ModelIsolation
  GracefulStopDrains
  QueueBound
