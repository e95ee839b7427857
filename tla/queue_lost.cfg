SPECIFICATION Spec
CONSTANTS

  m1 = m1  m2 = m2  id1 = id1  None = None
  Tasks = {t1, t2}
  Models = {m1}
  TaskModel <- TasksOnOne
  Workers = {w1, w2}
  ModelOf <- WorkersOnOne
  Ids = {w1, w2}
  IdOf <- OwnId
  Reapers = {r1}
  ColonKeys <- NoKeys
  MaxQueueDepth = 2
  MaxHandlers = 2
  FaultKinds = {"crash", "restart", "lapse"}
  MaxFaults = 2
SYMMETRY Symmetry
CHECK_DEADLOCK FALSE
INVARIANT
  NothingLost
