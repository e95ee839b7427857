SPECIFICATION FairSpec
CONSTANTS

  m1 = m1  m2 = m2  id1 = id1  None = None
  Tasks = {t1, t2}
  Models = {m1}
  TaskModel <- TasksOnOne
  Workers = {w1, w2}
  ModelOf <- WorkersOnOne
  Ids = {w1, w2}
  IdOf <- OwnId
  Reapers = {r1}
  ColonKeys <- ColonInOneId
  MaxQueueDepth = 2
  MaxHandlers = 2
  FaultKinds = {"crash", "stop"}
  MaxFaults = 1
CHECK_DEADLOCK FALSE
PROPERTY
  EventuallyExecuted
