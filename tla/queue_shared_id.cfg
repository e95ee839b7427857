SPECIFICATION FairSpec
CONSTANTS

  m1 = m1  m2 = m2  id1 = id1  None = None
  Tasks = {t1}
  Models = {m1}
  TaskModel <- TasksOnOne
  Workers = {w1, w2}
  ModelOf <- WorkersOnOne
  Ids = {id1}
  IdOf <- SharedId
  Reapers = {r1}
  ColonKeys <- NoKeys
  MaxQueueDepth = 2
  MaxHandlers = 2
  FaultKinds = {"crash"}
  MaxFaults = 1
CHECK_DEADLOCK FALSE
PROPERTY
  AtLeastOnce
