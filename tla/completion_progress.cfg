SPECIFICATION FairSpec
CONSTANTS
  q1 = q1  None = None
  Requests = {q1}
  Kind <- OneSync
  Workers = {w1, w2, w3}
  ShortTTL = TRUE
  FaultKinds = {"crash", "model", "worker", "gateway", "overtake"}
  MaxFaults = 3

CHECK_DEADLOCK FALSE
PROPERTIES
  SyncAnswered
  OutcomeRecorded
