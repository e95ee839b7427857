SPECIFICATION Spec
CONSTANTS
  q1 = q1  None = None
  Requests = {q1, q2}
  Kind <- OneSync
  Workers = {w1, w2}
  ShortTTL = FALSE
  FaultKinds = {"crash", "misjudge", "model", "worker", "gateway", "overtake"}
  MaxFaults = 2
SYMMETRY Symmetry
CHECK_DEADLOCK FALSE
INVARIANTS
  TypeOK
  NoLostWakeup
  NotifiedFindsResult
  SettledHasOutcome
  OutcomesAgree
PROPERTIES
  SubscriptionGivenBack
