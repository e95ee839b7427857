SPECIFICATION Spec
CONSTANTS
  q1 = q1  None = None
  Requests = {q1}
  Kind <- AllSync
  Workers = {w1, w2}
  ShortTTL = FALSE
  FaultKinds = {"model"}
  MaxFaults = 1
SYMMETRY Symmetry
CHECK_DEADLOCK FALSE
INVARIANT
  FailureIsReported
