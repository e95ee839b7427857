SPECIFICATION Spec
CONSTANTS
  q1 = q1  None = None
  Requests = {q1}
  Kind <- AllAsync
  Workers = {w1, w2}
  ShortTTL = FALSE
  FaultKinds = {}
  MaxFaults = 0
SYMMETRY Symmetry
CHECK_DEADLOCK FALSE
INVARIANT
  PollSeesOutcome
