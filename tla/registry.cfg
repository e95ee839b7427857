SPECIFICATION Spec
CONSTANTS
  w1 = w1  w2 = w2  m1 = m1  m2 = m2  None = None
  Workers = {w1, w2}
  Models = {m1, m2}
  ModelOf <- TwoModels
  Ids = {w1, w2}
  IdOf <- OwnId
  Interval = 4
  TTL = 12
  Delay = 1
SYMMETRY Symmetry
INVARIANTS
  TypeOK
  OneFailureTolerated
  ListedWasServed
  SteadyIsListed
