SPECIFICATION Spec
CONSTANTS
  Request = {r1, r2, r3}
  NumInputs = 2
  NumPools = 2
  None = None
INVARIANTS
  TypeOK
  OwnBuffers
PROPERTY
  EveryRequestAnswered
CHECK_DEADLOCK FALSE
