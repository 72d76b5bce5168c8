SPECIFICATION Spec
CONSTANTS
  Ids = 12
  Inputs = {1, 3}
  Consts = {2}
  Graphs <- graphs
INVARIANTS
  TypeOK
  InferredOnce
  Preserved
PROPERTY
  Terminates
CHECK_DEADLOCK FALSE
