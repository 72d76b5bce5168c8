SPECIFICATION SortSpec
CONSTANTS
  NumNodes = 4
  TensorId <- MCTensorId
  Graphs <- MCGraphs
  NULL = NULL
  Garbage = Garbage
INVARIANTS
  ResultIsOrder
  GivesUpOnlyOnCycles
PROPERTY
  Terminates
CHECK_DEADLOCK FALSE
