SPECIFICATION Spec
CONSTANTS
  Operand = {o1, o2}
  Buffer = {b1, b2}
  Memory = {m1}
  Data = {x, y}
  Lengths = {1, 2}
  Offsets = {0, 1, 2, 3}
  Size <- MCSize
  Threshold = 1
  None = None
  MaxRefs = 4
INVARIANTS
  TypeOK
  CountsMatchRefs
PROPERTY
  SmallValuesStable
SYMMETRY Symmetry
CHECK_DEADLOCK FALSE
