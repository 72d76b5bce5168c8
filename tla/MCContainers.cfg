SPECIFICATION MapSpec
CONSTANTS
  Key = {1, 2, 3, 4}
  Value = {v1, v2}
  Item = {i1, i2, i3, i4}
  MaxClears = 1
  NULL = NULL
SYMMETRY Symmetry
INVARIANTS
  MapTypeOK
  KeysAlive
  SameKeys
PROPERTY
  ImplementsMap
CHECK_DEADLOCK FALSE
