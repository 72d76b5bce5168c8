SPECIFICATION Spec
CONSTANTS
  Thread = {t1, t2, t3}
  Compilations = {k1, k2}
  Dims = {d1, d2}
  NumOps = 2
  MayFail = {"convert", "transform", "build"}
  None = None
INVARIANTS
  ConvertedOnce
  BuiltFromWholeModel
  BuiltOnce
  NoAbort
SYMMETRY symmetry
CHECK_DEADLOCK FALSE
