SPECIFICATION Spec
CONSTANTS
  Exec = {e1, e2}
  SyncExec = {}
  Client = {c1, c2}
  Work = Work
  Run = {r1, r2}
  Data = {a, b}
  None = None
INVARIANTS
  TypeOK
  OwnResult
PROPERTY
  OneVerdict
SYMMETRY Symmetry
CHECK_DEADLOCK FALSE
