SPECIFICATION Spec
CONSTANTS
  Exec = {e1, e2}
  SyncExec = {e2}
  Client = {c1, c2}
  Work = Work
  Run = {r1, r2}
  Data = {a, b}
  None = None
INVARIANT
  OwnResult
SYMMETRY SharedSymmetry
CHECK_DEADLOCK FALSE
