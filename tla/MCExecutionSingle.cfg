SPECIFICATION Spec
CONSTANTS
  Exec = {e1}
  SyncExec = {e1}
  Client = {c1, c2}
  Work = Work
  Run = {r1, r2}
  Data = {a, b}
  None = None
INVARIANT
  OneEvaluationPerExecution
PROPERTIES
  BuffersStable
  SuccessMeansResult
  WaitersReturn
CHECK_DEADLOCK FALSE
