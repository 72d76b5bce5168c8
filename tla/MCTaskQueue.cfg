SPECIFICATION Spec
CONSTANTS
  Client = {c1, c2}
  Worker = {w1, w2}
  Task = {t1, t2, t3}
  None = None
INVARIANTS
  OneWorkThread
  NoLostWakeup
PROPERTIES
  ImplementsExecutor
CHECK_DEADLOCK FALSE
