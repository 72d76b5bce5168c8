SPECIFICATION Spec
CONSTANTS
  o1 = o1
  o2 = o2
  i1 = i1
  i2 = i2
  i3 = i3
  Conns <- conns
  SlotLists <- slotLists
  MaxRuns = 3
  MaxFails = 2
  MaxSetups = 2
INVARIANTS
  TypeOK
  ParamsCurrent
  StateCarried
  CopiedStateKept
CHECK_DEADLOCK FALSE
