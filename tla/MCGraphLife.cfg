SPECIFICATION Spec
CONSTANTS
  MaxId = 2
  MaxTensors = 4
  Attrs <- attrs
  NodeKinds <- kinds
  MaxNodes = 2
  OutputSeqs <- outputSeqs
  MaxSetups = 2
  None = None
INVARIANTS
  TypeOK
  ReleasedOnce
  InputsReady
  CrashesExplained
  OutputsIdentified
CHECK_DEADLOCK FALSE
