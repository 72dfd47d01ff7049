SPECIFICATION Spec
CONSTANTS
  Gpr <- MCGpr
  Eax <- MCEax
  Eip <- MCEip
  Eflags <- MCEflags
  Entry = 2
  EnvId = 4096
  Char = {0, 3}
  NULL = NULL
INVARIANTS
  FrameExact
  AssertionsHold
PROPERTIES
  FaultIsFatal
  ImplementsProcess
