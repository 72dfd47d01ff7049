SPECIFICATION Spec
CONSTANTS
  NENV = 3
  GenStep = 6
  Half = 18
  MaxRuns = 1
  MaxBirths = 3
  NULL = NULL
INVARIANTS
  StatusExact
  IdsNameSlots
  NoStaleId
  OnlyOwnChildren
CHECK_DEADLOCK FALSE
