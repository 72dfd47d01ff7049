SPECIFICATION Spec
CONSTANTS
  Top = 16
  PGSIZE = 2
  ULIM = 8
INVARIANTS
  CheckSound
CHECK_DEADLOCK FALSE
