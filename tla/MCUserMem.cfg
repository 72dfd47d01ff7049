SPECIFICATION Spec
CONSTANTS
  Top = 16
  PGSIZE = 2
  ULIM = 8
INVARIANTS
  CheckExact
  PrintsTheString
PROPERTIES
  CallEnds
CHECK_DEADLOCK FALSE
