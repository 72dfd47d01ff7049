SPECIFICATION LoadSpec
CONSTANTS
  PGSIZE = 3
  NPTE = 4
  NPAGES = 6
  Frames = {3, 9}
  Images <- MCImages
INVARIANTS
  LoadedExactly
  FaultsOnlyWhenShort
CHECK_DEADLOCK FALSE
