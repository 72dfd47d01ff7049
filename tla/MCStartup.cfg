SPECIFICATION Startup
CONSTANTS
  NPTE = 22
  IOPHYSMEM = 4
  EXTPHYSMEM = 5
  KernelEnds <- MCKernelEnds
  Base = {3, 4}
  Ext = {0, 4, 6, 7, 8, 9, 12, 13, 14, 20, 27}
  PagesPerPage = 16
  EnvsSize = 2
  KSTKSIZE = 2
  PhysTables = 2
  NULL = NULL
  SECTSIZE = 2
  PGSIZE = 4
  ELFHDR = 4
  HeaderSectors = 4
  EhSize = 2
  PhSize = 2
  Garbled <- MCGarbled
  Images <- MCImages
INVARIANTS
  KernelLoaded
  FreeListExact
  KernelMapExact
PROPERTIES
  BootsWhenAdequate
CHECK_DEADLOCK FALSE
