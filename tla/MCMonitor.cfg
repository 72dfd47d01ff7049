SPECIFICATION Spec
CONSTANTS
  Sessions <- MCSessions
  Tables <- MCTables
  Unterminated <- MCUnterminated
  Stacks <- MCStacks
  MAXARGS = 5
  Top = 32
  PGSIZE = 8
  WORD = 4
  NPTE = 2
  npages = 2
  NoTable = NoTable
  MaxRows = 8
INVARIANTS
  FindsTheEntry
  NamesTheLine
  ArgvExact
  RowsExact
  MonitorSurvives
PROPERTIES
  PgmodKeepsPages
  CommandEnds
