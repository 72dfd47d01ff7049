SPECIFICATION FormatSpec
CONSTANTS
  Characters <- MCCharacters
  Calls <- MCCalls
  Places <- MCPlaces
  PrintMax = 3
  IntSize = 32
  LongSize = 64
  NULL = NULL
INVARIANTS
  TextExact
  TextArrives
PROPERTIES
  FormatEnds
CHECK_DEADLOCK FALSE
