SPECIFICATION TerminalSpec
CONSTANTS
  CRT_ROWS = 3
  CRT_COLS = 2
  Glyph = {"h", "H", "DEL", "RUB", " "}
  Key <- MCKey
  BUFLEN = 3
  Printed = {"h", "TAB", "NL", "CR"}
  Serial = {"RUB", "NL"}
  MaxScroll = 1
INVARIANTS
  NoStuckModifier
  EchoShowsLine
PROPERTIES
  ImplementsPaper
CHECK_DEADLOCK FALSE
