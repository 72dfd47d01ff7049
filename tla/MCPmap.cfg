SPECIFICATION TlbSpec
CONSTANTS
  p1 = p1
  p2 = p2
  p3 = p3
  p4 = p4
  p5 = p5
  e1 = e1
  e2 = e2
  U = U
  UW = UW
  NULL = NULL
  Page = {p1, p2, p3, p4, p5}
  Space = {e1, e2}
  NPDE = 2
  NPTE = 2
  Perm = {U, UW}
  PdePerm = UW
  RefLimit = 4
  MaxShare = 2
  Image <- MCImage
SYMMETRY MCSymmetry
INVARIANTS TlbExact RefCountExact FreePagesUnused NoLeak TablesPrivate NoPanic
PROPERTIES ImplementsAddrSpace
