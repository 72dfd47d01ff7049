-------------------------------- MODULE Cga --------------------------------
(***************************************************************************)
(* The text display of kern/console.c: cga_putc on a screen of CRT_ROWS    *)
(* lines that scrolls.                                                     *)
(***************************************************************************)
EXTENDS Integers, Sequences, String

CONSTANTS CRT_ROWS, CRT_COLS,
          Glyph        \* the printing characters, Blank among them

VARIABLE screen  \* crt_buf, crt_pos and, auxiliary, what has scrolled off

CRT_SIZE == CRT_ROWS * CRT_COLS
Cell == 0 .. CRT_SIZE - 1
Blank == " "
Control == {"BS", "NL", "CR", "TAB"}

ASSUME CgaAssumption ==
  /\ CRT_ROWS \in 2 .. 25 /\ CRT_COLS \in Nat \ {0}
  /\ Blank \in Glyph /\ Glyph \cap Control = {}

(* Mutant: the line that becomes free keeps its text.                      *)
moved_dirty(b) == memmove(b, 0, CRT_COLS, CRT_SIZE - CRT_COLS)

(* The lines move up, the last one is cleared.                             *)
moved(b) ==
  memset(memmove(b, 0, CRT_COLS, CRT_SIZE - CRT_COLS), CRT_SIZE - CRT_COLS, Blank, CRT_COLS)

Out(n) == n >= CRT_SIZE

(* One line up when the cursor has left the screen.                        *)
Scrolled(s) ==
  IF ~ Out(s.crt_pos) THEN s
  ELSE [crt_buf |-> moved(s.crt_buf),
        crt_pos |-> s.crt_pos - CRT_COLS,
        gone    |-> s.gone \o [k \in 1 .. CRT_COLS |-> s.crt_buf[k - 1]]]

LineStart(n) == n - (n % CRT_COLS)

(* c is written at k, and the cursor goes to n.                            *)
Shown(s, c, k, n) ==
  [crt_buf |-> [s.crt_buf EXCEPT ![k] = c], crt_pos |-> n, gone |-> s.gone]

Put(s, c) == Scrolled(Shown(s, c, s.crt_pos, s.crt_pos + 1))

Spaces(s) ==
  LET sp[n \in 0 .. 5] == IF n = 0 THEN s ELSE Put(sp[n - 1], Blank)
  IN sp[5]

cga_putc(s, c) ==
  CASE c = "BS"  -> IF s.crt_pos > 0
                    THEN Shown(s, Blank, s.crt_pos - 1, s.crt_pos - 1)
                    ELSE s
    [] c = "NL"  -> Scrolled([s EXCEPT !.crt_pos = LineStart(@ + CRT_COLS)])
    [] c = "CR"  -> [s EXCEPT !.crt_pos = LineStart(@)]
    [] c = "TAB" -> Spaces(s)
    [] OTHER     -> Put(s, c)

(* cga_init takes the cursor from the display.                             *)
cga_init ==
  \E n \in Cell : screen = [crt_buf |-> [k \in Cell |-> Blank],
                           crt_pos |-> n, gone |-> <<>>]

ScrolledLines(s) == Len(s.gone) \div CRT_COLS

(* All that is on the display and was scrolled off it, and the place of    *)
(* the cursor in it.                                                       *)
Roll == screen.gone \o [k \in 1 .. CRT_SIZE |-> screen.crt_buf[k - 1]]
RollPos == Len(screen.gone) + screen.crt_pos

CgaTypeOK ==
  /\ screen.crt_buf \in [Cell -> Glyph]
  /\ screen.crt_pos \in Cell

(* The screen shows the last lines of an endless roll (module Paper).      *)
P == INSTANCE Paper WITH Cols <- CRT_COLS, paper <- Roll, pos <- RollPos

ImplementsPaper == P!Spec
============================================================================
