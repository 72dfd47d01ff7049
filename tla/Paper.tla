------------------------------- MODULE Paper -------------------------------
(***************************************************************************)
(* What a display shows of what is printed: an endless roll of lines, of   *)
(* which the last ones are on the screen, and a position on it.            *)
(***************************************************************************)
EXTENDS Integers, Sequences

CONSTANTS Cols,   \* width of a line
          Glyph,  \* what a cell can hold
          Blank

VARIABLES paper,  \* cells, line after line, up to the end of the screen
          pos     \* where the next character goes; 0 is the first cell

papervars == <<paper, pos>>

Line(n) == n \div Cols

(* The roll with enough lines for position n.                              *)
Unrolled(n) ==
  IF n < Len(paper) THEN paper
  ELSE paper \o [k \in 1 .. Cols * (Line(n) + 1) - Len(paper) |-> Blank]

Init ==
  /\ \E rows \in 1 .. 25 : paper = [k \in 1 .. Cols * rows |-> Blank]
  /\ pos \in 0 .. Len(paper) - 1

Write(s) ==
  /\ pos' = pos + Len(s)
  /\ paper' = [k \in DOMAIN Unrolled(pos + Len(s)) |->
                 IF k - pos \in DOMAIN s THEN s[k - pos]
                 ELSE Unrolled(pos + Len(s))[k]]

NewLine ==
  /\ pos' = Cols * (Line(pos) + 1)
  /\ paper' = Unrolled(Cols * (Line(pos) + 1))

Return == pos' = Cols * Line(pos) /\ UNCHANGED paper

Erase ==
  /\ pos > 0 /\ pos' = pos - 1
  /\ paper' = [paper EXCEPT ![pos] = Blank]

Tab == Write([k \in 1 .. 5 |-> Blank])

Next == (\E c \in Glyph : Write(<<c>>)) \/ NewLine \/ Return \/ Erase \/ Tab

Spec == Init /\ [][Next]_papervars
============================================================================
