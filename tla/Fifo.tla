-------------------------------- MODULE Fifo --------------------------------
(***************************************************************************)
(* What the console input promises: a queue of at most Cap characters,     *)
(* taken in the order they came.                                           *)
(***************************************************************************)
EXTENDS Naturals, Sequences

CONSTANTS Char, Cap

VARIABLES queue, out

Init == queue = <<>> /\ out = <<>>

Put(c) == Len(queue) < Cap /\ queue' = Append(queue, c) /\ UNCHANGED out

Take ==
  /\ queue # <<>>
  /\ out' = Append(out, Head(queue))
  /\ queue' = Tail(queue)

Next == Take \/ \E c \in Char : Put(c)

Spec == Init /\ [][Next]_<<queue, out>>
============================================================================
