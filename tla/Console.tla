------------------------------ MODULE Console ------------------------------
(***************************************************************************)
(* Console input of kern/console.c: two devices that fill at any time, the *)
(* routine that empties them into a ring of CONSBUFSIZE bytes, and the     *)
(* callers of cons_getc, which poll it.  A character is the number of the  *)
(* key stroke it comes from, so that no two are equal; 0 is a byte, or a   *)
(* scan code, that makes no character.                                     *)
(***************************************************************************)
EXTENDS Integers, Sequences, Functions

CONSTANTS CONSBUFSIZE,
          Holds,     \* how many bytes each device holds
          Ahead,     \* characters that may be on their way to the caller
          MaxTyped   \* bound: key strokes

Device == {"serial", "kbd"}

ASSUME ConsoleAssumption ==
  /\ CONSBUFSIZE \in Nat \ {0, 1} /\ Ahead \in Nat /\ MaxTyped \in Nat
  /\ Holds \in [Device -> Nat \ {0}]

Char == 1 .. MaxTyped
NoChar == 0

VARIABLES serial_exists,
          pending,     \* what each device holds
          buf, rpos, wpos,
          pc,          \* where cons_getc is: emptying a device, or "take"
          got,         \* what cons_getc has returned
          count,       \* key strokes so far
          typed        \* auxiliary: the characters each device has received

vars == <<serial_exists, pending, buf, rpos, wpos, pc, got, count, typed>>

ring == <<buf, rpos, wpos>>

AllTyped == Len(typed["serial"]) + Len(typed["kbd"])

Init ==
  /\ serial_exists \in BOOLEAN
  /\ pending = [d \in Device |-> <<>>]
  /\ buf = [k \in 0 .. CONSBUFSIZE - 1 |-> NoChar]
  /\ rpos = 0 /\ wpos = 0
  /\ pc = "serial"
  /\ got = <<>> /\ count = 0
  /\ typed = [d \in Device |-> <<>>]

----------------------------------------------------------------------------
(* A byte reaches a device that has room for it.                           *)
Arrive(d) ==
  /\ d = "serial" => serial_exists
  /\ count < MaxTyped /\ Len(pending[d]) < Holds[d]
  /\ count' = count + 1
  /\ \E c \in {count', NoChar} :
       /\ c # NoChar => AllTyped - Len(got) < Ahead
       /\ pending' = [pending EXCEPT ![d] = Append(@, c)]
       /\ typed' = [typed EXCEPT ![d] =
                      IF c = NoChar THEN @ ELSE Append(@, c)]
  /\ UNCHANGED <<serial_exists, ring, pc, got>>

(* Mutant: the position never goes back to 0.                              *)
AfterNoWrap(p) == p + 1
After(p) == IF p + 1 = CONSBUFSIZE THEN 0 ELSE p + 1

(* Mutant: only negative values are left out of the ring.                  *)
StashAll(c) ==
  buf' = [buf EXCEPT ![wpos] = c] /\ wpos' = After(wpos)
(* The body of the loop of cons_intr for one value of proc.                *)
Stash(c) ==
  IF c = NoChar THEN UNCHANGED <<buf, wpos>>
  ELSE buf' = [buf EXCEPT ![wpos] = c] /\ wpos' = After(wpos)

Polled(d) == d = "serial" => serial_exists

(* One round of the loop of cons_intr.                                     *)
cons_intr_char(d) ==
  /\ pc = d /\ Polled(d) /\ pending[d] # <<>>
  /\ Stash(Head(pending[d]))
  /\ pending' = [pending EXCEPT ![d] = Tail(@)]
  /\ UNCHANGED <<serial_exists, rpos, pc, got, count, typed>>

(* Mutant: the keyboard is left to its interrupt, which is masked.         *)
AfterSerialTake == "take"
AfterSerial == "kbd"

(* proc returns -1, or the serial port does not exist.                     *)
cons_intr_done(d) ==
  /\ pc = d /\ (Polled(d) => pending[d] = <<>>)
  /\ pc' = IF d = "serial" THEN AfterSerial ELSE "take"
  /\ UNCHANGED <<serial_exists, pending, ring, got, count, typed>>

(* Mutant: the position is advanced before it is used.                     *)
taken_late ==
  /\ rpos # wpos
  /\ got' = Append(got, buf[After(rpos)])
  /\ rpos' = After(rpos)
taken ==
  /\ rpos # wpos
  /\ got' = Append(got, buf[rpos])
  /\ rpos' = After(rpos)

(* cons_getc returns a character, or 0, and is called again.               *)
cons_getc_return ==
  /\ pc = "take" /\ pc' = "serial"
  /\ taken \/ (rpos = wpos /\ UNCHANGED <<got, rpos>>)
  /\ UNCHANGED <<serial_exists, pending, buf, wpos, count, typed>>

Step == (\E d \in Device : cons_intr_char(d) \/ cons_intr_done(d))
        \/ cons_getc_return

Next == Step \/ \E d \in Device : Arrive(d)

(* Every caller of cons_getc waits in a loop for a character.              *)
Spec == Init /\ [][Next]_vars /\ WF_vars(Step)

----------------------------------------------------------------------------
TypeOK ==
  /\ serial_exists \in BOOLEAN
  /\ pending \in [Device -> Seq({NoChar} \cup Char)]
  /\ \A d \in Device : Len(pending[d]) <= Holds[d]
  /\ typed \in [Device -> Seq(Char)]
  /\ buf \in [0 .. CONSBUFSIZE - 1 -> {NoChar} \cup Char]
  /\ rpos \in DOMAIN buf /\ wpos \in DOMAIN buf
  /\ pc \in Device \cup {"take"}
  /\ got \in Seq(Char) /\ count \in 0 .. MaxTyped

(* cons_getc returns what the devices received and nothing else, nothing   *)
(* twice, and no character of a device before all that came before it from *)
(* that device, however the two devices alternate.                         *)
DeliveredInOrder ==
  /\ TypeOK
  /\ \A m, n \in 1 .. Len(got) : got[m] = got[n] => m = n
  /\ \A n \in 1 .. Len(got) :
       \E d \in Device : \E b \in 1 .. Len(typed[d]) :
         /\ got[n] = typed[d][b]
         /\ \A a \in 1 .. b - 1 : \E m \in 1 .. n - 1 : got[m] = typed[d][a]

(* The ring is a queue of CONSBUFSIZE - 1 characters (module Fifo).        *)
InRing == [k \in 1 .. (wpos - rpos) % CONSBUFSIZE
             |-> buf[(rpos + k - 1) % CONSBUFSIZE]]

Queue == INSTANCE Fifo WITH Cap <- CONSBUFSIZE - 1,
                            queue <- InRing, out <- got
ImplementsFifo == Queue!Spec

(* A character that reached a device reaches the caller of cons_getc.      *)
AllRead ==
  \A c \in Char :
    (\E d \in Device : c \in Range(typed[d])) ~> (c \in Range(got))
============================================================================
