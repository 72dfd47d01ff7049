------------------------------ MODULE Process ------------------------------
(***************************************************************************)
(* What the kernel promises the program it runs: nobody else touches its   *)
(* registers.  It is started once; a system call changes %eax and nothing  *)
(* else; a breakpoint stops it until the operator continues it exactly     *)
(* where it was; and once it is over it never runs again.                  *)
(***************************************************************************)
CONSTANTS Regs,    \* the register values a program can have
          Started  \* those it is started with

VARIABLES phase,   \* "starting", "running", "calling", "stopped" or "over"
          regs     \* its registers

pvars == <<phase, regs>>

Init == phase = "starting" /\ regs = Started

Start == phase = "starting" /\ phase' = "running" /\ UNCHANGED regs

Execute == phase = "running" /\ phase' = "running" /\ regs' \in Regs

Call == phase = "running" /\ phase' = "calling" /\ UNCHANGED regs

Return ==
  /\ phase = "calling" /\ phase' = "running"
  /\ \E result \in {r.eax : r \in Regs} :
       regs' = [regs EXCEPT !.eax = result]

Break == phase = "running" /\ phase' = "stopped" /\ UNCHANGED regs

Continue == phase = "stopped" /\ phase' = "running" /\ UNCHANGED regs

End == phase # "over" /\ phase' = "over" /\ UNCHANGED regs

Next == Start \/ Execute \/ Call \/ Return \/ Break \/ Continue \/ End

Spec == Init /\ [][Next]_pvars
============================================================================
