------------------------------ MODULE MCPmap ------------------------------
(* Pmap on a small machine: user programs may fill a page with what looks  *)
(* like an entry for any physical page.                                    *)
EXTENDS Tlb, TLC

CONSTANTS p1, p2, p3, p4, p5, e1, e2, U, UW

MCImage == {[k \in Idx |-> [pa |-> p, perm |-> UW]] : p \in Page}
MCSymmetry == Permutations(Page) \cup Permutations(Space)
==========================================================================
