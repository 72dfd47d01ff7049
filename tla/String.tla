------------------------------- MODULE String -------------------------------
(***************************************************************************)
(* memset and memmove of lib/string.c on a memory: a function from         *)
(* addresses, of bytes or of larger cells, to what is there.               *)
(***************************************************************************)
EXTENDS Integers

memset(mem, v, c, n) ==
  [a \in DOMAIN mem |-> IF a - v \in 0 .. n - 1 THEN c ELSE mem[a]]

(* Mutant: always from the end.                                            *)
BackwardsAlways(dst, src, n) == TRUE
(* The direction in which the bytes are copied.                            *)
Backwards(dst, src, n) == src < dst /\ src + n > dst

(* The k-th byte that is written is read at src + k, where another one may *)
(* have been written before it.                                            *)
memmove(mem, dst, src, n) ==
  LET Before(j, k) == j \in 0 .. n - 1 /\ IF Backwards(dst, src, n) THEN j > k ELSE j < k
      byte[k \in 0 .. n - 1] ==
        IF Before(src + k - dst, k) THEN byte[src + k - dst] ELSE mem[src + k]
  IN [a \in DOMAIN mem |-> IF a - dst \in 0 .. n - 1 THEN byte[a - dst] ELSE mem[a]]
=============================================================================
