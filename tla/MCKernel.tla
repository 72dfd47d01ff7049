------------------------------ MODULE MCKernel ------------------------------
(* The values the kernel tells apart: system call numbers and results in   *)
(* %eax, ids in %edx (0, its own, another one), and %eflags: the privilege *)
(* level, the interrupt flag and the carry flag, which programs can change.*)
EXTENDS Kernel, TLC

MCGpr == {0, 4096, 8193}
MCEax == {-7, -2, 0, 1, 2, 3, 4096}
MCEip == {2}
MCEflags == {iopl * 4096 + intr * 512 + cf : iopl \in {0, 1, 3}, intr \in 0 .. 1, cf \in 0 .. 1}
============================================================================
