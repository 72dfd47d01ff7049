---------------------------- MODULE MCTerminal ----------------------------
(* A display of three short lines, a keyboard with one key of each kind that *)
(* kbd_proc_data tells apart.                                              *)
EXTENDS Terminal, TLC
MCKey == {h, Del, \h36, \h9D, \hB8}
============================================================================
