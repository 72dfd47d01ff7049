----------------------------- MODULE MCUserMem -----------------------------
(* Three user pages of two bytes below ULIM, addresses of four bits.       *)
EXTENDS UserMem, TLC
============================================================================
