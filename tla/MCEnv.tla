------------------------------- MODULE MCEnv -------------------------------
(* Env with a short envid_t.                                               *)
EXTENDS Env, TLC
============================================================================
