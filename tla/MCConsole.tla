----------------------------- MODULE MCConsole -----------------------------
(* A ring of three bytes, of which two can be in use.                      *)
EXTENDS Console, TLC
DeviceHolds == [serial |-> 1, kbd |-> 2]
============================================================================
