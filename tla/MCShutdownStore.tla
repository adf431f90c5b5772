---------------------------- MODULE MCShutdownStore ----------------------------
(* Instances of ShutdownStore for TLC. *)
EXTENDS ShutdownStore

CONSTANTS p1, p2

TwoPasswords == {p1, p2}

NoEdits == {}
MayFail == {"temp", "rename"}
================================================================================
