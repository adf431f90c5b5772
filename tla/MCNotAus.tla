------------------------------- MODULE MCNotAus --------------------------------
(* Instances of NotAus for TLC. *)
EXTENDS NotAus, TLC

CONSTANTS p1

OnePassword == {p1}

NoEdits == {}
(* The file is broken, or restored from a backup. *)
SomeEdits == {Unreadable, [armed |-> TRUE, hash |-> p1]}
(* Where no administrator request runs, the file is armed and disarmed by hand. *)
ArmAndDelete == {Missing, [armed |-> TRUE, hash |-> p1]}

NoFaults == {}
SaveMayFail == {"temp", "rename"}
CleanRefused == {"clean"}
AnyFault == {"sudo", "clean", "forced"}

SymmetricCallers == Permutations(Callers)
================================================================================
