------------------------------ MODULE MCSmartProbe ------------------------------
(* Small instances of SmartProbe: the .cfg files give the constants.       *)
EXTENDS SmartProbe

CONSTANTS sda, d1

OneName == {sda}
OneReader == {d1}
================================================================================
