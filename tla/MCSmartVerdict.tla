----------------------------- MODULE MCSmartVerdict -----------------------------
(***************************************************************************)
(* Instances of SmartVerdict for TLC: the levels on both sides of every    *)
(* threshold in deriveVerdict and wearPercent.                             *)
(***************************************************************************)
EXTENDS SmartVerdict

KeepsCount == AllMakes \ {"pinned", "reversed"}
AroundThresholds == {0, 89, 90, 95, 100, 255}
FewCounts == {0, 2}
AroundFiveYears == {0, 40000, 90000}
================================================================================
