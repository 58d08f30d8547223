----------------------------- MODULE MCSaveState -----------------------------
(* Model checking of SaveState, with a threshold of one sector, as that of  *)
(* the first error is, and one of two.                                      *)
EXTENDS SaveState, TLC

MCThresholds == {"first", "t25"}
MCsectors_to == [t \in MCThresholds |-> IF t = "t25" THEN 2 ELSE 1]
MCSymmetry   == Permutations(Sectors)
==============================================================================
