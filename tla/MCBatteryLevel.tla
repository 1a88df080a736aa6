--------------------------- MODULE MCBatteryLevel ---------------------------
(* BatteryLevel on a comparator of few levels.                               *)
EXTENDS BatteryLevel, TLC

(* The readers are interchangeable.                                          *)
MCSymmetry == Permutations(Reader)
=============================================================================
