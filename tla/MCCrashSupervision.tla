------------------------- MODULE MCCrashSupervision -------------------------
(* Instances of CrashSupervision for TLC.                                  *)
EXTENDS CrashSupervision, TLC

CONSTANTS r1, r2, r3

ThreeRuns == {r1, r2, r3}
=============================================================================
