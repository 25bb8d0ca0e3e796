------------------------- MODULE MCActivityManager -------------------------
(* Activity objects are interchangeable.                                   *)
EXTENDS ActivityManager, TLC

ScreenSymmetry == Permutations(Screens)
=============================================================================
