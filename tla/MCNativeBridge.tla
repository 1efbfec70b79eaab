--------------------------- MODULE MCNativeBridge ---------------------------
(* The calls of the driver are alike: the safety runs identify states that *)
(* differ only in their names.                                             *)
EXTENDS NativeBridge, TLC

CallSymmetry == Permutations(Calls)
=============================================================================
