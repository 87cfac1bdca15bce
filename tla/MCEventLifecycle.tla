--------------------------- MODULE MCEventLifecycle ---------------------------
(***************************************************************************)
(* An instance of EventLifecycle for TLC.                                  *)
(***************************************************************************)
EXTENDS EventLifecycle, TLC

CONSTANTS u1, u2, c1, c2, c3, c4

CallSymmetry == Permutations(Calls)
===============================================================================
