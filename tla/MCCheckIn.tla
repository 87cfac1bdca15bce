------------------------------- MODULE MCCheckIn ------------------------------
(***************************************************************************)
(* An instance of CheckIn for TLC: one ticket, an unknown id, an event     *)
(* that may be cancelled or lose its closing date.                         *)
(***************************************************************************)
EXTENDS CheckIn, TLC

CONSTANTS k1, k2, u1, u2, u3, c1, c2, c3

Holder1 == k1 :> u1
Rows1   == {[cancelled |-> FALSE, opens |-> 1, closes |-> 1],
            [cancelled |-> TRUE, opens |-> 1, closes |-> None]}

CallSymmetry == Permutations(Calls)
===============================================================================
