------------------------------- MODULE MCRefunds -------------------------------
(***************************************************************************)
(* An instance of Refunds for TLC: an order for two tickets of one type    *)
(* and one of another, all sold out.                                       *)
(***************************************************************************)
EXTENDS Refunds, TLC

CONSTANTS o1, t1, t2, k1, k2, k3, c1, c2, c3, h0

OneOrder == k1 :> o1 @@ k2 :> o1 @@ k3 :> o1
TwoTypes == k1 :> t1 @@ k2 :> t1 @@ k3 :> t2
Total2   == t1 :> 2 @@ t2 :> 1
Start2   == t1 :> 2 @@ t2 :> 1

Symmetry == Permutations(Calls) \cup Permutations({k1, k2})
===============================================================================
