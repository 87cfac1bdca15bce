------------------------------- MODULE MCOrders -------------------------------
(***************************************************************************)
(* Instances of Orders for TLC.                                            *)
(***************************************************************************)
EXTENDS Orders, TLC

CONSTANTS t1, t2, o1, o2, o3, u1, u2, c1, c2, c3, p1, p2, m1, m2

\* One ticket type with two of three tickets left, and two memos for three ids.
OneType   == {t1}
Total1    == t1 :> 3
Base1     == t1 :> 1
Baskets1  == {t1 :> 1, t1 :> 2}
Cost1     == [b \in Baskets1 |-> b[t1]]
TwoMemos2 == o1 :> m1 @@ o2 :> m2
TwoMemos  == o1 :> m1 @@ o2 :> m2 @@ o3 :> m2
Distinct  == o1 :> o1 @@ o2 :> o2 @@ o3 :> o3

\* Two ticket types, and orders for either or both.
TwoTypes  == {t1, t2}
Total2    == t1 :> 2 @@ t2 :> 1
Base2     == t1 :> 1 @@ t2 :> 0
Baskets2  == {t1 :> 1 @@ t2 :> 1, t1 :> 1 @@ t2 :> 0}
Cost2     == [b \in Baskets2 |-> b[t1] + b[t2]]

\* Payments: p2 covers the smaller basket; p1, which carries an amount that cannot
\* be read, any.
Amount12  == p1 :> 2 @@ p2 :> 1
TxMemo12  == p1 :> m1 @@ p2 :> m1
NoMap     == [p \in {} |-> 0]

CallSymmetry == Permutations(Calls)
===============================================================================
