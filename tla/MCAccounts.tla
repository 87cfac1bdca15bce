------------------------------ MODULE MCAccounts ------------------------------
(***************************************************************************)
(* An instance of Accounts for TLC.                                        *)
(***************************************************************************)
EXTENDS Accounts, TLC

CONSTANTS a1, a2, m1, i1, c1, c2, c3, k1

Symmetry == Permutations(Calls) \cup Permutations(Accounts) \cup Permutations(Emails)
              \cup Permutations(Identities)
===============================================================================
