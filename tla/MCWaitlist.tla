------------------------------ MODULE MCWaitlist ------------------------------
(***************************************************************************)
(* An instance of Waitlist for TLC.                                        *)
(***************************************************************************)
EXTENDS Waitlist, TLC

CONSTANTS u1, u2, e1, e2, e3, c1, c2, c3

\* A bound: with both accounts deleted nobody joins and nobody can be mailed.
OneStays == deleted # Users

\* A bound: one entry at most is mailed by a call that fails before its save.
OneUnsaved == Cardinality(unsaved) <= 1

Symmetry == Permutations(Calls) \cup Permutations(EntryIds) \cup Permutations(Users)
===============================================================================
