-------------------------- MODULE MCAnalyticsCache --------------------------
(* Two users who trade one bond, two writers and a reader. *)
EXTENDS AnalyticsCache, TLC

CONSTANTS u1, u2, w1, w2, r1

Symmetry == Permutations(Users) \cup Permutations(Writers)
=============================================================================
