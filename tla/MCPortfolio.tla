----------------------------- MODULE MCPortfolio ----------------------------
(* One bond, two accounts of one user, and a second user without accounts. *)
EXTENDS Portfolio, TLC

CONSTANTS k1, k2, u1, u2, a1, a2, b1, i1, i2, i3

Owners == [a \in Accounts |-> u1]
Symmetry == Permutations(Tasks) \cup Permutations(Ids) \cup Permutations(Accounts)
=============================================================================
