----------------------------- MODULE MCRegistry ----------------------------
(* `scope` says which tables a behaviour uses, and up to which id.         *)
EXTENDS Registry, TLC

CONSTANTS k1, k2, u1, u2, n1, n2, s1, s2

VARIABLE scope

Limits == [kind \in Kinds |-> 2]

UpTo(broker, account, bond, operation, transaction, coupon) ==
    [broker |-> broker, account |-> account, bond |-> bond,
     operation |-> operation, transaction |-> transaction, coupon |-> coupon]

(* A name taken twice below two brokers, an operation moved between two    *)
(* accounts, a bond sold to two accounts, two schedules, and one of each.  *)
Scopes == {UpTo(2, 2, 0, 0, 0, 0), UpTo(1, 2, 0, 1, 0, 0), UpTo(1, 2, 1, 0, 1, 0),
           UpTo(0, 0, 2, 0, 0, 2), UpTo(1, 1, 1, 1, 1, 1)}

InScope(c) == c.pc # "idle" => scope[c.row.kind] > 0 /\ c.row.id <= scope[c.row.kind]

ScopedInit == scope \in Scopes /\ Init
ScopedNext == UNCHANGED scope /\ Next /\ \A k \in Tasks : InScope(call'[k])
ScopedSpec == ScopedInit /\ [][ScopedNext]_<<scope, vars>>

Symmetry == Permutations(Tasks) \cup Permutations(Users) \cup Permutations(Names) \cup Permutations(Isins)
=============================================================================
