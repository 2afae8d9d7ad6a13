----------------------------- MODULE MCEventBus -----------------------------
(* A small bus: three clients share a topic with two request handlers.     *)
EXTENDS EventBus

CONSTANTS c1, c2, c3, s1, s2, t1

ClientSymmetry == Permutations(Clients)

OneTopic == [s \in Subs |-> t1]
=============================================================================
