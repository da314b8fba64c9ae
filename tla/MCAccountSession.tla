-------------------------- MODULE MCAccountSession --------------------------
(* Instances of AccountSession for TLC. *)
EXTENDS AccountSession, TLC

CONSTANTS u, v, r1, r2

TwoUsers == {u, v}
OneUser == {u}
OnlyU == {u}
Nobody == {}
TwoSlots == {r1, r2}

(* The slots of requests are interchangeable. *)
SlotSymmetry == Permutations(TwoSlots)
=============================================================================
