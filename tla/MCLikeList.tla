----------------------------- MODULE MCLikeList -----------------------------
(* Instances of LikeList for TLC. *)
EXTENDS LikeList, TLC

CONSTANTS a, b, u, v

TwoComics == {a, b}
TwoUsers == {u, v}

(* Nothing tells comics or users apart. *)
LikeSymmetry == Permutations(TwoComics) \cup Permutations(TwoUsers)
=============================================================================
