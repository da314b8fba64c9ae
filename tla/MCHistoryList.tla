---------------------------- MODULE MCHistoryList ----------------------------
(* Instance of HistoryList for TLC. *)
EXTENDS HistoryList, TLC

CONSTANTS a, b, u, v

TwoComics == {a, b}
OneUser == {u}

(* Nothing tells comics apart. *)
HistorySymmetry == Permutations(TwoComics)
=============================================================================
