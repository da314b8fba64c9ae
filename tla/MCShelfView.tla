----------------------------- MODULE MCShelfView -----------------------------
(* Instances of ShelfView for TLC. *)
EXTENDS ShelfView, TLC

CONSTANTS a, b, s1, s2

BothComics == {a, b}
TwoSessions == {s1, s2}

(* images per chapter folder *)
OneChapterEach == (a :> <<2>>) @@ (b :> <<1>>)

(* the "size" field before any download corrected it *)
WrongSizes == [c \in BothComics |-> 1]
=============================================================================
