------------------------------ MODULE MCComments ------------------------------
(* Instances of Comments for TLC. *)
EXTENDS Comments

CONSTANTS a, b, home, review, old, new, new2, r1, r2

(* Two comics, one of which has a comment; two more can be written. *)
BothComics == {a, b}
BothTabs == {home, review}
OneOld == <<old>>
OnA == old :> a
InA == [c \in BothComics |-> IF c = a THEN OneOld ELSE <<>>]
TwoNew == {new, new2}
TwoSlots == {r1, r2}

(* The slots of requests are interchangeable, and so are the new ids. *)
CommentSymmetry == Permutations(TwoSlots) \cup Permutations(TwoNew)
===============================================================================
