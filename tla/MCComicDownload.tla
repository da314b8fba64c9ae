-------------------------- MODULE MCComicDownload --------------------------
(* Instances of ComicDownload for TLC. *)
EXTENDS ComicDownload, TLC

CONSTANTS a, b, s1, s2

OneComic == {a}
TwoComics == {a, b}
TwoSessions == {s1, s2}

(* images per chapter folder *)
ThreeChapters == [c \in OneComic |-> <<1, 2, 1>>]
DifferentComics == (a :> <<2, 1>>) @@ (b :> <<1, 1>>)

(* the "size" field before any download corrected it *)
WrongSize == [c \in OneComic |-> 1]
WrongSizes == [c \in TwoComics |-> 1]

(* Sessions are interchangeable. *)
DownloadSymmetry == Permutations(TwoSessions)
=============================================================================
