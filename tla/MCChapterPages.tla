--------------------------- MODULE MCChapterPages ---------------------------
(* Instances of ChapterPages for TLC.                                      *)
EXTENDS ChapterPages

(* A chapter of pages of unlike heights, a shorter one, a taller one.      *)
ThreeChapters == <<<<1, 2>>, <<1>>, <<2, 1, 1>>>>
=============================================================================
