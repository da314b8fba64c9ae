--------------------------- MODULE OfflineLibrary ---------------------------
(***************************************************************************)
(* What the downloads promise the offline reader: the LComic that          *)
(* loadComicFromRealm and loadChapterFromRealm find for a comic appears    *)
(* once, never disappears, and only gains chapters at its end, each a      *)
(* chapter of that comic, cut short at a page of the listing at worst.     *)
(***************************************************************************)
EXTENDS Integers, Sequences

CONSTANTS
  Comics,      (* documents of the collection "Comic"               *)
  ImageCount,  (* [Comics -> Seq(Nat)]: images per chapter folder   *)
  PageSize     (* entries in one page of a folder's listing         *)

VARIABLE library (* [Comics -> <<>>, or <<chapters>> once in Realm] *)

Init == library = [c \in Comics |-> <<>>]

AddComic(c) ==
  /\ library[c] = <<>>
  /\ library' = [library EXCEPT ![c] = << <<>> >>]

AddChapter(c) ==
  /\ library[c] # <<>>
  /\ \E k \in DOMAIN ImageCount[c] :
       \E n \in 1..ImageCount[c][k] :
         /\ n = ImageCount[c][k] \/ n % PageSize = 0
         /\ library' = [library EXCEPT ![c] = <<Append(@[1], [chapter |-> k, pages |-> n])>>]

Next == \E c \in Comics : AddComic(c) \/ AddChapter(c)

Spec == Init /\ [][Next]_library
=============================================================================
