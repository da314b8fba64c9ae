------------------------------ MODULE MCReader ------------------------------
(* Instances of Reader for TLC.                                            *)
EXTENDS Reader, TLC
CONSTANTS a, b

(* a is in Realm and Cloud Storage has as many folders of it; b is not.    *)
BothComics == {a, b}
Downloaded == {a}
FoldersOf == a :> 2 @@ b :> 3
StoredOf == a :> 2
=============================================================================
