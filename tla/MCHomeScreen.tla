----------------------------- MODULE MCHomeScreen -----------------------------
(* Instances of HomeScreen for TLC. *)
EXTENDS HomeScreen

CONSTANTS a, b, c, screen

(* One screen, whose query finds two of the three comics; their folders are on
   two pages.  Attempts at both posters may fail.  One of them is larger than
   it may be, and its server may put it off with Retry-After. *)
OneScreen == {screen}
FindsTwo == [v \in OneScreen |-> {a, b}]
TwoPages == <<{a}, {b, c}>>
Posters == {a, b, c}
LargePoster == {Poster(screen, a)}
StorageOfScreen == [f \in HomeRequests |-> f.view]
SomePosters == {Poster(screen, a), Poster(screen, b)}
===============================================================================
