------------------------------- MODULE Reader -------------------------------
(***************************************************************************)
(* From a comic to one of its chapters: InfoViewController, the chapter    *)
(* list ShowChapViewController and the reader ChapterViewController.  They *)
(* talk through four globals, Comic.id, nchap, chap and isDownloaded.      *)
(* ReviewViewController may open another comic over them, and a listing of *)
(* chapter folders may set nchap long after its comic was left.            *)
(*                                                                         *)
(* A view's loading is one step with the tap that pushes it.  The images   *)
(* of a chapter are abstracted to which chapter was asked for.             *)
(***************************************************************************)
EXTENDS Integers, Sequences, SequencesExt

CONSTANTS
  Comics,    (* documents of the collection "Comic"                        *)
  MaxViews,  (* bound on the comics opened one over another                *)
  Nil,       (* nil                                                        *)
  Folders,   (* [Comics -> Nat]: chapter folders in Cloud Storage          *)
  Saved,     (* comics with an LComic in Realm                             *)
  NChap,     (* [Saved -> Nat]: comicNChap of that LComic                  *)
  Stored,    (* [Saved -> Nat]: chapters in its listChap                   *)
  MaxLists   (* bound on equal listings in flight                          *)

ASSUME ConstantsAssumption ==
  /\ Nil \notin Comics \cup Nat
  /\ Saved \subseteq Comics
  /\ Folders \in [Comics -> Nat]
  /\ NChap \in [Saved -> Nat] /\ Stored \in [Saved -> Nat]
  /\ \A c \in Saved : Stored[c] <= NChap[c]
  /\ MaxLists \in Nat /\ MaxViews \in Nat

VARIABLES
  id,           (* Comic.id                                                *)
  nchap,        (* Comic.nchap                                             *)
  chap,         (* Comic.chap, counted from 0                              *)
  isDownloaded, (* Comic.isDownloaded                                      *)
  stack,        (* the comics that are open: the last one is on the screen *)
  lists,        (* listings in flight: of which comic, how many            *)
  crashed       (* Nil, or why and over which view the process trapped     *)

vars == <<id, nchap, chap, isDownloaded, stack, lists, crashed>>

-----------------------------------------------------------------------------
NoReader == [title |-> 0, shows |-> Nil, index |-> 0, prev |-> FALSE, next |-> FALSE, asked |-> 0]
(* comic: the one InfoViewController shows; rows: the length of the pushed *)
(* chapter list, or Nil; reader: the chapter on top, or NoReader.  Three   *)
(* are history: alone, nothing but this comic has used the globals since   *)
(* it was opened; listed, its folders have been listed since; stale, nchap *)
(* has been changed under its list or reader.                              *)
View(c) ==
  [comic |-> c, rows |-> Nil, reader |-> NoReader, alone |-> TRUE, listed |-> FALSE, stale |-> FALSE]
Top == Last(stack)
WithTop(view) == Append(Front(stack), view)
Disturbed == [n \in DOMAIN stack |-> [stack[n] EXCEPT !.alone = FALSE]]

(* A list or a reader that took its number of chapters from nchap is open. *)
InUse(v) == v.rows # Nil \/ v.reader # NoReader

Open == crashed = Nil /\ stack # <<>>
Reading == Open /\ Top.reader # NoReader
Listing == Open /\ ~Reading /\ Top.rows # Nil
AtInfo == Open /\ ~Reading /\ Top.rows = Nil

(* There is a chapter of c, and Realm has all of them if it has c.         *)
Agrees(c) ==
  /\ Folders[c] > 0
  /\ c \in Saved => NChap[c] = Folders[c] /\ Stored[c] = Folders[c]

Init ==
  /\ id = Nil /\ nchap = Nil /\ chap = Nil
  /\ isDownloaded = FALSE
  /\ stack = <<>>
  /\ lists = [c \in Comics |-> 0]
  /\ crashed = Nil

-----------------------------------------------------------------------------
(* InfoViewController loads: from Realm if the comic is there; its folders *)
(* are listed in any case.                                                 *)
Opens(c) ==
  /\ lists[c] < MaxLists
  /\ isDownloaded' = (c \in Saved)
  /\ nchap' = IF c \in Saved THEN NChap[c] ELSE nchap
  /\ stack' = Append(Disturbed, View(c))
  /\ lists' = [lists EXCEPT ![c] = @ + 1]

(* A comic is opened by a tap.  While it is on its stack the tab bar is    *)
(* hidden, so a tap opens no other.                                        *)
OpenInfo(c) ==
  /\ crashed = Nil /\ stack = <<>>
  /\ id' = c
  /\ Opens(c)
  /\ UNCHANGED <<chap, crashed>>

(* The comment tapped in the list of reviews arrives, whatever was opened  *)
(* since: Comic.id becomes its comic, which is opened over the others, or, *)
(* when another tab is selected, once the reviews are next on the screen.  *)
ReviewArrives(c) ==
  /\ crashed = Nil
  /\ id' = c
  /\ \/ Len(stack) < MaxViews /\ Opens(c)
     \/ stack' = Disturbed /\ UNCHANGED <<isDownloaded, nchap, lists>>
  /\ UNCHANGED <<chap, crashed>>

(* A listing arrives, whether its view is still there or not: nchap is     *)
(* set, once per folder.  It may also fail.                                *)
ListingArrives(c) ==
  /\ crashed = Nil /\ lists[c] > 0
  /\ lists' = [lists EXCEPT ![c] = @ - 1]
  /\ nchap' = IF Folders[c] > 0 THEN Folders[c] ELSE nchap
  /\ stack' = [n \in DOMAIN stack |->
                  [stack[n] EXCEPT
                     !.alone = @ /\ (nchap' = nchap \/ stack[n].comic = c),
                     !.listed = @ \/ (stack[n].comic = c /\ Folders[c] > 0),
                     !.stale = @ \/ (nchap' # nchap /\ InUse(stack[n]))]]
  /\ UNCHANGED <<id, chap, isDownloaded, crashed>>

ListingFails(c) ==
  /\ crashed = Nil /\ lists[c] > 0
  /\ lists' = [lists EXCEPT ![c] = @ - 1]
  /\ UNCHANGED <<id, nchap, chap, isDownloaded, stack, crashed>>

Traps(why) == crashed' = [why |-> why, view |-> Top] /\ UNCHANGED stack

(* The chapter list is pushed: a row for each chapter, the last one first. *)
ShowChap ==
  /\ AtInfo
  /\ IF nchap = Nil THEN Traps("unwrap")
     ELSE stack' = WithTop([Top EXCEPT !.rows = nchap]) /\ UNCHANGED crashed
  /\ UNCHANGED <<id, nchap, chap, isDownloaded, lists>>

(* The comic whose pages a reader loads now: none if they are looked for   *)
(* in Realm and not there.                                                 *)
Shown == IF isDownloaded /\ id \notin Saved THEN Nil ELSE id

(* The reader (re)loads with Comic.chap = k: its buttons, its title, and   *)
(* the pages of chapter k of Comic.id, from Realm or from Cloud Storage.   *)
Loads(k, asked, hasNext) ==
  /\ chap' = k
  /\ IF nchap = Nil THEN Traps("unwrap")
     ELSE IF isDownloaded /\ id \in Saved /\ k \notin 0..(Stored[id] - 1) THEN Traps("index")
     ELSE /\ stack' = WithTop([Top EXCEPT !.reader =
                         [title |-> k + 1, shows |-> Shown, index |-> k,
                          prev |-> k > 0, next |-> hasNext, asked |-> asked]])
          /\ UNCHANGED crashed
  /\ UNCHANGED <<id, nchap, isDownloaded, lists>>

(* Mutant of Load: the next button is let go one chapter too far. *)
MutantNextTooFar(k, asked) == Loads(k, asked, nchap # Nil /\ k < nchap)

(* There is a next chapter up to the last of nchap.                        *)
Load(k, asked) == Loads(k, asked, nchap # Nil /\ k < nchap - 1)

(* Read: the first chapter.  A row: the chapter at that distance from the  *)
(* end of what nchap is now; its label, "Chap asked", is of the list's     *)
(* loading.                                                                *)
ReadChap == AtInfo /\ Load(0, 1)

(* Mutant of TapRow: the row is taken for the index, as if the list was in *)
(* ascending order.                                                        *)
MutantAscending(row) == Listing /\ row < Top.rows /\ Load(row, Top.rows - row)

TapRow(row) == Listing /\ row < Top.rows /\ Load(nchap - row - 1, Top.rows - row)

PrevChap == Reading /\ Top.reader.prev /\ Load(chap - 1, Top.reader.title - 1)
NextChap == Reading /\ Top.reader.next /\ Load(chap + 1, Top.reader.title + 1)

(* The navigation bar's back button; on the comic's own page nothing that  *)
(* took its number from nchap is open any more.                            *)
Back ==
  /\ Open
  /\ stack' = CASE Reading -> WithTop([Top EXCEPT !.reader = NoReader,
                                                  !.stale = @ /\ Top.rows # Nil])
                [] Listing -> WithTop([Top EXCEPT !.rows = Nil, !.stale = FALSE])
                [] OTHER   -> Front(stack)
  /\ UNCHANGED <<id, nchap, chap, isDownloaded, lists, crashed>>

(* A trapped process is launched again.                                    *)
Launch ==
  /\ crashed # Nil
  /\ id' = Nil /\ nchap' = Nil /\ chap' = Nil /\ isDownloaded' = FALSE
  /\ stack' = <<>>
  /\ lists' = [c \in Comics |-> 0]
  /\ crashed' = Nil

Next ==
  \/ \E c \in Comics : OpenInfo(c) \/ ReviewArrives(c) \/ ListingArrives(c) \/ ListingFails(c)
  \/ ShowChap \/ ReadChap \/ PrevChap \/ NextChap \/ Back
  \/ Listing /\ \E row \in 0..(Top.rows - 1) : TapRow(row)
  \/ Launch

Spec == Init /\ [][Next]_vars

-----------------------------------------------------------------------------
(* Properties *)

ReaderType ==
  [title : Int, shows : Comics \cup {Nil}, index : Int, prev : BOOLEAN, next : BOOLEAN, asked : Int]

ViewType ==
  [comic : Comics, rows : Nat \cup {Nil}, reader : ReaderType,
   alone : BOOLEAN, listed : BOOLEAN, stale : BOOLEAN]

CrashType == [why : {"unwrap", "index"}, view : ViewType]

(* A process that runs is told from one that trapped.                      *)
ASSUME NilAssumption == Nil \notin CrashType

(* TypeOK: every variable keeps the shape its Swift declaration gives it,  *)
(* and nchap is never nil under a list or a reader, which unwrap it.       *)
TypeOK ==
  /\ id \in Comics \cup {Nil}
  /\ nchap \in Nat \cup {Nil} /\ chap \in Int \cup {Nil}
  /\ isDownloaded \in BOOLEAN
  /\ stack \in Seq(ViewType)
  /\ lists \in [Comics -> 0..MaxLists]
  /\ crashed \in CrashType \cup {Nil}
  /\ \A n \in DOMAIN stack : InUse(stack[n]) => nchap # Nil

(* ReaderRight: over a comic that nothing else disturbed, and whose list   *)
(* and reader are not stale, the reader shows the chapter that its title   *)
(* and the tap that led there name, of that comic, and offers the previous *)
(* one exactly when there is one; provided the comic has a chapter, and    *)
(* Realm, if it has the comic, has all of it.  The next one it offers by   *)
(* the count in nchap.  That is the comic's own, and so the chapter is one *)
(* the comic has and the button is right, if the comic is in Realm or its  *)
(* folders have been listed since it was opened; it is the count of the    *)
(* comic before while the listing is under way or after it failed.         *)
ReaderRight ==
  \A n \in DOMAIN stack :
    LET c == stack[n].comic
        r == stack[n].reader
    IN stack[n].alone /\ ~stack[n].stale /\ r # NoReader /\ Agrees(c) =>
         /\ r.shows = c
         /\ r.index + 1 = r.title /\ r.title = r.asked /\ r.title >= 1
         /\ r.prev = (r.title > 1) /\ r.next = (r.title < nchap)
         /\ c \in Saved \/ stack[n].listed =>
              r.title \in 1..Folders[c] /\ r.next = (r.title < Folders[c])

(* NoTrap: over such a comic the process never indexes past the chapters   *)
(* in Realm; no count of chapters is missed but by the first tap on the    *)
(* comic's own page, before any listing has arrived.                       *)
NoTrap ==
  crashed # Nil =>
    \/ /\ crashed.why = "unwrap"
       /\ crashed.view.rows = Nil /\ crashed.view.reader = NoReader
    \/ ~crashed.view.alone \/ crashed.view.stale
    \/ ~Agrees(crashed.view.comic)
=============================================================================
