---------------------------- MODULE ChapterPages ----------------------------
(***************************************************************************)
(* One ChapterViewController showing chapters that are not downloaded.     *)
(* Each load lists the chapter's folder and requests every page of it at   *)
(* once; a page is laid below those of its own load that arrived before,   *)
(* over whatever the view holds already: neither the pages of earlier      *)
(* loads nor their requests are ever taken back.                           *)
(*                                                                         *)
(* A page's height is what it has after scaling to the view's width.       *)
(***************************************************************************)
EXTENDS Integers, Sequences

CONSTANTS
  Heights,  (* Seq(Seq(Nat)): the pages of each chapter, by their height   *)
  MaxLoads  (* bound on how often one view loads                           *)

ASSUME PagesAssumption ==
  /\ Heights \in Seq(Seq(Nat \ {0}))
  /\ MaxLoads \in Nat

VARIABLES
  titled,        (* Comic.chap + 1, the chapter the title names            *)
  loads,         (* per load: its chapter, pages in flight, what it laid   *)
  read,          (* read.subviews: the pages laid, the last one on top     *)
  contentHeight, (* read.contentSize.height                                *)
  (* history, read by properties only *)
  calm           (* nothing was in flight when the last load began         *)

pagesVars == <<titled, loads, read, contentHeight, calm>>

-----------------------------------------------------------------------------
Chapters == DOMAIN Heights
Pages(k) == DOMAIN Heights[k]

(* height: where the load lays its next page; lost: a request of it failed *)
NewLoad(k) == [chapter |-> k, listing |-> TRUE, pages |-> {}, height |-> 0, lost |-> FALSE]
Latest == Len(loads)
Settled == \A l \in DOMAIN loads : ~loads[l].listing /\ loads[l].pages = {}

PagesInit ==
  /\ titled \in Chapters
  /\ loads = <<NewLoad(titled)>>
  /\ read = <<>> /\ contentHeight = 0
  /\ calm = TRUE

(* viewDidLoad, at the first sight of the view and at every tap on its     *)
(* previous and next buttons.                                              *)
LoadPages(k) ==
  /\ Latest < MaxLoads
  /\ titled' = k
  /\ loads' = Append(loads, NewLoad(k))
  /\ calm' = Settled
  /\ UNCHANGED <<read, contentHeight>>

PrevPages == titled > 1 /\ LoadPages(titled - 1)
NextPages == titled < Len(Heights) /\ LoadPages(titled + 1)

(* Mutant of ListArrives: the first page is taken for the folder's poster. *)
MutantSkipsFirst(l) ==
  /\ loads[l].listing
  /\ loads' = [loads EXCEPT ![l].listing = FALSE, ![l].pages = Pages(loads[l].chapter) \ {1}]
  /\ UNCHANGED <<titled, read, contentHeight, calm>>

(* The folder's listing: every page of it is requested.                    *)
ListArrives(l) ==
  /\ loads[l].listing
  /\ loads' = [loads EXCEPT ![l].listing = FALSE, ![l].pages = Pages(loads[l].chapter)]
  /\ UNCHANGED <<titled, read, contentHeight, calm>>

(* Mutant of PageArrives: the page is laid below all the view holds. *)
MutantBelowAll(l, p) ==
  /\ p \in loads[l].pages
  /\ LET h == contentHeight + Heights[loads[l].chapter][p] IN
     /\ loads' = [loads EXCEPT ![l].pages = @ \ {p}, ![l].height = h]
     /\ read' = Append(read, [load |-> l, page |-> p, y |-> contentHeight])
     /\ contentHeight' = h
  /\ UNCHANGED <<titled, calm>>

(* A page arrives, in any order, and is laid below the last one of its own *)
(* load; the view's content ends where this load's pages end now.          *)
PageArrives(l, p) ==
  /\ p \in loads[l].pages
  /\ LET h == loads[l].height + Heights[loads[l].chapter][p] IN
     /\ loads' = [loads EXCEPT ![l].pages = @ \ {p}, ![l].height = h]
     /\ read' = Append(read, [load |-> l, page |-> p, y |-> loads[l].height])
     /\ contentHeight' = h
  /\ UNCHANGED <<titled, calm>>

(* The listing, or a page, fails.                                          *)
RequestFails(l) ==
  /\ \/ /\ loads[l].listing
        /\ loads' = [loads EXCEPT ![l].listing = FALSE, ![l].lost = TRUE]
     \/ \E p \in loads[l].pages :
          loads' = [loads EXCEPT ![l].pages = @ \ {p}, ![l].lost = TRUE]
  /\ UNCHANGED <<titled, read, contentHeight, calm>>

PagesNext ==
  \/ PrevPages \/ NextPages
  \/ \E l \in DOMAIN loads :
       \/ ListArrives(l) \/ RequestFails(l)
       \/ \E p \in loads[l].pages : PageArrives(l, p)

PagesSpec == PagesInit /\ [][PagesNext]_pagesVars

-----------------------------------------------------------------------------
(* Properties *)

LoadType ==
  [chapter : Chapters, listing : BOOLEAN, pages : SUBSET Nat, height : Nat, lost : BOOLEAN]
PageType == [load : Nat, page : Nat, y : Nat]

(* PagesTypeOK: the view's state keeps its shape, and some load has begun. *)
PagesTypeOK ==
  /\ titled \in Chapters
  /\ loads \in Seq(LoadType) /\ Latest >= 1
  /\ read \in Seq(PageType)
  /\ contentHeight \in Nat
  /\ calm \in BOOLEAN

Covers(v, y) == v.y <= y /\ y < v.y + Heights[loads[v.load].chapter][v.page]

(* What the reader sees at height y: the last page laid over it.           *)
Seen(y) ==
  LET over == {i \in DOMAIN read : Covers(read[i], y)}
  IN {read[i] : i \in {j \in over : \A h \in over : h <= j}}
SeenAll == UNION {Seen(y) : y \in 0..(contentHeight - 1)}

LaidBy(l) == {read[i] : i \in {j \in DOMAIN read : read[j].load = l}}

(* SeenIsTitled: if the previous chapter had settled before the next was   *)
(* asked for, then from the first page that arrives of it the view shows   *)
(* exactly the pages that arrived, whole, each once, from the top down to  *)
(* the end of its content, whatever order they come in and whatever longer *)
(* chapter lies underneath.                                                *)
SeenIsTitled ==
  calm /\ LaidBy(Latest) # {} =>
    /\ SeenAll = LaidBy(Latest)
    /\ \A v \in LaidBy(Latest) :
         \A y \in 0..(v.y + Heights[titled][v.page] - 1) :
           y < contentHeight /\ (Covers(v, y) => Seen(y) = {v})
    /\ \A v, w \in LaidBy(Latest) : v.page = w.page => v = w

(* ChapterWhole: once nothing is in flight, and unless a request failed,   *)
(* every page of the chapter is there to scroll to.                        *)
ChapterWhole ==
  calm /\ Settled /\ ~loads[Latest].lost =>
    {v.page : v \in LaidBy(Latest)} = Pages(titled)
=============================================================================
