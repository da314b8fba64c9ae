------------------------------ MODULE LikeList ------------------------------
(***************************************************************************)
(* The Like segment of the shelf: Shelf.listLike in memory, comicLike of   *)
(* the user's document on the server, and what changes them: the Like      *)
(* button of InfoViewController, Shelf.DownloadList, login and logout.     *)
(*                                                                         *)
(* A comic's document and then its poster are fetched to make one row; the *)
(* two answers are one request here, nothing happens between them.         *)
(* Firestore shows a client its own pending writes, so an updateData takes *)
(* effect for the readers of this device at once.                          *)
(***************************************************************************)
EXTENDS Naturals, Sequences, SequencesExt, FiniteSets

CONSTANTS
  Comics,     (* documents of the collection "Comic"                       *)
  Users,      (* uids                                                      *)
  MaxViews,   (* bound on the comics opened one over another               *)
  Nil,        (* nil                                                       *)
  MaxRows,    (* bound on the rows of the list                             *)
  MaxCopies   (* bound on the equal requests in flight                     *)

ASSUME ConstantsAssumption ==
  /\ Nil \notin Users \cup Comics
  /\ MaxRows \in Nat /\ MaxCopies \in Nat /\ MaxViews \in Nat

VARIABLES
  userID,     (* UserLocal.UserID                                          *)
  form,       (* the login form is "open", or was "left", so that an       *)
              (* answer to it may still come, or is "closed"               *)
  comicId,    (* Comic.id                                                  *)
  tags,       (* likeButton.tag of the InfoViewControllers: the last one   *)
              (* is on the screen and covers the others                    *)
  listLike,   (* Shelf.listLike: the comic of each row                     *)
  net,        (* per request: how many callbacks have not run              *)
  comicLike,  (* server, per user: a set, as arrayUnion keeps it           *)
  (* history, read by properties only *)
  everLiked,  (* per user: comics liked at some time                       *)
  failed,     (* a request of this session failed                          *)
  overtaken,  (* a row of an earlier session was added                     *)
  calm        (* every tap came after the answers to the ones before it,   *)
              (* no comic was opened over another, nobody logged in under  *)
              (* one or twice                                              *)

history == <<everLiked, failed, overtaken, calm>>
vars == <<userID, form, comicId, tags, listLike, net, comicLike, history>>

-----------------------------------------------------------------------------
(* stale: a logout happened since the request was sent. *)
ListRequest(u, stale) == [kind |-> "list", of |-> u, stale |-> stale]
RowRequest(c, stale) == [kind |-> "row", of |-> c, stale |-> stale]
Requests ==
  {ListRequest(u, b) : u \in Users, b \in BOOLEAN}
  \cup {RowRequest(c, b) : c \in Comics, b \in BOOLEAN}

InFlight(r) == net[r] > 0
Answered(r) == [net EXCEPT ![r] = @ - 1]
Plus(requests, more) == [r \in Requests |-> requests[r] + (IF r \in more THEN 1 ELSE 0)]
HasRoom(more) == \A r \in more : net[r] < MaxCopies
Staled ==
  [r \in Requests |-> IF r.stale THEN net[r] + net[[r EXCEPT !.stale = FALSE]] ELSE 0]

StaleHasRoom == \A r \in Requests : Staled[r] <= MaxCopies

(* Shelf.DownloadList asks for the arrays when somebody is logged in. *)
Downloads(u) == IF u = Nil THEN {} ELSE {ListRequest(u, FALSE)}

Awaited(r) == InFlight(r) /\ ~r.stale
Rested == \A r \in Requests : ~Awaited(r)
Acted == calm' = (calm /\ Rested)

Top == tags[Len(tags)]
Rows == {listLike[i] : i \in DOMAIN listLike}
FirstRow(c) == CHOOSE i \in DOMAIN listLike :
                 listLike[i] = c /\ \A h \in 1..(i - 1) : listLike[h] # c

(* The like button of a view that loads looks at listLike. *)
TagOf(c) == IF c \in Rows THEN 1 ELSE 0

Init ==
  /\ userID = Nil /\ form = "closed" /\ comicId = Nil
  /\ tags = <<>>
  /\ listLike = <<>>
  /\ net = [r \in Requests |-> 0]
  /\ comicLike = [u \in Users |-> {}]
  /\ everLiked = comicLike
  /\ failed = FALSE /\ overtaken = FALSE /\ calm = TRUE

-----------------------------------------------------------------------------
(* The app is launched, with the user the last one left in Realm or none.  *)
Launch ==
  /\ userID' \in {userID, Nil}
  /\ form' = "closed" /\ comicId' = Nil /\ tags' = <<>>
  /\ listLike' = <<>>
  /\ net' = [r \in Requests |-> IF r \in Downloads(userID') THEN 1 ELSE 0]
  /\ failed' = FALSE /\ overtaken' = FALSE /\ calm' = TRUE
  /\ UNCHANGED <<comicLike, everLiked>>

(* Mutant of Logout: the list stays. *)
MutantKeepsLikes ==
  /\ tags = <<>> /\ StaleHasRoom
  /\ userID' = Nil /\ form' = "open"
  /\ net' = Staled
  /\ failed' = FALSE /\ calm' = TRUE
  /\ UNCHANGED <<comicId, tags, listLike, comicLike, everLiked, overtaken>>

(* The login form loads: "delete old account".  It is reached from the     *)
(* account tab, hence with no comic on the screen.                         *)
Logout ==
  /\ tags = <<>> /\ StaleHasRoom
  /\ userID' = Nil /\ form' = "open"
  /\ listLike' = <<>>
  /\ net' = Staled
  /\ failed' = FALSE /\ calm' = TRUE
  /\ UNCHANGED <<comicId, tags, comicLike, everLiked, overtaken>>

(* Cancel, or back: DownloadList finds nobody to download for.             *)
CancelLogin ==
  /\ form = "open"
  /\ form' = "left"
  /\ UNCHANGED <<userID, comicId, tags, listLike, net, comicLike, history>>

(* An answer to the form, which it closes if it is the one that asked.     *)
Login(u) ==
  /\ form # "closed" /\ userID \in {Nil, u} /\ HasRoom(Downloads(u))
  /\ userID' = u /\ form' \in {form, "left"}
  /\ net' = Plus(net, Downloads(u))
  /\ calm' = (calm /\ userID = Nil /\ tags = <<>>)
  /\ UNCHANGED <<comicId, tags, listLike, comicLike, everLiked, failed, overtaken>>

(* Sign-up: a user without likes; nothing is downloaded.                   *)
SignUp(u) ==
  /\ form # "closed" /\ userID = Nil /\ everLiked[u] = {}
  /\ userID' = u /\ form' \in {form, "left"}
  /\ UNCHANGED <<comicId, tags, listLike, net, comicLike, history>>

(* The answer to DownloadList, as the array is when the answer is made: a  *)
(* row is fetched for each comic.                                          *)
ListArrives(u, stale) ==
  LET rows == {RowRequest(c, stale) : c \in comicLike[u]} IN
  /\ InFlight(ListRequest(u, stale)) /\ HasRoom(rows)
  /\ net' = Plus(Answered(ListRequest(u, stale)), rows)
  /\ UNCHANGED <<userID, form, comicId, tags, listLike, comicLike, history>>

(* A row's poster arrives, for DownloadList or for the Like button: the    *)
(* row is appended whatever the list holds.                                *)
RowArrives(c, stale) ==
  /\ InFlight(RowRequest(c, stale)) /\ Len(listLike) < MaxRows
  /\ listLike' = Append(listLike, c)
  /\ net' = Answered(RowRequest(c, stale))
  /\ overtaken' = (overtaken \/ stale)
  /\ UNCHANGED <<userID, form, comicId, tags, comicLike, everLiked, failed, calm>>

(* A request fails: no row.                                                *)
RequestFails(r) ==
  /\ InFlight(r)
  /\ net' = Answered(r)
  /\ failed' = (failed \/ ~r.stale)
  /\ UNCHANGED <<userID, form, comicId, tags, listLike, comicLike, everLiked, overtaken, calm>>

(* A comic is opened by a tap.  While its view is on its stack, or the     *)
(* login form is, the tab bar is hidden: no other comic can be tapped.     *)
OpenInfo(c) ==
  /\ tags = <<>> /\ form # "open"
  /\ comicId' = c
  /\ tags' = <<TagOf(c)>>
  /\ Acted
  /\ UNCHANGED <<userID, form, listLike, net, comicLike, everLiked, failed, overtaken>>

(* The comment tapped in the list of reviews arrives, whatever was opened  *)
(* since: Comic.id becomes its comic, which is opened over the others, or, *)
(* when another tab is selected, once the reviews are next on the screen.  *)
ReviewArrives(c) ==
  /\ comicId' = c
  /\ \/ form # "open" /\ Len(tags) < MaxViews /\ tags' = Append(tags, TagOf(c))
     \/ UNCHANGED tags
  /\ calm' = (calm /\ Rested /\ tags = <<>>)
  /\ UNCHANGED <<userID, form, listLike, net, comicLike, everLiked, failed, overtaken>>

(* The navigation bar's back button.                                       *)
Back ==
  /\ tags # <<>>
  /\ tags' = Front(tags)
  /\ UNCHANGED <<userID, form, comicId, listLike, net, comicLike, history>>

(* Mutants of Unlike: the index is raised before the comparison; only the  *)
(* server forgets the comic.                                               *)
Unliked(tag, list) ==
  /\ userID # Nil /\ tags # <<>> /\ Top = 1
  /\ tags' = Append(Front(tags), tag)
  /\ comicLike' = [comicLike EXCEPT ![userID] = @ \ {comicId}]
  /\ listLike' = list
  /\ Acted
  /\ UNCHANGED <<userID, form, comicId, net, everLiked, failed, overtaken>>
WithoutFirst(c) == IF c \in Rows THEN RemoveAt(listLike, FirstRow(c)) ELSE listLike
MutantRemovesNext ==
  Unliked(0, IF comicId \in Rows /\ FirstRow(comicId) < Len(listLike)
             THEN RemoveAt(listLike, FirstRow(comicId) + 1) ELSE listLike)
MutantKeepsRow == Unliked(0, listLike)

(* The Like button on the screen, lit: it acts on Comic.id, whatever comic *)
(* the view shows.  The first row of the comic goes, if there is one.      *)
Unlike == Unliked(0, WithoutFirst(comicId))

(* The Like button, unlit: the row is added when the poster has come.      *)
Like ==
  LET r == RowRequest(comicId, FALSE) IN
  /\ userID # Nil /\ tags # <<>> /\ Top = 0
  /\ HasRoom({r})
  /\ tags' = Append(Front(tags), 1)
  /\ comicLike' = [comicLike EXCEPT ![userID] = @ \cup {comicId}]
  /\ everLiked' = [everLiked EXCEPT ![userID] = @ \cup {comicId}]
  /\ net' = Plus(net, {r})
  /\ Acted
  /\ UNCHANGED <<userID, form, comicId, listLike, failed, overtaken>>

Next ==
  \/ Launch \/ Logout \/ CancelLogin
  \/ \E u \in Users : Login(u) \/ SignUp(u)
  \/ \E u \in Users, b \in BOOLEAN : ListArrives(u, b)
  \/ \E c \in Comics, b \in BOOLEAN : RowArrives(c, b)
  \/ \E r \in Requests : RequestFails(r)
  \/ \E c \in Comics : OpenInfo(c) \/ ReviewArrives(c)
  \/ Back \/ Like \/ Unlike

Spec == Init /\ [][Next]_vars

-----------------------------------------------------------------------------
(* Properties *)

(* TypeOK: every variable keeps the shape its Swift declaration gives it.  *)
TypeOK ==
  /\ userID \in Users \cup {Nil}
  /\ form \in {"open", "left", "closed"}
  /\ comicId \in Comics \cup {Nil}
  /\ tags \in Seq({0, 1}) /\ (tags # <<>> => comicId # Nil)
  /\ listLike \in Seq(Comics)
  /\ net \in [Requests -> Nat]
  /\ comicLike \in [Users -> SUBSET Comics]
  /\ everLiked \in [Users -> SUBSET Comics]
  /\ failed \in BOOLEAN /\ overtaken \in BOOLEAN /\ calm \in BOOLEAN

(* LikesListed: when no row or list is awaited and none failed, the shelf  *)
(* shows every comic the server has as liked by the user, whatever the     *)
(* order in which taps, views, downloads and logins followed each other.   *)
LikesListed ==
  userID # Nil /\ ~failed /\ Rested => comicLike[userID] \subseteq Rows

(* LikesExact: who waits for each answer before the next tap, without      *)
(* comics opened one over another, sees each liked comic once and no       *)
(* other: a like that is taken back leaves no row.                         *)
LikesExact ==
  calm /\ ~overtaken /\ userID # Nil /\ ~failed /\ Rested =>
    Rows = comicLike[userID] /\ Len(listLike) = Cardinality(Rows)

(* OwnLikesOnly: unless a row of an earlier session arrived late, the      *)
(* shelf is empty without a user, and shows only comics the user liked.    *)
OwnLikesOnly ==
  ~overtaken => Rows \subseteq IF userID = Nil THEN {} ELSE everLiked[userID]
=============================================================================
