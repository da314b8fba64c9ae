----------------------------- MODULE HistoryList -----------------------------
(***************************************************************************)
(* The History segment of the shelf: Shelf.listHistory in memory and       *)
(* comicHistory of the user's document on the server.  Opening a comic     *)
(* feeds both (upLoad, addToHistory); Shelf.DownloadList reads the second  *)
(* into the first.                                                         *)
(*                                                                         *)
(* As in LikeList, the answers that make one row are one request, and an   *)
(* updateData takes effect at once.  A listing and a poster make the row   *)
(* of a visit.                                                             *)
(***************************************************************************)
EXTENDS Naturals, Sequences

CONSTANTS
  Comics,     (* documents of the collection "Comic"                       *)
  Users,      (* uids                                                      *)
  Nil,        (* nil                                                       *)
  MaxRows,    (* bound on the rows of the list                             *)
  MaxCopies   (* bound on the equal requests in flight                     *)

ASSUME ConstantsAssumption ==
  /\ Nil \notin Users
  /\ MaxRows \in Nat /\ MaxCopies \in Nat

VARIABLES
  userID,       (* UserLocal.UserID                                        *)
  form,         (* the login form is "open", or was "left", so that an     *)
                (* answer to it may still come, or is "closed"             *)
  listHistory,  (* Shelf.listHistory: comic of a row, and what added it    *)
  net,          (* per request: how many callbacks have not run            *)
  comicHistory, (* server, per user: a set, as arrayUnion keeps it         *)
  (* history, read by properties only *)
  failed        (* a request of this session failed                        *)

vars == <<userID, form, listHistory, net, comicHistory, failed>>

-----------------------------------------------------------------------------
(* stale: a logout happened since the request was sent. *)
ListRequest(u, stale) == [kind |-> "list", of |-> u, stale |-> stale]
RowRequest(c, stale) == [kind |-> "row", of |-> c, stale |-> stale]
VisitRequest(c, stale) == [kind |-> "visit", of |-> c, stale |-> stale]
Requests ==
  {ListRequest(u, b) : u \in Users, b \in BOOLEAN}
  \cup {RowRequest(c, b) : c \in Comics, b \in BOOLEAN}
  \cup {VisitRequest(c, b) : c \in Comics, b \in BOOLEAN}

InFlight(r) == net[r] > 0
Answered(r) == [net EXCEPT ![r] = @ - 1]
Plus(requests, more) == [r \in Requests |-> requests[r] + (IF r \in more THEN 1 ELSE 0)]
HasRoom(more) == \A r \in more : net[r] < MaxCopies
Staled ==
  [r \in Requests |-> IF r.stale THEN net[r] + net[[r EXCEPT !.stale = FALSE]] ELSE 0]
StaleHasRoom == \A r \in Requests : Staled[r] <= MaxCopies

(* Shelf.DownloadList asks for the arrays when somebody is logged in. *)
Downloads(u) == IF u = Nil THEN {} ELSE {ListRequest(u, FALSE)}

Shown == {listHistory[i].comic : i \in DOMAIN listHistory}
Added(c, by) == Append(listHistory, [comic |-> c, by |-> by])

Init ==
  /\ userID = Nil /\ form = "closed"
  /\ listHistory = <<>>
  /\ net = [r \in Requests |-> 0]
  /\ comicHistory = [u \in Users |-> {}]
  /\ failed = FALSE

-----------------------------------------------------------------------------
(* The app is launched, with the user the last one left in Realm or none.  *)
Launch ==
  /\ userID' \in {userID, Nil}
  /\ form' = "closed"
  /\ listHistory' = <<>>
  /\ net' = [r \in Requests |-> IF r \in Downloads(userID') THEN 1 ELSE 0]
  /\ failed' = FALSE
  /\ UNCHANGED comicHistory

(* The login form loads: "delete old account".                             *)
Logout ==
  /\ StaleHasRoom
  /\ userID' = Nil /\ form' = "open"
  /\ listHistory' = <<>>
  /\ net' = Staled
  /\ failed' = FALSE
  /\ UNCHANGED comicHistory

(* Cancel, or back.                                                        *)
CancelLogin ==
  /\ form = "open"
  /\ form' = "left"
  /\ UNCHANGED <<userID, listHistory, net, comicHistory, failed>>

(* An answer to the form, which it closes if it is the one that asked.     *)
Login(u) ==
  /\ form # "closed" /\ userID \in {Nil, u} /\ HasRoom(Downloads(u))
  /\ userID' = u /\ form' \in {form, "left"}
  /\ net' = Plus(net, Downloads(u))
  /\ UNCHANGED <<listHistory, comicHistory, failed>>

(* Sign-up: a user without a history; nothing is downloaded.               *)
SignUp(u) ==
  /\ form # "closed" /\ userID = Nil /\ comicHistory[u] = {}
  /\ userID' = u /\ form' \in {form, "left"}
  /\ UNCHANGED <<listHistory, net, comicHistory, failed>>

(* The answer to DownloadList, as the array is when the answer is made: a  *)
(* row is fetched for each comic.                                          *)
ListArrives(u, stale) ==
  LET rows == {RowRequest(c, stale) : c \in comicHistory[u]} IN
  /\ InFlight(ListRequest(u, stale)) /\ HasRoom(rows)
  /\ net' = Plus(Answered(ListRequest(u, stale)), rows)
  /\ UNCHANGED <<userID, form, listHistory, comicHistory, failed>>

(* A downloaded row is appended whatever the list holds.                   *)
RowArrives(c, stale) ==
  /\ InFlight(RowRequest(c, stale)) /\ Len(listHistory) < MaxRows
  /\ listHistory' = Added(c, "download")
  /\ net' = Answered(RowRequest(c, stale))
  /\ UNCHANGED <<userID, form, comicHistory, failed>>

(* A comic is opened, which the login form does not allow while it covers  *)
(* the tab bar: its poster is fetched, and the user's history on the       *)
(* server gets it.                                                         *)
OpenInfo(c) ==
  /\ form # "open"
  /\ HasRoom({VisitRequest(c, FALSE)})
  /\ net' = Plus(net, {VisitRequest(c, FALSE)})
  /\ comicHistory' = IF userID = Nil THEN comicHistory
                     ELSE [comicHistory EXCEPT ![userID] = @ \cup {c}]
  /\ UNCHANGED <<userID, form, listHistory, failed>>

(* Mutants of VisitArrives: "check" is not looked at; check only becomes   *)
(* true for a list without rows.                                           *)
MutantUnchecked(c, stale) ==
  /\ InFlight(VisitRequest(c, stale)) /\ Len(listHistory) < MaxRows
  /\ listHistory' = Added(c, "visit")
  /\ net' = Answered(VisitRequest(c, stale))
  /\ UNCHANGED <<userID, form, comicHistory, failed>>
MutantFirstOnly(c, stale) ==
  /\ InFlight(VisitRequest(c, stale)) /\ Len(listHistory) < MaxRows
  /\ listHistory' = IF listHistory # <<>> THEN listHistory ELSE Added(c, "visit")
  /\ net' = Answered(VisitRequest(c, stale))
  /\ UNCHANGED <<userID, form, comicHistory, failed>>

(* The poster of an opened comic arrives: a row, unless there is one.      *)
VisitArrives(c, stale) ==
  /\ InFlight(VisitRequest(c, stale)) /\ Len(listHistory) < MaxRows
  /\ listHistory' = IF c \in Shown THEN listHistory ELSE Added(c, "visit")
  /\ net' = Answered(VisitRequest(c, stale))
  /\ UNCHANGED <<userID, form, comicHistory, failed>>

(* A request fails: no row.                                                *)
RequestFails(r) ==
  /\ InFlight(r)
  /\ net' = Answered(r)
  /\ failed' = (failed \/ ~r.stale)
  /\ UNCHANGED <<userID, form, listHistory, comicHistory>>

Next ==
  \/ Launch \/ Logout \/ CancelLogin
  \/ \E u \in Users : Login(u) \/ SignUp(u)
  \/ \E u \in Users, b \in BOOLEAN : ListArrives(u, b)
  \/ \E c \in Comics, b \in BOOLEAN : RowArrives(c, b) \/ VisitArrives(c, b)
  \/ \E c \in Comics : OpenInfo(c)
  \/ \E r \in Requests : RequestFails(r)

Spec == Init /\ [][Next]_vars

-----------------------------------------------------------------------------
(* Properties *)

RowType == [comic : Comics, by : {"download", "visit"}]

(* TypeOK: every variable keeps the shape its Swift declaration gives it;  *)
(* a count stands for equal requests in flight.                            *)
TypeOK ==
  /\ userID \in Users \cup {Nil}
  /\ form \in {"open", "left", "closed"}
  /\ listHistory \in Seq(RowType)
  /\ net \in [Requests -> Nat]
  /\ comicHistory \in [Users -> SUBSET Comics]
  /\ failed \in BOOLEAN

(* HistoryListed: when nothing of this session is awaited and none of its  *)
(* requests failed, the shelf shows every comic of the user's history on   *)
(* the server: those opened now and those of earlier sessions.             *)
HistoryListed ==
  userID # Nil /\ ~failed /\ (\A r \in Requests : InFlight(r) => r.stale)
    => comicHistory[userID] \subseteq Shown

(* VisitsOnce: opening a comic several times before the first poster       *)
(* arrives, or before the list is downloaded, never adds a second row.     *)
VisitsOnce ==
  \A j \in DOMAIN listHistory : listHistory[j].by = "visit" =>
    \A i \in 1..(j - 1) : listHistory[i].comic # listHistory[j].comic
=============================================================================
