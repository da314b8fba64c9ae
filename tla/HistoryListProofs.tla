--------------------------- MODULE HistoryListProofs ---------------------------
(***************************************************************************)
(* Proofs about HistoryList for every number of comics, users, rows and    *)
(* equal requests in flight.                                               *)
(*                                                                         *)
(* The inductive invariants are Listed, that a comic of the user's history *)
(* is on the shelf or brought there by a request of this session that is   *)
(* still to be answered, or one has failed; and VisitsOnce itself, which   *)
(* appending rows keeps.                                                   *)
(***************************************************************************)
EXTENDS HistoryList, TLAPS

-----------------------------------------------------------------------------
(* The inductive invariant *)

(* The requests of this session that may bring comic c to the shelf of u. *)
For(u, c) ==
  {r \in Requests :
     ~r.stale /\ ((r.kind = "list" /\ r.of = u) \/ (r.kind \in {"row", "visit"} /\ r.of = c))}

Listed ==
  userID # Nil /\ ~failed =>
    \A c \in comicHistory[userID] : c \in Shown \/ \E r \in For(userID, c) : net[r] > 0

Inv == TypeOK /\ Listed /\ VisitsOnce

-----------------------------------------------------------------------------
(* Facts about requests and about the table that counts them *)

LEMMA ListFields ==
  ASSUME NEW u \in Users, NEW b \in BOOLEAN
  PROVE  /\ ListRequest(u, b) \in Requests
         /\ ListRequest(u, b).kind = "list" /\ ListRequest(u, b).of = u
         /\ ListRequest(u, b).stale = b
BY DEF Requests, ListRequest

LEMMA RowFields ==
  ASSUME NEW c \in Comics, NEW b \in BOOLEAN
  PROVE  /\ RowRequest(c, b) \in Requests
         /\ RowRequest(c, b).kind = "row" /\ RowRequest(c, b).of = c
         /\ RowRequest(c, b).stale = b
BY DEF Requests, RowRequest

LEMMA VisitFields ==
  ASSUME NEW c \in Comics, NEW b \in BOOLEAN
  PROVE  /\ VisitRequest(c, b) \in Requests
         /\ VisitRequest(c, b).kind = "visit" /\ VisitRequest(c, b).of = c
         /\ VisitRequest(c, b).stale = b
BY DEF Requests, VisitRequest

LEMMA RequestFields ==
  ASSUME NEW r \in Requests
  PROVE  r.stale \in BOOLEAN
<1>1. \/ \E u \in Users, b \in BOOLEAN : r = ListRequest(u, b)
      \/ \E c \in Comics, b \in BOOLEAN : r = RowRequest(c, b)
      \/ \E c \in Comics, b \in BOOLEAN : r = VisitRequest(c, b)
  BY DEF Requests
<1> QED  BY <1>1, ListFields, RowFields, VisitFields

LEMMA FreshRequests ==
  /\ \A u \in Users : ListRequest(u, FALSE) \in Requests
  /\ \A c \in Comics : RowRequest(c, FALSE) \in Requests /\ VisitRequest(c, FALSE) \in Requests
<1>1. /\ \A u \in Users, b \in BOOLEAN : ListRequest(u, b) \in Requests
      /\ \A c \in Comics, b \in BOOLEAN :
           RowRequest(c, b) \in Requests /\ VisitRequest(c, b) \in Requests
  BY ListFields, RowFields, VisitFields
<1> QED  BY <1>1

(* The requests for c: the download of u's array, a row, a visit. *)
LEMMA ForFacts ==
  /\ \A u \in Users, c \in Comics : ListRequest(u, FALSE) \in For(u, c)
  /\ \A u \in Users, c \in Comics : RowRequest(c, FALSE) \in For(u, c)
  /\ \A u \in Users, c \in Comics : VisitRequest(c, FALSE) \in For(u, c)
<1>1. ASSUME NEW u \in Users, NEW c \in Comics
      PROVE  /\ ListRequest(u, FALSE) \in For(u, c)
             /\ RowRequest(c, FALSE) \in For(u, c)
             /\ VisitRequest(c, FALSE) \in For(u, c)
  <2>1. /\ ListRequest(u, FALSE) \in Requests /\ RowRequest(c, FALSE) \in Requests
        /\ VisitRequest(c, FALSE) \in Requests
    BY FreshRequests
  <2> QED  BY <2>1 DEF For, ListRequest, RowRequest, VisitRequest
<1> QED  BY <1>1

LEMMA PlusCounts ==
  ASSUME NEW n \in [Requests -> Nat], NEW more
  PROVE  /\ Plus(n, more) \in [Requests -> Nat]
         /\ \A r \in Requests : Plus(n, more)[r] >= n[r]
         /\ \A r \in Requests : r \in more => Plus(n, more)[r] > 0
BY DEF Plus

LEMMA AnsweredCounts ==
  ASSUME TypeOK, NEW q \in Requests, InFlight(q)
  PROVE  /\ Answered(q) \in [Requests -> Nat]
         /\ \A r \in Requests : r # q => Answered(q)[r] = net[r]
BY DEF TypeOK, InFlight, Answered

LEMMA ListStale ==
  ASSUME NEW x, NEW b, NEW d
  PROVE  [ListRequest(x, b) EXCEPT !.stale = d] = ListRequest(x, d)
BY DEF ListRequest

LEMMA RowStale ==
  ASSUME NEW x, NEW b, NEW d
  PROVE  [RowRequest(x, b) EXCEPT !.stale = d] = RowRequest(x, d)
BY DEF RowRequest

LEMMA VisitStale ==
  ASSUME NEW x, NEW b, NEW d
  PROVE  [VisitRequest(x, b) EXCEPT !.stale = d] = VisitRequest(x, d)
BY DEF VisitRequest

LEMMA StaledTyped ==
  ASSUME TypeOK
  PROVE  Staled \in [Requests -> Nat]
<1>1. ASSUME NEW r \in Requests PROVE [r EXCEPT !.stale = FALSE] \in Requests
  <2>1. CASE \E u \in Users, b \in BOOLEAN : r = ListRequest(u, b)
    <3>1. PICK u \in Users, b \in BOOLEAN : r = ListRequest(u, b)
      BY <2>1
    <3>2. [ListRequest(u, b) EXCEPT !.stale = FALSE] = ListRequest(u, FALSE)
      BY ListStale
    <3> QED  BY <3>1, <3>2, FreshRequests
  <2>2. CASE \E c \in Comics, b \in BOOLEAN : r = RowRequest(c, b)
    <3>1. PICK c \in Comics, b \in BOOLEAN : r = RowRequest(c, b)
      BY <2>2
    <3>2. [RowRequest(c, b) EXCEPT !.stale = FALSE] = RowRequest(c, FALSE)
      BY RowStale
    <3> QED  BY <3>1, <3>2, FreshRequests
  <2>3. CASE \E c \in Comics, b \in BOOLEAN : r = VisitRequest(c, b)
    <3>1. PICK c \in Comics, b \in BOOLEAN : r = VisitRequest(c, b)
      BY <2>3
    <3>2. [VisitRequest(c, b) EXCEPT !.stale = FALSE] = VisitRequest(c, FALSE)
      BY VisitStale
    <3> QED  BY <3>1, <3>2, FreshRequests
  <2> QED  BY <2>1, <2>2, <2>3 DEF Requests
<1>2. \A r \in Requests : net[r] \in Nat /\ net[[r EXCEPT !.stale = FALSE]] \in Nat
  BY <1>1 DEF TypeOK
<1> QED  BY <1>2 DEF Staled

-----------------------------------------------------------------------------
(* Facts about the rows *)

(* A row is appended: what was shown stays, and so does VisitsOnce unless  *)
(* the new row is a visit of a comic that is shown.                        *)
LEMMA RowAdded ==
  ASSUME TypeOK, VisitsOnce, NEW c \in Comics, NEW by \in {"download", "visit"},
         listHistory' = Added(c, by), by = "visit" => c \notin Shown
  PROVE  /\ listHistory' \in Seq(RowType)
         /\ Shown \subseteq Shown' /\ c \in Shown'
         /\ VisitsOnce'
<1> DEFINE n == Len(listHistory)
           row == [comic |-> c, by |-> by]
           q == listHistory'
<1>1. /\ row \in RowType /\ row.comic = c /\ row.by = by
      /\ q = Append(listHistory, row) /\ listHistory \in Seq(RowType)
  BY DEF RowType, Added, TypeOK
<1> HIDE DEF row
<1>2. /\ n \in Nat /\ DOMAIN listHistory = 1..n /\ DOMAIN q = 1..(n + 1)
      /\ q \in Seq(RowType) /\ q[n + 1] = row
      /\ \A i \in 1..n : q[i] = listHistory[i]
  BY <1>1
<1> HIDE DEF n, q
<1>3. \A i \in 1..(n + 1) : i \in 1..n \/ i = n + 1
  BY <1>2
<1>4. 1..n \subseteq 1..(n + 1) /\ n + 1 \in 1..(n + 1)
  BY <1>2
<1>5. Shown \subseteq Shown' /\ c \in Shown'
  <2>1. Shown' = {q[i].comic : i \in 1..(n + 1)} /\ Shown = {listHistory[i].comic : i \in 1..n}
    BY <1>2 DEF Shown, q
  <2>2. \A i \in 1..n : listHistory[i].comic = q[i].comic
    BY <1>2
  <2>3. q[n + 1].comic = c
    BY <1>1, <1>2
  <2> QED  BY <1>4, <2>1, <2>2, <2>3
<1>6. ASSUME NEW j \in 1..(n + 1), q[j].by = "visit", NEW i \in 1..(j - 1)
      PROVE  q[i].comic # q[j].comic
  <2>1. i \in 1..n /\ q[i] = listHistory[i]
    BY <1>2
  <2>2. CASE j \in 1..n
    BY <1>2, <1>6, <2>1, <2>2 DEF VisitsOnce
  <2>3. CASE j = n + 1
    <3>1. by = "visit" /\ q[j].comic = c
      BY <1>1, <1>2, <1>6, <2>3
    <3>2. listHistory[i].comic \in Shown
      BY <1>2, <2>1 DEF Shown
    <3> QED  BY <2>1, <3>1, <3>2
  <2> QED  BY <1>3, <2>2, <2>3
<1>7. VisitsOnce'
  BY <1>2, <1>6 DEF VisitsOnce, q
<1> QED  BY <1>2, <1>5, <1>7 DEF q

-----------------------------------------------------------------------------
(* Every step keeps the invariant *)

(* Requests are answered, others made, and the user, the history and the   *)
(* success of the session stay: Listed holds if the answered request leaves *)
(* a row, or requests for rows, behind.                                    *)
LEMMA ListedKept ==
  ASSUME TypeOK, Listed, NEW q \in Requests,
         UNCHANGED <<userID, comicHistory>>, failed => failed', Shown \subseteq Shown',
         \A r \in Requests : r # q => net'[r] >= net[r], net' \in [Requests -> Nat],
         userID # Nil /\ ~failed' =>
           \A c \in comicHistory[userID] : q \in For(userID, c) =>
             c \in Shown' \/ \E r \in For(userID, c) : net'[r] > 0
  PROVE  Listed'
<1> SUFFICES ASSUME userID # Nil, ~failed', NEW c \in comicHistory[userID]
             PROVE  c \in Shown' \/ \E r \in For(userID, c) : net'[r] > 0
  BY DEF Listed
<1>1. c \in Shown \/ \E r \in For(userID, c) : net[r] > 0
  BY DEF Listed
<1>2. CASE c \in Shown
  BY <1>2
<1>3. ASSUME NEW r \in For(userID, c), net[r] > 0
      PROVE  c \in Shown' \/ \E s \in For(userID, c) : net'[s] > 0
  <2>1. r \in Requests
    BY DEF For
  <2>2. CASE r = q
    BY <2>2
  <2>3. CASE r # q
    <3>1. net'[r] > 0
      BY <1>3, <2>1, <2>3 DEF TypeOK
    <3> QED  BY <3>1
  <2> QED  BY <2>2, <2>3
<1> QED  BY <1>1, <1>2, <1>3

LEMMA SessionStep ==
  ASSUME Inv, Launch \/ Logout \/ CancelLogin \/ \E u \in Users : Login(u) \/ SignUp(u)
  PROVE  Inv'
<1> USE DEF Inv
<1>1. CASE Launch
  <2>1. TypeOK'
    <3>1. listHistory' \in Seq(RowType)
      BY <1>1 DEF Launch
    <3>2. net' \in [Requests -> Nat]
      BY <1>1 DEF Launch
    <3> QED  BY <1>1, <3>1, <3>2 DEF Launch, TypeOK
  <2>2. Listed'
    <3> SUFFICES ASSUME userID' # Nil, NEW c \in comicHistory'[userID']
                 PROVE  \E r \in For(userID', c) : net'[r] > 0
      BY DEF Listed
    <3>0. userID' = userID /\ comicHistory' = comicHistory
      BY <1>1 DEF Launch
    <3>1. userID \in Users /\ c \in Comics
      BY <3>0 DEF TypeOK
    <3>2. ListRequest(userID, FALSE) \in For(userID, c)
      BY <3>1, ForFacts
    <3>3. ListRequest(userID, FALSE) \in Requests
      BY <3>2 DEF For
    <3>4. net'[ListRequest(userID, FALSE)] = 1
      BY <1>1, <3>0, <3>3 DEF Launch, Downloads
    <3>5. net'[ListRequest(userID, FALSE)] > 0
      BY <3>4
    <3> QED  BY <3>0, <3>2, <3>5
  <2> QED  BY <1>1, <2>1, <2>2 DEF Launch, VisitsOnce
<1>2. CASE Logout
  <2>1. /\ userID' = Nil /\ form' = "open" /\ listHistory' = <<>> /\ net' = Staled
        /\ failed' = FALSE /\ comicHistory' = comicHistory
    BY <1>2 DEF Logout
  <2>2. net' \in [Requests -> Nat] /\ listHistory' \in Seq(RowType)
    BY <2>1, StaledTyped
  <2>3. TypeOK'
    BY <2>1, <2>2 DEF TypeOK
  <2> QED  BY <2>1, <2>3 DEF Listed, VisitsOnce
<1>3. CASE CancelLogin
  <2>1. Listed'
    BY <1>3 DEF CancelLogin, Listed, Shown
  <2> QED  BY <1>3, <2>1 DEF CancelLogin, TypeOK, VisitsOnce
<1>4. ASSUME NEW u \in Users, Login(u) PROVE Inv'
  <2>1. net' = Plus(net, {ListRequest(u, FALSE)})
    BY <1>4, ConstantsAssumption DEF Login, Downloads
  <2>2. /\ userID' = u /\ listHistory' = listHistory /\ comicHistory' = comicHistory
        /\ failed' = failed /\ form' \in {form, "left"}
    BY <1>4 DEF Login
  <2>3. ListRequest(u, FALSE) \in Requests
    BY FreshRequests
  <2>4. net' \in [Requests -> Nat] /\ net'[ListRequest(u, FALSE)] > 0
    BY <2>1, <2>3, PlusCounts DEF TypeOK
  <2>5. Listed'
    <3> SUFFICES ASSUME NEW c \in comicHistory[u]
                 PROVE  \E r \in For(u, c) : net'[r] > 0
      BY <2>2 DEF Listed
    <3>1. ListRequest(u, FALSE) \in For(u, c)
      BY ForFacts DEF TypeOK
    <3> QED  BY <2>4, <3>1
  <2> QED  BY <2>2, <2>4, <2>5 DEF TypeOK, VisitsOnce
<1>5. ASSUME NEW u \in Users, SignUp(u) PROVE Inv'
  <2>1. Listed'
    BY <1>5 DEF SignUp, Listed
  <2> QED  BY <1>5, <2>1 DEF SignUp, TypeOK, VisitsOnce
<1> QED  BY <1>1, <1>2, <1>3, <1>4, <1>5

LEMMA AnswerStep ==
  ASSUME Inv,
         \/ \E u \in Users, b \in BOOLEAN : ListArrives(u, b)
         \/ \E c \in Comics, b \in BOOLEAN : RowArrives(c, b) \/ VisitArrives(c, b)
         \/ \E r \in Requests : RequestFails(r)
  PROVE  Inv'
<1> USE DEF Inv
<1>1. ASSUME NEW u \in Users, NEW b \in BOOLEAN, ListArrives(u, b) PROVE Inv'
  <2> DEFINE q == ListRequest(u, b)
             rows == {RowRequest(c, b) : c \in comicHistory[u]}
  <2>1. q \in Requests /\ InFlight(q) /\ net' = Plus(Answered(q), rows)
    BY <1>1, ListFields DEF ListArrives
  <2>2. UNCHANGED <<userID, form, listHistory, comicHistory, failed>>
    BY <1>1 DEF ListArrives
  <2>3. Answered(q) \in [Requests -> Nat] /\ \A r \in Requests : r # q => Answered(q)[r] = net[r]
    BY <2>1, AnsweredCounts
  <2>4. /\ net' \in [Requests -> Nat] /\ \A r \in Requests : net'[r] >= Answered(q)[r]
        /\ \A r \in Requests : r \in rows => net'[r] > 0
    BY <2>1, <2>3, PlusCounts
  <2>5. ASSUME userID # Nil, NEW c \in comicHistory[userID], q \in For(userID, c)
        PROVE  \E r \in For(userID, c) : net'[r] > 0
    <3>1. u = userID /\ b = FALSE /\ userID \in Users /\ c \in Comics
      BY <2>5, ListFields DEF For, TypeOK
    <3>2. RowRequest(c, FALSE) \in For(userID, c) /\ RowRequest(c, FALSE) \in rows
      BY <3>1, ForFacts
    <3> QED  BY <2>4, <3>2 DEF For
  <2> HIDE DEF q, rows
  <2>6. Shown' = Shown
    BY <2>2 DEF Shown
  <2>7. Listed'
    BY <2>1, <2>2, <2>3, <2>4, <2>5, <2>6, ListedKept
  <2> QED  BY <2>2, <2>4, <2>7 DEF TypeOK, VisitsOnce
<1>2. ASSUME NEW c \in Comics, NEW b \in BOOLEAN, RowArrives(c, b) \/ VisitArrives(c, b)
      PROVE  Inv'
  <2>1. PICK q \in Requests :
          InFlight(q) /\ q.kind \in {"row", "visit"} /\ q.of = c /\ net' = Answered(q)
    <3>1. CASE RowArrives(c, b)
      BY <3>1, RowFields DEF RowArrives
    <3>2. CASE VisitArrives(c, b)
      BY <3>2, VisitFields DEF VisitArrives
    <3> QED  BY <1>2, <3>1, <3>2
  <2>2. UNCHANGED <<userID, form, comicHistory, failed>>
    BY <1>2 DEF RowArrives, VisitArrives
  <2>3. net' \in [Requests -> Nat] /\ \A r \in Requests : r # q => net'[r] = net[r]
    BY <2>1, AnsweredCounts
  <2>4. listHistory' \in Seq(RowType) /\ Shown \subseteq Shown' /\ c \in Shown' /\ VisitsOnce'
    <3>1. CASE listHistory' = listHistory /\ c \in Shown
      BY <3>1 DEF TypeOK, VisitsOnce, Shown
    <3>2. CASE listHistory' = Added(c, "download")
      BY <3>2, RowAdded
    <3>3. CASE listHistory' = Added(c, "visit") /\ c \notin Shown
      BY <3>3, RowAdded
    <3> QED  BY <1>2, <3>1, <3>2, <3>3 DEF RowArrives, VisitArrives
  <2>5. ASSUME NEW d \in comicHistory[userID], q \in For(userID, d)
        PROVE  d \in Shown'
    BY <2>1, <2>4, <2>5 DEF For
  <2>6. Listed'
    <3>1. \A r \in Requests : r # q => net'[r] >= net[r]
      BY <2>3 DEF TypeOK
    <3> QED  BY <2>2, <2>3, <2>4, <2>5, <3>1, ListedKept
  <2> QED  BY <2>2, <2>3, <2>4, <2>6 DEF TypeOK
<1>3. ASSUME NEW q \in Requests, RequestFails(q) PROVE Inv'
  <2>1. /\ InFlight(q) /\ net' = Answered(q) /\ failed' = (failed \/ ~q.stale)
        /\ UNCHANGED <<userID, form, listHistory, comicHistory>>
    BY <1>3 DEF RequestFails
  <2>2. net' \in [Requests -> Nat] /\ \A r \in Requests : r # q => net'[r] = net[r]
    BY <2>1, AnsweredCounts
  <2>3. Listed'
    <3>1. \A r \in Requests : r # q => net'[r] >= net[r]
      BY <2>2 DEF TypeOK
    <3>2. Shown' = Shown
      BY <2>1 DEF Shown
    <3>3. ~failed' => \A c \in comicHistory[userID] : q \notin For(userID, c)
      BY <2>1 DEF For
    <3>4. failed => failed'
      BY <2>1
    <3>5. UNCHANGED <<userID, comicHistory>>
      BY <2>1
    <3> QED  BY <2>2, <3>1, <3>2, <3>3, <3>4, <3>5, ListedKept
  <2> QED  BY <2>1, <2>2, <2>3 DEF TypeOK, VisitsOnce
<1> QED  BY <1>1, <1>2, <1>3

LEMMA VisitStep ==
  ASSUME Inv, NEW c \in Comics, OpenInfo(c)
  PROVE  Inv'
<1> USE DEF Inv
<1> DEFINE q == VisitRequest(c, FALSE)
<1>1. q \in Requests /\ net' = Plus(net, {q})
  BY FreshRequests DEF OpenInfo
<1>2. UNCHANGED <<userID, form, listHistory, failed>>
  BY DEF OpenInfo
<1>3. net' \in [Requests -> Nat] /\ net'[q] > 0 /\ \A r \in Requests : net'[r] >= net[r]
  BY <1>1, PlusCounts DEF TypeOK
<1>4. comicHistory' = IF userID = Nil THEN comicHistory
                      ELSE [comicHistory EXCEPT ![userID] = comicHistory[userID] \cup {c}]
  BY DEF OpenInfo
<1>5. TypeOK' /\ VisitsOnce'
  BY <1>2, <1>3, <1>4 DEF TypeOK, VisitsOnce
<1>6. Listed'
  <2> SUFFICES ASSUME userID # Nil, ~failed, NEW d \in comicHistory'[userID]
               PROVE  d \in Shown \/ \E r \in For(userID, d) : net'[r] > 0
    BY <1>2 DEF Listed, Shown
  <2>1. userID \in Users /\ (d \in comicHistory[userID] \/ d = c)
    BY <1>4 DEF TypeOK
  <2>2. CASE d = c
    <3>1. q \in For(userID, d)
      BY <2>1, <2>2, ForFacts
    <3> HIDE DEF q
    <3> QED  BY <1>3, <3>1
  <2>3. CASE d \in comicHistory[userID]
    <3> HIDE DEF q
    <3>1. CASE d \in Shown
      BY <3>1
    <3>2. ASSUME NEW r \in For(userID, d), net[r] > 0 PROVE net'[r] > 0
      BY <1>3, <3>2 DEF For, TypeOK
    <3> QED  BY <2>3, <3>1, <3>2 DEF Listed
  <2> QED  BY <2>1, <2>2, <2>3
<1> QED  BY <1>5, <1>6

LEMMA InvStep == Inv /\ [Next]_vars => Inv'
<1> SUFFICES ASSUME Inv, [Next]_vars PROVE Inv'
  OBVIOUS
<1>1. CASE UNCHANGED vars
  <2>1. Listed'
    BY <1>1 DEF Inv, Listed, Shown, vars
  <2> QED  BY <1>1, <2>1 DEF Inv, TypeOK, VisitsOnce, vars
<1> QED  BY <1>1, SessionStep, AnswerStep, VisitStep DEF Next

LEMMA InvInit == Init => Inv
<1> SUFFICES ASSUME Init PROVE Inv
  OBVIOUS
<1>1. net \in [Requests -> Nat] /\ comicHistory \in [Users -> SUBSET Comics]
  BY DEF Init
<1>2. listHistory \in Seq(RowType) /\ Len(listHistory) = 0 /\ listHistory = <<>>
  BY DEF Init
<1>3. TypeOK /\ Listed
  BY <1>1, <1>2 DEF Init, TypeOK, Listed
<1>4. VisitsOnce
  BY <1>2 DEF VisitsOnce
<1> QED  BY <1>3, <1>4 DEF Inv

LEMMA InvHolds == Spec => []Inv
BY InvInit, InvStep, PTL DEF Spec

-----------------------------------------------------------------------------
(* The results *)

(* The login, the shelf's list, the requests in flight and the arrays on   *)
(* the server keep their types.                                            *)
THEOREM HistoryTypeCorrect == Spec => []TypeOK
<1>1. Inv => TypeOK
  BY DEF Inv
<1> QED  BY InvHolds, <1>1, PTL

(* When nothing of this session is awaited and nothing of it failed, the   *)
(* shelf shows every comic of the user's history, whatever was opened      *)
(* while the history was being downloaded (upLoad, addToHistory and        *)
(* Shelf.DownloadList).                                                    *)
THEOREM HistoryShown == Spec => []HistoryListed
<1>1. Inv => HistoryListed
  BY DEF Inv, Listed, HistoryListed, For, InFlight
<1> QED  BY InvHolds, <1>1, PTL

(* Opening a comic adds no second row of it, however often it is opened    *)
(* before its first poster arrives.                                        *)
THEOREM VisitedOnce == Spec => []VisitsOnce
<1>1. Inv => VisitsOnce
  BY DEF Inv
<1> QED  BY InvHolds, <1>1, PTL
=============================================================================
