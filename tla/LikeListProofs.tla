---------------------------- MODULE LikeListProofs ----------------------------
(***************************************************************************)
(* Proofs about LikeList for every number of comics, users, views, rows    *)
(* and equal requests in flight.                                           *)
(*                                                                         *)
(* The inductive invariant relates the shelf, the server's array and the   *)
(* requests that no logout has made stale.  They are the user's (Own); a   *)
(* liked comic that is not on the shelf is still awaited (Listed); and, as *)
(* long as the user waits for the answers, each liked comic is on the      *)
(* shelf or awaited, once and not both (Exact).                            *)
(***************************************************************************)
EXTENDS LikeList, SequenceTheorems, FiniteSetTheorems, TLAPS

-----------------------------------------------------------------------------
(* The inductive invariant *)

(* The requests of this session, for a user's array and for a comic's row, *)
(* and the callbacks of each that are still to run.                        *)
Asked(u) == ListRequest(u, FALSE)
Wanted(c) == RowRequest(c, FALSE)
Lists(u) == net[Asked(u)]
Fetches(c) == net[Wanted(c)]

Own ==
  /\ \A u \in Users : comicLike[u] \subseteq everLiked[u]
  /\ \A u \in Users : Lists(u) > 0 => u = userID
  /\ \A c \in Comics : Fetches(c) > 0 => userID # Nil /\ c \in everLiked[userID]

Listed ==
  userID # Nil /\ ~failed =>
    \A c \in comicLike[userID] : c \in Rows \/ Fetches(c) > 0 \/ Lists(userID) > 0

(* The view on the screen, alone, shows what the server has. *)
ViewExact ==
  /\ Len(tags) <= 1
  /\ tags # <<>> => (Top = 1 <=> userID # Nil /\ comicId \in comicLike[userID])

NoRowTwice == \A i, h \in DOMAIN listLike : listLike[i] = listLike[h] => i = h

ComicExact(c) ==
  /\ Fetches(c) <= 1
  /\ c \in Rows => Fetches(c) = 0
  /\ c \in comicLike[userID] <=> c \in Rows \/ Fetches(c) > 0

ShelfExact ==
  IF userID = Nil THEN listLike = <<>>
  ELSE /\ Lists(userID) <= 1
       /\ Lists(userID) = 1 => listLike = <<>> /\ \A c \in Comics : Fetches(c) = 0
       /\ Lists(userID) = 0 => NoRowTwice /\ \A c \in Comics : ComicExact(c)

Exact == calm /\ ~overtaken /\ ~failed => ViewExact /\ ShelfExact

Inv == TypeOK /\ Own /\ OwnLikesOnly /\ Listed /\ Exact

-----------------------------------------------------------------------------
(* Facts about requests and about the table that counts them *)

LEMMA RequestFacts ==
  /\ \A u \in Users, b \in BOOLEAN : ListRequest(u, b) \in Requests /\ ListRequest(u, b).stale = b
  /\ \A c \in Comics, b \in BOOLEAN : RowRequest(c, b) \in Requests /\ RowRequest(c, b).stale = b
  /\ \A r \in Requests : r.stale \in BOOLEAN
<1>1. ASSUME NEW u \in Users, NEW b \in BOOLEAN
      PROVE  ListRequest(u, b) \in Requests /\ ListRequest(u, b).stale = b
  BY DEF Requests, ListRequest
<1>2. ASSUME NEW c \in Comics, NEW b \in BOOLEAN
      PROVE  RowRequest(c, b) \in Requests /\ RowRequest(c, b).stale = b
  BY DEF Requests, RowRequest
<1>3. ASSUME NEW r \in Requests PROVE r.stale \in BOOLEAN
  <2>1. \/ \E u \in Users, b \in BOOLEAN : r = ListRequest(u, b)
        \/ \E c \in Comics, b \in BOOLEAN : r = RowRequest(c, b)
    BY DEF Requests
  <2> QED  BY <2>1, <1>1, <1>2
<1> QED  BY <1>1, <1>2, <1>3

LEMMA SessionRequests ==
  /\ \A u \in Users : Asked(u) \in Requests /\ ~Asked(u).stale
  /\ \A c \in Comics : Wanted(c) \in Requests /\ ~Wanted(c).stale
BY RequestFacts DEF Asked, Wanted

LEMMA RequestsDiffer ==
  ASSUME NEW u, NEW v
  PROVE  /\ Asked(u) = Asked(v) <=> u = v
         /\ Wanted(u) = Wanted(v) <=> u = v
         /\ Asked(u) # Wanted(v)
         /\ \A b : RowRequest(u, b) # Asked(v)
         /\ \A b : ListRequest(u, b) # Wanted(v)
BY DEF Asked, Wanted, ListRequest, RowRequest

LEMMA StaleDiffer ==
  ASSUME NEW u, NEW b \in BOOLEAN
  PROVE  /\ ~b => ListRequest(u, b) = Asked(u) /\ RowRequest(u, b) = Wanted(u)
         /\ b => \A v : ListRequest(u, b) # Asked(v) /\ RowRequest(u, b) # Wanted(v)
         /\ \A v : v # u => ListRequest(u, b) # Asked(v) /\ RowRequest(u, b) # Wanted(v)
<1>1. CASE b = TRUE
  BY <1>1 DEF Asked, Wanted, ListRequest, RowRequest
<1>2. CASE b = FALSE
  BY <1>2 DEF Asked, Wanted, ListRequest, RowRequest
<1> QED  BY <1>1, <1>2

LEMMA CountsTyped ==
  ASSUME TypeOK
  PROVE  /\ \A u \in Users : Lists(u) \in Nat
         /\ \A c \in Comics : Fetches(c) \in Nat
BY SessionRequests DEF TypeOK, Lists, Fetches

LEMMA AwaitedCounts ==
  ASSUME TypeOK
  PROVE  Rested <=> /\ \A u \in Users : Lists(u) = 0
                    /\ \A c \in Comics : Fetches(c) = 0
<1>1. ASSUME Rested, NEW u \in Users PROVE Lists(u) = 0
  <2>1. ~(Lists(u) > 0)
    BY <1>1, SessionRequests DEF Rested, Awaited, InFlight, Lists
  <2> QED  BY <2>1, CountsTyped
<1>2. ASSUME Rested, NEW c \in Comics PROVE Fetches(c) = 0
  <2>1. ~(Fetches(c) > 0)
    BY <1>2, SessionRequests DEF Rested, Awaited, InFlight, Fetches
  <2> QED  BY <2>1, CountsTyped
<1>3. ASSUME \A u \in Users : Lists(u) = 0, \A c \in Comics : Fetches(c) = 0,
             NEW r \in Requests, Awaited(r)
      PROVE  FALSE
  <2>1. ~r.stale /\ net[r] > 0
    BY <1>3 DEF Awaited, InFlight
  <2>2. ASSUME NEW u \in Users, NEW b \in BOOLEAN, r = ListRequest(u, b) PROVE FALSE
    <3>1. net[r] = Lists(u)
      BY <2>1, <2>2, RequestFacts, StaleDiffer DEF Lists
    <3> QED  BY <2>1, <3>1, <1>3
  <2>3. ASSUME NEW c \in Comics, NEW b \in BOOLEAN, r = RowRequest(c, b) PROVE FALSE
    <3>1. net[r] = Fetches(c)
      BY <2>1, <2>3, RequestFacts, StaleDiffer DEF Fetches
    <3> QED  BY <2>1, <3>1, <1>3
  <2> QED  BY <2>2, <2>3 DEF Requests
<1> QED  BY <1>1, <1>2, <1>3 DEF Rested

LEMMA PlusCounts ==
  ASSUME NEW n \in [Requests -> Nat], NEW more
  PROVE  /\ Plus(n, more) \in [Requests -> Nat]
         /\ \A r \in Requests : r \in more => Plus(n, more)[r] = n[r] + 1
         /\ \A r \in Requests : r \notin more => Plus(n, more)[r] = n[r]
BY DEF Plus

LEMMA AnsweredCounts ==
  ASSUME TypeOK, NEW q \in Requests, InFlight(q)
  PROVE  /\ Answered(q) \in [Requests -> Nat]
         /\ Answered(q)[q] = net[q] - 1
         /\ \A r \in Requests : r # q => Answered(q)[r] = net[r]
BY DEF TypeOK, InFlight, Answered

LEMMA StaleField ==
  ASSUME NEW x, NEW b, NEW d
  PROVE  /\ [ListRequest(x, b) EXCEPT !.stale = d] = ListRequest(x, d)
         /\ [RowRequest(x, b) EXCEPT !.stale = d] = RowRequest(x, d)
BY DEF ListRequest, RowRequest

LEMMA StaledCounts ==
  ASSUME TypeOK
  PROVE  /\ Staled \in [Requests -> Nat]
         /\ \A r \in Requests : ~r.stale => Staled[r] = 0
<1>1. ASSUME NEW r \in Requests PROVE [r EXCEPT !.stale = FALSE] \in Requests
  <2>1. CASE \E u \in Users, b \in BOOLEAN : r = ListRequest(u, b)
    <3>1. PICK u \in Users, b \in BOOLEAN : r = ListRequest(u, b)
      BY <2>1
    <3>2. [ListRequest(u, b) EXCEPT !.stale = FALSE] = ListRequest(u, FALSE)
      BY StaleField
    <3> QED  BY <3>1, <3>2, RequestFacts
  <2>2. CASE \E c \in Comics, b \in BOOLEAN : r = RowRequest(c, b)
    <3>1. PICK c \in Comics, b \in BOOLEAN : r = RowRequest(c, b)
      BY <2>2
    <3>2. [RowRequest(c, b) EXCEPT !.stale = FALSE] = RowRequest(c, FALSE)
      BY StaleField
    <3> QED  BY <3>1, <3>2, RequestFacts
  <2> QED  BY <2>1, <2>2 DEF Requests
<1>2. \A r \in Requests : net[r] \in Nat /\ net[[r EXCEPT !.stale = FALSE]] \in Nat
  BY <1>1 DEF TypeOK
<1> QED  BY <1>2 DEF Staled

-----------------------------------------------------------------------------
(* Facts about the rows of a list *)

RowsOf(q) == {q[i] : i \in DOMAIN q}
Once(q) == \A i, h \in DOMAIN q : q[i] = q[h] => i = h

LEMMA RowsAppend ==
  ASSUME NEW S, NEW q \in Seq(S), NEW e \in S
  PROVE  /\ Append(q, e) \in Seq(S)
         /\ RowsOf(Append(q, e)) = RowsOf(q) \cup {e}
         /\ Once(q) /\ e \notin RowsOf(q) => Once(Append(q, e))
<1> DEFINE n == Len(q)
           t == Append(q, e)
<1>1. n \in Nat /\ DOMAIN q = 1..n /\ DOMAIN t = 1..(n + 1)
  OBVIOUS
<1>2. t[n + 1] = e /\ \A i \in 1..n : t[i] = q[i]
  OBVIOUS
<1>3. 1..(n + 1) = 1..n \cup {n + 1} /\ n + 1 \notin 1..n
  BY <1>1
<1>4. t \in Seq(S)
  OBVIOUS
<1> HIDE DEF n, t
<1>5. RowsOf(t) = RowsOf(q) \cup {e}
  BY <1>1, <1>2, <1>3 DEF RowsOf
<1>6. ASSUME Once(q), e \notin RowsOf(q) PROVE Once(t)
  <2>1. \A i \in 1..n : t[i] # e
    BY <1>1, <1>2, <1>6 DEF RowsOf
  <2>2. \A i, h \in 1..n : t[i] = t[h] => i = h
    BY <1>1, <1>2, <1>6 DEF Once
  <2> QED  BY <1>1, <1>2, <1>3, <2>1, <2>2 DEF Once
<1> QED  BY <1>4, <1>5, <1>6 DEF t

(* Removing position i moves the rows behind it one place forward. *)
LEMMA RowsRemoveAt ==
  ASSUME NEW S, NEW q \in Seq(S), NEW i \in DOMAIN q
  PROVE  /\ RemoveAt(q, i) \in Seq(S)
         /\ RowsOf(RemoveAt(q, i)) \subseteq RowsOf(q)
         /\ RowsOf(q) \ {q[i]} \subseteq RowsOf(RemoveAt(q, i))
         /\ Once(q) => Once(RemoveAt(q, i)) /\ q[i] \notin RowsOf(RemoveAt(q, i))
<1> DEFINE n == Len(q)
           t == RemoveAt(q, i)
           a == SubSeq(q, 1, i - 1)
           z == SubSeq(q, i + 1, n)
           from(j) == IF j < i THEN j ELSE j + 1
<1>1. n \in Nat /\ DOMAIN q = 1..n /\ i \in 1..n
  OBVIOUS
<1>2. /\ a \in Seq(S) /\ Len(a) = i - 1
      /\ \A j \in 1..(i - 1) : a[j] = q[j]
  BY <1>1
<1>3. /\ z \in Seq(S) /\ Len(z) = n - i
      /\ \A j \in 1..(n - i) : z[j] = q[j + i]
  BY <1>1
<1>4. t = a \o z
  BY DEF RemoveAt
<1> HIDE DEF a, z, t, n
<1>5. t \in Seq(S) /\ Len(t) = n - 1 /\ DOMAIN t = 1..(n - 1)
  <2>1. t \in Seq(S)
    BY <1>2, <1>3, <1>4
  <2>2. Len(t) = Len(a) + Len(z)
    BY <1>2, <1>3, <1>4
  <2>3. Len(t) = n - 1
    BY <2>2, <1>1, <1>2, <1>3
  <2> QED  BY <2>1, <2>3
<1>6. ASSUME NEW j \in 1..(n - 1) PROVE from(j) \in 1..n /\ from(j) # i /\ t[j] = q[from(j)]
  <2>1. CASE j < i
    <3>1. t[j] = a[j]
      BY <2>1, <1>1, <1>2, <1>3, <1>4
    <3> QED  BY <2>1, <3>1, <1>1, <1>2
  <2>2. CASE ~(j < i)
    <3>1. t[j] = z[j - (i - 1)]
      BY <2>2, <1>1, <1>2, <1>3, <1>4
    <3>2. j - (i - 1) \in 1..(n - i) /\ (j - (i - 1)) + i = j + 1
      BY <2>2, <1>1
    <3>3. t[j] = q[j + 1]
      BY <3>1, <3>2, <1>3
    <3> QED  BY <2>2, <3>3, <1>1
  <2> QED  BY <2>1, <2>2
<1>7. \A h \in 1..n : h # i => \E j \in 1..(n - 1) : from(j) = h
  <2> SUFFICES ASSUME NEW h \in 1..n, h # i
               PROVE  \E j \in 1..(n - 1) : from(j) = h
    OBVIOUS
  <2>1. CASE h < i
    BY <2>1, <1>1
  <2>2. CASE h > i
    <3>1. h - 1 \in 1..(n - 1) /\ from(h - 1) = h
      BY <2>2, <1>1
    <3> QED  BY <3>1
  <2> QED  BY <2>1, <2>2, <1>1
<1>8. \A j, h \in 1..(n - 1) : from(j) = from(h) => j = h
  BY <1>1
<1> HIDE DEF from
<1>9. RowsOf(t) \subseteq RowsOf(q)
  BY <1>1, <1>5, <1>6 DEF RowsOf
<1>10. RowsOf(q) \ {q[i]} \subseteq RowsOf(t)
  <2> SUFFICES ASSUME NEW x \in RowsOf(q), x # q[i]
               PROVE  x \in RowsOf(t)
    OBVIOUS
  <2>1. PICK h \in 1..n : x = q[h]
    BY <1>1 DEF RowsOf
  <2>2. PICK j \in 1..(n - 1) : from(j) = h
    BY <2>1, <1>7
  <2> QED  BY <2>1, <2>2, <1>5, <1>6 DEF RowsOf
<1>11. ASSUME Once(q) PROVE Once(t) /\ q[i] \notin RowsOf(t)
  <2>1. Once(t)
    <3> SUFFICES ASSUME NEW j \in 1..(n - 1), NEW h \in 1..(n - 1), t[j] = t[h]
                 PROVE  j = h
      BY <1>5 DEF Once
    <3>1. from(j) = from(h)
      BY <1>1, <1>6, <1>11 DEF Once
    <3> QED  BY <3>1, <1>8
  <2>2. q[i] \notin RowsOf(t)
    <3> SUFFICES ASSUME NEW j \in 1..(n - 1), q[i] = t[j]
                 PROVE  FALSE
      BY <1>5 DEF RowsOf
    <3> QED  BY <1>1, <1>6, <1>11 DEF Once
  <2> QED  BY <2>1, <2>2
<1> QED  BY <1>5, <1>9, <1>10, <1>11 DEF t

(* FirstRow finds the first row of c whenever there is one. *)
LEMMA FirstRowLeast ==
  ASSUME TypeOK, NEW c \in Rows
  PROVE  FirstRow(c) \in DOMAIN listLike /\ listLike[FirstRow(c)] = c
<1> DEFINE n == Len(listLike)
           Hits == {i \in 1..n : listLike[i] = c}
           T == {1..i : i \in Hits}
<1>1. n \in Nat /\ DOMAIN listLike = 1..n
  BY DEF TypeOK
<1>2. Hits # {}
  BY <1>1 DEF Rows
<1>3. IsWellFoundedOn(StrictSubsetOrdering(1..n), FiniteSubsetsOf(1..n))
  BY FS_StrictSubsetOrderingWellFounded
<1>4. T \subseteq FiniteSubsetsOf(1..n) /\ T # {}
  <2>1. ASSUME NEW i \in Hits PROVE 1..i \in FiniteSubsetsOf(1..n)
    <3>1. IsFiniteSet(1..i)
      BY <1>1, FS_Interval
    <3> QED  BY <1>1, <3>1 DEF FiniteSubsetsOf
  <2> QED  BY <2>1, <1>2
<1>5. PICK x \in T : \A y \in T : <<y, x>> \notin StrictSubsetOrdering(1..n)
  <2> HIDE DEF T
  <2> QED  BY <1>3, <1>4, WFMin
<1>6. PICK i \in Hits : x = 1..i
  OBVIOUS
<1>7. \A h \in 1..(i - 1) : listLike[h] # c
  <2> SUFFICES ASSUME NEW h \in 1..(i - 1), listLike[h] = c
               PROVE  FALSE
    OBVIOUS
  <2>1. i \in 1..n /\ h \in Hits /\ 1..h \in T
    BY <1>1
  <2>2. 1..h \subseteq 1..i /\ 1..h # 1..i
    <3>1. i \in 1..i /\ i \notin 1..h
      BY <2>1, <1>1
    <3> QED  BY <3>1, <2>1, <1>1
  <2>3. <<1..h, 1..i>> \in StrictSubsetOrdering(1..n)
    BY <2>1, <2>2, <1>1 DEF StrictSubsetOrdering
  <2> QED  BY <2>1, <2>3, <1>5, <1>6
<1>8. \E j \in DOMAIN listLike : listLike[j] = c /\ \A h \in 1..(j - 1) : listLike[h] # c
  BY <1>1, <1>7
<1> QED  BY <1>8 DEF FirstRow

(* A list that holds nothing twice is as long as the set of its rows. *)
LEMMA OnceCounts ==
  ASSUME NEW S, NEW q \in Seq(S), Once(q)
  PROVE  Len(q) = Cardinality(RowsOf(q))
<1>1. Len(q) \in Nat /\ DOMAIN q = 1..Len(q)
  OBVIOUS
<1>2. q \in Bijection(1..Len(q), RowsOf(q))
  <2>1. q \in [1..Len(q) -> RowsOf(q)]
    BY <1>1 DEF RowsOf
  <2>2. q \in Injection(1..Len(q), RowsOf(q))
    BY <1>1, <2>1 DEF Injection, Once, IsInjective
  <2>3. q \in Surjection(1..Len(q), RowsOf(q))
    BY <1>1, <2>1 DEF Surjection, RowsOf
  <2> QED  BY <2>2, <2>3 DEF Bijection
<1>3. ExistsBijection(1..Len(q), RowsOf(q))
  BY <1>2 DEF ExistsBijection
<1>4. IsFiniteSet(1..Len(q)) /\ Cardinality(1..Len(q)) = Len(q)
  BY <1>1, FS_Interval
<1> QED  BY <1>3, <1>4, FS_Bijection

-----------------------------------------------------------------------------
(* What each operation leaves awaited, in the words of the invariant *)

LEMMA LaunchCounts ==
  ASSUME TypeOK, Launch
  PROVE  /\ net' \in [Requests -> Nat]
         /\ \A v \in Users : Lists(v)' = IF v = userID' THEN 1 ELSE 0
         /\ \A c \in Comics : Fetches(c)' = 0
<1> DEFINE more == IF userID' = Nil THEN {} ELSE {Asked(userID')}
<1>1. net' = [r \in Requests |-> IF r \in more THEN 1 ELSE 0]
  BY DEF Launch, Downloads, Asked
<1>2. userID' \in Users \cup {Nil} /\ Nil \notin Users
  BY ConstantsAssumption DEF TypeOK, Launch
<1>3. \A v \in Users : Asked(v) \in more <=> v = userID'
  BY <1>2, RequestsDiffer
<1>4. \A c \in Comics : Wanted(c) \notin more
  BY RequestsDiffer
<1> HIDE DEF more
<1> QED  BY <1>1, <1>3, <1>4, SessionRequests DEF Lists, Fetches

LEMMA LogoutCounts ==
  ASSUME TypeOK, Logout
  PROVE  /\ net' \in [Requests -> Nat]
         /\ \A v \in Users : Lists(v)' = 0
         /\ \A c \in Comics : Fetches(c)' = 0
BY StaledCounts, SessionRequests DEF Logout, Lists, Fetches

LEMMA LoginCounts ==
  ASSUME TypeOK, NEW u \in Users, Login(u)
  PROVE  /\ net' \in [Requests -> Nat]
         /\ Lists(u)' = Lists(u) + 1
         /\ \A v \in Users : v # u => Lists(v)' = Lists(v)
         /\ \A c \in Comics : Fetches(c)' = Fetches(c)
<1> DEFINE more == {Asked(u)}
<1>1. net' = Plus(net, more) /\ net \in [Requests -> Nat]
  BY ConstantsAssumption DEF Login, Downloads, Asked, TypeOK
<1>2. \A v \in Users : Asked(v) \in more <=> v = u
  BY RequestsDiffer
<1>3. \A c \in Comics : Wanted(c) \notin more
  BY RequestsDiffer
<1> HIDE DEF more
<1> QED  BY <1>1, <1>2, <1>3, PlusCounts, SessionRequests DEF Lists, Fetches

LEMMA ListArrivesCounts ==
  ASSUME TypeOK, NEW u \in Users, NEW b \in BOOLEAN, ListArrives(u, b)
  PROVE  /\ net' \in [Requests -> Nat]
         /\ \A v \in Users : v # u \/ b => Lists(v)' = Lists(v)
         /\ ~b => Lists(u) > 0 /\ Lists(u)' = Lists(u) - 1
         /\ \A c \in Comics : c \notin comicLike[u] \/ b => Fetches(c)' = Fetches(c)
         /\ \A c \in Comics : c \in comicLike[u] /\ ~b => Fetches(c)' = Fetches(c) + 1
<1> DEFINE q == ListRequest(u, b)
           n == Answered(q)
           rows == {RowRequest(c, b) : c \in comicLike[u]}
<1>1. q \in Requests /\ InFlight(q) /\ net' = Plus(n, rows)
  BY RequestFacts DEF ListArrives
<1>2. n \in [Requests -> Nat] /\ n[q] = net[q] - 1 /\ net[q] > 0
  BY <1>1, AnsweredCounts DEF InFlight
<1>3. \A r \in Requests : r # q => n[r] = net[r]
  BY <1>1, AnsweredCounts
<1>4. \A v \in Users : Asked(v) \notin rows
  BY RequestsDiffer
<1>5. \A c \in Comics : Wanted(c) \in rows <=> c \in comicLike[u] /\ ~b
  BY StaleDiffer
<1>6. \A v \in Users : v # u \/ b => Asked(v) # q
  BY StaleDiffer
<1>7. ~b => q = Asked(u)
  BY StaleDiffer
<1>8. \A c \in Comics : Wanted(c) # q
  BY RequestsDiffer
<1> HIDE DEF q, n, rows
<1>9. /\ net' \in [Requests -> Nat]
      /\ \A r \in Requests : r \in rows => net'[r] = n[r] + 1
      /\ \A r \in Requests : r \notin rows => net'[r] = n[r]
  BY <1>1, <1>2, PlusCounts
<1>10. \A v \in Users : v # u \/ b => Lists(v)' = Lists(v)
  BY <1>3, <1>4, <1>6, <1>9, SessionRequests DEF Lists
<1>11. ~b => Lists(u) > 0 /\ Lists(u)' = Lists(u) - 1
  BY <1>2, <1>4, <1>7, <1>9, SessionRequests DEF Lists
<1>12. \A c \in Comics : c \notin comicLike[u] \/ b => Fetches(c)' = Fetches(c)
  BY <1>3, <1>5, <1>8, <1>9, SessionRequests DEF Fetches
<1>13. \A c \in Comics : c \in comicLike[u] /\ ~b => Fetches(c)' = Fetches(c) + 1
  BY <1>3, <1>5, <1>8, <1>9, SessionRequests DEF Fetches
<1> QED  BY <1>9, <1>10, <1>11, <1>12, <1>13

LEMMA RowArrivesCounts ==
  ASSUME TypeOK, NEW c \in Comics, NEW b \in BOOLEAN, RowArrives(c, b)
  PROVE  /\ net' \in [Requests -> Nat]
         /\ \A v \in Users : Lists(v)' = Lists(v)
         /\ ~b => Fetches(c) > 0 /\ Fetches(c)' = Fetches(c) - 1
         /\ \A e \in Comics : e # c \/ b => Fetches(e)' = Fetches(e)
<1> DEFINE q == RowRequest(c, b)
<1>1. q \in Requests /\ InFlight(q) /\ net' = Answered(q)
  BY RequestFacts DEF RowArrives
<1>2. net' \in [Requests -> Nat] /\ net'[q] = net[q] - 1 /\ net[q] > 0
  BY <1>1, AnsweredCounts DEF InFlight
<1>3. \A r \in Requests : r # q => net'[r] = net[r]
  BY <1>1, AnsweredCounts
<1>4. \A v \in Users : Asked(v) # q
  BY RequestsDiffer
<1>5. \A e \in Comics : e # c \/ b => Wanted(e) # q
  BY StaleDiffer
<1>6. ~b => q = Wanted(c)
  BY StaleDiffer
<1> HIDE DEF q
<1>7. ~b => Fetches(c) > 0 /\ Fetches(c)' = Fetches(c) - 1
  BY <1>2, <1>6 DEF Fetches
<1> QED  BY <1>2, <1>3, <1>4, <1>5, <1>7, SessionRequests DEF Lists, Fetches

(* A failure that is not stale is remembered: only an upper bound is kept. *)
LEMMA RequestFailsCounts ==
  ASSUME TypeOK, NEW q \in Requests, RequestFails(q)
  PROVE  /\ net' \in [Requests -> Nat]
         /\ \A v \in Users : Lists(v)' <= Lists(v)
         /\ \A c \in Comics : Fetches(c)' <= Fetches(c)
         /\ q.stale => \A v \in Users : Lists(v)' = Lists(v)
         /\ q.stale => \A c \in Comics : Fetches(c)' = Fetches(c)
<1>1. InFlight(q) /\ net' = Answered(q)
  BY DEF RequestFails
<1>2. net' \in [Requests -> Nat] /\ net'[q] = net[q] - 1
  BY <1>1, AnsweredCounts
<1>3. \A r \in Requests : r # q => net'[r] = net[r]
  BY <1>1, AnsweredCounts
<1>4. \A r \in Requests : net'[r] <= net[r]
  BY <1>2, <1>3 DEF TypeOK
<1>5. q.stale => /\ \A v \in Users : Asked(v) # q
                 /\ \A c \in Comics : Wanted(c) # q
  BY SessionRequests
<1> QED  BY <1>2, <1>3, <1>4, <1>5, SessionRequests DEF Lists, Fetches

LEMMA LikeCounts ==
  ASSUME TypeOK, Like
  PROVE  /\ comicId \in Comics
         /\ net' \in [Requests -> Nat]
         /\ \A v \in Users : Lists(v)' = Lists(v)
         /\ \A c \in Comics : c # comicId => Fetches(c)' = Fetches(c)
         /\ Fetches(comicId)' = Fetches(comicId) + 1
<1> DEFINE more == {Wanted(comicId)}
<1>1. net' = Plus(net, more) /\ net \in [Requests -> Nat] /\ comicId \in Comics
  BY DEF Like, TypeOK, Wanted
<1>2. \A v \in Users : Asked(v) \notin more
  BY RequestsDiffer
<1>3. \A c \in Comics : Wanted(c) \in more <=> c = comicId
  BY RequestsDiffer
<1>4. comicId' = comicId
  BY DEF Like
<1> HIDE DEF more
<1> QED  BY <1>1, <1>2, <1>3, <1>4, PlusCounts, SessionRequests DEF Lists, Fetches

LEMMA CountsKept ==
  ASSUME net' = net
  PROVE  /\ \A v \in Users : Lists(v)' = Lists(v)
         /\ \A c \in Comics : Fetches(c)' = Fetches(c)
BY DEF Lists, Fetches

LEMMA RowArrivesRows ==
  ASSUME TypeOK, NEW c \in Comics, NEW b \in BOOLEAN, RowArrives(c, b)
  PROVE  /\ listLike' \in Seq(Comics)
         /\ Rows' = Rows \cup {c}
         /\ NoRowTwice /\ c \notin Rows => NoRowTwice'
<1>1. listLike' = Append(listLike, c) /\ listLike \in Seq(Comics)
  BY DEF RowArrives, TypeOK
<1> QED  BY <1>1, RowsAppend DEF Rows, RowsOf, NoRowTwice, Once

LEMMA UnlikeRows ==
  ASSUME TypeOK, Unlike
  PROVE  /\ comicId \in Comics
         /\ listLike' \in Seq(Comics)
         /\ Rows' \subseteq Rows
         /\ Rows \ {comicId} \subseteq Rows'
         /\ NoRowTwice => NoRowTwice' /\ comicId \notin Rows'
<1>1. listLike' = WithoutFirst(comicId) /\ listLike \in Seq(Comics) /\ comicId \in Comics
  BY DEF Unlike, Unliked, TypeOK
<1>2. CASE comicId \in Rows
  <2> DEFINE i == FirstRow(comicId)
  <2>1. i \in DOMAIN listLike /\ listLike[i] = comicId
    BY <1>2, FirstRowLeast
  <2>2. listLike' = RemoveAt(listLike, i)
    BY <1>1, <1>2 DEF WithoutFirst
  <2> HIDE DEF i
  <2>3. /\ listLike' \in Seq(Comics)
        /\ RowsOf(listLike') \subseteq RowsOf(listLike)
        /\ RowsOf(listLike) \ {comicId} \subseteq RowsOf(listLike')
        /\ Once(listLike) => Once(listLike') /\ comicId \notin RowsOf(listLike')
    BY <1>1, <2>1, <2>2, RowsRemoveAt
  <2> QED  BY <1>1, <2>3 DEF Rows, RowsOf, NoRowTwice, Once
<1>3. CASE comicId \notin Rows
  <2>1. listLike' = listLike
    BY <1>1, <1>3 DEF WithoutFirst
  <2> QED  BY <1>1, <1>3, <2>1 DEF Rows, NoRowTwice
<1> QED  BY <1>2, <1>3

LEMMA RowsKept ==
  ASSUME listLike' = listLike
  PROVE  Rows' = Rows /\ NoRowTwice' = NoRowTwice
BY DEF Rows, NoRowTwice

LEMMA NoRows ==
  ASSUME listLike = <<>>
  PROVE  Rows = {} /\ NoRowTwice
BY DEF Rows, NoRowTwice

-----------------------------------------------------------------------------
(* Every step keeps the types *)

LEMMA TagTyped == \A c : TagOf(c) \in {0, 1}
BY DEF TagOf

LEMMA TypeStep ==
  ASSUME TypeOK, [Next]_vars
  PROVE  TypeOK'
<1>1. CASE Launch
  <2>1. net' \in [Requests -> Nat]
    BY <1>1, LaunchCounts
  <2>2. tags' \in Seq({0, 1}) /\ listLike' \in Seq(Comics)
    BY <1>1 DEF Launch
  <2> QED  BY <1>1, <2>1, <2>2 DEF TypeOK, Launch
<1>2. CASE Logout
  <2>1. net' \in [Requests -> Nat]
    BY <1>2, LogoutCounts
  <2>2. listLike' \in Seq(Comics)
    BY <1>2 DEF Logout
  <2> QED  BY <1>2, <2>1, <2>2 DEF TypeOK, Logout
<1>3. CASE CancelLogin
  BY <1>3 DEF TypeOK, CancelLogin, history
<1>4. ASSUME NEW u \in Users, Login(u) PROVE TypeOK'
  BY <1>4, LoginCounts DEF TypeOK, Login
<1>5. ASSUME NEW u \in Users, SignUp(u) PROVE TypeOK'
  BY <1>5 DEF TypeOK, SignUp, history
<1>6. ASSUME NEW u \in Users, NEW b \in BOOLEAN, ListArrives(u, b) PROVE TypeOK'
  BY <1>6, ListArrivesCounts DEF TypeOK, ListArrives, history
<1>7. ASSUME NEW c \in Comics, NEW b \in BOOLEAN, RowArrives(c, b) PROVE TypeOK'
  BY <1>7, RowArrivesCounts, RowArrivesRows DEF TypeOK, RowArrives
<1>8. ASSUME NEW r \in Requests, RequestFails(r) PROVE TypeOK'
  BY <1>8, RequestFailsCounts, RequestFacts DEF TypeOK, RequestFails
<1>9. ASSUME NEW c \in Comics, OpenInfo(c) PROVE TypeOK'
  <2>1. tags' \in Seq({0, 1}) /\ comicId' # Nil
    BY <1>9, TagTyped, ConstantsAssumption DEF OpenInfo
  <2>2. calm' \in BOOLEAN
    BY <1>9 DEF OpenInfo, Acted, TypeOK
  <2> QED  BY <1>9, <2>1, <2>2 DEF TypeOK, OpenInfo
<1>10. ASSUME NEW c \in Comics, ReviewArrives(c) PROVE TypeOK'
  <2>1. tags' \in Seq({0, 1}) /\ comicId' # Nil
    <3>1. CASE tags' = Append(tags, TagOf(c))
      BY <1>10, <3>1, TagTyped, ConstantsAssumption DEF ReviewArrives, TypeOK
    <3>2. CASE UNCHANGED tags
      BY <1>10, <3>2, ConstantsAssumption DEF ReviewArrives, TypeOK
    <3> QED  BY <1>10, <3>1, <3>2 DEF ReviewArrives
  <2>2. calm' \in BOOLEAN
    BY <1>10 DEF ReviewArrives, TypeOK
  <2> QED  BY <1>10, <2>1, <2>2 DEF TypeOK, ReviewArrives
<1>11. CASE Back
  <2>1. tags' \in Seq({0, 1})
    BY <1>11 DEF Back, TypeOK, Front
  <2> QED  BY <1>11, <2>1 DEF TypeOK, Back, history
<1>12. CASE Like
  <2>1. tags' \in Seq({0, 1})
    BY <1>12 DEF Like, TypeOK, Front
  <2>2. calm' \in BOOLEAN
    BY <1>12 DEF Like, Acted, TypeOK
  <2> QED  BY <1>12, <2>1, <2>2, LikeCounts DEF TypeOK, Like
<1>13. CASE Unlike
  <2>1. tags' \in Seq({0, 1})
    BY <1>13 DEF Unlike, Unliked, TypeOK, Front
  <2>2. calm' \in BOOLEAN
    BY <1>13 DEF Unlike, Unliked, Acted, TypeOK
  <2> QED  BY <1>13, <2>1, <2>2, UnlikeRows DEF TypeOK, Unlike, Unliked
<1>14. CASE UNCHANGED vars
  BY <1>14 DEF TypeOK, vars, history
<1> QED  BY <1>1, <1>2, <1>3, <1>4, <1>5, <1>6, <1>7, <1>8, <1>9, <1>10, <1>11, <1>12, <1>13, <1>14 DEF Next

LEMMA TypeInit == Init => TypeOK
<1> SUFFICES ASSUME Init PROVE TypeOK
  OBVIOUS
<1>1. net \in [Requests -> Nat]
  BY DEF Init
<1>2. tags \in Seq({0, 1}) /\ listLike \in Seq(Comics)
  BY DEF Init
<1> QED  BY <1>1, <1>2 DEF Init, TypeOK

(* The shelf, the tags and the table of awaited requests keep their shapes  *)
(* through every operation; no count of callbacks goes below zero.         *)
THEOREM LikeTypeCorrect == Spec => []TypeOK
<1>1. TypeOK /\ [Next]_vars => TypeOK'
  BY TypeStep
<1> QED  BY TypeInit, <1>1, PTL DEF Spec

-----------------------------------------------------------------------------
(* The requests of this session are the user's *)

LEMMA OwnStep ==
  ASSUME TypeOK, Own, [Next]_vars
  PROVE  Own'
<1> USE DEF Own
<1>0. Nil \notin Users /\ TypeOK'
  BY ConstantsAssumption, TypeStep
<1>1. CASE Launch
  <2>1. userID' \in {userID, Nil} /\ UNCHANGED <<comicLike, everLiked>>
    BY <1>1 DEF Launch
  <2>2. \A v \in Users : Lists(v)' > 0 => v = userID'
    BY <1>1, LaunchCounts
  <2>3. \A c \in Comics : ~(Fetches(c)' > 0)
    BY <1>1, LaunchCounts
  <2> QED  BY <2>1, <2>2, <2>3
<1>2. CASE Logout
  <2>1. UNCHANGED <<comicLike, everLiked>>
    BY <1>2 DEF Logout
  <2>2. /\ \A v \in Users : ~(Lists(v)' > 0)
        /\ \A c \in Comics : ~(Fetches(c)' > 0)
    BY <1>2, LogoutCounts
  <2> QED  BY <2>1, <2>2
<1>3. CASE CancelLogin
  BY <1>3, CountsKept DEF CancelLogin, history
<1>4. ASSUME NEW u \in Users, Login(u) PROVE Own'
  <2>1. userID' = u /\ UNCHANGED <<comicLike, everLiked>> /\ userID \in {Nil, u}
    BY <1>4 DEF Login
  <2> QED  BY <1>0, <1>4, <2>1, LoginCounts
<1>5. ASSUME NEW u \in Users, SignUp(u) PROVE Own'
  <2>1. userID = Nil /\ UNCHANGED <<comicLike, everLiked, net>>
    BY <1>5 DEF SignUp, history
  <2> QED  BY <1>0, <1>5, <2>1, CountsKept
<1>6. ASSUME NEW u \in Users, NEW b \in BOOLEAN, ListArrives(u, b) PROVE Own'
  <2>1. UNCHANGED <<userID, comicLike, everLiked>>
    BY <1>6 DEF ListArrives, history
  <2>2. \A v \in Users : Lists(v)' > 0 => Lists(v) > 0
    BY <1>6, CountsTyped, ListArrivesCounts
  <2>3. \A c \in Comics : Fetches(c)' > 0 => Fetches(c) > 0 \/ (~b /\ c \in comicLike[u])
    BY <1>6, ListArrivesCounts
  <2>4. ~b => u = userID
    <3>1. ~b => Lists(u) > 0
      BY <1>6, ListArrivesCounts
    <3> QED  BY <3>1
  <2> QED  BY <1>0, <2>1, <2>2, <2>3, <2>4
<1>7. ASSUME NEW c \in Comics, NEW b \in BOOLEAN, RowArrives(c, b) PROVE Own'
  <2>1. UNCHANGED <<userID, comicLike, everLiked>>
    BY <1>7 DEF RowArrives
  <2>2. \A e \in Comics : Fetches(e)' > 0 => Fetches(e) > 0
    BY <1>7, CountsTyped, RowArrivesCounts
  <2> QED  BY <1>7, <2>1, <2>2, RowArrivesCounts
<1>8. ASSUME NEW r \in Requests, RequestFails(r) PROVE Own'
  <2>1. UNCHANGED <<userID, comicLike, everLiked>>
    BY <1>8 DEF RequestFails
  <2>2. /\ \A v \in Users : Lists(v) \in Nat /\ Lists(v)' \in Nat
        /\ \A c \in Comics : Fetches(c) \in Nat /\ Fetches(c)' \in Nat
    BY <1>0, CountsTyped, SessionRequests DEF TypeOK, Lists, Fetches
  <2>3. /\ \A v \in Users : Lists(v)' > 0 => Lists(v) > 0
        /\ \A c \in Comics : Fetches(c)' > 0 => Fetches(c) > 0
    BY <1>8, <2>2, RequestFailsCounts
  <2> QED  BY <2>1, <2>3
<1>9. ASSUME NEW c \in Comics, OpenInfo(c) PROVE Own'
  BY <1>9, CountsKept DEF OpenInfo
<1>10. ASSUME NEW c \in Comics, ReviewArrives(c) PROVE Own'
  BY <1>10, CountsKept DEF ReviewArrives
<1>11. CASE Back
  BY <1>11, CountsKept DEF Back, history
<1>12. CASE Like
  <2>1. /\ userID' = userID /\ userID \in Users /\ comicId \in Comics
        /\ comicLike' = [comicLike EXCEPT ![userID] = @ \cup {comicId}]
        /\ everLiked' = [everLiked EXCEPT ![userID] = @ \cup {comicId}]
    BY <1>12, LikeCounts DEF Like, TypeOK
  <2>2. \A u \in Users : comicLike'[u] \subseteq everLiked'[u]
    BY <2>1 DEF TypeOK
  <2>3. comicId \in everLiked'[userID] /\ everLiked[userID] \subseteq everLiked'[userID]
    BY <2>1 DEF TypeOK
  <2> QED  BY <1>0, <1>12, <2>1, <2>2, <2>3, LikeCounts
<1>13. CASE Unlike
  <2>1. /\ userID' = userID /\ userID \in Users
        /\ comicLike' = [comicLike EXCEPT ![userID] = @ \ {comicId}]
        /\ everLiked' = everLiked /\ net' = net
    BY <1>13 DEF Unlike, Unliked, TypeOK
  <2>2. \A u \in Users : comicLike'[u] \subseteq everLiked'[u]
    BY <2>1 DEF TypeOK
  <2> QED  BY <2>1, <2>2, CountsKept
<1>14. CASE UNCHANGED vars
  BY <1>14, CountsKept DEF vars, history
<1> QED  BY <1>1, <1>2, <1>3, <1>4, <1>5, <1>6, <1>7, <1>8, <1>9, <1>10, <1>11, <1>12, <1>13, <1>14 DEF Next

-----------------------------------------------------------------------------
(* The shelf holds only comics the user liked *)

LEMMA OwnLikesStep ==
  ASSUME TypeOK, Own, OwnLikesOnly, [Next]_vars
  PROVE  OwnLikesOnly'
<1> USE DEF OwnLikesOnly
<1>0. Nil \notin Users
  BY ConstantsAssumption
<1>1. CASE Launch \/ Logout
  <2>1. listLike' = <<>>
    BY <1>1 DEF Launch, Logout
  <2>2. Rows' = {}
    BY <2>1 DEF Rows
  <2> QED  BY <2>2
<1>2. ASSUME UNCHANGED <<userID, listLike, everLiked, overtaken>> PROVE OwnLikesOnly'
  BY <1>2, RowsKept
<1>3. CASE CancelLogin \/ Back
  BY <1>2, <1>3 DEF CancelLogin, Back, history
<1>4. ASSUME NEW u \in Users, Login(u) PROVE OwnLikesOnly'
  <2>1. UNCHANGED <<listLike, everLiked, overtaken>> /\ userID \in {Nil, u} /\ userID' = u
    BY <1>4 DEF Login
  <2> QED  BY <1>0, <2>1, RowsKept
<1>5. ASSUME NEW u \in Users, SignUp(u) PROVE OwnLikesOnly'
  <2>1. UNCHANGED <<listLike, everLiked, overtaken>> /\ userID = Nil
    BY <1>5 DEF SignUp, history
  <2> QED  BY <1>0, <2>1, RowsKept
<1>6. ASSUME NEW u \in Users, NEW b \in BOOLEAN, ListArrives(u, b) PROVE OwnLikesOnly'
  BY <1>2, <1>6 DEF ListArrives, history
<1>7. ASSUME NEW c \in Comics, NEW b \in BOOLEAN, RowArrives(c, b) PROVE OwnLikesOnly'
  <2>1. UNCHANGED <<userID, everLiked>> /\ overtaken' = (overtaken \/ b)
    BY <1>7 DEF RowArrives
  <2>2. Rows' = Rows \cup {c}
    BY <1>7, RowArrivesRows
  <2>3. CASE b = TRUE
    BY <2>1, <2>3
  <2>4. CASE b = FALSE
    <3>1. userID # Nil /\ c \in everLiked[userID]
      <4>1. Fetches(c) > 0
        BY <1>7, <2>4, RowArrivesCounts
      <4> QED  BY <4>1 DEF Own
    <3> QED  BY <2>1, <2>2, <2>4, <3>1
  <2> QED  BY <2>3, <2>4
<1>8. ASSUME NEW r \in Requests, RequestFails(r) PROVE OwnLikesOnly'
  BY <1>2, <1>8 DEF RequestFails
<1>9. ASSUME NEW c \in Comics, OpenInfo(c) \/ ReviewArrives(c) PROVE OwnLikesOnly'
  BY <1>2, <1>9 DEF OpenInfo, ReviewArrives
<1>10. CASE Like
  <2>1. /\ UNCHANGED <<userID, listLike, overtaken>> /\ userID \in Users
        /\ everLiked' = [everLiked EXCEPT ![userID] = @ \cup {comicId}]
    BY <1>10 DEF Like, TypeOK
  <2>2. everLiked[userID] \subseteq everLiked'[userID]
    BY <2>1 DEF TypeOK
  <2> QED  BY <1>0, <2>1, <2>2, RowsKept
<1>11. CASE Unlike
  <2>1. UNCHANGED <<userID, everLiked, overtaken>> /\ Rows' \subseteq Rows
    BY <1>11, UnlikeRows DEF Unlike, Unliked
  <2> QED  BY <2>1
<1>12. CASE UNCHANGED vars
  BY <1>2, <1>12 DEF vars, history
<1> QED  BY <1>1, <1>3, <1>4, <1>5, <1>6, <1>7, <1>8, <1>9, <1>10, <1>11, <1>12 DEF Next

-----------------------------------------------------------------------------
(* A liked comic that is not on the shelf is still awaited *)

LEMMA ListedStep ==
  ASSUME TypeOK, Own, Listed, [Next]_vars
  PROVE  Listed'
<1> USE DEF Listed
<1>0. Nil \notin Users
  BY ConstantsAssumption
<1>1. CASE Launch
  <2> SUFFICES ASSUME NEW u \in Users, userID' = u
               PROVE  Listed'
    BY <1>1 DEF Launch, TypeOK
  <2>1. Lists(u)' = 1
    BY <1>1, LaunchCounts
  <2>2. Lists(userID)' > 0
    BY <2>1 DEF Lists
  <2> QED  BY <2>2
<1>2. CASE Logout
  BY <1>2 DEF Logout
<1>3. ASSUME UNCHANGED <<userID, listLike, net, comicLike, failed>> PROVE Listed'
  <2>1. Rows' = Rows
    BY <1>3, RowsKept
  <2>2. Lists(userID)' = Lists(userID) /\ \A c : Fetches(c)' = Fetches(c)
    BY <1>3 DEF Lists, Fetches
  <2> QED  BY <1>3, <2>1, <2>2
<1>4. CASE CancelLogin \/ Back
  BY <1>3, <1>4 DEF CancelLogin, Back, history
<1>5. ASSUME NEW u \in Users, Login(u) PROVE Listed'
  <2>1. UNCHANGED <<listLike, comicLike, failed>> /\ userID' = u /\ userID \in {Nil, u}
    BY <1>5 DEF Login
  <2>2. Lists(u)' = Lists(u) + 1 /\ Lists(u) \in Nat
    BY <1>5, LoginCounts, CountsTyped
  <2>3. Lists(u)' > 0 /\ Lists(userID)' = Lists(u)'
    BY <2>1, <2>2 DEF Lists
  <2> QED  BY <2>3
<1>6. ASSUME NEW u \in Users, SignUp(u) PROVE Listed'
  <2>1. comicLike'[u] = {} /\ userID' = u
    BY <1>6 DEF SignUp, Own
  <2> QED  BY <2>1
<1>7. ASSUME NEW u \in Users, NEW b \in BOOLEAN, ListArrives(u, b) PROVE Listed'
  <2> SUFFICES ASSUME userID' # Nil, ~failed', NEW c \in comicLike'[userID']
               PROVE  c \in Rows' \/ Fetches(c)' > 0 \/ Lists(userID)' > 0
    OBVIOUS
  <2>1. UNCHANGED <<userID, listLike, comicLike, failed>>
    BY <1>7 DEF ListArrives, history
  <2>2. userID \in Users /\ c \in comicLike[userID] /\ c \in Comics /\ Rows' = Rows
    BY <2>1, RowsKept DEF TypeOK
  <2>3. Fetches(c) \in Nat /\ Lists(userID) \in Nat
    BY <2>2, CountsTyped
  <2>4. CASE ~b
    <3>1. Lists(u) > 0
      BY <1>7, <2>4, ListArrivesCounts
    <3>2. u = userID
      BY <3>1 DEF Own
    <3>3. Fetches(c)' = Fetches(c) + 1
      BY <1>7, <2>2, <2>4, <3>2, ListArrivesCounts
    <3> QED  BY <2>3, <3>3
  <2>5. CASE b
    <3>1. Lists(userID)' = Lists(userID)
      <4>1. \A v \in Users : Lists(v)' = Lists(v)
        BY <1>7, <2>5, ListArrivesCounts
      <4> QED  BY <2>1, <2>2, <4>1 DEF Lists
    <3>2. Fetches(c)' = Fetches(c)
      BY <1>7, <2>2, <2>5, ListArrivesCounts
    <3> QED  BY <2>1, <2>2, <3>1, <3>2
  <2> QED  BY <2>4, <2>5
<1>8. ASSUME NEW c \in Comics, NEW b \in BOOLEAN, RowArrives(c, b) PROVE Listed'
  <2>1. UNCHANGED <<userID, comicLike, failed>>
    BY <1>8 DEF RowArrives
  <2>2. Rows' = Rows \cup {c}
    BY <1>8, RowArrivesRows
  <2>3. userID # Nil => userID \in Users /\ comicLike[userID] \subseteq Comics
    BY DEF TypeOK
  <2>4. userID # Nil => Lists(userID)' = Lists(userID)
    BY <1>8, <2>1, <2>3, RowArrivesCounts DEF Lists
  <2>5. \A e \in Comics : e # c => Fetches(e)' = Fetches(e)
    BY <1>8, RowArrivesCounts
  <2> QED  BY <2>1, <2>2, <2>3, <2>4, <2>5
<1>9. ASSUME NEW r \in Requests, RequestFails(r) PROVE Listed'
  <2> SUFFICES ASSUME userID' # Nil, ~failed' PROVE Listed'
    OBVIOUS
  <2>1. UNCHANGED <<userID, listLike, comicLike>> /\ ~failed /\ r.stale
    BY <1>9 DEF RequestFails
  <2>2. userID \in Users /\ comicLike[userID] \subseteq Comics /\ Rows' = Rows
    BY <2>1, RowsKept DEF TypeOK
  <2>3. Lists(userID)' = Lists(userID)
    <3>1. \A v \in Users : Lists(v)' = Lists(v)
      BY <1>9, <2>1, RequestFailsCounts
    <3> QED  BY <2>1, <2>2, <3>1 DEF Lists
  <2>4. \A e \in Comics : Fetches(e)' = Fetches(e)
    BY <1>9, <2>1, RequestFailsCounts
  <2> QED  BY <2>1, <2>2, <2>3, <2>4
<1>10. ASSUME NEW c \in Comics, OpenInfo(c) \/ ReviewArrives(c) PROVE Listed'
  BY <1>3, <1>10 DEF OpenInfo, ReviewArrives
<1>11. CASE Like
  <2>1. /\ UNCHANGED <<userID, listLike, failed>> /\ userID \in Users
        /\ comicLike' = [comicLike EXCEPT ![userID] = @ \cup {comicId}]
    BY <1>11 DEF Like, TypeOK
  <2>2. comicId \in Comics /\ comicLike'[userID] = comicLike[userID] \cup {comicId}
    BY <1>11, <2>1, LikeCounts DEF TypeOK
  <2>3. Rows' = Rows /\ comicLike[userID] \subseteq Comics
    BY <2>1, RowsKept DEF TypeOK
  <2>4. Lists(userID)' = Lists(userID)
    <3>1. \A v \in Users : Lists(v)' = Lists(v)
      BY <1>11, LikeCounts
    <3> QED  BY <2>1, <3>1 DEF Lists
  <2>5. Fetches(comicId)' > 0 /\ \A e \in Comics : e # comicId => Fetches(e)' = Fetches(e)
    <3>1. Fetches(comicId)' = Fetches(comicId) + 1 /\ Fetches(comicId) \in Nat
      BY <1>11, <2>2, LikeCounts, CountsTyped
    <3> QED  BY <1>11, <3>1, LikeCounts
  <2>6. ASSUME NEW c \in comicLike'[userID], ~failed
        PROVE  c \in Rows' \/ Fetches(c)' > 0 \/ Lists(userID)' > 0
    <3>1. CASE c = comicId
      <4>1. Fetches(c)' = Fetches(comicId)'
        BY <1>11, <3>1 DEF Like, Fetches
      <4> QED  BY <2>5, <4>1
    <3>2. CASE c # comicId
      BY <1>0, <2>1, <2>2, <2>3, <2>4, <2>5, <2>6, <3>2
    <3> QED  BY <3>1, <3>2
  <2> QED  BY <2>1, <2>6
<1>12. CASE Unlike
  <2>1. /\ UNCHANGED <<userID, net, failed>> /\ userID \in Users
        /\ comicLike' = [comicLike EXCEPT ![userID] = @ \ {comicId}]
    BY <1>12 DEF Unlike, Unliked, TypeOK
  <2>2. comicLike'[userID] = comicLike[userID] \ {comicId}
    BY <2>1 DEF TypeOK
  <2>3. Rows \ {comicId} \subseteq Rows'
    BY <1>12, UnlikeRows
  <2>4. Lists(userID)' = Lists(userID) /\ \A c : Fetches(c)' = Fetches(c)
    BY <2>1 DEF Lists, Fetches
  <2> QED  BY <2>1, <2>2, <2>3, <2>4
<1>13. CASE UNCHANGED vars
  BY <1>3, <1>13 DEF vars, history
<1> QED  BY <1>1, <1>2, <1>4, <1>5, <1>6, <1>7, <1>8, <1>9, <1>10, <1>11, <1>12, <1>13 DEF Next

-----------------------------------------------------------------------------
(* Who waits for the answers sees each liked comic once *)

Careful == calm /\ ~overtaken /\ ~failed

LEMMA StepHistory ==
  ASSUME [Next]_vars, ~Launch, ~Logout
  PROVE  \/ UNCHANGED <<failed, overtaken>> /\ (calm' => calm)
         \/ calm' = calm /\ \E c \in Comics, b \in BOOLEAN : RowArrives(c, b)
         \/ calm' = calm /\ \E r \in Requests : RequestFails(r)
<1>1. CASE CancelLogin
  BY <1>1 DEF CancelLogin, history
<1>2. CASE Back
  BY <1>2 DEF Back, history
<1>3. ASSUME NEW u \in Users, Login(u)
      PROVE  UNCHANGED <<failed, overtaken>> /\ (calm' => calm)
  BY <1>3, Zenon DEF Login
<1>4. ASSUME NEW u \in Users, SignUp(u)
      PROVE  UNCHANGED <<failed, overtaken>> /\ (calm' => calm)
  BY <1>4 DEF SignUp, history
<1>5. ASSUME NEW u \in Users, NEW b \in BOOLEAN, ListArrives(u, b)
      PROVE  UNCHANGED <<failed, overtaken>> /\ (calm' => calm)
  BY <1>5 DEF ListArrives, history
<1>6. ASSUME NEW c \in Comics, OpenInfo(c)
      PROVE  UNCHANGED <<failed, overtaken>> /\ (calm' => calm)
  BY <1>6, Zenon DEF OpenInfo, Acted
<1>7. ASSUME NEW c \in Comics, ReviewArrives(c)
      PROVE  UNCHANGED <<failed, overtaken>> /\ (calm' => calm)
  BY <1>7, Zenon DEF ReviewArrives
<1>8. CASE Like
  BY <1>8, Zenon DEF Like, Acted
<1>9. CASE Unlike
  BY <1>9, Zenon DEF Unlike, Unliked, Acted
<1>10. ASSUME NEW c \in Comics, NEW b \in BOOLEAN, RowArrives(c, b) PROVE calm' = calm
  BY <1>10 DEF RowArrives
<1>11. ASSUME NEW r \in Requests, RequestFails(r) PROVE calm' = calm
  BY <1>11 DEF RequestFails
<1>12. CASE UNCHANGED vars
  BY <1>12 DEF vars, history
<1> QED  BY <1>1, <1>2, <1>3, <1>4, <1>5, <1>6, <1>7, <1>8, <1>9, <1>10, <1>11, <1>12 DEF Next

LEMMA CarefulBefore ==
  ASSUME TypeOK, [Next]_vars, Careful', ~Launch, ~Logout
  PROVE  Careful
<1>1. CASE calm' = calm
  <2>1. CASE UNCHANGED <<failed, overtaken>>
    BY <1>1, <2>1 DEF Careful
  <2>2. ASSUME NEW c \in Comics, NEW b \in BOOLEAN, RowArrives(c, b) PROVE Careful
    BY <1>1, <2>2 DEF Careful, RowArrives, TypeOK
  <2>3. ASSUME NEW r \in Requests, RequestFails(r) PROVE Careful
    BY <1>1, <2>3 DEF Careful, RequestFails, TypeOK
  <2> QED  BY <1>1, <2>1, <2>2, <2>3, StepHistory
<1>2. CASE calm' # calm
  <2>1. UNCHANGED <<failed, overtaken>> /\ (calm' => calm)
    BY <1>2, StepHistory
  <2> QED  BY <2>1 DEF Careful
<1> QED  BY <1>1, <1>2

(* Once everything has arrived, the shelf is what the server has. *)
LEMMA RestedShelf ==
  ASSUME TypeOK, ShelfExact, Rested
  PROVE  /\ userID = Nil => Rows = {}
         /\ userID # Nil => Rows = comicLike[userID] /\ NoRowTwice
<1>1. ASSUME userID = Nil PROVE Rows = {}
  BY <1>1, NoRows DEF ShelfExact
<1>2. ASSUME userID # Nil PROVE Rows = comicLike[userID] /\ NoRowTwice
  <2>1. userID \in Users /\ Lists(userID) = 0 /\ \A c \in Comics : Fetches(c) = 0
    BY <1>2, AwaitedCounts DEF TypeOK
  <2>2. NoRowTwice /\ \A c \in Comics : ComicExact(c)
    BY <1>2, <2>1 DEF ShelfExact
  <2>3. \A c \in Comics : c \in comicLike[userID] <=> c \in Rows
    BY <2>1, <2>2 DEF ComicExact
  <2>4. Rows \subseteq Comics /\ comicLike[userID] \subseteq Comics
    BY <2>1 DEF TypeOK, Rows
  <2> QED  BY <2>2, <2>3, <2>4
<1> QED  BY <1>1, <1>2

LEMMA TagRight ==
  ASSUME TypeOK, ShelfExact, Rested, NEW c
  PROVE  TagOf(c) = 1 <=> userID # Nil /\ c \in comicLike[userID]
BY RestedShelf DEF TagOf

LEMMA OneTag ==
  ASSUME TypeOK, Len(tags) <= 1, tags # <<>>
  PROVE  /\ Front(tags) = <<>>
         /\ \A t : Append(Front(tags), t) = <<t>>
<1>1. Len(tags) = 1
  <2>1. tags \in Seq({0, 1})
    BY DEF TypeOK
  <2>2. Len(tags) # 0
    BY <2>1, EmptySeq
  <2>3. Len(tags) \in Nat
    BY <2>1
  <2> DEFINE n == Len(tags)
  <2>4. n \in Nat /\ n # 0 /\ n <= 1
    BY <2>2, <2>3
  <2> HIDE DEF n
  <2>5. n = 1
    BY <2>4
  <2> QED  BY <2>5 DEF n
<1>2. Len(tags) - 1 = 0
  BY <1>1
<1>3. Front(tags) = <<>>
  BY <1>1, <1>2 DEF TypeOK, Front
<1> QED  BY <1>3

LEMMA ViewStep ==
  ASSUME TypeOK, Own, Exact, [Next]_vars, Careful'
  PROVE  ViewExact'
<1>0. Nil \notin Users
  BY ConstantsAssumption
<1>1. ASSUME tags' = <<>> PROVE ViewExact'
  BY <1>1 DEF ViewExact
<1>2. CASE Launch \/ Logout
  BY <1>1, <1>2 DEF Launch, Logout
<1> SUFFICES ASSUME ~Launch, ~Logout PROVE ViewExact'
  BY <1>2
<1>3. ViewExact /\ ShelfExact
  BY CarefulBefore DEF Exact, Careful
<1>4. ASSUME UNCHANGED <<userID, comicId, tags, comicLike>> PROVE ViewExact'
  BY <1>3, <1>4 DEF ViewExact, Top
<1>5. ASSUME NEW t \in {0, 1}, tags' = <<t>>,
             t = 1 <=> userID' # Nil /\ comicId' \in comicLike'[userID']
      PROVE  ViewExact'
  <2>1. Len(tags') = 1 /\ Top' = t
    BY <1>5 DEF Top
  <2> QED  BY <1>5, <2>1 DEF ViewExact
<1>6. CASE CancelLogin
  BY <1>4, <1>6 DEF CancelLogin
<1>7. ASSUME NEW u \in Users, Login(u) PROVE ViewExact'
  BY <1>1, <1>7 DEF Login, Careful
<1>8. ASSUME NEW u \in Users, SignUp(u) PROVE ViewExact'
  <2>1. comicLike'[u] = {} /\ userID' = u /\ userID = Nil /\ UNCHANGED <<tags, comicId>>
    BY <1>8 DEF SignUp, Own
  <2> QED  BY <1>3, <2>1 DEF ViewExact, Top
<1>9. ASSUME NEW u \in Users, NEW b \in BOOLEAN, ListArrives(u, b) PROVE ViewExact'
  BY <1>4, <1>9 DEF ListArrives
<1>10. ASSUME NEW c \in Comics, NEW b \in BOOLEAN, RowArrives(c, b) PROVE ViewExact'
  BY <1>4, <1>10 DEF RowArrives
<1>11. ASSUME NEW r \in Requests, RequestFails(r) PROVE ViewExact'
  BY <1>4, <1>11 DEF RequestFails
<1>12. ASSUME NEW c \in Comics, OpenInfo(c) PROVE ViewExact'
  <2>1. Rested /\ tags' = <<TagOf(c)>> /\ comicId' = c /\ UNCHANGED <<userID, comicLike>>
    BY <1>12 DEF OpenInfo, Acted, Careful
  <2>2. TagOf(c) = 1 <=> userID # Nil /\ c \in comicLike[userID]
    BY <1>3, <2>1, TagRight
  <2> QED  BY <1>5, <2>1, <2>2, TagTyped
<1>13. ASSUME NEW c \in Comics, ReviewArrives(c) PROVE ViewExact'
  <2>1. Rested /\ tags = <<>> /\ comicId' = c /\ UNCHANGED <<userID, comicLike>>
    BY <1>13 DEF ReviewArrives, Careful
  <2>2. TagOf(c) = 1 <=> userID # Nil /\ c \in comicLike[userID]
    BY <1>3, <2>1, TagRight
  <2>3. CASE tags' = Append(tags, TagOf(c))
    <3>1. tags' = <<TagOf(c)>>
      BY <2>1, <2>3
    <3> QED  BY <1>5, <2>1, <2>2, <3>1, TagTyped
  <2>4. CASE UNCHANGED tags
    BY <1>1, <2>1, <2>4
  <2> QED  BY <1>13, <2>3, <2>4 DEF ReviewArrives
<1>14. CASE Back
  <2>1. tags' = <<>>
    BY <1>3, <1>14, OneTag DEF Back, ViewExact
  <2> QED  BY <1>1, <2>1
<1>15. CASE Like
  <2>1. /\ UNCHANGED <<userID, comicId>> /\ userID \in Users
        /\ comicLike' = [comicLike EXCEPT ![userID] = @ \cup {comicId}]
    BY <1>15 DEF Like, TypeOK
  <2>2. comicId \in comicLike'[userID]
    BY <2>1 DEF TypeOK
  <2>3. tags' = <<1>>
    BY <1>3, <1>15, OneTag DEF Like, ViewExact
  <2> QED  BY <1>0, <1>5, <2>1, <2>2, <2>3
<1>16. CASE Unlike
  <2>1. /\ UNCHANGED <<userID, comicId>> /\ userID \in Users
        /\ comicLike' = [comicLike EXCEPT ![userID] = @ \ {comicId}]
    BY <1>16 DEF Unlike, Unliked, TypeOK
  <2>2. comicId \notin comicLike'[userID]
    BY <2>1 DEF TypeOK
  <2>3. tags' = <<0>>
    BY <1>3, <1>16, OneTag DEF Unlike, Unliked, ViewExact
  <2> QED  BY <1>5, <2>1, <2>2, <2>3
<1>17. CASE UNCHANGED vars
  BY <1>4, <1>17 DEF vars
<1> QED  BY <1>6, <1>7, <1>8, <1>9, <1>10, <1>11, <1>12, <1>13, <1>14, <1>15, <1>16, <1>17 DEF Next

LEMMA ShelfStep ==
  ASSUME TypeOK, Own, Exact, [Next]_vars, Careful'
  PROVE  ShelfExact'
<1>0. Nil \notin Users
  BY ConstantsAssumption
<1>1. CASE Launch
  <2>1. listLike' = <<>> /\ \A c \in Comics : Fetches(c)' = 0
    BY <1>1, LaunchCounts DEF Launch
  <2>2. CASE userID' = Nil
    BY <2>1, <2>2 DEF ShelfExact
  <2>3. ASSUME NEW u \in Users, userID' = u PROVE ShelfExact'
    <3>1. Lists(u)' = 1
      BY <1>1, <2>3, LaunchCounts
    <3>2. Lists(userID)' = 1
      BY <2>3, <3>1 DEF Lists
    <3> QED  BY <1>0, <2>1, <2>3, <3>2 DEF ShelfExact
  <2> QED  BY <1>1, <2>2, <2>3 DEF Launch, TypeOK
<1>2. CASE Logout
  BY <1>2 DEF Logout, ShelfExact
<1> SUFFICES ASSUME ~Launch, ~Logout PROVE ShelfExact'
  BY <1>1, <1>2
<1>3. ViewExact /\ ShelfExact
  BY CarefulBefore DEF Exact, Careful
<1>4. ASSUME UNCHANGED <<userID, listLike, comicLike>>,
             \A u \in Users : Lists(u)' = Lists(u), \A c \in Comics : Fetches(c)' = Fetches(c)
      PROVE  ShelfExact'
  <2>1. userID # Nil => userID \in Users /\ Lists(userID)' = Lists(userID)
    BY <1>4 DEF TypeOK, Lists
  <2>2. Rows' = Rows /\ NoRowTwice' = NoRowTwice
    BY <1>4, RowsKept
  <2>3. \A c \in Comics : ComicExact(c) => ComicExact(c)'
    BY <1>4, <2>2 DEF ComicExact
  <2> QED  BY <1>3, <1>4, <2>1, <2>2, <2>3 DEF ShelfExact
<1>5. ASSUME UNCHANGED <<userID, listLike, net, comicLike>> PROVE ShelfExact'
  BY <1>4, <1>5, CountsKept
<1>6. CASE CancelLogin \/ Back
  BY <1>5, <1>6 DEF CancelLogin, Back
<1>7. ASSUME NEW u \in Users, Login(u) PROVE ShelfExact'
  <2>1. userID = Nil /\ userID' = u /\ listLike' = listLike
    BY <1>7 DEF Login, Careful
  <2>2. Lists(u) = 0 /\ \A c \in Comics : Fetches(c) = 0
    BY <1>0, <2>1, CountsTyped DEF Own
  <2>3. Lists(u)' = 1 /\ \A c \in Comics : Fetches(c)' = 0
    BY <1>7, <2>2, LoginCounts
  <2>4. Lists(userID)' = 1
    BY <2>1, <2>3 DEF Lists
  <2> QED  BY <1>0, <1>3, <2>1, <2>3, <2>4 DEF ShelfExact
<1>8. ASSUME NEW u \in Users, SignUp(u) PROVE ShelfExact'
  <2>1. /\ userID = Nil /\ userID' = u /\ UNCHANGED <<listLike, net>>
        /\ comicLike'[u] = {}
    BY <1>8 DEF SignUp, Own
  <2>2. Lists(u) = 0 /\ \A c \in Comics : Fetches(c) = 0
    BY <1>0, <2>1, CountsTyped DEF Own
  <2>3. Lists(userID)' = 0 /\ \A c \in Comics : Fetches(c)' = 0
    BY <2>1, <2>2 DEF Lists, Fetches
  <2>4. listLike' = <<>>
    BY <1>3, <2>1 DEF ShelfExact
  <2>5. Rows' = {} /\ NoRowTwice'
    BY <2>4 DEF Rows, NoRowTwice
  <2>6. \A c \in Comics : ComicExact(c)'
    BY <2>1, <2>3, <2>5 DEF ComicExact
  <2> QED  BY <1>0, <2>1, <2>3, <2>5, <2>6 DEF ShelfExact
<1>9. ASSUME NEW u \in Users, NEW b \in BOOLEAN, ListArrives(u, b) PROVE ShelfExact'
  <2>1. UNCHANGED <<userID, listLike, comicLike>>
    BY <1>9 DEF ListArrives
  <2>2. CASE b
    BY <1>4, <1>9, <2>1, <2>2, ListArrivesCounts
  <2>3. CASE ~b
    <3>1. Lists(u) > 0 /\ Lists(u) \in Nat /\ Lists(u)' = Lists(u) - 1
      BY <1>9, <2>3, ListArrivesCounts, CountsTyped
    <3>2. u = userID
      BY <3>1 DEF Own
    <3>3. Lists(u) = 1 /\ listLike = <<>> /\ \A c \in Comics : Fetches(c) = 0
      BY <1>0, <1>3, <3>1, <3>2 DEF ShelfExact
    <3>4. Lists(userID)' = 0
      BY <2>1, <3>1, <3>2, <3>3 DEF Lists
    <3>5. Rows' = {} /\ NoRowTwice'
      BY <2>1, <3>3 DEF Rows, NoRowTwice
    <3>6. ASSUME NEW c \in Comics PROVE ComicExact(c)'
      <4>1. Fetches(c)' = IF c \in comicLike[u] THEN 1 ELSE 0
        BY <1>9, <2>3, <3>3, ListArrivesCounts
      <4> QED  BY <2>1, <3>2, <3>5, <4>1 DEF ComicExact
    <3> QED  BY <1>0, <2>1, <3>2, <3>4, <3>5, <3>6 DEF ShelfExact
  <2> QED  BY <2>2, <2>3
<1>10. ASSUME NEW c \in Comics, NEW b \in BOOLEAN, RowArrives(c, b) PROVE ShelfExact'
  <2>1. UNCHANGED <<userID, comicLike>> /\ ~b
    BY <1>10 DEF RowArrives, Careful
  <2>2. Fetches(c) > 0 /\ Fetches(c) \in Nat /\ Fetches(c)' = Fetches(c) - 1
    BY <1>10, <2>1, RowArrivesCounts, CountsTyped
  <2>3. userID \in Users /\ userID # Nil
    BY <2>2 DEF Own, TypeOK
  <2>4. Lists(userID) = 0
    <3>1. Lists(userID) \in Nat
      BY <2>3, CountsTyped
    <3>2. Lists(userID) # 1
      BY <1>3, <2>2, <2>3 DEF ShelfExact
    <3> QED  BY <1>3, <2>3, <3>1, <3>2 DEF ShelfExact
  <2>5. NoRowTwice /\ \A e \in Comics : ComicExact(e)
    BY <1>3, <2>3, <2>4 DEF ShelfExact
  <2>6. Fetches(c) = 1 /\ c \notin Rows /\ c \in comicLike[userID]
    BY <2>2, <2>5 DEF ComicExact
  <2>7. Rows' = Rows \cup {c} /\ NoRowTwice'
    BY <1>10, <2>5, <2>6, RowArrivesRows
  <2>8. Lists(userID)' = 0
    <3>1. \A v \in Users : Lists(v)' = Lists(v)
      BY <1>10, RowArrivesCounts
    <3> QED  BY <2>1, <2>3, <2>4, <3>1 DEF Lists
  <2>9. ASSUME NEW e \in Comics PROVE ComicExact(e)'
    <3>1. CASE e = c
      BY <2>1, <2>2, <2>6, <2>7, <3>1 DEF ComicExact
    <3>2. CASE e # c
      <4>1. Fetches(e)' = Fetches(e)
        BY <1>10, <3>2, RowArrivesCounts
      <4> QED  BY <2>1, <2>5, <2>7, <3>2, <4>1 DEF ComicExact
    <3> QED  BY <3>1, <3>2
  <2> QED  BY <2>1, <2>3, <2>7, <2>8, <2>9 DEF ShelfExact
<1>11. ASSUME NEW r \in Requests, RequestFails(r) PROVE ShelfExact'
  <2>1. UNCHANGED <<userID, listLike, comicLike>> /\ r.stale
    BY <1>11 DEF RequestFails, Careful
  <2> QED  BY <1>4, <1>11, <2>1, RequestFailsCounts
<1>12. ASSUME NEW c \in Comics, OpenInfo(c) \/ ReviewArrives(c) PROVE ShelfExact'
  BY <1>5, <1>12 DEF OpenInfo, ReviewArrives
<1>13. CASE Like \/ Unlike
  <2>1. Rested /\ userID' = userID /\ userID \in Users /\ tags # <<>> /\ comicId \in Comics
    BY <1>13 DEF Like, Unlike, Unliked, Acted, Careful, TypeOK
  <2>2. Rows = comicLike[userID] /\ NoRowTwice
    BY <1>0, <1>3, <2>1, RestedShelf
  <2>3. /\ \A u \in Users : Lists(u) = 0
        /\ \A c \in Comics : Fetches(c) = 0
    BY <2>1, AwaitedCounts
  <2>4. CASE Like
    <3>1. UNCHANGED listLike /\ comicLike' = [comicLike EXCEPT ![userID] = @ \cup {comicId}]
      BY <2>4 DEF Like
    <3>2. comicLike'[userID] = comicLike[userID] \cup {comicId}
      BY <2>1, <3>1 DEF TypeOK
    <3>3. comicId \notin Rows
      BY <1>3, <2>1, <2>2, <2>4 DEF Like, ViewExact
    <3>4. Rows' = Rows /\ NoRowTwice'
      BY <2>2, <3>1, RowsKept
    <3>5. Lists(userID)' = 0
      <4>1. \A v \in Users : Lists(v)' = Lists(v)
        BY <2>4, LikeCounts
      <4> QED  BY <2>1, <2>3, <4>1 DEF Lists
    <3>6. ASSUME NEW e \in Comics PROVE ComicExact(e)'
      <4>1. CASE e = comicId
        <5>1. Fetches(e)' = 1
          <6>1. Fetches(comicId)' = 1
            BY <2>1, <2>3, <2>4, LikeCounts
          <6> QED  BY <2>4, <4>1, <6>1 DEF Like, Fetches
        <5> QED  BY <2>1, <3>2, <3>3, <3>4, <4>1, <5>1 DEF ComicExact
      <4>2. CASE e # comicId
        <5>1. Fetches(e)' = 0
          BY <2>3, <2>4, <4>2, LikeCounts
        <5> QED  BY <2>1, <2>2, <3>2, <3>4, <4>2, <5>1 DEF ComicExact
      <4> QED  BY <4>1, <4>2
    <3> QED  BY <1>0, <2>1, <3>4, <3>5, <3>6 DEF ShelfExact
  <2>5. CASE Unlike
    <3>1. net' = net /\ comicLike' = [comicLike EXCEPT ![userID] = @ \ {comicId}]
      BY <2>5 DEF Unlike, Unliked
    <3>2. comicLike'[userID] = comicLike[userID] \ {comicId}
      BY <2>1, <3>1 DEF TypeOK
    <3>3. Rows' = Rows \ {comicId} /\ NoRowTwice'
      BY <2>2, <2>5, UnlikeRows
    <3>4. Lists(userID)' = 0 /\ \A c \in Comics : Fetches(c)' = 0
      BY <2>1, <2>3, <3>1 DEF Lists, Fetches
    <3>5. \A e \in Comics : ComicExact(e)'
      BY <2>1, <2>2, <3>2, <3>3, <3>4 DEF ComicExact
    <3> QED  BY <1>0, <2>1, <3>3, <3>4, <3>5 DEF ShelfExact
  <2> QED  BY <1>13, <2>4, <2>5
<1>14. CASE UNCHANGED vars
  BY <1>5, <1>14 DEF vars
<1> QED  BY <1>6, <1>7, <1>8, <1>9, <1>10, <1>11, <1>12, <1>13, <1>14 DEF Next

-----------------------------------------------------------------------------
(* The theorems *)

LEMMA InvInit == Init => Inv
<1> SUFFICES ASSUME Init PROVE Inv
  OBVIOUS
<1>1. TypeOK
  BY TypeInit
<1>2. userID = Nil /\ tags = <<>> /\ listLike = <<>>
  BY DEF Init
<1>3. /\ \A u \in Users : Lists(u) = 0 /\ comicLike[u] = {}
      /\ \A c \in Comics : Fetches(c) = 0
  BY SessionRequests DEF Init, Lists, Fetches
<1>4. Own
  BY <1>3 DEF Own
<1>5. OwnLikesOnly
  BY <1>2, NoRows DEF OwnLikesOnly
<1>6. Listed /\ Exact
  BY <1>2 DEF Listed, Exact, ViewExact, ShelfExact
<1> QED  BY <1>1, <1>4, <1>5, <1>6 DEF Inv

LEMMA InvStep == Inv /\ [Next]_vars => Inv'
<1> SUFFICES ASSUME Inv, [Next]_vars PROVE Inv'
  OBVIOUS
<1>1. TypeOK /\ Own /\ OwnLikesOnly /\ Listed /\ Exact
  BY DEF Inv
<1>2. TypeOK' /\ Own' /\ OwnLikesOnly' /\ Listed'
  BY <1>1, TypeStep, OwnStep, OwnLikesStep, ListedStep
<1>3. Careful' => ViewExact' /\ ShelfExact'
  BY <1>1, ViewStep, ShelfStep
<1>4. Exact'
  BY <1>3 DEF Exact, Careful
<1> QED  BY <1>2, <1>4 DEF Inv

LEMMA InvAlways == Spec => []Inv
BY InvInit, InvStep, PTL DEF Spec

(* Unless a row of an earlier session arrived late, the shelf shows only   *)
(* what this user liked: the answers that DownloadList and the Like button *)
(* still wait for are this user's.                                         *)
THEOREM OwnLikes == Spec => []OwnLikesOnly
<1>1. Inv => OwnLikesOnly
  BY DEF Inv
<1> QED  BY InvAlways, <1>1, PTL

(* When nothing is awaited and nothing failed, every comic the server has  *)
(* as liked is on the shelf, in whatever order taps and answers came.      *)
THEOREM LikesShown == Spec => []LikesListed
<1>1. Inv => LikesListed
  <2> SUFFICES ASSUME Inv, userID # Nil, ~failed, Rested
               PROVE  comicLike[userID] \subseteq Rows
    BY DEF LikesListed
  <2>1. TypeOK /\ Listed
    BY DEF Inv
  <2>2. userID \in Users /\ comicLike[userID] \subseteq Comics
    BY <2>1 DEF TypeOK
  <2>3. Lists(userID) = 0 /\ \A c \in Comics : Fetches(c) = 0
    BY <2>1, <2>2, AwaitedCounts
  <2> QED  BY <2>1, <2>2, <2>3 DEF Listed
<1> QED  BY InvAlways, <1>1, PTL

(* Who waits for each answer before the next tap sees each liked comic     *)
(* once and no other.                                                      *)
THEOREM LikesCounted == Spec => []LikesExact
<1>1. Inv => LikesExact
  <2> SUFFICES ASSUME Inv, Careful, userID # Nil, Rested
               PROVE  Rows = comicLike[userID] /\ Len(listLike) = Cardinality(Rows)
    BY DEF LikesExact, Careful
  <2>1. TypeOK /\ ShelfExact
    BY DEF Inv, Exact, Careful
  <2>2. Rows = comicLike[userID] /\ NoRowTwice
    BY <2>1, RestedShelf
  <2>3. listLike \in Seq(Comics) /\ Once(listLike) /\ Rows = RowsOf(listLike)
    BY <2>1, <2>2 DEF TypeOK, NoRowTwice, Once, Rows, RowsOf
  <2> QED  BY <2>2, <2>3, OnceCounts
<1> QED  BY InvAlways, <1>1, PTL
=============================================================================
