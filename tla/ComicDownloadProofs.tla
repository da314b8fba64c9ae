------------------------ MODULE ComicDownloadProofs ------------------------
(***************************************************************************)
(* Proofs about ComicDownload and ShelfView for every number of comics,    *)
(* views, sessions, chapters, images and chains of closures.               *)
(*                                                                         *)
(* The inductive invariant of the download is Inv.  It adds to the type    *)
(* invariant what the closures of DownloadCommic rely on without saying    *)
(* it: a request in flight belongs to a started session at the stage the   *)
(* request implies (StageOK), and each chapter of a session counts down,   *)
(* in tmp, exactly the images of its listing that are not in list yet      *)
(* (CountdownOK).                                                          *)
(*                                                                         *)
(* What comes of a download follows, in Realm and on the shelf: the        *)
(* library it implements, that what is shown as finished is complete, that *)
(* nothing stalls unseen, and the table of the shelf.  Every step of the   *)
(* shelf is a step or a stutter of ComicDownload, so what is proved of the *)
(* downloads holds under the shelf: in particular the counter is exact, so *)
(* that when the last chain of closures ends no session is running, and    *)
(* then no row can change any more.                                        *)
(***************************************************************************)
EXTENDS ShelfView, FiniteSetTheorems, TLAPS

-----------------------------------------------------------------------------
(* The inductive invariant *)

(* A view on the screen, or under it, has set Comic.id. *)
ViewsSetId == info # <<>> => comicId # NoComic

FreshChapter(s, k) == dl[s].result[k] = {} /\ dl[s].list[k] = <<>> /\ dl[s].tmp[k] = 0
Fresh(s) == \A k \in Chapters : FreshChapter(s, k)

RequestOK(r) ==
  LET s == r.session
      c == dl[s].comic
  IN /\ Started(s)
     /\ r.kind \in {"document", "poster"} => Fresh(s) /\ \A q \in net : q.session = s => q = r
     /\ r.kind \in {"list", "image"} => InRealm(c) /\ r.chapter \in 1..TotalChap(c)
     /\ r.kind = "list" => FreshChapter(s, r.chapter) /\ r.image = 0
     /\ r.kind = "image" =>
          Image(c, r.chapter, r.image) \in dl[s].result[r.chapter] \ Elements(dl[s].list[r.chapter])

StageOK ==
  /\ \A s \in Sessions :
       /\ dl[s].phase = "unused" => Fresh(s)
       /\ Started(s) => dl[s].comic \in Comics
  /\ \A r \in net : RequestOK(r)

Listed(c, k) == Truncated(c, k) \cup {Whole(c, k)}

Countdown(d, k) ==
  \E n \in Listed(d.comic, k) :
    /\ d.result[k] = Images(d.comic, k, n)
    /\ Elements(d.list[k]) \subseteq d.result[k]
    /\ d.tmp[k] = Cardinality(d.result[k] \ Elements(d.list[k]))
    /\ Len(d.list[k]) + d.tmp[k] = n

CountdownOK ==
  \A s \in Sessions : Started(s) =>
    \A k \in 1..TotalChap(dl[s].comic) : Countdown(dl[s], k)

Inv == TypeOK /\ ViewsSetId /\ StageOK

-----------------------------------------------------------------------------
(* Facts about the server's data *)

LEMMA ServerData ==
  ASSUME NEW c \in Comics
  PROVE  /\ TotalChap(c) \in 1..MaxChapters
         /\ 1..TotalChap(c) \subseteq Chapters
         /\ \A k \in 1..TotalChap(c) : Whole(c, k) \in Nat /\ Listed(c, k) \subseteq Nat
BY ConstantsAssumption DEF TotalChap, Whole, Listed, Truncated, Chapters

LEMMA ImagesAreImageIds ==
  ASSUME NEW c \in Comics, NEW k \in Chapters, NEW n \in Nat
  PROVE  Images(c, k, n) \in SUBSET ImageId
BY DEF Images, Image, ImageId

LEMMA ElementsAppend ==
  ASSUME NEW S, NEW q \in Seq(S), NEW e \in S
  PROVE  Elements(Append(q, e)) = Elements(q) \cup {e}
<1> DEFINE n == Len(q)
           t == Append(q, e)
<1>1. n \in Nat /\ DOMAIN q = 1..n /\ DOMAIN t = 1..(n + 1)
  OBVIOUS
<1>2. t[n + 1] = e /\ \A i \in 1..n : t[i] = q[i]
  OBVIOUS
<1> HIDE DEF n, t
<1>3. ASSUME NEW x PROVE x \in Elements(t) <=> x \in Elements(q) \cup {e}
  <2>1. 1..(n + 1) = 1..n \cup {n + 1}
    BY <1>1
  <2> QED  BY <1>1, <1>2, <2>1 DEF Elements
<1> QED  BY <1>3 DEF t

LEMMA ElementsEmpty == Elements(<<>>) = {}
BY DEF Elements

(* FirstOf finds the first record of c whenever there is one. *)
LEMMA FirstOfLeast ==
  ASSUME NEW q \in Seq(LComicType), NEW c, \E i \in DOMAIN q : q[i].comicID = c
  PROVE  /\ FirstOf(q, c) \in DOMAIN q /\ q[FirstOf(q, c)].comicID = c
         /\ \A h \in 1..(FirstOf(q, c) - 1) : q[h].comicID # c
<1> DEFINE n == Len(q)
           Hits == {i \in 1..n : q[i].comicID = c}
           T == {1..i : i \in Hits}
<1>1. n \in Nat /\ DOMAIN q = 1..n
  OBVIOUS
<1>2. Hits # {}
  BY <1>1
<1>3. IsWellFoundedOn(StrictSubsetOrdering(1..n), FiniteSubsetsOf(1..n))
  BY FS_StrictSubsetOrderingWellFounded
<1>4. T \subseteq FiniteSubsetsOf(1..n) /\ T # {}
  <2>1. ASSUME NEW i \in Hits PROVE 1..i \in FiniteSubsetsOf(1..n)
    <3>1. IsFiniteSet(1..i)
      BY <1>1, FS_Interval
    <3> QED  BY <1>1, <3>1 DEF FiniteSubsetsOf
  <2> QED  BY <2>1, <1>2
<1>5. PICK x \in T : \A y \in T : <<y, x>> \notin StrictSubsetOrdering(1..n)
  <2> HIDE DEF T
  <2> QED  BY <1>3, <1>4, WFMin
<1>6. PICK i \in Hits : x = 1..i
  OBVIOUS
<1>7. \A h \in 1..(i - 1) : q[h].comicID # c
  <2> SUFFICES ASSUME NEW h \in 1..(i - 1), q[h].comicID = c
               PROVE  FALSE
    OBVIOUS
  <2>1. i \in 1..n /\ h \in Hits /\ 1..h \in T
    BY <1>1
  <2>2. 1..h \subseteq 1..i /\ 1..h # 1..i
    <3>1. i \in 1..i /\ i \notin 1..h
      BY <2>1, <1>1
    <3> QED  BY <3>1, <2>1, <1>1
  <2>3. <<1..h, 1..i>> \in StrictSubsetOrdering(1..n)
    BY <2>1, <2>2, <1>1 DEF StrictSubsetOrdering
  <2> QED  BY <2>1, <2>3, <1>5, <1>6
<1>8. \E j \in DOMAIN q : q[j].comicID = c /\ \A h \in 1..(j - 1) : q[h].comicID # c
  BY <1>1, <1>7
<1> QED  BY <1>8 DEF FirstOf

LEMMA FirstIsRecord ==
  ASSUME NEW c, TypeOK, InRealm(c)
  PROVE  First(c) \in DOMAIN lcomics /\ lcomics[First(c)].comicID = c
BY FirstOfLeast DEF First, InRealm, TypeOK

-----------------------------------------------------------------------------
(* What the two updates of a session's record leave in its fields *)

(* The n images of S are listed for chapter k. *)
Listing(x, k, S, n) == [x EXCEPT !.result[k] = S, !.tmp[k] = n]

LEMMA ListingFields ==
  ASSUME NEW x \in SessionType, NEW k \in Chapters, NEW S \in SUBSET ImageId, NEW n \in Nat
  PROVE  LET d == Listing(x, k, S, n) IN
         /\ d \in SessionType
         /\ d.result = [x.result EXCEPT ![k] = S]
         /\ d.tmp = [x.tmp EXCEPT ![k] = n]
         /\ d.list = x.list /\ d.comic = x.comic /\ d.phase = x.phase
<1> DEFINE result == [x.result EXCEPT ![k] = S]
           tmp == [x.tmp EXCEPT ![k] = n]
<1>1. result \in [Chapters -> SUBSET ImageId] /\ tmp \in [Chapters -> Int]
  BY DEF SessionType
<1>2. Listing(x, k, S, n) = [x EXCEPT !.result = result, !.tmp = tmp]
  BY DEF Listing, SessionType
<1> HIDE DEF result, tmp
<1>3. /\ Listing(x, k, S, n).result = result
      /\ Listing(x, k, S, n).tmp = tmp
      /\ Listing(x, k, S, n).list = x.list
      /\ Listing(x, k, S, n).comic = x.comic
      /\ Listing(x, k, S, n).phase = x.phase
  BY <1>2 DEF SessionType
<1>4. Listing(x, k, S, n) \in SessionType
  BY <1>1, <1>2 DEF SessionType
<1> QED  BY <1>3, <1>4 DEF result, tmp

(* Image m arrives for chapter k. *)
Arrival(x, k, m) ==
  [x EXCEPT !.list[k] = Append(@, m), !.tmpTotalSize = @ + 1, !.tmp[k] = @ - 1]

LEMMA ArrivalFields ==
  ASSUME NEW x \in SessionType, NEW k \in Chapters, NEW m \in ImageId
  PROVE  LET d == Arrival(x, k, m) IN
         /\ d \in SessionType
         /\ d.list = [x.list EXCEPT ![k] = Append(@, m)]
         /\ d.tmp = [x.tmp EXCEPT ![k] = @ - 1]
         /\ d.result = x.result /\ d.comic = x.comic /\ d.phase = x.phase
<1> DEFINE list == [x.list EXCEPT ![k] = Append(@, m)]
           tmp == [x.tmp EXCEPT ![k] = @ - 1]
<1>1. list \in [Chapters -> Seq(ImageId)] /\ tmp \in [Chapters -> Int]
  BY DEF SessionType
<1>2. Arrival(x, k, m) = [x EXCEPT !.list = list, !.tmpTotalSize = @ + 1, !.tmp = tmp]
  BY DEF Arrival, SessionType
<1> HIDE DEF list, tmp
<1>3. /\ Arrival(x, k, m).list = list
      /\ Arrival(x, k, m).tmp = tmp
      /\ Arrival(x, k, m).result = x.result
      /\ Arrival(x, k, m).comic = x.comic
      /\ Arrival(x, k, m).phase = x.phase
  BY <1>2 DEF SessionType
<1>4. Arrival(x, k, m) \in SessionType
  <2>1. x.tmpTotalSize + 1 \in Nat
    BY DEF SessionType
  <2> DEFINE size == x.tmpTotalSize + 1
  <2>2. Arrival(x, k, m) = [x EXCEPT !.list = list, !.tmpTotalSize = size, !.tmp = tmp]
    BY <1>2
  <2> HIDE DEF size
  <2> QED  BY <1>1, <2>1, <2>2 DEF SessionType, size
<1> QED  BY <1>3, <1>4 DEF list, tmp

LEMMA ArrivalTyped ==
  ASSUME NEW x \in SessionType, NEW k \in Chapters, NEW m \in ImageId
  PROVE  /\ Arrival(x, k, m) \in SessionType
         /\ Arrival(x, k, m).comic = x.comic /\ Arrival(x, k, m).phase = x.phase
BY ArrivalFields

-----------------------------------------------------------------------------
(* Type correctness of every step *)

LEMMA InitInv == Init => Inv
<1> SUFFICES ASSUME Init PROVE Inv
  OBVIOUS
<1>1. TypeOK
  BY ConstantsAssumption DEF Init, TypeOK, SessionType, Idle, Chapters
<1>2. ViewsSetId
  BY DEF Init, ViewsSetId
<1>3. StageOK
  BY DEF Init, StageOK, Fresh, FreshChapter, Started, Idle, Chapters
<1> QED  BY <1>1, <1>2, <1>3 DEF Inv

(* What holds when an image arrives. *)
LEMMA ImageFacts ==
  ASSUME Inv, NEW s, NEW k, NEW j, ImageArrives(s, k, j)
  PROVE  /\ s \in Sessions /\ Started(s) /\ dl[s] \in SessionType
         /\ dl[s].comic \in Comics /\ InRealm(dl[s].comic)
         /\ k \in 1..TotalChap(dl[s].comic) /\ k \in Chapters
         /\ Image(dl[s].comic, k, j) \in ImageId
         /\ Image(dl[s].comic, k, j) \in dl[s].result[k] \ Elements(dl[s].list[k])
<1> DEFINE q == ImageRequest(s, k, j)
<1>1. q \in net /\ q.kind = "image" /\ q.session = s /\ q.chapter = k /\ q.image = j
  BY DEF ImageArrives, ImageRequest, Request
<1>2. RequestOK(q) /\ s \in Sessions /\ j \in Nat
  BY <1>1 DEF Inv, StageOK, TypeOK, RequestType
<1>3. dl[s] \in SessionType /\ dl[s].comic \in Comics
  BY <1>1, <1>2 DEF Inv, StageOK, RequestOK, TypeOK
<1>4. k \in 1..TotalChap(dl[s].comic) /\ k \in Chapters
  BY <1>1, <1>2, <1>3, ServerData DEF RequestOK
<1>5. Image(dl[s].comic, k, j) \in ImageId
  BY <1>2, <1>3, <1>4 DEF Image, ImageId
<1> QED  BY <1>1, <1>2, <1>3, <1>4, <1>5 DEF RequestOK

LEMMA Appended ==
  ASSUME NEW S, NEW q \in Seq(S), NEW e \in S
  PROVE  <<e>> \in Seq(S) /\ Append(q, e) \in Seq(S)
OBVIOUS

LEMMA TypeStep == Inv /\ [Next]_vars => TypeOK'
<1> SUFFICES ASSUME Inv, [Next]_vars
             PROVE  TypeOK'
  OBVIOUS
<1> USE DEF Inv
<1>0. ASSUME NEW c \in Comics, OpenInfo(c) \/ ReviewArrives(c)
      PROVE  TypeOK'
  <2>1. InRealm(c) \in BOOLEAN
    BY DEF InRealm
  <2>2. <<InRealm(c)>> \in Seq(BOOLEAN) /\ Append(info, InRealm(c)) \in Seq(BOOLEAN)
    BY <2>1, Appended DEF TypeOK
  <2>3. info' \in Seq(BOOLEAN)
    BY <1>0, <2>2 DEF OpenInfo, ReviewArrives, TypeOK
  <2>4. comicId' = c /\ UNCHANGED <<isDowloading, listDownload, dl, net, lcomics, serverSize, broken>>
    BY <1>0 DEF OpenInfo, ReviewArrives
  <2> QED  BY <2>3, <2>4 DEF TypeOK
<1>1. CASE Back
  <2>1. info' \in Seq(BOOLEAN)
    BY <1>1 DEF Back, TypeOK
  <2> QED  BY <1>1, <2>1 DEF Back, TypeOK
<1>2. ASSUME NEW s \in Sessions, Download(s)
      PROVE  TypeOK'
  <2>1. info' \in Seq(BOOLEAN)
    BY <1>2 DEF Download, TypeOK
  <2>2. dl' \in [Sessions -> SessionType]
    <3>1. [dl[s] EXCEPT !.phase = "running"] \in SessionType
      BY DEF TypeOK, SessionType
    <3>2. [[dl[s] EXCEPT !.phase = "running"] EXCEPT !.comic = comicId] \in SessionType
      BY <3>1 DEF TypeOK, SessionType
    <3>3. dl' = [dl EXCEPT ![s] = [[dl[s] EXCEPT !.phase = "running"] EXCEPT !.comic = comicId]]
      BY <1>2 DEF Download, TypeOK
    <3> QED  BY <3>2, <3>3 DEF TypeOK
  <2>3. net' \subseteq RequestType
    BY <1>2, ConstantsAssumption DEF Download, TypeOK, RequestType, DocumentRequest, Request
  <2> QED  BY <1>2, <2>1, <2>2, <2>3 DEF Download, TypeOK
<1>3. ASSUME NEW s \in Sessions, DocumentArrives(s)
      PROVE  TypeOK'
  <2>1. DocumentRequest(s) \in net /\ dl[s].comic \in Comics
    BY <1>3 DEF DocumentArrives, StageOK, RequestOK, DocumentRequest, Request
  <2>2. dl' \in [Sessions -> SessionType]
    <3> DEFINE size == serverSize[dl[s].comic]
    <3>1. size \in Nat /\ dl[s] \in SessionType /\ dl \in [Sessions -> SessionType]
      BY <2>1 DEF TypeOK
    <3>2. dl' = [dl EXCEPT ![s].totalSize = size]
      BY <1>3 DEF DocumentArrives
    <3> HIDE DEF size
    <3>3. [dl[s] EXCEPT !.totalSize = size] \in SessionType
      BY <3>1 DEF SessionType
    <3> QED  BY <3>1, <3>2, <3>3
  <2>3. net' \subseteq RequestType
    BY <1>3, ConstantsAssumption DEF DocumentArrives, TypeOK, RequestType, PosterRequest, Request
  <2> QED  BY <1>3, <2>2, <2>3 DEF DocumentArrives, TypeOK
<1>4. ASSUME NEW s \in Sessions, PosterArrives(s)
      PROVE  TypeOK'
  <2> DEFINE c == dl[s].comic
  <2>1. PosterRequest(s) \in net /\ c \in Comics
    BY <1>4 DEF PosterArrives, StageOK, RequestOK, PosterRequest, Request
  <2>2. TotalChap(c) \in 1..MaxChapters /\ MaxChapters \in Nat
    BY <2>1, ServerData, ConstantsAssumption
  <2>3. [comicID |-> c, comicNChap |-> TotalChap(c), listChap |-> <<>>] \in LComicType
    BY <2>1, <2>2 DEF LComicType
  <2>4. [comic |-> c, origin |-> s] \in RowType
    BY <2>1 DEF RowType
  <2>5. {ListRequest(s, k) : k \in 1..TotalChap(c)} \subseteq RequestType
    BY <2>2 DEF ListRequest, Request, RequestType
  <2> QED  BY <1>4, <2>3, <2>4, <2>5 DEF PosterArrives, TypeOK
<1>5. ASSUME NEW r \in net, RequestFails(r)
      PROVE  TypeOK'
  BY <1>5 DEF RequestFails, TypeOK, RequestType
<1>6. ASSUME NEW s \in Sessions, NEW k \in Chapters, ListArrives(s, k)
      PROVE  TypeOK'
  <2> DEFINE c == dl[s].comic
  <2>1. ListRequest(s, k) \in net /\ c \in Comics /\ k \in 1..TotalChap(c)
    BY <1>6 DEF ListArrives, StageOK, RequestOK, ListRequest, Request
  <2>2. PICK n \in Listed(c, k) :
          /\ dl' = [dl EXCEPT ![s].result[k] = Images(c, k, n), ![s].tmp[k] = n]
          /\ net' = (net \ {ListRequest(s, k)}) \cup {ImageRequest(s, k, j) : j \in 1..n}
          /\ broken' = IF n = Whole(c, k) THEN broken ELSE broken \cup {s}
    BY <1>6 DEF ListArrives, Listed
  <2>3. n \in Nat /\ Images(c, k, n) \in SUBSET ImageId /\ k \in 0..MaxChapters
    BY <2>1, ServerData, ImagesAreImageIds, ConstantsAssumption DEF Chapters
  <2>4. {ImageRequest(s, k, j) : j \in 1..n} \subseteq RequestType
    BY <2>3 DEF ImageRequest, Request, RequestType
  <2>5. dl' \in [Sessions -> SessionType]
    <3>1. Listing(dl[s], k, Images(c, k, n), n) \in SessionType
      BY <2>3, ListingFields DEF TypeOK
    <3>2. dl' = [dl EXCEPT ![s] = Listing(dl[s], k, Images(c, k, n), n)]
      BY <2>2 DEF Listing, TypeOK
    <3> QED  BY <3>1, <3>2 DEF TypeOK
  <2> QED  BY <1>6, <2>2, <2>4, <2>5 DEF ListArrives, TypeOK
<1>7. ASSUME NEW r \in net, ImageArrives(r.session, r.chapter, r.image)
      PROVE  TypeOK'
  <2> DEFINE s == r.session
             k == r.chapter
             j == r.image
             c == dl[s].comic
             d == Arrival(dl[s], k, Image(c, k, j))
  <2>1. /\ s \in Sessions /\ c \in Comics /\ k \in Chapters /\ InRealm(c)
        /\ dl[s] \in SessionType /\ Image(c, k, j) \in ImageId
    BY <1>7, ImageFacts
  <2>2. d \in SessionType /\ d.comic = c
    BY <2>1, ArrivalTyped
  <2>3. /\ UNCHANGED <<comicId, info, listDownload, broken>>
        /\ net' \subseteq net
        /\ \/ StoreChapter(s, d, k)
           \/ dl' = [dl EXCEPT ![s] = d] /\ UNCHANGED <<isDowloading, lcomics, serverSize>>
    BY <1>7 DEF ImageArrives, Arrival
  <2> HIDE DEF d
  <2>4. CASE StoreChapter(s, d, k)
    <3> DEFINE i == First(d.comic)
               listChap == Append(lcomics[i].listChap, d.list[k])
    <3>1. i \in DOMAIN lcomics
      BY <2>1, <2>2, FirstIsRecord
    <3>2. lcomics[i] \in LComicType /\ d.list[k] \in Seq(ImageId)
      BY <2>1, <2>2, <3>1 DEF TypeOK, SessionType
    <3>3. [lcomics[i] EXCEPT !.listChap = listChap] \in LComicType
      <4>1. lcomics[i].listChap \in Seq(Seq(ImageId))
        BY <3>2 DEF LComicType
      <4>2. listChap \in Seq(Seq(ImageId))
        BY <4>1, <3>2
      <4> HIDE DEF listChap
      <4> QED  BY <4>2, <3>2 DEF LComicType
    <3>4. lcomics' \in Seq(LComicType)
      <4>1. lcomics' = [lcomics EXCEPT ![i] = [lcomics[i] EXCEPT !.listChap = listChap]]
        BY <2>4, <3>1 DEF StoreChapter, TypeOK
      <4> QED  BY <4>1, <3>1, <3>3 DEF TypeOK
    <3>5. d.tmpTotalSize \in Nat /\ [d EXCEPT !.phase = "finished"] \in SessionType
      BY <2>2 DEF SessionType
    <3>6. dl' \in [Sessions -> SessionType]
      BY <2>1, <2>2, <2>4, <3>5 DEF StoreChapter, TypeOK
    <3>7. isDowloading' \in Int /\ serverSize' \in [Comics -> Nat]
      BY <2>4, <3>5 DEF StoreChapter, TypeOK
    <3> QED  BY <2>3, <3>4, <3>6, <3>7 DEF TypeOK
  <2>5. CASE dl' = [dl EXCEPT ![s] = d] /\ UNCHANGED <<isDowloading, lcomics, serverSize>>
    BY <2>1, <2>2, <2>3, <2>5 DEF TypeOK
  <2> QED  BY <2>3, <2>4, <2>5
<1>8. CASE Restart
  <2>1. info' \in Seq(BOOLEAN)
    BY <1>8 DEF Restart
  <2>3. listDownload' \in Seq(RowType)
    <3>1. Len(lcomics) \in Nat /\ DOMAIN lcomics = 1..Len(lcomics)
      BY DEF TypeOK
    <3>2. ASSUME NEW i \in 1..Len(lcomics)
          PROVE  [comic |-> lcomics[i].comicID, origin |-> Restored] \in RowType
      <4>1. lcomics[i] \in LComicType
        BY <3>1 DEF TypeOK
      <4> QED  BY <4>1 DEF LComicType, RowType
    <3>3. listDownload' = [i \in 1..Len(lcomics) |->
                             [comic |-> lcomics[i].comicID, origin |-> Restored]]
      BY <1>8, <3>1 DEF Restart
    <3> QED  BY <3>1, <3>2, <3>3
  <2>2. dl' \in [Sessions -> SessionType]
    BY <1>8 DEF Restart, TypeOK, Idle, SessionType
  <2> QED  BY <1>8, <2>1, <2>2, <2>3 DEF Restart, TypeOK
<1>9. CASE UNCHANGED vars
  BY <1>9 DEF vars, TypeOK
<1> QED  BY <1>0, <1>1, <1>2, <1>3, <1>4, <1>5, <1>6, <1>7, <1>8, <1>9 DEF Next

-----------------------------------------------------------------------------
(* Stages of requests *)

LEMMA ViewsStep == Inv /\ [Next]_vars => ViewsSetId'
<1> SUFFICES ASSUME Inv, [Next]_vars
             PROVE  ViewsSetId'
  OBVIOUS
<1> USE DEF Inv
<1>1. ASSUME NEW c \in Comics, OpenInfo(c) \/ ReviewArrives(c)
      PROVE  ViewsSetId'
  BY <1>1, ConstantsAssumption DEF OpenInfo, ReviewArrives, ViewsSetId
<1>2. ASSUME NEW s \in Sessions, Download(s)
      PROVE  ViewsSetId'
  BY <1>2 DEF Download, ViewsSetId
<1>3. CASE Restart
  BY <1>3 DEF Restart, ViewsSetId
<1>5. CASE Back
  BY <1>5 DEF Back, ViewsSetId
<1>4. CASE UNCHANGED <<comicId, info>>
  BY <1>4 DEF ViewsSetId
<1> QED
  BY <1>1, <1>2, <1>3, <1>4, <1>5, Zenon DEF Next, DocumentArrives, PosterArrives, RequestFails,
       ListArrives, ImageArrives, vars

(* Requests of the sessions a step leaves alone keep their stage. *)
LEMMA OtherSessions ==
  ASSUME Inv, NEW s \in Sessions,
         \A t \in Sessions \ {s} : dl'[t] = dl[t],
         \A q \in net' : q \in net \/ q.session = s,
         \A c \in Comics : InRealm(c) => InRealm(c)',
         NEW r \in net', r.session # s
  PROVE  RequestOK(r)'
<1>1. r \in net /\ r.session \in Sessions /\ RequestOK(r) /\ dl'[r.session] = dl[r.session]
  BY DEF Inv, TypeOK, RequestType, StageOK
<1>2. dl[r.session].comic \in Comics
  BY <1>1 DEF Inv, StageOK, RequestOK
<1> QED  BY <1>1, <1>2 DEF RequestOK, Started, Fresh, FreshChapter

(* Realm keeps its records, each for its comic, and no chapter is lost. *)
LEMMA RecordsKept ==
  ASSUME Inv, [Next]_vars, NEW i \in DOMAIN lcomics
  PROVE  /\ i \in DOMAIN lcomics'
         /\ lcomics'[i].comicID = lcomics[i].comicID
         /\ Len(lcomics'[i].listChap) >= Len(lcomics[i].listChap)
<1>1. lcomics \in Seq(LComicType) /\ lcomics[i] \in LComicType /\ lcomics[i].listChap \in Seq(Seq(ImageId))
  <2>1. lcomics \in Seq(LComicType)
    BY DEF Inv, TypeOK
  <2>2. lcomics[i] \in LComicType
    BY <2>1
  <2> QED  BY <2>1, <2>2 DEF LComicType
<1>2. CASE UNCHANGED lcomics
  BY <1>1, <1>2
<1>3. ASSUME NEW x, lcomics' = Append(lcomics, x)
      PROVE  i \in DOMAIN lcomics' /\ lcomics'[i] = lcomics[i]
  BY <1>1, <1>3
<1>4. ASSUME NEW h, NEW ch, lcomics' = [lcomics EXCEPT ![h].listChap = Append(lcomics[h].listChap, ch)]
      PROVE  /\ i \in DOMAIN lcomics'
             /\ lcomics'[i].comicID = lcomics[i].comicID
             /\ Len(lcomics'[i].listChap) >= Len(lcomics[i].listChap)
  <2>1. lcomics'[i] = IF i = h THEN [lcomics[i] EXCEPT !.listChap = Append(lcomics[i].listChap, ch)]
                      ELSE lcomics[i]
    BY <1>1, <1>4
  <2>2. i \in DOMAIN lcomics'
    BY <1>4
  <2>3. CASE i = h
    <3>1. lcomics'[i].comicID = lcomics[i].comicID
            /\ lcomics'[i].listChap = Append(lcomics[i].listChap, ch)
      BY <1>1, <2>1, <2>3 DEF LComicType
    <3>2. Len(Append(lcomics[i].listChap, ch)) = Len(lcomics[i].listChap) + 1
      BY <1>1
    <3> QED  BY <1>1, <2>2, <3>1, <3>2
  <2> QED  BY <1>1, <2>1, <2>2, <2>3
<1> QED
  <2>1. ASSUME NEW s \in Sessions, PosterArrives(s)
        PROVE  \E x : lcomics' = Append(lcomics, x)
    BY <2>1 DEF PosterArrives
  <2>2. ASSUME NEW s, NEW k, NEW j, ImageArrives(s, k, j)
        PROVE  \/ UNCHANGED lcomics
               \/ \E h, ch : lcomics' = [lcomics EXCEPT ![h].listChap = Append(lcomics[h].listChap, ch)]
    BY <2>2 DEF ImageArrives, StoreChapter
  <2>3. \/ UNCHANGED lcomics
        \/ \E x : lcomics' = Append(lcomics, x)
        \/ \E h, ch : lcomics' = [lcomics EXCEPT ![h].listChap = Append(lcomics[h].listChap, ch)]
    BY <2>1, <2>2 DEF Next, OpenInfo, ReviewArrives, Back, Download, DocumentArrives,
         RequestFails, ListArrives,
         Restart, vars
  <2>4. Len(lcomics[i].listChap) \in Nat
    BY <1>1
  <2>5. CASE \E x : lcomics' = Append(lcomics, x)
    BY <1>3, <2>4, <2>5
  <2>6. CASE \E h, ch : lcomics' = [lcomics EXCEPT ![h].listChap = Append(lcomics[h].listChap, ch)]
    BY <1>4, <2>6
  <2> QED  BY <1>2, <2>3, <2>5, <2>6

LEMMA RealmKeeps == Inv /\ [Next]_vars => \A c \in Comics : InRealm(c) => InRealm(c)'
BY RecordsKept DEF InRealm

(* The record every reader of a comic finds stays the same record. *)
LEMMA FirstStable ==
  ASSUME Inv, [Next]_vars, TypeOK', NEW c \in Comics, InRealm(c)
  PROVE  First(c)' = First(c)
<1> DEFINE i == FirstOf(lcomics, c)
           j == FirstOf(lcomics', c)
<1>1. lcomics \in Seq(LComicType) /\ lcomics' \in Seq(LComicType)
  BY DEF Inv, TypeOK
<1>2. /\ \E h \in DOMAIN lcomics : lcomics[h].comicID = c
      /\ \E h \in DOMAIN lcomics' : lcomics'[h].comicID = c
  BY RecordsKept DEF InRealm
<1>3. /\ i \in DOMAIN lcomics /\ lcomics[i].comicID = c
      /\ \A h \in 1..(i - 1) : lcomics[h].comicID # c
  BY <1>1, <1>2, FirstOfLeast
<1>4. /\ j \in DOMAIN lcomics' /\ lcomics'[j].comicID = c
      /\ \A h \in 1..(j - 1) : lcomics'[h].comicID # c
  BY <1>1, <1>2, FirstOfLeast
<1>5. lcomics'[i].comicID = c
  BY <1>3, RecordsKept
<1>6. \A h \in 1..(i - 1) : h \in DOMAIN lcomics /\ lcomics'[h].comicID # c
  <2>1. \A h \in 1..(i - 1) : h \in DOMAIN lcomics
    BY <1>1, <1>3
  <2> QED  BY <1>3, <2>1, RecordsKept
<1>7. i \in Nat /\ j \in Nat
  BY <1>1, <1>3, <1>4
<1>8. ~(i < j) /\ ~(j < i)
  <2> HIDE DEF i, j
  <2>1. j \in 1..j /\ i \in 1..i
    BY <1>1, <1>3, <1>4
  <2> QED  BY <1>4, <1>5, <1>6, <1>7, <2>1
<1> QED  BY <1>7, <1>8 DEF First

LEMMA StageStep == Inv /\ [Next]_vars => StageOK'
<1> SUFFICES ASSUME Inv, [Next]_vars
             PROVE  StageOK'
  OBVIOUS
<1> USE DEF Inv
<1>0. \A c \in Comics : InRealm(c) => InRealm(c)'
  BY RealmKeeps
<1>t. TypeOK'
  BY TypeStep
<1>1. CASE UNCHANGED dl /\ net' \subseteq net
  BY <1>0, <1>1 DEF StageOK, RequestOK, Started, Fresh, FreshChapter, TypeOK, RequestType
<1>2. ASSUME NEW s \in Sessions, Download(s)
      PROVE  StageOK'
  <2>1. Fresh(s) /\ \A q \in net : q.session # s
    BY <1>2 DEF Download, StageOK, RequestOK, Started
  <2>2. comicId \in Comics
    BY <1>2 DEF Download, ViewsSetId, TypeOK
  <2>3. /\ dl'[s].phase = "running" /\ dl'[s].comic = comicId
        /\ dl'[s].result = dl[s].result /\ dl'[s].list = dl[s].list /\ dl'[s].tmp = dl[s].tmp
        /\ \A t \in Sessions \ {s} : dl'[t] = dl[t]
    BY <1>2 DEF Download, TypeOK, SessionType
  <2>4. Fresh(s)'
    BY <2>1, <2>3 DEF Fresh, FreshChapter
  <2>5. net' = net \cup {DocumentRequest(s)} /\ DocumentRequest(s).session = s
    BY <1>2 DEF Download, DocumentRequest, Request
  <2>6. ASSUME NEW r \in net', r.session = s
        PROVE  RequestOK(r)'
    <3>1. r = DocumentRequest(s)
      BY <2>1, <2>5, <2>6
    <3>2. r.kind = "document"
      BY <3>1 DEF DocumentRequest, Request
    <3>3. \A q \in net' : q.session = s => q = r
      BY <2>1, <2>5, <3>1
    <3> QED  BY <2>3, <2>4, <2>6, <3>2, <3>3 DEF RequestOK, Started
  <2>7. \A r \in net' : RequestOK(r)'
    BY <1>0, <2>3, <2>5, <2>6, OtherSessions
  <2>8. \A t \in Sessions : /\ (dl[t].phase = "unused" => Fresh(t))'
                            /\ (Started(t) => dl[t].comic \in Comics)'
    BY <2>2, <2>3, <2>4 DEF StageOK, Started, Fresh, FreshChapter
  <2> QED  BY <2>7, <2>8 DEF StageOK
<1>3. ASSUME NEW s \in Sessions, DocumentArrives(s)
      PROVE  StageOK'
  <2>1. /\ DocumentRequest(s) \in net
        /\ DocumentRequest(s).session = s /\ DocumentRequest(s).kind = "document"
    BY <1>3 DEF DocumentArrives, DocumentRequest, Request
  <2>2. Started(s) /\ Fresh(s) /\ dl[s].comic \in Comics
          /\ \A q \in net : q.session = s => q = DocumentRequest(s)
    BY <2>1 DEF StageOK, RequestOK
  <2>3. /\ dl'[s].phase = dl[s].phase /\ dl'[s].comic = dl[s].comic
        /\ dl'[s].result = dl[s].result /\ dl'[s].list = dl[s].list /\ dl'[s].tmp = dl[s].tmp
        /\ \A t \in Sessions \ {s} : dl'[t] = dl[t]
    BY <1>3 DEF DocumentArrives, TypeOK, SessionType
  <2>4. Fresh(s)' /\ Started(s)'
    BY <2>2, <2>3 DEF Fresh, FreshChapter, Started
  <2>5. net' = (net \ {DocumentRequest(s)}) \cup {PosterRequest(s)}
          /\ PosterRequest(s).session = s /\ PosterRequest(s).kind = "poster"
    BY <1>3 DEF DocumentArrives, PosterRequest, Request
  <2>6. ASSUME NEW r \in net', r.session = s
        PROVE  RequestOK(r)'
    <3>1. r = PosterRequest(s) /\ \A q \in net' : q.session = s => q = r
      BY <2>2, <2>5, <2>6
    <3> QED  BY <2>4, <2>5, <2>6, <3>1 DEF RequestOK
  <2>7. \A r \in net' : RequestOK(r)'
    BY <1>0, <2>3, <2>5, <2>6, OtherSessions
  <2>8. \A t \in Sessions : /\ (dl[t].phase = "unused" => Fresh(t))'
                            /\ (Started(t) => dl[t].comic \in Comics)'
    BY <2>2, <2>3, <2>4 DEF StageOK, Started, Fresh, FreshChapter
  <2> QED  BY <2>7, <2>8 DEF StageOK
<1>4. ASSUME NEW s \in Sessions, PosterArrives(s)
      PROVE  StageOK'
  <2> DEFINE c == dl[s].comic
             lists == {ListRequest(s, k) : k \in 1..TotalChap(c)}
  <2>1. PosterRequest(s) \in net /\ PosterRequest(s).session = s /\ PosterRequest(s).kind = "poster"
    BY <1>4 DEF PosterArrives, PosterRequest, Request
  <2>2. Started(s) /\ Fresh(s) /\ c \in Comics
          /\ \A q \in net : q.session = s => q = PosterRequest(s)
    BY <2>1 DEF StageOK, RequestOK
  <2>3. dl' = dl /\ net' = (net \ {PosterRequest(s)}) \cup lists
    BY <1>4 DEF PosterArrives
  <2>4. \A q \in lists : q.session = s
    BY DEF ListRequest, Request
  <2>5. InRealm(c)'
    <3>1. PICK x : lcomics' = Append(lcomics, x) /\ x.comicID = c
      BY <1>4 DEF PosterArrives
    <3>2. Len(lcomics) + 1 \in DOMAIN lcomics' /\ lcomics'[Len(lcomics) + 1] = x
      BY <3>1 DEF TypeOK
    <3> QED  BY <2>3, <3>1, <3>2 DEF InRealm
  <2>6. ASSUME NEW r \in net', r.session = s
        PROVE  RequestOK(r)'
    <3>1. PICK k \in 1..TotalChap(c) : r = ListRequest(s, k)
      BY <2>2, <2>3, <2>6
    <3>2. r.kind = "list" /\ r.chapter = k /\ r.image = 0
      BY <3>1 DEF ListRequest, Request
    <3>3. k \in Chapters
      BY <2>2, ServerData
    <3> QED  BY <2>2, <2>3, <2>5, <2>6, <3>2, <3>3 DEF RequestOK, Started, Fresh, FreshChapter
  <2>7. \A r \in net' : RequestOK(r)'
    BY <1>0, <2>3, <2>4, <2>6, OtherSessions
  <2> QED  BY <2>3, <2>7 DEF StageOK, Started, Fresh, FreshChapter
<1>5. ASSUME NEW s \in Sessions, NEW k \in Chapters, ListArrives(s, k)
      PROVE  StageOK'
  <2> DEFINE c == dl[s].comic
             L == ListRequest(s, k)
  <2>1. L \in net /\ L.session = s /\ L.kind = "list" /\ L.chapter = k /\ L.image = 0
    BY <1>5 DEF ListArrives, ListRequest, Request
  <2>2. Started(s) /\ c \in Comics /\ InRealm(c) /\ k \in 1..TotalChap(c) /\ FreshChapter(s, k)
    BY <2>1 DEF StageOK, RequestOK
  <2>3. PICK n \in Listed(c, k) :
          /\ dl' = [dl EXCEPT ![s] = Listing(dl[s], k, Images(c, k, n), n)]
          /\ net' = (net \ {L}) \cup {ImageRequest(s, k, j) : j \in 1..n}
    BY <1>5 DEF ListArrives, Listed, Listing, TypeOK
  <2>4. n \in Nat /\ Images(c, k, n) \in SUBSET ImageId /\ dl[s] \in SessionType
    BY <2>2, ServerData, ImagesAreImageIds DEF TypeOK
  <2>5. /\ dl'[s].result = [dl[s].result EXCEPT ![k] = Images(c, k, n)]
        /\ dl'[s].list = dl[s].list
        /\ dl'[s].tmp = [dl[s].tmp EXCEPT ![k] = n]
        /\ dl'[s].comic = c /\ dl'[s].phase = dl[s].phase
        /\ \A t \in Sessions \ {s} : dl'[t] = dl[t]
    BY <2>3, <2>4, ListingFields DEF TypeOK
  <2>6. ASSUME NEW r \in net', r.session = s
        PROVE  RequestOK(r)'
    <3>0. Started(s)' /\ InRealm(c)'
      BY <1>0, <2>2, <2>5 DEF Started
    <3>1. CASE \E j \in 1..n : r = ImageRequest(s, k, j)
      <4>1. PICK j \in 1..n : r = ImageRequest(s, k, j)
        BY <3>1
      <4>2. r.kind = "image" /\ r.chapter = k /\ r.image = j
        BY <4>1 DEF ImageRequest, Request
      <4>3. Image(c, k, j) \in Images(c, k, n)
        BY DEF Images
      <4>4. dl'[s].result[k] = Images(c, k, n) /\ dl'[s].list[k] = <<>>
        BY <2>2, <2>4, <2>5 DEF FreshChapter, SessionType
      <4>5. Image(c, k, j) \in dl'[s].result[k] \ Elements(dl'[s].list[k])
        BY <4>3, <4>4, ElementsEmpty
      <4> QED  BY <2>2, <2>5, <2>6, <3>0, <4>2, <4>5 DEF RequestOK
    <3>2. CASE r \in net /\ r # L
      <4>1. RequestOK(r) /\ r \in RequestType
        BY <3>2 DEF StageOK, TypeOK
      <4>2. r.kind \in {"list", "image"} /\ r.chapter \in 1..TotalChap(c) /\ r.chapter \in Chapters
        BY <2>1, <2>2, <2>6, <3>2, <4>1, ServerData DEF RequestOK, RequestType
      <4>3. r.chapter # k
        <5>1. CASE r.kind = "image"
          BY <2>2, <2>6, <4>1, <5>1 DEF RequestOK, FreshChapter
        <5>2. CASE r.kind = "list"
          BY <2>6, <3>2, <4>1, <5>2 DEF RequestOK, RequestType, ListRequest, Request
        <5> QED  BY <4>2, <5>1, <5>2
      <4>4. /\ dl'[s].result[r.chapter] = dl[s].result[r.chapter]
            /\ dl'[s].list[r.chapter] = dl[s].list[r.chapter]
            /\ dl'[s].tmp[r.chapter] = dl[s].tmp[r.chapter]
        BY <2>4, <2>5, <4>2, <4>3 DEF SessionType
      <4> QED  BY <2>5, <2>6, <3>0, <4>1, <4>2, <4>4 DEF RequestOK, FreshChapter
    <3> QED  BY <2>3, <3>1, <3>2
  <2>7. \A q \in net' : q \in net \/ q.session = s
    BY <2>3 DEF ImageRequest, Request
  <2>8. \A r \in net' : RequestOK(r)'
    BY <1>0, <2>5, <2>6, <2>7, OtherSessions
  <2>9. \A t \in Sessions : /\ (dl[t].phase = "unused" => Fresh(t))'
                            /\ (Started(t) => dl[t].comic \in Comics)'
    BY <2>2, <2>5 DEF StageOK, Started, Fresh, FreshChapter
  <2> QED  BY <2>8, <2>9 DEF StageOK
<1>6. ASSUME NEW p \in net, ImageArrives(p.session, p.chapter, p.image)
      PROVE  StageOK'
  <2> DEFINE s == p.session
             k == p.chapter
             j == p.image
             c == dl[s].comic
             I == ImageRequest(s, k, j)
             d == Arrival(dl[s], k, Image(c, k, j))
  <2>1. I \in net /\ I.session = s /\ I.kind = "image" /\ I.chapter = k /\ I.image = j
    BY <1>6 DEF ImageArrives, ImageRequest, Request
  <2>2. /\ Started(s) /\ InRealm(c) /\ k \in 1..TotalChap(c)
        /\ Image(c, k, j) \in dl[s].result[k] \ Elements(dl[s].list[k])
    BY <1>6, ImageFacts
  <2>3. s \in Sessions /\ c \in Comics /\ k \in Chapters /\ dl[s] \in SessionType
    BY <1>6, ImageFacts
  <2>4. Image(c, k, j) \in ImageId
    BY <1>6, ImageFacts
  <2>5. /\ d \in SessionType
        /\ d.list = [dl[s].list EXCEPT ![k] = Append(@, Image(c, k, j))]
        /\ d.tmp = [dl[s].tmp EXCEPT ![k] = @ - 1]
        /\ d.result = dl[s].result /\ d.comic = c /\ d.phase = dl[s].phase
    <3> DEFINE x == dl[s]
               m == Image(c, k, j)
    <3>1. x \in SessionType /\ k \in Chapters /\ m \in ImageId
      BY <2>3, <2>4
    <3> HIDE DEF m, x, k
    <3>2. LET y == Arrival(x, k, m) IN
          /\ y \in SessionType
          /\ y.list = [x.list EXCEPT ![k] = Append(@, m)]
          /\ y.tmp = [x.tmp EXCEPT ![k] = @ - 1]
          /\ y.result = x.result /\ y.comic = x.comic /\ y.phase = x.phase
      BY <3>1, ArrivalFields, Zenon
    <3> QED  BY <3>2, Zenon DEF x, m
  <2>6. net' = net \ {I} /\ (dl' = [dl EXCEPT ![s] = d] \/ dl' = [dl EXCEPT ![s] = [d EXCEPT !.phase = "finished"]])
    <3>1. /\ net' = net \ {I}
          /\ StoreChapter(s, d, k) \/ dl' = [dl EXCEPT ![s] = d]
      BY <1>6 DEF ImageArrives, Arrival
    <3> HIDE DEF d
    <3> QED  BY <3>1 DEF StoreChapter
  <2> HIDE DEF d
  <2>7. /\ dl'[s].list = d.list /\ dl'[s].tmp = d.tmp /\ dl'[s].result = d.result
        /\ dl'[s].comic = c /\ Started(s)'
        /\ \A t \in Sessions \ {s} : dl'[t] = dl[t]
    <3>1. dl'[s] = d \/ dl'[s] = [d EXCEPT !.phase = "finished"]
      BY <2>3, <2>6 DEF TypeOK
    <3>2. /\ dl'[s].list = d.list /\ dl'[s].tmp = d.tmp /\ dl'[s].result = d.result
          /\ dl'[s].comic = d.comic /\ dl'[s].phase \in {d.phase, "finished"}
      BY <2>5, <3>1 DEF SessionType
    <3>3. \A t \in Sessions \ {s} : dl'[t] = dl[t]
      BY <2>3, <2>6 DEF TypeOK
    <3> QED  BY <2>2, <2>5, <3>2, <3>3 DEF Started
  <2>8. ASSUME NEW r \in net', r.session = s
        PROVE  RequestOK(r)'
    <3>1. r \in net /\ r # I /\ RequestOK(r) /\ r \in RequestType
      BY <2>6 DEF StageOK, TypeOK
    <3>2. r.kind \in {"list", "image"} /\ r.chapter \in 1..TotalChap(c) /\ r.chapter \in Chapters
      BY <2>1, <2>3, <2>8, <3>1, ServerData DEF RequestOK, RequestType
    <3>3. CASE r.chapter # k
      <4>1. /\ dl'[s].result[r.chapter] = dl[s].result[r.chapter]
            /\ dl'[s].list[r.chapter] = dl[s].list[r.chapter]
            /\ dl'[s].tmp[r.chapter] = dl[s].tmp[r.chapter]
        <5>1. /\ dl[s].list \in [Chapters -> Seq(ImageId)]
              /\ dl[s].tmp \in [Chapters -> Int]
          BY <2>3 DEF SessionType
        <5> HIDE DEF c, k, s
        <5> QED  BY <2>3, <2>5, <2>7, <3>2, <3>3, <5>1, SMTT(20)
      <4> QED  BY <1>0, <2>2, <2>3, <2>7, <2>8, <3>1, <3>2, <4>1 DEF RequestOK, FreshChapter
    <3>4. CASE r.chapter = k
      <4>1. r.kind = "image"
        BY <2>2, <2>8, <3>1, <3>2, <3>4 DEF RequestOK, FreshChapter
      <4>2. r.image # j
        BY <2>8, <3>1, <3>4, <4>1 DEF RequestType, ImageRequest, Request
      <4>3. Image(c, k, r.image) \in dl[s].result[k] \ Elements(dl[s].list[k])
        BY <2>8, <3>1, <3>4, <4>1 DEF RequestOK
      <4>4. dl'[s].result[k] = dl[s].result[k]
              /\ dl'[s].list[k] = Append(dl[s].list[k], Image(c, k, j))
              /\ dl[s].list[k] \in Seq(ImageId)
        <5>1. dl[s].list \in [Chapters -> Seq(ImageId)]
          BY <2>3 DEF SessionType
        <5> DEFINE e == Image(c, k, j)
        <5>2. d.list = [dl[s].list EXCEPT ![k] = Append(@, e)] /\ d.result = dl[s].result
          BY <2>5
        <5> HIDE DEF c, k, s, j, e, d
        <5>3. d.list[k] = Append(dl[s].list[k], e) /\ dl[s].list[k] \in Seq(ImageId)
          BY <2>3, <5>1, <5>2
        <5>4. dl'[s].result = dl[s].result /\ dl'[s].list = d.list
          BY <2>7, <5>2
        <5> QED  BY <5>3, <5>4 DEF e
      <4>5. Elements(dl'[s].list[k]) = Elements(dl[s].list[k]) \cup {Image(c, k, j)}
        <5> DEFINE q == dl[s].list[k]
                   e == Image(c, k, j)
        <5>1. q \in Seq(ImageId) /\ e \in ImageId
          BY <2>4, <4>4, Zenon
        <5> HIDE DEF q, e
        <5>2. Elements(Append(q, e)) = Elements(q) \cup {e}
          BY <5>1, ElementsAppend
        <5> QED  BY <4>4, <5>2, Zenon DEF q, e
      <4>6. Image(c, k, r.image) # Image(c, k, j)
        BY <4>2, Zenon DEF Image
      <4>7. Image(c, k, r.image) \in dl'[s].result[k] \ Elements(dl'[s].list[k])
        BY <4>3, <4>4, <4>5, <4>6, Zenon
      <4> QED  BY <1>0, <2>2, <2>3, <2>7, <2>8, <3>1, <3>2, <3>4, <4>1, <4>7 DEF RequestOK
    <3> QED  BY <3>3, <3>4
  <2>9. \A r \in net' : RequestOK(r)'
    BY <1>0, <2>3, <2>6, <2>7, <2>8, OtherSessions
  <2>10. \A t \in Sessions : /\ (dl[t].phase = "unused" => Fresh(t))'
                             /\ (Started(t) => dl[t].comic \in Comics)'
    BY <2>2, <2>3, <2>7 DEF StageOK, Started, Fresh, FreshChapter
  <2> QED  BY <2>9, <2>10 DEF StageOK
<1>7. CASE Restart
  <2>1. net' = {} /\ \A s \in Sessions : dl'[s] = Idle(IF dl[s].phase = "unused" THEN "unused" ELSE "lost")
    BY <1>7 DEF Restart
  <2>2. \A s \in Sessions : Fresh(s)' /\ ~Started(s)'
    <3> SUFFICES ASSUME NEW s \in Sessions PROVE Fresh(s)' /\ ~Started(s)'
      OBVIOUS
    <3>1. PICK phase \in {"unused", "lost"} : dl'[s] = Idle(phase)
      BY <2>1
    <3>2. /\ dl'[s].phase = phase
          /\ dl'[s].result = [k \in Chapters |-> {}]
          /\ dl'[s].list = [k \in Chapters |-> <<>>]
          /\ dl'[s].tmp = [k \in Chapters |-> 0]
      BY <3>1 DEF Idle
    <3> QED  BY <3>2 DEF Fresh, FreshChapter, Started
  <2> QED  BY <2>1, <2>2 DEF StageOK
<1> QED
  BY <1>1, <1>2, <1>3, <1>4, <1>5, <1>6, <1>7 DEF Next, OpenInfo, ReviewArrives, Back,
       RequestFails, vars

(* Inv holds in every reachable state. *)
THEOREM InductiveInvariant == Spec => []Inv
<1>1. Inv /\ [Next]_vars => Inv'
  BY TypeStep, ViewsStep, StageStep DEF Inv
<1> QED  BY InitInv, <1>1, PTL DEF Spec

(* Whatever the order of taps, callbacks, failures and restarts, every     *)
(* variable keeps its shape: no callback touches a session, chapter or     *)
(* record that does not exist.                                             *)
THEOREM TypeCorrect == Spec => []TypeOK
BY InductiveInvariant, PTL DEF Inv

-----------------------------------------------------------------------------
(* The shelf and Realm *)

(* The rows of the Download shelf are Realm's LComics in the same order:   *)
(* the two are only appended to together, in PosterArrives, and the shelf  *)
(* is rebuilt from Realm by ComicRealmToRam.                               *)
THEOREM ShelfMirrors == Spec => []ShelfMirrorsRealm
<1>1. Init => ShelfMirrorsRealm
  BY DEF Init, ShelfMirrorsRealm
<1>2. Inv /\ ShelfMirrorsRealm /\ [Next]_vars => ShelfMirrorsRealm'
  <2> SUFFICES ASSUME Inv, ShelfMirrorsRealm, [Next]_vars
               PROVE  ShelfMirrorsRealm'
    OBVIOUS
  <2>1. ASSUME NEW s \in Sessions, PosterArrives(s)
        PROVE  ShelfMirrorsRealm'
    <3>1. PICK x, y : /\ lcomics' = Append(lcomics, x) /\ listDownload' = Append(listDownload, y)
                      /\ x.comicID = y.comic
      BY <2>1 DEF PosterArrives
    <3>2. lcomics \in Seq(LComicType) /\ listDownload \in Seq(RowType)
      BY DEF Inv, TypeOK
    <3>3. Len(lcomics) = Len(listDownload)
      BY <3>2 DEF ShelfMirrorsRealm
    <3>4. /\ DOMAIN lcomics' = 1..(Len(lcomics) + 1) /\ DOMAIN listDownload' = 1..(Len(lcomics) + 1)
          /\ \A i \in 1..Len(lcomics) : lcomics'[i] = lcomics[i] /\ listDownload'[i] = listDownload[i]
          /\ lcomics'[Len(lcomics) + 1] = x /\ listDownload'[Len(lcomics) + 1] = y
      BY <3>1, <3>2, <3>3
    <3> QED  BY <3>1, <3>2, <3>4 DEF ShelfMirrorsRealm
  <2>2. CASE Restart
    BY <2>2 DEF Restart, ShelfMirrorsRealm
  <2>3. CASE UNCHANGED listDownload /\ DOMAIN lcomics' = DOMAIN lcomics
    BY <2>3, RecordsKept DEF ShelfMirrorsRealm
  <2>4. ASSUME NEW s, NEW k, NEW j, ImageArrives(s, k, j)
        PROVE  UNCHANGED listDownload /\ DOMAIN lcomics' = DOMAIN lcomics
    BY <2>4 DEF ImageArrives, StoreChapter
  <2> QED
    BY <2>1, <2>2, <2>3, <2>4 DEF Next, OpenInfo, ReviewArrives, Back, Download,
         DocumentArrives, RequestFails,
         ListArrives, vars
<1> QED  BY <1>1, <1>2, InductiveInvariant, PTL DEF Spec

-----------------------------------------------------------------------------
(* The counter *)

Running == {s \in Sessions : dl[s].phase = "running"}

(* A finished session's record holds at least totalChap chapters: no later *)
(* chapter, of this session or another, can make the count equal again.    *)
Full(c) == InRealm(c) /\ Len(lcomics[First(c)].listChap) >= TotalChap(c)
FinishedMeansFull == \A s \in Sessions : dl[s].phase = "finished" => Full(dl[s].comic)

LEMMA FullKept ==
  ASSUME Inv, [Next]_vars, TypeOK', NEW c \in Comics, Full(c)
  PROVE  Full(c)'
<1> DEFINE i == First(c)
<1>1. InRealm(c)' /\ First(c)' = i /\ i \in DOMAIN lcomics
  BY RealmKeeps, FirstStable, FirstIsRecord DEF Full, Inv
<1>2. Len(lcomics'[i].listChap) >= Len(lcomics[i].listChap)
  BY <1>1, RecordsKept
<1>3. TotalChap(c) \in Nat /\ Len(lcomics[i].listChap) \in Nat /\ Len(lcomics'[i].listChap) \in Nat
  <2>1. i \in DOMAIN lcomics'
    BY <1>1, RecordsKept
  <2>2. lcomics[i] \in LComicType /\ lcomics'[i] \in LComicType
    BY <1>1, <2>1 DEF Inv, TypeOK
  <2>3. TotalChap(c) \in Nat
    BY ServerData, ConstantsAssumption
  <2> QED  BY <2>2, <2>3 DEF LComicType
<1> QED  BY <1>1, <1>2, <1>3 DEF Full

(* The chapter that finishes a session makes its record full. *)
LEMMA FinishingStep ==
  ASSUME Inv, [Next]_vars, TypeOK', NEW s, NEW k, NEW j, ImageArrives(s, k, j),
         NEW c, c = dl[s].comic
  PROVE  /\ dl'[s].comic = c /\ \A t \in Sessions \ {s} : dl'[t] = dl[t]
         /\ \/ dl'[s].phase = dl[s].phase /\ UNCHANGED isDowloading
            \/ /\ dl'[s].phase = "finished" /\ isDowloading' = isDowloading - 1
               /\ ~Full(c) /\ Full(c)'
<1> DEFINE m == Image(dl[s].comic, k, j)
           d == Arrival(dl[s], k, m)
           i == First(c)
           chaps == lcomics[i].listChap
<1>1. /\ s \in Sessions /\ c \in Comics /\ InRealm(c) /\ k \in Chapters
      /\ dl[s] \in SessionType /\ m \in ImageId
  BY ImageFacts
<1>2. d \in SessionType /\ d.comic = c /\ d.phase = dl[s].phase
  <2>1. d \in SessionType /\ d.comic = dl[s].comic /\ d.phase = dl[s].phase
    <3> HIDE DEF m
    <3> QED  BY <1>1, ArrivalTyped
  <2> QED  BY <2>1
<1>3. i \in DOMAIN lcomics /\ First(c)' = i /\ InRealm(c)'
  BY <1>1, FirstStable, FirstIsRecord, RealmKeeps DEF Inv
<1>4. chaps \in Seq(Seq(ImageId)) /\ lcomics[i] \in LComicType /\ lcomics \in Seq(LComicType)
  <2>1. lcomics[i] \in LComicType /\ lcomics \in Seq(LComicType)
    BY <1>3 DEF Inv, TypeOK
  <2> QED  BY <2>1 DEF LComicType
<1>5. \/ StoreChapter(s, d, k)
      \/ dl' = [dl EXCEPT ![s] = d] /\ UNCHANGED isDowloading
  BY DEF ImageArrives, Arrival
<1> HIDE DEF d
<1>6. CASE dl' = [dl EXCEPT ![s] = d] /\ UNCHANGED isDowloading
  BY <1>1, <1>2, <1>6 DEF Inv, TypeOK
<1>7. ASSUME NEW chap, lcomics' = [lcomics EXCEPT ![i].listChap = chap]
      PROVE  lcomics'[i].listChap = chap
  BY <1>3, <1>4, <1>7 DEF LComicType
<1>8. CASE StoreChapter(s, d, k)
  <2> DEFINE chap == Append(chaps, d.list[k])
  <2>1. lcomics' = [lcomics EXCEPT ![i].listChap = chap]
    BY <1>2, <1>8 DEF StoreChapter
  <2>2. lcomics'[i].listChap = chap
    <3> HIDE DEF chap
    <3> QED  BY <1>7, <2>1
  <2>3. Len(chap) = Len(chaps) + 1 /\ Len(chaps) \in Nat
    BY <1>4
  <2>4. CASE /\ Len(chap) = TotalChap(c) /\ isDowloading' = isDowloading - 1
             /\ dl' = [dl EXCEPT ![s] = [d EXCEPT !.phase = "finished"]]
    <3>1. dl'[s].phase = "finished" /\ dl'[s].comic = c /\ \A t \in Sessions \ {s} : dl'[t] = dl[t]
      BY <1>1, <1>2, <2>4 DEF Inv, TypeOK, SessionType
    <3>2. ~Full(c)
      BY <2>3, <2>4 DEF Full
    <3>3. Full(c)'
      BY <1>3, <2>2, <2>3, <2>4 DEF Full
    <3> QED  BY <2>4, <3>1, <3>2, <3>3
  <2>5. CASE dl' = [dl EXCEPT ![s] = d] /\ UNCHANGED isDowloading
    BY <1>6, <2>5
  <2> QED  BY <1>2, <1>8, <2>4, <2>5 DEF StoreChapter
<1> QED  BY <1>5, <1>6, <1>8

LEMMA FinishedStep == Inv /\ TypeOK' /\ FinishedMeansFull /\ [Next]_vars => FinishedMeansFull'
<1> SUFFICES ASSUME Inv, TypeOK', FinishedMeansFull, [Next]_vars,
                    NEW s \in Sessions, dl'[s].phase = "finished"
             PROVE  Full(dl[s].comic)'
  BY DEF FinishedMeansFull
<1>1. CASE dl[s].phase = "finished" /\ dl'[s].comic = dl[s].comic
  <2>1. PICK c \in Comics : c = dl[s].comic
    BY <1>1 DEF Inv, StageOK, Started
  <2>2. Full(c)'
    BY <1>1, <2>1, FullKept DEF FinishedMeansFull
  <2> QED  BY <1>1, <2>1, <2>2 DEF Full, InRealm, First
<1>2. ASSUME NEW t, NEW k, NEW j, ImageArrives(t, k, j)
      PROVE  Full(dl[s].comic)'
  <2>1. PICK c : c = dl[t].comic
    OBVIOUS
  <2>2. CASE dl'[s] = dl[s] \/ (dl'[s].phase = dl[s].phase /\ dl'[s].comic = dl[s].comic)
    BY <1>1, <2>2
  <2>3. CASE s = t /\ dl'[t].comic = c /\ Full(c)'
    BY <2>3 DEF Full, InRealm, First
  <2> QED  BY <1>2, <2>1, <2>2, <2>3, FinishingStep
<1>3. ASSUME NEW t \in Sessions, dl' = [dl EXCEPT ![t].phase = "running", ![t].comic = comicId]
      PROVE  Full(dl[s].comic)'
  <2>1. t # s
    BY <1>3 DEF Inv, TypeOK, SessionType
  <2> QED  BY <1>1, <1>3, <2>1 DEF Inv, TypeOK
<1>4. ASSUME NEW t \in Sessions, DocumentArrives(t)
      PROVE  Full(dl[s].comic)'
  BY <1>1, <1>4 DEF DocumentArrives, Inv, TypeOK, SessionType
<1>5. ASSUME NEW t \in Sessions, NEW k \in Chapters, ListArrives(t, k)
      PROVE  Full(dl[s].comic)'
  <2>1. dl'[s].phase = dl[s].phase /\ dl'[s].comic = dl[s].comic
    BY <1>5, SMTT(20) DEF ListArrives, Inv, TypeOK, SessionType
  <2> QED  BY <1>1, <2>1
<1>6. CASE UNCHANGED dl
  BY <1>1, <1>6
<1>7. CASE Restart
  BY <1>7 DEF Restart, Idle
<1> QED
  BY <1>2, <1>3, <1>4, <1>5, <1>6, <1>7 DEF Next, OpenInfo, ReviewArrives, Back, Download,
       PosterArrives, RequestFails, vars

(* Comic.isDowloading is the number of running sessions: each tap raises   *)
(* it once, and it is lowered once by the session that makes its record    *)
(* full, by no other, however many sessions fill that record.              *)
THEOREM CounterCorrect == Spec => []CounterExact
<1>1. Init => FinishedMeansFull /\ CounterExact
  <2> SUFFICES ASSUME Init PROVE FinishedMeansFull /\ CounterExact
    OBVIOUS
  <2>1. {s \in Sessions : dl[s].phase = "running"} = {}
    BY DEF Init, Idle
  <2>2. isDowloading = 0 /\ \A s \in Sessions : dl[s].phase = "unused"
    BY DEF Init, Idle
  <2> QED  BY <2>1, <2>2, FS_EmptySet DEF FinishedMeansFull, CounterExact
<1>2. Inv /\ TypeOK' /\ FinishedMeansFull /\ CounterExact /\ [Next]_vars => CounterExact'
  <2> SUFFICES ASSUME Inv, TypeOK', FinishedMeansFull, CounterExact, [Next]_vars
               PROVE  CounterExact'
    OBVIOUS
  <2>0. isDowloading = Cardinality(Running) /\ IsFiniteSet(Running)
    <3>1. IsFiniteSet(Running)
      BY ConstantsAssumption, FS_Subset DEF Running
    <3> QED  BY <3>1 DEF CounterExact, Running
  <2>1. CASE UNCHANGED isDowloading /\ \A s \in Sessions : dl'[s].phase = dl[s].phase
    BY <2>1 DEF CounterExact
  <2>2. ASSUME NEW s \in Sessions, Download(s)
        PROVE  CounterExact'
    <3>1. Running' = Running \cup {s} /\ s \notin Running
      BY <2>2 DEF Download, Running, Inv, TypeOK, SessionType
    <3>2. isDowloading' = isDowloading + 1
      BY <2>2 DEF Download
    <3> QED  BY <2>0, <3>1, <3>2, FS_AddElement DEF CounterExact, Running
  <2>3. ASSUME NEW s, NEW k, NEW j, ImageArrives(s, k, j)
        PROVE  CounterExact'
    <3>0. PICK c : c = dl[s].comic
      OBVIOUS
    <3>1. s \in Sessions /\ Started(s)
      BY <2>3, ImageFacts
    <3>2. CASE dl'[s].phase = dl[s].phase /\ UNCHANGED isDowloading
      BY <2>1, <2>3, <3>0, <3>2, FinishingStep
    <3>3. CASE /\ dl'[s].phase = "finished" /\ isDowloading' = isDowloading - 1
               /\ ~Full(c)
      <4>1. dl[s].phase = "running"
        BY <3>0, <3>1, <3>3 DEF Started, FinishedMeansFull
      <4>2. Running' = Running \ {s} /\ s \in Running
        BY <2>3, <3>0, <3>1, <3>3, <4>1, FinishingStep DEF Running
      <4> QED  BY <2>0, <3>3, <4>2, FS_RemoveElement DEF CounterExact, Running
    <3> QED  BY <2>3, <3>0, <3>2, <3>3, FinishingStep
  <2>4. ASSUME NEW s \in Sessions, DocumentArrives(s)
        PROVE  CounterExact'
    BY <2>1, <2>4 DEF DocumentArrives, Inv, TypeOK, SessionType
  <2>5. ASSUME NEW s \in Sessions, NEW k \in Chapters, ListArrives(s, k)
        PROVE  CounterExact'
    BY <2>1, <2>5, SMTT(20) DEF ListArrives, Inv, TypeOK, SessionType
  <2>6. CASE Restart
    <3>1. Running' = {} /\ isDowloading' = 0
      BY <2>6 DEF Restart, Idle, Running
    <3> QED  BY <3>1, FS_EmptySet DEF CounterExact, Running
  <2>7. CASE UNCHANGED <<isDowloading, dl>>
    BY <2>1, <2>7
  <2> QED
    BY <2>2, <2>3, <2>4, <2>5, <2>6, <2>7 DEF Next, OpenInfo, ReviewArrives, Back,
         PosterArrives, RequestFails, vars
<1>3. Inv => TypeOK
  BY DEF Inv
<1> QED  BY <1>1, <1>2, <1>3, FinishedStep, InductiveInvariant, PTL DEF Spec

-----------------------------------------------------------------------------
(* Stored chapters *)

LEMMA ImagesCount ==
  ASSUME NEW c, NEW k, NEW n \in Nat
  PROVE  IsFiniteSet(Images(c, k, n)) /\ Cardinality(Images(c, k, n)) = n
<1> DEFINE f == [j \in 1..n |-> Image(c, k, j)]
<1>1. f \in Bijection(1..n, Images(c, k, n))
  BY DEF Bijection, Injection, Surjection, IsInjective, Images, Image
<1>2. ExistsBijection(1..n, Images(c, k, n))
  BY <1>1 DEF ExistsBijection
<1>3. IsFiniteSet(1..n) /\ Cardinality(1..n) = n
  BY FS_Interval
<1> QED  BY <1>2, <1>3, FS_Bijection

LEMMA ZeroListed ==
  ASSUME NEW c \in Comics, NEW k \in 1..TotalChap(c)
  PROVE  0 \in Listed(c, k)
<1>1. Whole(c, k) \in Nat /\ PageSize \in Nat \ {0}
  BY ServerData, ConstantsAssumption
<1>2. 0 % PageSize = 0
  BY <1>1
<1> QED  BY <1>1, <1>2 DEF Listed, Truncated

(* A fresh chapter counts down from nothing. *)
LEMMA FreshCountdown ==
  ASSUME NEW d, NEW c \in Comics, d.comic = c, NEW k \in 1..TotalChap(c),
         d.result[k] = {}, d.list[k] = <<>>, d.tmp[k] = 0
  PROVE  Countdown(d, k)
<1>1. 0 \in Listed(c, k)
  BY ZeroListed
<1>2. Images(c, k, 0) = {}
  BY DEF Images
<1>3. Elements(d.list[k]) \subseteq d.result[k] /\ Len(d.list[k]) + d.tmp[k] = 0
  BY ElementsEmpty
<1>4. d.tmp[k] = Cardinality(d.result[k] \ Elements(d.list[k]))
  BY FS_EmptySet, ElementsEmpty
<1> QED  BY <1>1, <1>2, <1>3, <1>4 DEF Countdown

(* Countdown speaks of four fields only. *)
LEMMA CountdownFrame ==
  ASSUME NEW d, NEW e, NEW k, Countdown(d, k), e.comic = d.comic,
         e.result[k] = d.result[k], e.list[k] = d.list[k], e.tmp[k] = d.tmp[k]
  PROVE  Countdown(e, k)
BY DEF Countdown

(* A listing of n images starts the countdown at n. *)
LEMMA CountdownStarts ==
  ASSUME NEW x \in SessionType, x.comic \in Comics, NEW k \in 1..TotalChap(x.comic),
         NEW n \in Listed(x.comic, k), x.list[k] = <<>>
  PROVE  Countdown(Listing(x, k, Images(x.comic, k, n), n), k)
<1> DEFINE S == Images(x.comic, k, n)
           d == Listing(x, k, S, n)
<1>1. n \in Nat /\ k \in Chapters
  BY ServerData
<1>2. S \in SUBSET ImageId
  BY <1>1, ImagesAreImageIds
<1>3. Cardinality(S) = n
  BY <1>1, ImagesCount
<1> HIDE DEF S
<1>4. d.result[k] = S /\ d.tmp[k] = n /\ d.list[k] = <<>> /\ d.comic = x.comic
  <2>1. /\ d.result = [x.result EXCEPT ![k] = S] /\ d.tmp = [x.tmp EXCEPT ![k] = n]
        /\ d.list = x.list /\ d.comic = x.comic
    BY <1>1, <1>2, ListingFields
  <2>2. k \in DOMAIN x.result /\ k \in DOMAIN x.tmp
    BY <1>1 DEF SessionType
  <2> HIDE DEF d
  <2> QED  BY <2>1, <2>2
<1> HIDE DEF d
<1>5. Elements(d.list[k]) = {}
  BY <1>4, ElementsEmpty
<1>6. Len(d.list[k]) = 0
  BY <1>4
<1>7. /\ d.result[k] = Images(d.comic, k, n) /\ n \in Listed(d.comic, k)
      /\ Elements(d.list[k]) \subseteq d.result[k]
      /\ d.tmp[k] = Cardinality(d.result[k] \ Elements(d.list[k]))
      /\ Len(d.list[k]) + d.tmp[k] = n
  <2>1. d.result[k] = Images(d.comic, k, n) /\ n \in Listed(d.comic, k)
    BY <1>4 DEF S
  <2>2. d.result[k] \ Elements(d.list[k]) = S
    BY <1>4, <1>5
  <2>3. d.tmp[k] = Cardinality(d.result[k] \ Elements(d.list[k]))
    BY <1>3, <1>4, <2>2
  <2>4. Len(d.list[k]) + d.tmp[k] = n
    BY <1>1, <1>4, <1>6
  <2> QED  BY <1>5, <2>1, <2>3, <2>4
<1>8. Countdown(d, k)
  BY <1>7 DEF Countdown
<1> QED  BY <1>8 DEF d, S

(* Every image that was listed and has not arrived yet takes it one down. *)
LEMMA CountdownGoesOn ==
  ASSUME NEW x \in SessionType, x.comic \in Comics, NEW k \in 1..TotalChap(x.comic),
         Countdown(x, k), NEW m \in ImageId, m \in x.result[k] \ Elements(x.list[k]),
         NEW d, d.comic = x.comic, d.result[k] = x.result[k],
         d.list[k] = Append(x.list[k], m), d.tmp[k] = x.tmp[k] - 1
  PROVE  Countdown(d, k)
<1> DEFINE rest == x.result[k] \ Elements(x.list[k])
<1>1. k \in Chapters
  BY ServerData
<1>2. PICK n \in Listed(x.comic, k) :
        /\ x.result[k] = Images(x.comic, k, n)
        /\ Elements(x.list[k]) \subseteq x.result[k]
        /\ x.tmp[k] = Cardinality(rest)
        /\ Len(x.list[k]) + x.tmp[k] = n
  BY DEF Countdown
<1>3. n \in Nat /\ IsFiniteSet(rest)
  <2>1. n \in Nat
    BY ServerData
  <2> QED  BY <1>2, <2>1, ImagesCount, FS_Difference
<1>4. x.list[k] \in Seq(ImageId) /\ x.tmp[k] \in Int
  BY <1>1 DEF SessionType
<1>6. Elements(d.list[k]) = Elements(x.list[k]) \cup {m} /\ Len(d.list[k]) = Len(x.list[k]) + 1
  BY <1>4, ElementsAppend
<1>7. d.result[k] \ Elements(d.list[k]) = rest \ {m}
  BY <1>6
<1>8. Cardinality(rest \ {m}) = Cardinality(rest) - 1
  BY <1>3, FS_RemoveElement
<1>9. Len(d.list[k]) + d.tmp[k] = n
  BY <1>2, <1>4, <1>6
<1>10. Elements(d.list[k]) \subseteq d.result[k]
  BY <1>2, <1>6
<1>11. d.result[k] = Images(d.comic, k, n) /\ n \in Listed(d.comic, k)
  BY <1>2
<1>12. d.tmp[k] = Cardinality(d.result[k] \ Elements(d.list[k]))
  BY <1>2, <1>7, <1>8
<1> QED  BY <1>9, <1>10, <1>11, <1>12 DEF Countdown

(* A countdown that reached 0 has gathered a chapter. *)
LEMMA CountdownEnds ==
  ASSUME NEW d \in SessionType, NEW c \in Comics, d.comic = c, NEW k \in 1..TotalChap(c),
         Countdown(d, k), d.tmp[k] = 0, d.list[k] # <<>>
  PROVE  IsChapterOf(c, d.list[k])
<1>1. PICK n \in Listed(c, k) :
        /\ d.result[k] = Images(c, k, n)
        /\ Elements(d.list[k]) \subseteq d.result[k]
        /\ d.tmp[k] = Cardinality(d.result[k] \ Elements(d.list[k]))
        /\ Len(d.list[k]) + d.tmp[k] = n
  BY DEF Countdown
<1>2. n \in Nat /\ k \in Chapters /\ d.list[k] \in Seq(ImageId)
  BY ServerData DEF SessionType
<1>3. IsFiniteSet(d.result[k] \ Elements(d.list[k]))
  BY <1>1, <1>2, ImagesCount, FS_Difference
<1>4. d.result[k] \ Elements(d.list[k]) = {}
  BY <1>1, <1>3, FS_EmptySet
<1>5. Len(d.list[k]) = n /\ n # 0
  BY <1>1, <1>2
<1>6. Elements(d.list[k]) = Images(c, k, n)
  BY <1>1, <1>4
<1> QED  BY <1>5, <1>6 DEF IsChapterOf, Listed

LEMMA ArrivalCountdown ==
  ASSUME Inv, CountdownOK, NEW s, NEW k, NEW j, ImageArrives(s, k, j)
  PROVE  LET d == Arrival(dl[s], k, Image(dl[s].comic, k, j))
         IN Countdown(d, k) /\ d.list[k] # <<>>
<1> DEFINE x == dl[s]
           m == Image(x.comic, k, j)
           d == Arrival(x, k, m)
<1>1. /\ s \in Sessions /\ Started(s) /\ x \in SessionType /\ x.comic \in Comics
      /\ k \in 1..TotalChap(x.comic) /\ k \in Chapters /\ m \in ImageId
      /\ m \in x.result[k] \ Elements(x.list[k])
  BY ImageFacts
<1>2. Countdown(x, k)
  BY <1>1 DEF CountdownOK
<1> HIDE DEF m, x
<1>3. /\ d \in SessionType
      /\ d.list = [x.list EXCEPT ![k] = Append(@, m)]
      /\ d.tmp = [x.tmp EXCEPT ![k] = @ - 1]
      /\ d.result = x.result /\ d.comic = x.comic /\ d.phase = x.phase
  BY <1>1, ArrivalFields
<1> HIDE DEF d
<1>4. d.list[k] = Append(x.list[k], m) /\ d.tmp[k] = x.tmp[k] - 1 /\ x.list[k] \in Seq(ImageId)
  BY <1>1, <1>3 DEF SessionType
<1>5. Countdown(d, k)
  BY <1>1, <1>2, <1>3, <1>4, CountdownGoesOn
<1>6. d.list[k] # <<>>
  <2>1. Len(d.list[k]) = Len(x.list[k]) + 1 /\ Len(x.list[k]) \in Nat
    BY <1>1, <1>4
  <2> QED  BY <2>1
<1> QED  BY <1>5, <1>6 DEF d, m, x

LEMMA CountdownStep == Inv /\ CountdownOK /\ [Next]_vars => CountdownOK'
<1> SUFFICES ASSUME Inv, CountdownOK, [Next]_vars,
                    NEW s \in Sessions, Started(s)', NEW c, c = dl'[s].comic,
                    NEW k \in 1..TotalChap(c)
             PROVE  Countdown(dl'[s], k)
  BY DEF CountdownOK
<1>1. CASE /\ Started(s) /\ dl'[s].comic = dl[s].comic
           /\ dl'[s].result[k] = dl[s].result[k]
           /\ dl'[s].list[k] = dl[s].list[k]
           /\ dl'[s].tmp[k] = dl[s].tmp[k]
  <2>1. Countdown(dl[s], k)
    BY <1>1 DEF CountdownOK
  <2> QED  BY <1>1, <2>1, CountdownFrame
<1>2. CASE dl'[s] = dl[s]
  BY <1>1, <1>2 DEF Started
<1>3. ASSUME NEW t \in Sessions, Download(t)
      PROVE  Countdown(dl'[s], k)
  <2>1. CASE t # s
    BY <1>2, <1>3, <2>1 DEF Download, Inv, TypeOK
  <2>2. CASE t = s
    <3>1. Fresh(s) /\ comicId \in Comics
      BY <1>3, <2>2 DEF Download, Inv, StageOK, ViewsSetId, TypeOK
    <3>2. /\ dl'[s].comic = comicId /\ dl'[s].result = dl[s].result
          /\ dl'[s].list = dl[s].list /\ dl'[s].tmp = dl[s].tmp
      BY <1>3, <2>2 DEF Download, Inv, TypeOK, SessionType
    <3>3. k \in Chapters
      BY <3>1, <3>2, ServerData
    <3> QED  BY <3>1, <3>2, <3>3, FreshCountdown DEF Fresh, FreshChapter
  <2> QED  BY <2>1, <2>2
<1>4. ASSUME NEW t \in Sessions, DocumentArrives(t)
      PROVE  Countdown(dl'[s], k)
  <2>1. /\ dl'[s].comic = dl[s].comic /\ dl'[s].result = dl[s].result /\ dl'[s].phase = dl[s].phase
        /\ dl'[s].list = dl[s].list /\ dl'[s].tmp = dl[s].tmp
    BY <1>4 DEF DocumentArrives, Inv, TypeOK, SessionType
  <2> QED  BY <1>1, <2>1 DEF Started
<1>5. ASSUME NEW t \in Sessions, NEW h \in Chapters, ListArrives(t, h)
      PROVE  Countdown(dl'[s], k)
  <2>1. CASE t # s
    BY <1>2, <1>5, <2>1 DEF ListArrives, Inv, TypeOK
  <2>2. CASE t = s
    <3> DEFINE L == ListRequest(s, h)
    <3>1. L \in net /\ L.session = s /\ L.kind = "list" /\ L.chapter = h
      BY <1>5, <2>2 DEF ListArrives, ListRequest, Request
    <3>2. Started(s) /\ dl[s].comic \in Comics /\ h \in 1..TotalChap(dl[s].comic) /\ FreshChapter(s, h)
      BY <3>1 DEF Inv, StageOK, RequestOK
    <3>3. PICK n \in Listed(dl[s].comic, h) :
            dl' = [dl EXCEPT ![s] = Listing(dl[s], h, Images(dl[s].comic, h, n), n)]
      <4>1. ListArrives(s, h)
        BY <1>5, <2>2
      <4> QED  BY <4>1 DEF ListArrives, Listed, Listing, Inv, TypeOK
    <3>4. n \in Nat /\ Images(dl[s].comic, h, n) \in SUBSET ImageId /\ dl[s] \in SessionType
      BY <3>2, ServerData, ImagesAreImageIds DEF Inv, TypeOK
    <3>5. dl'[s] = Listing(dl[s], h, Images(dl[s].comic, h, n), n)
      BY <3>3 DEF Inv, TypeOK
    <3>6. CASE k = h
      <4>1. dl[s].list[h] = <<>>
        BY <3>2 DEF FreshChapter
      <4> QED  BY <3>2, <3>4, <3>5, <3>6, <4>1, CountdownStarts
    <3>7. CASE k # h
      <4>1. /\ dl'[s] \in SessionType
            /\ dl'[s].result = [dl[s].result EXCEPT ![h] = Images(dl[s].comic, h, n)]
            /\ dl'[s].tmp = [dl[s].tmp EXCEPT ![h] = n]
            /\ dl'[s].list = dl[s].list /\ dl'[s].comic = dl[s].comic
        BY <3>4, <3>5, ListingFields
      <4>2. k \in Chapters
        BY <3>2, <4>1, ServerData
      <4>3. dl'[s].result[k] = dl[s].result[k] /\ dl'[s].tmp[k] = dl[s].tmp[k]
        BY <3>4, <3>7, <4>1, <4>2 DEF SessionType
      <4> QED  BY <1>1, <3>2, <4>1, <4>3
    <3> QED  BY <3>6, <3>7
  <2> QED  BY <2>1, <2>2
<1>6. ASSUME NEW t, NEW h, NEW j, ImageArrives(t, h, j)
      PROVE  Countdown(dl'[s], k)
  <2> DEFINE m == Image(dl[t].comic, h, j)
             d == Arrival(dl[t], h, m)
  <2>1. /\ t \in Sessions /\ Started(t) /\ dl[t] \in SessionType /\ dl[t].comic \in Comics
        /\ h \in 1..TotalChap(dl[t].comic) /\ h \in Chapters /\ m \in ImageId
        /\ m \in dl[t].result[h] \ Elements(dl[t].list[h])
    BY <1>6, ImageFacts
  <2>2. \/ StoreChapter(t, d, h)
        \/ dl' = [dl EXCEPT ![t] = d]
    BY <1>6 DEF ImageArrives, Arrival
  <2>3. /\ d \in SessionType
        /\ d.list = [dl[t].list EXCEPT ![h] = Append(@, m)]
        /\ d.tmp = [dl[t].tmp EXCEPT ![h] = @ - 1]
        /\ d.result = dl[t].result /\ d.comic = dl[t].comic /\ d.phase = dl[t].phase
    <3> DEFINE x == dl[t]
    <3>1. x \in SessionType /\ h \in Chapters /\ m \in ImageId
      BY <2>1
    <3> HIDE DEF m, x
    <3>2. LET y == Arrival(x, h, m) IN
          /\ y \in SessionType
          /\ y.list = [x.list EXCEPT ![h] = Append(@, m)]
          /\ y.tmp = [x.tmp EXCEPT ![h] = @ - 1]
          /\ y.result = x.result /\ y.comic = x.comic /\ y.phase = x.phase
      BY <3>1, ArrivalFields, Zenon
    <3> QED  BY <3>2, Zenon DEF x
  <2>4. Countdown(d, h)
    BY <1>6, ArrivalCountdown
  <2> HIDE DEF d, m
  <2>5. dl' = [dl EXCEPT ![t] = d] \/ dl' = [dl EXCEPT ![t] = [d EXCEPT !.phase = "finished"]]
    BY <2>2 DEF StoreChapter
  <2>6. CASE t # s
    BY <1>2, <2>5, <2>6 DEF Inv, TypeOK
  <2>7. CASE t = s
    <3>1. dl'[s] = d \/ dl'[s] = [d EXCEPT !.phase = "finished"]
      BY <2>5, <2>7 DEF Inv, TypeOK
    <3>2. /\ dl'[s].list = d.list /\ dl'[s].tmp = d.tmp /\ dl'[s].result = d.result
          /\ dl'[s].comic = d.comic
      BY <2>3, <3>1 DEF SessionType
    <3>3. CASE k = h
      BY <2>4, <3>2, <3>3, CountdownFrame
    <3>4. CASE k # h
      <4>1. k \in Chapters
        BY <2>1, <2>3, <2>7, <3>2, ServerData
      <4>2. dl'[s].list[k] = dl[s].list[k] /\ dl'[s].tmp[k] = dl[s].tmp[k]
        BY <2>1, <2>3, <2>7, <3>2, <3>4, <4>1, SMTT(20) DEF SessionType
      <4> QED  BY <1>1, <2>1, <2>3, <2>7, <3>2, <4>2
    <3> QED  BY <3>3, <3>4
  <2> QED  BY <2>6, <2>7
<1>7. CASE Restart
  BY <1>7 DEF Restart, Idle, Started
<1>8. CASE UNCHANGED dl
  BY <1>2, <1>8
<1> QED
  BY <1>3, <1>4, <1>5, <1>6, <1>7, <1>8 DEF Next, OpenInfo, ReviewArrives, Back, PosterArrives,
       RequestFails, vars

LEMMA StoredStep ==
  Inv /\ TypeOK' /\ CountdownOK /\ StoredChaptersWhole /\ [Next]_vars => StoredChaptersWhole'
<1> SUFFICES ASSUME Inv, TypeOK', CountdownOK, StoredChaptersWhole, [Next]_vars
             PROVE  StoredChaptersWhole'
  OBVIOUS
<1>0. lcomics \in Seq(LComicType)
  BY DEF Inv, TypeOK
<1>1. CASE UNCHANGED lcomics
  BY <1>1 DEF StoredChaptersWhole
<1>2. ASSUME NEW s \in Sessions, PosterArrives(s)
      PROVE  StoredChaptersWhole'
  <2>1. PICK x : lcomics' = Append(lcomics, x) /\ x.listChap = <<>>
    BY <1>2 DEF PosterArrives
  <2>2. /\ DOMAIN lcomics' = 1..(Len(lcomics) + 1) /\ DOMAIN lcomics = 1..Len(lcomics)
        /\ Len(lcomics) \in Nat
        /\ \A i \in DOMAIN lcomics : lcomics'[i] = lcomics[i]
        /\ lcomics'[Len(lcomics) + 1] = x
    BY <1>0, <2>1
  <2> SUFFICES ASSUME NEW i \in DOMAIN lcomics', NEW h \in DOMAIN lcomics'[i].listChap
               PROVE  IsChapterOf(lcomics'[i].comicID, lcomics'[i].listChap[h])
    BY DEF StoredChaptersWhole
  <2>3. i \in DOMAIN lcomics
    BY <2>1, <2>2
  <2> QED  BY <2>2, <2>3 DEF StoredChaptersWhole
<1>3. ASSUME NEW s, NEW k, NEW j, ImageArrives(s, k, j), NEW c, c = dl[s].comic
      PROVE  StoredChaptersWhole'
  <2> DEFINE m == Image(dl[s].comic, k, j)
             d == Arrival(dl[s], k, m)
             i == First(c)
             chaps == lcomics[i].listChap
  <2>1. /\ s \in Sessions /\ dl[s] \in SessionType /\ dl[s].comic \in Comics /\ InRealm(dl[s].comic)
        /\ k \in 1..TotalChap(dl[s].comic) /\ k \in Chapters /\ m \in ImageId
    BY <1>3, ImageFacts
  <2>2. Countdown(d, k) /\ d.list[k] # <<>>
    BY <1>3, ArrivalCountdown
  <2>3. d \in SessionType /\ d.comic = dl[s].comic
    <3> HIDE DEF m
    <3> QED  BY <2>1, ArrivalTyped
  <2>4. \/ UNCHANGED lcomics
        \/ d.tmp[k] = 0 /\ StoreChapter(s, d, k)
    BY <1>3 DEF ImageArrives, Arrival
  <2> HIDE DEF d, m
  <2>5. CASE d.tmp[k] = 0 /\ StoreChapter(s, d, k)
    <3>1. IsChapterOf(c, d.list[k])
      BY <1>3, <2>1, <2>2, <2>3, <2>5, CountdownEnds
    <3>2. i \in DOMAIN lcomics /\ lcomics[i].comicID = c
      BY <1>3, <2>1, FirstIsRecord DEF Inv
    <3>3. lcomics' = [lcomics EXCEPT ![i].listChap = Append(chaps, d.list[k])]
      BY <1>3, <2>3, <2>5 DEF StoreChapter
    <3>4. \A h \in DOMAIN lcomics : lcomics[h] \in LComicType /\ lcomics[h].listChap \in Seq(Seq(ImageId))
      <4>1. \A h \in DOMAIN lcomics : lcomics[h] \in LComicType
        BY <1>0
      <4> QED  BY <4>1 DEF LComicType
    <3>5. /\ DOMAIN lcomics' = DOMAIN lcomics
          /\ \A h \in DOMAIN lcomics \ {i} : lcomics'[h] = lcomics[h]
      BY <1>0, <3>3
    <3>6. lcomics'[i].comicID = c /\ lcomics'[i].listChap = Append(chaps, d.list[k])
      <4> DEFINE ch == Append(chaps, d.list[k])
      <4> HIDE DEF ch
      <4>1. lcomics' = [lcomics EXCEPT ![i].listChap = ch]
        BY <3>3 DEF ch
      <4>2. lcomics'[i].comicID = c /\ lcomics'[i].listChap = ch
        BY <1>0, <3>2, <3>4, <4>1 DEF LComicType
      <4> QED  BY <4>2 DEF ch
    <3>7. d.list[k] \in Seq(ImageId)
      BY <2>1, <2>3 DEF SessionType
    <3>8. ASSUME NEW h \in DOMAIN lcomics'[i].listChap
          PROVE  IsChapterOf(c, lcomics'[i].listChap[h])
      <4>1. chaps \in Seq(Seq(ImageId)) /\ Len(chaps) \in Nat
        BY <3>2, <3>4
      <4>2. h \in 1..(Len(chaps) + 1)
        BY <3>6, <3>7, <4>1
      <4>3. CASE h = Len(chaps) + 1
        BY <3>1, <3>6, <3>7, <4>1, <4>3
      <4>4. CASE h \in 1..Len(chaps)
        <5>1. lcomics'[i].listChap[h] = chaps[h] /\ h \in DOMAIN chaps
          BY <3>6, <3>7, <4>1, <4>4
        <5> QED  BY <3>2, <5>1 DEF StoredChaptersWhole
      <4>5. h = Len(chaps) + 1 \/ h \in 1..Len(chaps)
        <5> HIDE DEF chaps
        <5> QED  BY <4>1, <4>2
      <4> QED  BY <4>3, <4>4, <4>5
    <3> QED  BY <3>5, <3>6, <3>8 DEF StoredChaptersWhole
  <2> QED  BY <1>1, <2>4, <2>5
<1> QED
  <2>1. ASSUME NEW s, NEW k, NEW j, ImageArrives(s, k, j)
        PROVE  StoredChaptersWhole'
    BY <2>1, <1>3
  <2> QED
    BY <1>1, <1>2, <2>1 DEF Next, OpenInfo, ReviewArrives, Back, Download, DocumentArrives,
         RequestFails,
         ListArrives, Restart, vars

(* Whatever the order in which the images of all chapters, of all running  *)
(* sessions, arrive or fail, each chapter that Realm holds is made of the  *)
(* images of one chapter folder of that comic, each exactly once, and of   *)
(* all of them whenever the folder's listing is complete.                  *)
THEOREM ChaptersStoredWhole == Spec => []StoredChaptersWhole
<1>1. Init => CountdownOK /\ StoredChaptersWhole
  BY DEF Init, Idle, CountdownOK, Started, StoredChaptersWhole
<1>2. Inv => TypeOK
  BY DEF Inv
<1> QED  BY <1>1, <1>2, CountdownStep, StoredStep, InductiveInvariant, PTL DEF Spec

-----------------------------------------------------------------------------
(* One step of Realm, seen from a comic *)

(* The chapters of the record every reader of c finds. *)
Chaps(c) == lcomics[First(c)].listChap

(* The ways a step changes Realm: not at all, by a new record without      *)
(* chapters, by a chapter at the end of the first record of a comic.       *)
RecordAdded(c) ==
  lcomics' = Append(lcomics, [comicID |-> c, comicNChap |-> TotalChap(c), listChap |-> <<>>])
ChapterAdded(c, ch) ==
  /\ InRealm(c)
  /\ lcomics' = [lcomics EXCEPT ![First(c)].listChap = Append(lcomics[First(c)].listChap, ch)]

LEMMA RecordTyped ==
  ASSUME TypeOK, NEW i \in DOMAIN lcomics
  PROVE  /\ lcomics[i] \in LComicType /\ lcomics[i].comicID \in Comics
         /\ lcomics[i].listChap \in Seq(Seq(ImageId))
<1>1. lcomics[i] \in LComicType
  BY DEF TypeOK
<1> QED  BY <1>1 DEF LComicType

LEMMA ChapsTyped ==
  ASSUME TypeOK, NEW c, InRealm(c)
  PROVE  Chaps(c) \in Seq(Seq(ImageId))
BY FirstIsRecord, RecordTyped DEF Chaps

(* A chapter added for c, and what became of the records. *)
LEMMA AddedChapter ==
  ASSUME TypeOK, NEW c, NEW ch \in Seq(ImageId), ChapterAdded(c, ch)
  PROVE  /\ lcomics'[First(c)].listChap = Append(Chaps(c), ch)
         /\ \A i \in DOMAIN lcomics \ {First(c)} : lcomics'[i] = lcomics[i]
         /\ \A i \in DOMAIN lcomics : lcomics'[i].comicID = lcomics[i].comicID
         /\ DOMAIN lcomics' = DOMAIN lcomics
<1> DEFINE f == First(c)
           new == Append(lcomics[f].listChap, ch)
<1>1. f \in DOMAIN lcomics /\ lcomics \in Seq(LComicType)
  BY FirstIsRecord DEF ChapterAdded, TypeOK
<1>2. lcomics' = [lcomics EXCEPT ![f].listChap = new]
  BY DEF ChapterAdded
<1>3. new = Append(Chaps(c), ch)
  BY DEF Chaps
<1>4. \A i \in DOMAIN lcomics : lcomics[i] \in LComicType
  BY RecordTyped
<1> HIDE DEF f, new
<1>5. DOMAIN lcomics' = DOMAIN lcomics /\ \A i \in DOMAIN lcomics \ {f} : lcomics'[i] = lcomics[i]
  BY <1>1, <1>2
<1>6. lcomics'[f] = [lcomics[f] EXCEPT !.listChap = new]
  BY <1>1, <1>2
<1>7. lcomics'[f].listChap = new /\ lcomics'[f].comicID = lcomics[f].comicID
  BY <1>1, <1>4, <1>6 DEF LComicType
<1>8. \A i \in DOMAIN lcomics : lcomics'[i].comicID = lcomics[i].comicID
  BY <1>5, <1>7
<1> QED  BY <1>3, <1>5, <1>7, <1>8 DEF f

(* A record added for c, and what became of the others. *)
LEMMA AddedRecord ==
  ASSUME TypeOK, NEW c, RecordAdded(c)
  PROVE  /\ DOMAIN lcomics = 1..Len(lcomics) /\ Len(lcomics) \in Nat
         /\ DOMAIN lcomics' = 1..(Len(lcomics) + 1)
         /\ \A i \in 1..Len(lcomics) : lcomics'[i] = lcomics[i]
         /\ lcomics'[Len(lcomics) + 1].comicID = c
         /\ lcomics'[Len(lcomics) + 1].listChap = <<>>
<1> DEFINE x == [comicID |-> c, comicNChap |-> TotalChap(c), listChap |-> <<>>]
<1>1. x.comicID = c /\ x.listChap = <<>>
  OBVIOUS
<1>2. lcomics' = Append(lcomics, x) /\ lcomics \in Seq(LComicType)
  BY DEF RecordAdded, TypeOK
<1> HIDE DEF x
<1> QED  BY <1>1, <1>2

(* An image that completes a chapter adds it to the first record.          *)
LEMMA StoringStep ==
  ASSUME Inv, CountdownOK, NEW s, NEW k, NEW j, ImageArrives(s, k, j), NEW c, c = dl[s].comic
  PROVE  \/ UNCHANGED lcomics
         \/ \E ch \in Seq(ImageId) : IsChapterOf(c, ch) /\ ChapterAdded(c, ch)
<1> DEFINE m == Image(dl[s].comic, k, j)
           d == Arrival(dl[s], k, m)
<1>1. /\ s \in Sessions /\ dl[s] \in SessionType /\ c \in Comics /\ InRealm(c)
      /\ k \in 1..TotalChap(c) /\ k \in Chapters /\ m \in ImageId
  BY ImageFacts
<1>2. Countdown(d, k) /\ d.list[k] # <<>>
  BY ArrivalCountdown
<1>3. d \in SessionType /\ d.comic = c
  <2>1. d \in SessionType /\ d.comic = dl[s].comic
    <3> HIDE DEF m
    <3> QED  BY <1>1, ArrivalTyped
  <2> QED  BY <2>1
<1>4. UNCHANGED lcomics \/ (d.tmp[k] = 0 /\ StoreChapter(s, d, k))
  BY DEF ImageArrives, Arrival
<1> HIDE DEF d, m
<1>5. CASE d.tmp[k] = 0 /\ StoreChapter(s, d, k)
  <2>1. IsChapterOf(c, d.list[k])
    BY <1>1, <1>2, <1>3, <1>5, CountdownEnds
  <2>2. ChapterAdded(c, d.list[k])
    BY <1>1, <1>3, <1>5 DEF StoreChapter, ChapterAdded
  <2>3. d.list[k] \in Seq(ImageId)
    BY <1>1, <1>3 DEF SessionType
  <2> QED  BY <2>1, <2>2, <2>3
<1> QED  BY <1>4, <1>5

(* Every step is one of these, and says which session took it. *)
LEMMA RealmSteps ==
  ASSUME Inv, CountdownOK, [Next]_vars
  PROVE  \/ UNCHANGED lcomics
         \/ \E s \in Sessions : /\ dl[s].comic \in Comics
                                /\ PosterArrives(s) /\ RecordAdded(dl[s].comic)
         \/ \E s \in Sessions, ch \in Seq(ImageId) :
              /\ dl[s].comic \in Comics /\ \E k, j : ImageArrives(s, k, j)
              /\ IsChapterOf(dl[s].comic, ch) /\ ChapterAdded(dl[s].comic, ch)
<1>1. ASSUME NEW s \in Sessions, PosterArrives(s)
      PROVE  dl[s].comic \in Comics /\ RecordAdded(dl[s].comic)
  <2>1. PosterRequest(s) \in net /\ PosterRequest(s).session = s
    BY <1>1 DEF PosterArrives, PosterRequest, Request
  <2>2. dl[s].comic \in Comics
    BY <2>1 DEF Inv, StageOK, RequestOK
  <2> QED  BY <1>1, <2>2 DEF PosterArrives, RecordAdded
<1>2. ASSUME NEW s, NEW k, NEW j, ImageArrives(s, k, j), ~UNCHANGED lcomics
      PROVE  /\ s \in Sessions /\ dl[s].comic \in Comics
             /\ \E ch \in Seq(ImageId) :
                  IsChapterOf(dl[s].comic, ch) /\ ChapterAdded(dl[s].comic, ch)
  <2>1. s \in Sessions /\ dl[s].comic \in Comics
    BY <1>2, ImageFacts
  <2>2. PICK c : c = dl[s].comic
    OBVIOUS
  <2>3. PICK ch \in Seq(ImageId) : IsChapterOf(c, ch) /\ ChapterAdded(c, ch)
    BY <1>2, <2>2, StoringStep
  <2> QED  BY <2>1, <2>2, <2>3
<1>3. \/ UNCHANGED lcomics
      \/ \E s \in Sessions : PosterArrives(s)
      \/ \E s, k, j : ImageArrives(s, k, j)
  BY Zenon DEF Next, OpenInfo, ReviewArrives, Back, Download, DocumentArrives, RequestFails,
       ListArrives, Restart, vars
<1>4. CASE \E s \in Sessions : PosterArrives(s)
  BY <1>1, <1>4, Zenon
<1>5. CASE (\E s, k, j : ImageArrives(s, k, j)) /\ ~UNCHANGED lcomics
  BY <1>2, <1>5, Zenon
<1> QED  BY <1>3, <1>4, <1>5, Zenon

(* A step of Realm that is about another comic leaves the record of c. *)
LEMMA RecordStays ==
  ASSUME Inv, [Next]_vars, TypeOK', NEW c \in Comics,
         \/ UNCHANGED lcomics
         \/ \E b \in Comics \ {c} : RecordAdded(b)
         \/ \E b \in Comics \ {c}, ch \in Seq(ImageId) : ChapterAdded(b, ch)
         \/ InRealm(c) /\ RecordAdded(c)
  PROVE  /\ InRealm(c)' <=> InRealm(c)
         /\ InRealm(c) => Chaps(c)' = Chaps(c)
<1>1. TypeOK
  BY DEF Inv
<1>2. CASE UNCHANGED lcomics
  BY <1>2 DEF InRealm, Chaps, First
<1>3. ASSUME NEW b, RecordAdded(b), b # c \/ InRealm(c)
      PROVE  /\ InRealm(c)' <=> InRealm(c)
             /\ InRealm(c) => Chaps(c)' = Chaps(c)
  <2>1. InRealm(c)' => InRealm(c)
    BY <1>1, <1>3, AddedRecord DEF InRealm
  <2>2. ASSUME InRealm(c) PROVE Chaps(c)' = Chaps(c)
    <3>1. First(c)' = First(c) /\ First(c) \in DOMAIN lcomics
      BY <1>1, <2>2, FirstStable, FirstIsRecord
    <3>2. lcomics'[First(c)] = lcomics[First(c)]
      BY <1>1, <1>3, <3>1, AddedRecord
    <3> QED  BY <3>1, <3>2 DEF Chaps
  <2>3. InRealm(c) => InRealm(c)'
    BY RealmKeeps
  <2> QED  BY <2>1, <2>2, <2>3
<1>4. ASSUME NEW b \in Comics \ {c}, NEW ch \in Seq(ImageId), ChapterAdded(b, ch)
      PROVE  /\ InRealm(c)' <=> InRealm(c)
             /\ InRealm(c) => Chaps(c)' = Chaps(c)
  <2>1. InRealm(c)' => InRealm(c)
    BY <1>1, <1>4, AddedChapter DEF InRealm
  <2>2. ASSUME InRealm(c) PROVE Chaps(c)' = Chaps(c)
    <3>1. First(c)' = First(c) /\ First(c) \in DOMAIN lcomics /\ lcomics[First(c)].comicID = c
      BY <1>1, <2>2, FirstStable, FirstIsRecord
    <3>2. First(b) # First(c)
      BY <1>1, <1>4, <3>1, FirstIsRecord DEF ChapterAdded
    <3>3. lcomics'[First(c)] = lcomics[First(c)]
      BY <1>1, <1>4, <3>1, <3>2, AddedChapter
    <3> QED  BY <3>1, <3>3 DEF Chaps
  <2>3. InRealm(c) => InRealm(c)'
    BY RealmKeeps
  <2> QED  BY <2>1, <2>2, <2>3
<1> QED  BY <1>2, <1>3, <1>4

(* The first record added for c is the one its readers find. *)
LEMMA FirstRecordAdded ==
  ASSUME TypeOK, TypeOK', NEW c \in Comics, ~InRealm(c), RecordAdded(c)
  PROVE  InRealm(c)' /\ First(c)' = Len(lcomics) + 1 /\ Chaps(c)' = <<>>
<1> DEFINE n == Len(lcomics)
           f == FirstOf(lcomics', c)
<1>1. /\ DOMAIN lcomics = 1..n /\ n \in Nat /\ DOMAIN lcomics' = 1..(n + 1)
      /\ \A i \in 1..n : lcomics'[i] = lcomics[i]
      /\ lcomics'[n + 1].comicID = c /\ lcomics'[n + 1].listChap = <<>>
  BY AddedRecord
<1>2. InRealm(c)'
  BY <1>1 DEF InRealm
<1>3. f \in DOMAIN lcomics' /\ lcomics'[f].comicID = c
  BY <1>2, FirstOfLeast DEF TypeOK, InRealm
<1> HIDE DEF f, n
<1>4. f \notin 1..n
  BY <1>1, <1>3 DEF InRealm
<1>5. f = n + 1
  BY <1>1, <1>3, <1>4
<1> QED  BY <1>1, <1>2, <1>5 DEF Chaps, First, f, n

-----------------------------------------------------------------------------
(* The refinement of OfflineLibrary *)

(* A chapter as the library shows it, and the chapters of a record. *)
Shown(ch) == [chapter |-> ch[1][2], pages |-> Len(ch)]
ShownAll(chaps) == [m \in DOMAIN chaps |-> Shown(chaps[m])]

LEMMA VisibleShown ==
  ASSUME NEW c
  PROVE  Visible(c) = IF InRealm(c) THEN <<ShownAll(Chaps(c))>> ELSE <<>>
BY Zenon DEF Visible, ShownAll, Shown, Chaps

LEMMA ShownNothing == ShownAll(<<>>) = <<>>
BY DEF ShownAll

LEMMA ShownAppend ==
  ASSUME NEW S, NEW chaps \in Seq(S), NEW ch \in S
  PROVE  ShownAll(Append(chaps, ch)) = Append(ShownAll(chaps), Shown(ch))
<1> DEFINE T == {Shown(x) : x \in S}
           n == Len(chaps)
           left == ShownAll(Append(chaps, ch))
           right == Append(ShownAll(chaps), Shown(ch))
<1>1. n \in Nat /\ DOMAIN chaps = 1..n /\ \A m \in 1..n : Shown(chaps[m]) \in T
  OBVIOUS
<1>2. Shown(ch) \in T
  OBVIOUS
<1>3. Append(chaps, ch) \in Seq(S) /\ Len(Append(chaps, ch)) = n + 1
        /\ DOMAIN Append(chaps, ch) = 1..(n + 1)
        /\ Append(chaps, ch)[n + 1] = ch /\ \A m \in 1..n : Append(chaps, ch)[m] = chaps[m]
  OBVIOUS
<1> HIDE DEF T
<1>4. ShownAll(chaps) \in Seq(T) /\ Len(ShownAll(chaps)) = n
        /\ \A m \in 1..n : ShownAll(chaps)[m] = Shown(chaps[m])
  BY <1>1 DEF ShownAll
<1>5. left = [m \in 1..(n + 1) |-> Shown(Append(chaps, ch)[m])]
  BY <1>3 DEF ShownAll
<1>6. \A m \in 1..(n + 1) : left[m] = right[m]
  <2>1. ASSUME NEW m \in 1..(n + 1) PROVE left[m] = right[m]
    <3>0. m = n + 1 \/ m \in 1..n
      BY <1>1
    <3>1. left[m] = Shown(Append(chaps, ch)[m])
      BY <1>5
    <3>2. CASE m = n + 1
      BY <1>2, <1>3, <1>4, <3>1, <3>2
    <3>3. CASE m \in 1..n
      BY <1>1, <1>2, <1>3, <1>4, <3>1, <3>3
    <3> QED  BY <3>0, <3>2, <3>3
  <2> QED  BY <2>1
<1>7. right \in Seq(T) /\ DOMAIN right = 1..(n + 1)
  BY <1>1, <1>2, <1>4
<1> HIDE DEF right, n
<1>8. right = [m \in 1..(n + 1) |-> right[m]]
  BY <1>7
<1>9. [m \in 1..(n + 1) |-> Shown(Append(chaps, ch)[m])] = [m \in 1..(n + 1) |-> right[m]]
  BY <1>5, <1>6
<1> QED  BY <1>5, <1>8, <1>9 DEF right

(* A whole chapter, or one cut at a page of its listing, is shown as one.  *)
LEMMA ChapterShown ==
  ASSUME NEW c \in Comics, NEW ch \in Seq(ImageId), IsChapterOf(c, ch)
  PROVE  \E k \in DOMAIN ImageCount[c] : \E n \in 1..ImageCount[c][k] :
           /\ n = ImageCount[c][k] \/ n % PageSize = 0
           /\ Shown(ch) = [chapter |-> k, pages |-> n]
<1> DEFINE n == Len(ch)
<1>1. PICK k \in 1..TotalChap(c) : /\ n \in (Truncated(c, k) \cup {Whole(c, k)}) \ {0}
                                   /\ Elements(ch) = Images(c, k, n)
  BY DEF IsChapterOf
<1>2. ImageCount[c] \in Seq(Nat) /\ k \in DOMAIN ImageCount[c] /\ ImageCount[c][k] \in Nat
  BY <1>1, ConstantsAssumption DEF TotalChap
<1>3. n \in 1..ImageCount[c][k] /\ (n = ImageCount[c][k] \/ n % PageSize = 0)
  BY <1>1, <1>2 DEF Truncated, Whole
<1>4. ch[1] \in Images(c, k, n)
  <2>1. 1 \in DOMAIN ch
    BY <1>2, <1>3
  <2> QED  BY <1>1, <2>1 DEF Elements
<1>5. ch[1][2] = k
  BY <1>4 DEF Images, Image
<1>6. Shown(ch) = [chapter |-> k, pages |-> n]
  BY <1>5 DEF Shown
<1> QED  BY <1>2, <1>3, <1>6

LEMMA VisibleStays ==
  ASSUME NEW c, InRealm(c)' <=> InRealm(c), InRealm(c) => Chaps(c)' = Chaps(c)
  PROVE  Visible(c)' = Visible(c)
<1>1. Visible(c) = IF InRealm(c) THEN <<ShownAll(Chaps(c))>> ELSE <<>>
  BY VisibleShown
<1>2. Visible(c)' = IF InRealm(c)' THEN <<ShownAll(Chaps(c)')>> ELSE <<>>
  BY Zenon DEF Visible, ShownAll, Shown, Chaps
<1> QED  BY <1>1, <1>2

(* Every step adds a comic without chapters to the library, adds a chapter *)
(* at the end of a comic it has, or leaves every reader what it had.       *)
LEMMA LibraryStep ==
  ASSUME Inv, TypeOK', CountdownOK, [Next]_vars
  PROVE  [Library!Next]_([c \in Comics |-> Visible(c)])
<1> DEFINE lib == [c \in Comics |-> Visible(c)]
<1>0. TypeOK
  BY DEF Inv
<1>1. CASE \A c \in Comics : Visible(c)' = Visible(c)
  BY <1>1
<1>2. CASE UNCHANGED lcomics
  <2>1. ASSUME NEW c \in Comics PROVE Visible(c)' = Visible(c)
    BY <1>2, RecordStays, VisibleStays
  <2> QED  BY <1>1, <2>1
<1>3. ASSUME NEW b \in Comics, RecordAdded(b), InRealm(b)
      PROVE  [Library!Next]_lib
  <2>1. ASSUME NEW c \in Comics PROVE Visible(c)' = Visible(c)
    <3>1. (InRealm(c)' <=> InRealm(c)) /\ (InRealm(c) => Chaps(c)' = Chaps(c))
      BY <1>3, RecordStays
    <3> QED  BY <3>1, VisibleStays
  <2> QED  BY <1>1, <2>1
<1>4. ASSUME NEW b \in Comics, RecordAdded(b), ~InRealm(b)
      PROVE  [Library!Next]_lib
  <2>1. ASSUME NEW c \in Comics \ {b} PROVE Visible(c)' = Visible(c)
    <3>1. (InRealm(c)' <=> InRealm(c)) /\ (InRealm(c) => Chaps(c)' = Chaps(c))
      BY <1>4, RecordStays
    <3> QED  BY <3>1, VisibleStays
  <2>2. Visible(b) = <<>>
    BY <1>4, VisibleShown
  <2>3. Visible(b)' = << <<>> >>
    <3>1. InRealm(b)' /\ Chaps(b)' = <<>>
      BY <1>0, <1>4, FirstRecordAdded
    <3>2. Visible(b)' = IF InRealm(b)' THEN <<ShownAll(Chaps(b)')>> ELSE <<>>
      BY Zenon DEF Visible, ShownAll, Shown, Chaps
    <3> QED  BY <3>1, <3>2, ShownNothing
  <2>4. Library!AddComic(b)
    <3>1. lib[b] = <<>> /\ lib' = [lib EXCEPT ![b] = << <<>> >>]
      BY <2>1, <2>2, <2>3
    <3> QED  BY <3>1 DEF Library!AddComic
  <2> QED  BY <2>4 DEF Library!Next
<1>5. ASSUME NEW b \in Comics, NEW ch \in Seq(ImageId), IsChapterOf(b, ch), ChapterAdded(b, ch)
      PROVE  [Library!Next]_lib
  <2>1. ASSUME NEW c \in Comics \ {b} PROVE Visible(c)' = Visible(c)
    <3>1. (InRealm(c)' <=> InRealm(c)) /\ (InRealm(c) => Chaps(c)' = Chaps(c))
      BY <1>5, RecordStays
    <3> QED  BY <3>1, VisibleStays
  <2> DEFINE all == ShownAll(Chaps(b))
  <2>2. InRealm(b) /\ InRealm(b)' /\ Chaps(b) \in Seq(Seq(ImageId))
    BY <1>0, <1>5, RealmKeeps, ChapsTyped DEF ChapterAdded
  <2>3. Visible(b) = <<all>>
    BY <2>2, VisibleShown
  <2>4. Visible(b)' = <<Append(all, Shown(ch))>>
    <3>1. Chaps(b)' = Append(Chaps(b), ch)
      BY <1>0, <1>5, <2>2, AddedChapter, FirstStable DEF Chaps
    <3>2. Visible(b)' = IF InRealm(b)' THEN <<ShownAll(Chaps(b)')>> ELSE <<>>
      BY Zenon DEF Visible, ShownAll, Shown, Chaps
    <3>3. ShownAll(Append(Chaps(b), ch)) = Append(all, Shown(ch))
      BY <2>2, ShownAppend
    <3> QED  BY <2>2, <3>1, <3>2, <3>3
  <2>5. PICK k \in DOMAIN ImageCount[b] : \E n \in 1..ImageCount[b][k] :
           /\ n = ImageCount[b][k] \/ n % PageSize = 0
           /\ Shown(ch) = [chapter |-> k, pages |-> n]
    BY <1>5, ChapterShown
  <2>6. PICK n \in 1..ImageCount[b][k] :
           /\ n = ImageCount[b][k] \/ n % PageSize = 0
           /\ Shown(ch) = [chapter |-> k, pages |-> n]
    BY <2>5
  <2> HIDE DEF all
  <2>7. Library!AddChapter(b)
    <3>1. lib[b] = <<all>> /\ lib[b] # <<>>
      BY <2>3
    <3>2. lib' = [lib EXCEPT ![b] = <<Append(all, [chapter |-> k, pages |-> n])>>]
      BY <2>1, <2>4, <2>6
    <3>3. lib[b][1] = all
      BY <3>1
    <3> HIDE DEF lib
    <3>4. lib' = [lib EXCEPT ![b] = <<Append(lib[b][1], [chapter |-> k, pages |-> n])>>]
      BY <3>2, <3>3
    <3> QED  BY <2>5, <2>6, <3>1, <3>4 DEF Library!AddChapter, lib
  <2> QED  BY <2>7 DEF Library!Next
<1> QED
  BY <1>2, <1>3, <1>4, <1>5, RealmSteps, Zenon

(* The downloads implement OfflineLibrary: through duplicate downloads,    *)
(* failed requests, chapters that arrive in any order and restarts, the    *)
(* record loadChapterFromRealm finds for a comic appears once, never goes  *)
(* away and only gains chapters of that comic at its end.                  *)
THEOREM LibraryImplemented == Spec => LibraryRefined
<1>1. Init => Library!Init
  <2> SUFFICES ASSUME Init PROVE Library!Init
    OBVIOUS
  <2>1. \A c \in Comics : Visible(c) = <<>>
    <3>1. \A c \in Comics : ~InRealm(c)
      BY DEF Init, InRealm
    <3> QED  BY <3>1, VisibleShown
  <2> QED  BY <2>1 DEF Library!Init
<1>2. Init => CountdownOK
  BY DEF Init, Idle, CountdownOK, Started
<1>3. Inv => TypeOK
  BY DEF Inv
<1>4. Inv /\ TypeOK' /\ CountdownOK /\ [Next]_vars => [Library!Next]_([c \in Comics |-> Visible(c)])
  BY LibraryStep
<1> QED
  BY <1>1, <1>2, <1>3, <1>4, CountdownStep, InductiveInvariant, PTL
     DEF Spec, LibraryRefined, Library!Spec

-----------------------------------------------------------------------------
(* Progress of a session *)

(* Session s alone downloads c, and no request of it failed: Undisturbed,  *)
(* with the comic named.                                                   *)
Working(s, c) ==
  /\ Started(s) /\ dl[s].comic = c /\ s \notin broken
  /\ \A t \in Sessions \ {s} : ~(Started(t) /\ dl[t].comic = c)
  /\ InRealm(c) => listDownload[First(c)].origin = s

(* The rows of this launch belong to sessions that have their poster. *)
RowsOK ==
  \A i \in DOMAIN listDownload : \A s \in Sessions :
    listDownload[i].origin = s =>
      Started(s) /\ DocumentRequest(s) \notin net /\ PosterRequest(s) \notin net

(* The chapters of c that session d has received every image of. *)
Done(d, c) == {k \in 1..TotalChap(c) : d.result[k] # {} /\ d.tmp[k] = 0}

BeforePoster(s, c) ==
  /\ dl[s].phase = "running" /\ ~InRealm(c)
  /\ DocumentRequest(s) \in net \/ PosterRequest(s) \in net

(* Chapter k was listed whole, and its images have arrived or are awaited. *)
Fetching(s, c, k) ==
  /\ dl[s].result[k] = Images(c, k, Whole(c, k))
  /\ \A j \in 1..Whole(c, k) :
       Image(c, k, j) \in Elements(dl[s].list[k]) \/ ImageRequest(s, k, j) \in net

(* The record holds each received chapter once, and the session is         *)
(* finished exactly when that is all of them.                              *)
AllElements(chaps) == {Elements(chaps[m]) : m \in DOMAIN chaps}
Stores(d, c, chaps) ==
  /\ Len(chaps) = Cardinality(Done(d, c))
  /\ AllElements(chaps) = {Images(c, k, Whole(c, k)) : k \in Done(d, c)}
  /\ d.phase = "finished" <=> Len(chaps) = TotalChap(c)

Filling(s, c) ==
  /\ InRealm(c)
  /\ \A k \in 1..TotalChap(c) : ListRequest(s, k) \in net \/ Fetching(s, c, k)
  /\ Stores(dl[s], c, Chaps(c))

Progress(s, c) == BeforePoster(s, c) \/ Filling(s, c)
ProgressOK == \A s \in Sessions : \A c \in Comics : Working(s, c) => Progress(s, c)

LEMMA SessionRequests ==
  ASSUME NEW s
  PROVE  /\ DocumentRequest(s).session = s /\ DocumentRequest(s).kind = "document"
         /\ PosterRequest(s).session = s /\ PosterRequest(s).kind = "poster"
BY DEF DocumentRequest, PosterRequest, Request

LEMMA ListRequests ==
  ASSUME NEW s, NEW k
  PROVE  /\ ListRequest(s, k).session = s /\ ListRequest(s, k).kind = "list"
         /\ ListRequest(s, k).chapter = k
BY DEF ListRequest, Request

LEMMA ImageRequests ==
  ASSUME NEW s, NEW k, NEW j
  PROVE  /\ ImageRequest(s, k, j).session = s /\ ImageRequest(s, k, j).kind = "image"
         /\ ImageRequest(s, k, j).chapter = k /\ ImageRequest(s, k, j).image = j
BY DEF ImageRequest, Request

(* While the process lives, a started session keeps its comic. *)
LEMMA SessionKeeps ==
  ASSUME Inv, [Next]_vars, ~Restart, NEW s \in Sessions, Started(s)
  PROVE  Started(s)' /\ dl'[s].comic = dl[s].comic
<1>1. CASE UNCHANGED dl
  BY <1>1 DEF Started
<1>2. ASSUME NEW t \in Sessions, Download(t)
      PROVE  Started(s)' /\ dl'[s].comic = dl[s].comic
  <2>1. t # s
    BY <1>2 DEF Download, Started
  <2> QED  BY <1>2, <2>1 DEF Download, Started, Inv, TypeOK
<1>3. ASSUME NEW t \in Sessions, DocumentArrives(t)
      PROVE  Started(s)' /\ dl'[s].comic = dl[s].comic
  BY <1>3 DEF DocumentArrives, Started, Inv, TypeOK, SessionType
<1>4. ASSUME NEW t \in Sessions, NEW k \in Chapters, ListArrives(t, k)
      PROVE  Started(s)' /\ dl'[s].comic = dl[s].comic
  <2>1. dl'[s].phase = dl[s].phase /\ dl'[s].comic = dl[s].comic
    BY <1>4, SMTT(20) DEF ListArrives, Inv, TypeOK, SessionType
  <2> QED  BY <2>1 DEF Started
<1>5. ASSUME NEW t, NEW k, NEW j, ImageArrives(t, k, j)
      PROVE  Started(s)' /\ dl'[s].comic = dl[s].comic
  <2>1. PICK c : c = dl[t].comic
    OBVIOUS
  <2>2. TypeOK'
    BY TypeStep
  <2> QED  BY <1>5, <2>1, <2>2, FinishingStep DEF Started
<1> QED
  BY <1>1, <1>2, <1>3, <1>4, <1>5 DEF Next, OpenInfo, ReviewArrives, Back, PosterArrives,
       RequestFails, vars

(* While the process lives, the rows of the shelf keep their places. *)
LEMMA RowsStay ==
  ASSUME Inv, [Next]_vars, ~Restart, NEW i \in DOMAIN listDownload
  PROVE  i \in DOMAIN listDownload' /\ listDownload'[i] = listDownload[i]
<1>1. CASE UNCHANGED listDownload
  BY <1>1
<1>2. ASSUME NEW s \in Sessions, PosterArrives(s)
      PROVE  i \in DOMAIN listDownload' /\ listDownload'[i] = listDownload[i]
  <2>1. PICK x : listDownload' = Append(listDownload, x)
    BY <1>2 DEF PosterArrives
  <2> QED  BY <2>1 DEF Inv, TypeOK
<1> QED
  BY <1>1, <1>2, Zenon DEF Next, OpenInfo, ReviewArrives, Back, Download, DocumentArrives,
       RequestFails, ListArrives, ImageArrives, vars

LEMMA RowsStep == Inv /\ RowsOK /\ [Next]_vars => RowsOK'
<1> SUFFICES ASSUME Inv, RowsOK, [Next]_vars, NEW i \in DOMAIN listDownload', NEW s \in Sessions,
                    listDownload'[i].origin = s
             PROVE  Started(s)' /\ DocumentRequest(s) \notin net' /\ PosterRequest(s) \notin net'
  BY DEF RowsOK
<1>1. CASE Restart
  BY <1>1, ConstantsAssumption DEF Restart
<1>2. ASSUME NEW t \in Sessions, PosterArrives(t), t = s
      PROVE  Started(s)' /\ DocumentRequest(s) \notin net' /\ PosterRequest(s) \notin net'
  <2>1. PosterRequest(s) \in net /\ PosterRequest(s).session = s /\ PosterRequest(s).kind = "poster"
    BY <1>2, SessionRequests DEF PosterArrives
  <2>2. Started(s) /\ \A q \in net : q.session = s => q = PosterRequest(s)
    BY <2>1 DEF Inv, StageOK, RequestOK
  <2>3. Started(s)'
    BY <1>2, <2>2 DEF PosterArrives, Started
  <2>4. DocumentRequest(s) \notin net
    BY <2>2, SessionRequests, Zenon DEF DocumentRequest, PosterRequest, Request
  <2>5. \A q \in net' : (q \in net /\ q # PosterRequest(s)) \/ q.kind = "list"
    BY <1>2, ListRequests DEF PosterArrives
  <2> QED  BY <2>3, <2>4, <2>5, SessionRequests
<1>3. CASE ~Restart /\ i \in DOMAIN listDownload /\ listDownload[i].origin = s
  <2>1. Started(s) /\ DocumentRequest(s) \notin net /\ PosterRequest(s) \notin net
    BY <1>3 DEF RowsOK
  <2>2. Started(s)'
    BY <1>3, <2>1, SessionKeeps
  <2>3. ASSUME NEW q \in net', q \notin net, q.session = s
        PROVE  q.kind \in {"list", "image"}
    <3>1. ASSUME NEW t \in Sessions, Download(t)
          PROVE  t # s /\ net' = net \cup {DocumentRequest(t)}
      BY <3>1, <2>1 DEF Download, Started
    <3>2. ASSUME NEW t \in Sessions, DocumentArrives(t)
          PROVE  t # s /\ net' = (net \ {DocumentRequest(t)}) \cup {PosterRequest(t)}
      BY <3>2, <2>1, Zenon DEF DocumentArrives
    <3>3. ASSUME NEW t \in Sessions, PosterArrives(t) \/ \E k \in Chapters : ListArrives(t, k)
          PROVE  q.kind \in {"list", "image"}
      <4>1. CASE PosterArrives(t)
        BY <2>3, <4>1, ListRequests DEF PosterArrives
      <4>2. CASE \E k \in Chapters : ListArrives(t, k)
        BY <2>3, <4>2, ImageRequests DEF ListArrives
      <4> QED  BY <3>3, <4>1, <4>2
    <3>4. CASE net' \subseteq net
      BY <2>3, <3>4, Zenon
    <3>5. \/ \E t \in Sessions : Download(t) \/ DocumentArrives(t) \/ PosterArrives(t)
          \/ \E t \in Sessions, k \in Chapters : ListArrives(t, k)
          \/ net' \subseteq net
      BY <1>3, Zenon DEF Next, OpenInfo, ReviewArrives, Back, RequestFails, ImageArrives, vars
    <3>6. ~\E t \in Sessions : Download(t) \/ DocumentArrives(t)
      BY <2>3, <3>1, <3>2, SessionRequests
    <3> QED  BY <3>3, <3>4, <3>5, <3>6, Zenon
  <2>4. DocumentRequest(s) \notin net' /\ PosterRequest(s) \notin net'
    BY <2>1, <2>3, SessionRequests
  <2> QED  BY <2>2, <2>4
<1>4. ASSUME NEW t \in Sessions, PosterArrives(t), t # s
      PROVE  i \in DOMAIN listDownload /\ listDownload[i].origin = s
  <2>1. PICK x : listDownload' = Append(listDownload, x) /\ x.origin = t
    BY <1>4 DEF PosterArrives
  <2>2. listDownload \in Seq(RowType)
    BY DEF Inv, TypeOK
  <2>3. i \in 1..(Len(listDownload) + 1) /\ DOMAIN listDownload = 1..Len(listDownload)
        /\ Len(listDownload) \in Nat
        /\ listDownload'[Len(listDownload) + 1] = x
        /\ \A h \in 1..Len(listDownload) : listDownload'[h] = listDownload[h]
    BY <2>1, <2>2
  <2> QED  BY <1>4, <2>1, <2>3
<1>5. \/ \E t \in Sessions : PosterArrives(t)
      \/ Restart
      \/ UNCHANGED listDownload
  BY Zenon DEF Next, OpenInfo, ReviewArrives, Back, Download, DocumentArrives, RequestFails,
       ListArrives, ImageArrives, vars
<1>6. ASSUME NEW t \in Sessions, PosterArrives(t) PROVE ~Restart
  <2>1. PosterRequest(t) \in net /\ PosterRequest(t).session = t
    BY <1>6, SessionRequests DEF PosterArrives
  <2>2. Started(t) /\ Started(t)'
    BY <1>6, <2>1 DEF Inv, StageOK, RequestOK, Started, PosterArrives
  <2> QED  BY <2>2 DEF Restart, Idle, Started
<1>7. CASE UNCHANGED listDownload /\ ~Restart
  BY <1>3, <1>7
<1> QED  BY <1>1, <1>2, <1>3, <1>4, <1>5, <1>6, <1>7, Zenon

LEMMA StartedBefore ==
  ASSUME Inv, [Next]_vars, NEW s \in Sessions, ~Download(s), Started(s)'
  PROVE  Started(s) /\ ~Restart
<1>1. ~Restart
  BY DEF Restart, Idle, Started
<1>2. CASE UNCHANGED dl
  BY <1>1, <1>2 DEF Started
<1>3. ASSUME NEW t \in Sessions, Download(t)
      PROVE  Started(s)
  <2>1. t # s
    BY <1>3
  <2> QED  BY <1>3, <2>1 DEF Download, Started, Inv, TypeOK
<1>4. ASSUME NEW t \in Sessions, DocumentArrives(t)
      PROVE  Started(s)
  BY <1>4 DEF DocumentArrives, Started, Inv, TypeOK, SessionType
<1>5. ASSUME NEW t \in Sessions, NEW k \in Chapters, ListArrives(t, k)
      PROVE  Started(s)
  <2>1. dl'[s].phase = dl[s].phase
    BY <1>5, SMTT(20) DEF ListArrives, Inv, TypeOK, SessionType
  <2> QED  BY <2>1 DEF Started
<1>6. ASSUME NEW t, NEW k, NEW j, ImageArrives(t, k, j)
      PROVE  Started(s)
  <2>1. PICK c : c = dl[t].comic
    OBVIOUS
  <2>2. TypeOK' /\ Started(t)
    BY <1>6, TypeStep, ImageFacts
  <2> QED  BY <1>6, <2>1, <2>2, FinishingStep DEF Started
<1> QED
  BY <1>1, <1>2, <1>3, <1>4, <1>5, <1>6 DEF Next, OpenInfo, ReviewArrives, Back, PosterArrives,
       RequestFails, vars

(* A session works on after a step only if it did before, or starts.       *)
LEMMA WorkingBefore ==
  ASSUME Inv, ShelfMirrorsRealm, [Next]_vars, NEW s \in Sessions, NEW c \in Comics,
         ~Download(s), Working(s, c)'
  PROVE  Working(s, c) /\ ~Restart
<1>0. TypeOK' /\ TypeOK
  BY TypeStep DEF Inv
<1>1. Started(s) /\ ~Restart /\ Started(s)'
  BY StartedBefore DEF Working
<1>2. dl[s].comic = c
  BY <1>1, SessionKeeps DEF Working
<1>3. \A t \in Sessions \ {s} : ~(Started(t) /\ dl[t].comic = c)
  BY <1>1, SessionKeeps DEF Working
<1>4. ASSUME InRealm(c) PROVE listDownload[First(c)].origin = s
  <2>1. First(c)' = First(c) /\ InRealm(c)' /\ First(c) \in DOMAIN lcomics
    BY <1>0, <1>4, FirstStable, RealmKeeps, FirstIsRecord
  <2>2. listDownload'[First(c)] = listDownload[First(c)]
    BY <1>1, <2>1, RowsStay DEF ShelfMirrorsRealm
  <2> QED  BY <2>1, <2>2 DEF Working
<1>5. s \notin broken
  <2>1. broken \subseteq broken'
    <3>1. ASSUME NEW t \in Sessions, NEW k \in Chapters, ListArrives(t, k)
          PROVE  broken \subseteq broken'
      BY <3>1 DEF ListArrives
    <3> QED  BY <1>1, <3>1, Zenon DEF Next, OpenInfo, ReviewArrives, Back, Download, DocumentArrives,
                 PosterArrives, RequestFails, ImageArrives, vars
  <2> QED  BY <2>1 DEF Working
<1> QED  BY <1>1, <1>2, <1>3, <1>4, <1>5 DEF Working

(* Progress speaks of the session, its requests, and the comic's record.   *)
LEMMA ProgressFrame ==
  ASSUME NEW s, NEW c, Progress(s, c), dl'[s] = dl[s],
         \A q \in net : q.session = s => q \in net',
         InRealm(c)' <=> InRealm(c), InRealm(c) => Chaps(c)' = Chaps(c)
  PROVE  Progress(s, c)'
<1>1. CASE BeforePoster(s, c)
  <2>1. BeforePoster(s, c)'
    BY <1>1, SessionRequests DEF BeforePoster
  <2> QED  BY <2>1 DEF Progress
<1>2. CASE Filling(s, c)
  <2>1. \A k \in 1..TotalChap(c) : ListRequest(s, k) \in net' \/ Fetching(s, c, k)'
    <3>1. ASSUME NEW k \in 1..TotalChap(c), Fetching(s, c, k)
          PROVE  Fetching(s, c, k)'
      BY <3>1, ImageRequests DEF Fetching
    <3> QED  BY <1>2, <3>1, ListRequests DEF Filling
  <2>2. Stores(dl[s], c, Chaps(c))'
    BY <1>2 DEF Filling
  <2>3. InRealm(c)'
    BY <1>2 DEF Filling
  <2>4. Filling(s, c)'
    BY <2>1, <2>2, <2>3 DEF Filling
  <2> QED  BY <2>4 DEF Progress
<1> QED  BY <1>1, <1>2 DEF Progress

(* Steps of the other sessions leave the comic of a working one alone.     *)
LEMMA ProgressOfOthers ==
  ASSUME Inv, CountdownOK, [Next]_vars, NEW s \in Sessions, NEW c \in Comics,
         Working(s, c), Progress(s, c), dl'[s] = dl[s],
         \A q \in net : q.session = s => q \in net',
         \A t \in Sessions : PosterArrives(t) => t # s,
         \A t, k, j : ImageArrives(t, k, j) => t # s
  PROVE  Progress(s, c)'
<1>0. TypeOK'
  BY TypeStep
<1>1. ASSUME NEW t \in Sessions \ {s}, Started(t)
      PROVE  dl[t].comic # c
  BY <1>1 DEF Working
<1>2. \/ UNCHANGED lcomics
      \/ \E b \in Comics \ {c} : RecordAdded(b)
      \/ \E b \in Comics \ {c}, ch \in Seq(ImageId) : ChapterAdded(b, ch)
  <2>1. ASSUME NEW t \in Sessions, PosterArrives(t)
        PROVE  dl[t].comic # c
    <3>1. PosterRequest(t) \in net /\ PosterRequest(t).session = t
      BY <2>1, SessionRequests DEF PosterArrives
    <3>2. Started(t)
      BY <3>1 DEF Inv, StageOK, RequestOK
    <3> QED  BY <1>1, <2>1, <3>2
  <2>2. ASSUME NEW t \in Sessions, NEW k, NEW j, ImageArrives(t, k, j)
        PROVE  dl[t].comic # c
    BY <1>1, <2>2, ImageFacts
  <2>3. CASE \E t \in Sessions : dl[t].comic \in Comics /\ PosterArrives(t) /\ RecordAdded(dl[t].comic)
    <3>1. PICK t \in Sessions : dl[t].comic \in Comics /\ PosterArrives(t) /\ RecordAdded(dl[t].comic)
      BY <2>3
    <3>2. PICK b : b = dl[t].comic
      OBVIOUS
    <3> QED  BY <2>1, <3>1, <3>2
  <2>4. CASE \E t \in Sessions, ch \in Seq(ImageId) :
               /\ dl[t].comic \in Comics /\ \E k, j : ImageArrives(t, k, j)
               /\ IsChapterOf(dl[t].comic, ch) /\ ChapterAdded(dl[t].comic, ch)
    <3>1. PICK t \in Sessions, ch \in Seq(ImageId) :
               /\ dl[t].comic \in Comics /\ \E k, j : ImageArrives(t, k, j)
               /\ ChapterAdded(dl[t].comic, ch)
      BY <2>4
    <3>2. PICK b : b = dl[t].comic
      OBVIOUS
    <3> QED  BY <2>2, <3>1, <3>2
  <2> QED  BY <2>3, <2>4, RealmSteps
<1>3. (InRealm(c)' <=> InRealm(c)) /\ (InRealm(c) => Chaps(c)' = Chaps(c))
  BY <1>0, <1>2, RecordStays
<1> QED  BY <1>3, ProgressFrame

(* A tap starts a session; Realm has no record of the comic, or the        *)
(* session would not be the one that added it.                             *)
LEMMA ProgressStarts ==
  ASSUME Inv, RowsOK, ShelfMirrorsRealm, NEW s \in Sessions, NEW c \in Comics,
         Download(s), Working(s, c)'
  PROVE  Progress(s, c)'
<1>1. ~Started(s) /\ UNCHANGED <<lcomics, listDownload>>
  BY DEF Download, Started
<1>2. ~InRealm(c)'
  <2>1. SUFFICES ASSUME InRealm(c) PROVE FALSE
    BY <1>1 DEF InRealm
  <2>2. First(c) \in DOMAIN listDownload
    BY <2>1, FirstIsRecord DEF ShelfMirrorsRealm, Inv
  <2>3. listDownload[First(c)].origin # s
    BY <1>1, <2>2 DEF RowsOK
  <2>4. listDownload'[First(c)'].origin = s
    <3>1. InRealm(c)'
      BY <1>1, <2>1 DEF InRealm
    <3> QED  BY <3>1 DEF Working
  <2>5. First(c)' = First(c)
    BY <1>1 DEF First
  <2> QED  BY <1>1, <2>3, <2>4, <2>5
<1>3. dl'[s].phase = "running" /\ DocumentRequest(s) \in net'
  BY DEF Download, Inv, TypeOK, SessionType
<1>4. BeforePoster(s, c)'
  BY <1>2, <1>3 DEF BeforePoster
<1> QED  BY <1>4 DEF Progress

(* A request before the poster is the session's only one.                  *)
LEMMA BeforeFilling ==
  ASSUME Inv, RowsOK, ShelfMirrorsRealm, NEW s \in Sessions, NEW c \in Comics, Working(s, c),
         DocumentRequest(s) \in net \/ PosterRequest(s) \in net, Progress(s, c)
  PROVE  BeforePoster(s, c) /\ Fresh(s)
<1>1. ASSUME InRealm(c) PROVE FALSE
  <2>1. First(c) \in DOMAIN listDownload
    BY <1>1, FirstIsRecord DEF ShelfMirrorsRealm, Inv
  <2>2. listDownload[First(c)].origin = s
    BY <1>1 DEF Working
  <2> QED  BY <2>1, <2>2 DEF RowsOK
<1>2. BeforePoster(s, c)
  BY <1>1 DEF Progress, Filling
<1>3. Fresh(s)
  BY SessionRequests DEF Inv, StageOK, RequestOK
<1> QED  BY <1>2, <1>3

LEMMA ProgressDocument ==
  ASSUME Inv, RowsOK, ShelfMirrorsRealm, NEW s \in Sessions, NEW c \in Comics,
         Working(s, c), Progress(s, c), DocumentArrives(s)
  PROVE  Progress(s, c)'
<1>1. DocumentRequest(s) \in net
  BY DEF DocumentArrives
<1>2. BeforePoster(s, c)
  BY <1>1, BeforeFilling
<1>3. PosterRequest(s) \in net' /\ dl'[s].phase = dl[s].phase /\ UNCHANGED lcomics
  BY DEF DocumentArrives, Inv, TypeOK, SessionType
<1>4. BeforePoster(s, c)'
  BY <1>2, <1>3 DEF BeforePoster, InRealm
<1> QED  BY <1>4 DEF Progress

(* The poster adds the record, without chapters, and asks for all lists.   *)
LEMMA ProgressPoster ==
  ASSUME Inv, TypeOK', RowsOK, ShelfMirrorsRealm, NEW s \in Sessions, NEW c \in Comics,
         Working(s, c), Progress(s, c), PosterArrives(s)
  PROVE  Progress(s, c)'
<1>1. PosterRequest(s) \in net /\ dl[s].comic = c
  BY DEF PosterArrives, Working
<1>2. BeforePoster(s, c) /\ Fresh(s)
  BY <1>1, BeforeFilling
<1>3. RecordAdded(c) /\ UNCHANGED dl /\ \A k \in 1..TotalChap(c) : ListRequest(s, k) \in net'
  BY <1>1 DEF PosterArrives, RecordAdded
<1>4. InRealm(c)' /\ Chaps(c)' = <<>>
  BY <1>2, <1>3, FirstRecordAdded DEF BeforePoster, Inv
<1>5. Done(dl[s], c) = {}
  BY <1>2, ServerData DEF Done, Fresh, FreshChapter
<1>6. Stores(dl[s], c, <<>>)
  <2>1. Len(<<>>) = Cardinality(Done(dl[s], c))
    BY <1>5, FS_EmptySet
  <2>2. AllElements(<<>>) = {Images(c, k, Whole(c, k)) : k \in Done(dl[s], c)}
    BY <1>5 DEF AllElements
  <2>3. dl[s].phase # "finished" /\ Len(<<>>) # TotalChap(c)
    BY <1>2, ServerData DEF BeforePoster
  <2> QED  BY <2>1, <2>2, <2>3 DEF Stores
<1>7. Stores(dl[s], c, Chaps(c))'
  BY <1>3, <1>4, <1>6 DEF Stores, Done, AllElements
<1>8. Filling(s, c)'
  BY <1>3, <1>4, <1>7 DEF Filling
<1> QED  BY <1>8 DEF Progress

(* A whole listing asks for every image of its chapter.                    *)
LEMMA ProgressList ==
  ASSUME Inv, NEW s \in Sessions, NEW c \in Comics, NEW k \in Chapters,
         Working(s, c), Progress(s, c), ListArrives(s, k), s \notin broken'
  PROVE  Progress(s, c)'
<1> DEFINE L == ListRequest(s, k)
           S == Images(c, k, Whole(c, k))
<1>1. L \in net /\ L.session = s /\ L.kind = "list" /\ L.chapter = k /\ dl[s].comic = c
  BY ListRequests DEF ListArrives, Working
<1>2. InRealm(c) /\ k \in 1..TotalChap(c) /\ FreshChapter(s, k)
  BY <1>1 DEF Inv, StageOK, RequestOK
<1>3. /\ dl' = [dl EXCEPT ![s] = Listing(dl[s], k, S, Whole(c, k))]
      /\ net' = (net \ {L}) \cup {ImageRequest(s, k, j) : j \in 1..Whole(c, k)}
      /\ UNCHANGED lcomics
  <2>1. PICK n \in Listed(c, k) :
          /\ dl' = [dl EXCEPT ![s].result[k] = Images(c, k, n), ![s].tmp[k] = n]
          /\ net' = (net \ {L}) \cup {ImageRequest(s, k, j) : j \in 1..n}
          /\ broken' = IF n = Whole(c, k) THEN broken ELSE broken \cup {s}
    BY <1>1 DEF ListArrives, Listed
  <2>2. n = Whole(c, k)
    BY <2>1
  <2>3. dl' = [dl EXCEPT ![s] = Listing(dl[s], k, S, n)]
    BY <2>1, <2>2 DEF Listing, Inv, TypeOK
  <2> QED  BY <2>1, <2>2, <2>3 DEF ListArrives
<1>4. Whole(c, k) \in Nat /\ S \in SUBSET ImageId /\ dl[s] \in SessionType
  BY <1>2, ServerData, ImagesAreImageIds DEF Inv, TypeOK
<1>5. /\ dl'[s].result = [dl[s].result EXCEPT ![k] = S]
      /\ dl'[s].list = dl[s].list
      /\ dl'[s].tmp = [dl[s].tmp EXCEPT ![k] = Whole(c, k)]
      /\ dl'[s].phase = dl[s].phase
  <2> HIDE DEF S
  <2>1. dl'[s] = Listing(dl[s], k, S, Whole(c, k))
    BY <1>3 DEF Inv, TypeOK
  <2> QED  BY <1>4, <2>1, ListingFields
<1>6. /\ dl'[s].result[k] = S /\ dl'[s].tmp[k] = Whole(c, k)
      /\ \A h \in Chapters \ {k} : dl'[s].result[h] = dl[s].result[h] /\ dl'[s].tmp[h] = dl[s].tmp[h]
  <2> HIDE DEF S
  <2> QED  BY <1>4, <1>5 DEF SessionType
<1>7. Filling(s, c)
  BY <1>2 DEF Progress, BeforePoster
<1>8. ASSUME NEW h \in 1..TotalChap(c)
      PROVE  ListRequest(s, h) \in net' \/ Fetching(s, c, h)'
  <2>1. CASE h = k
    <3>1. \A j \in 1..Whole(c, k) : ImageRequest(s, k, j) \in net'
      BY <1>3
    <3> QED  BY <1>6, <2>1, <3>1 DEF Fetching
  <2>2. CASE h # k /\ ListRequest(s, h) \in net
    BY <1>3, <2>2, ListRequests
  <2>3. CASE h # k /\ Fetching(s, c, h)
    <3>1. h \in Chapters
      BY ServerData
    <3>2. dl'[s].result[h] = dl[s].result[h] /\ dl'[s].list[h] = dl[s].list[h]
      BY <1>5, <1>6, <2>3, <3>1
    <3>3. \A j : ImageRequest(s, h, j) \in net => ImageRequest(s, h, j) \in net'
      BY <1>1, <1>3, ImageRequests
    <3> QED  BY <2>3, <3>2, <3>3 DEF Fetching
  <2> QED  BY <1>7, <2>1, <2>2, <2>3 DEF Filling
<1>9. Done(dl'[s], c) = Done(dl[s], c)
  <2>1. k \notin Done(dl[s], c)
    BY <1>2 DEF Done, FreshChapter
  <2>2. k \notin Done(dl'[s], c)
    BY <1>4, <1>6 DEF Done, Images
  <2>3. \A h \in 1..TotalChap(c) : h \in Chapters
    BY ServerData
  <2> QED  BY <1>6, <2>1, <2>2, <2>3 DEF Done
<1>10. Stores(dl'[s], c, Chaps(c)')
  <2>1. Chaps(c)' = Chaps(c)
    BY <1>3 DEF Chaps, First
  <2>2. Stores(dl[s], c, Chaps(c))
    BY <1>7 DEF Filling
  <2> QED  BY <1>5, <1>9, <2>1, <2>2 DEF Stores
<1>11. InRealm(c)'
  BY <1>2, <1>3 DEF InRealm
<1>12. Filling(s, c)'
  BY <1>8, <1>10, <1>11 DEF Filling, Stores, Done, AllElements
<1> QED  BY <1>12 DEF Progress

LEMMA ArrivalPointwise ==
  ASSUME NEW x \in SessionType, NEW k \in Chapters, NEW m \in ImageId, NEW d, d = Arrival(x, k, m)
  PROVE  /\ d \in SessionType
         /\ d.result = x.result /\ d.comic = x.comic /\ d.phase = x.phase
         /\ d.list[k] = Append(x.list[k], m) /\ d.tmp[k] = x.tmp[k] - 1
         /\ \A h \in Chapters \ {k} : d.list[h] = x.list[h] /\ d.tmp[h] = x.tmp[h]
<1>1. /\ d \in SessionType
      /\ d.list = [x.list EXCEPT ![k] = Append(@, m)]
      /\ d.tmp = [x.tmp EXCEPT ![k] = @ - 1]
      /\ d.result = x.result /\ d.comic = x.comic /\ d.phase = x.phase
  BY ArrivalFields, ZenonT(60)
<1>2. x.list \in [Chapters -> Seq(ImageId)] /\ x.tmp \in [Chapters -> Int]
  BY DEF SessionType
<1> QED  BY <1>1, <1>2

(* What the arrival of an image changes.                                   *)
LEMMA ImageOutcome ==
  ASSUME Inv, CountdownOK, [Next]_vars, NEW s, NEW k, NEW j, ImageArrives(s, k, j),
         NEW c, c = dl[s].comic, NEW x, x = dl[s], NEW y, y = dl'[s], NEW m, m = Image(c, k, j)
  PROVE  /\ x \in SessionType /\ y \in SessionType /\ k \in Chapters
         /\ Countdown(x, k) /\ Countdown(y, k) /\ y.comic = c
         /\ m \in x.result[k] \ Elements(x.list[k])
         /\ y.result = x.result /\ Elements(y.list[k]) = Elements(x.list[k]) \cup {m}
         /\ \A h \in Chapters \ {k} : y.list[h] = x.list[h] /\ y.tmp[h] = x.tmp[h]
         /\ net' = net \ {ImageRequest(s, k, j)}
         /\ \/ y.tmp[k] # 0 /\ y.phase = x.phase /\ UNCHANGED lcomics
            \/ /\ y.tmp[k] = 0 /\ ChapterAdded(c, y.list[k])
               /\ y.phase = IF Len(Chaps(c)) + 1 = TotalChap(c) THEN "finished" ELSE x.phase
<1> DEFINE d == Arrival(x, k, m)
<1>1. /\ s \in Sessions /\ Started(s) /\ x \in SessionType /\ c \in Comics /\ InRealm(c)
      /\ k \in 1..TotalChap(c) /\ k \in Chapters /\ m \in ImageId
      /\ m \in x.result[k] \ Elements(x.list[k])
  BY ImageFacts
<1>2. /\ d \in SessionType
      /\ d.result = x.result /\ d.comic = x.comic /\ d.phase = x.phase
      /\ d.list[k] = Append(x.list[k], m)
      /\ \A h \in Chapters \ {k} : d.list[h] = x.list[h] /\ d.tmp[h] = x.tmp[h]
  BY <1>1, ArrivalPointwise, SMTT(20)
<1>3. /\ net' = net \ {ImageRequest(s, k, j)}
      /\ \/ d.tmp[k] = 0 /\ StoreChapter(s, d, k)
         \/ d.tmp[k] # 0 /\ dl' = [dl EXCEPT ![s] = d] /\ UNCHANGED lcomics
  BY DEF ImageArrives, Arrival
<1> HIDE DEF d
<1>4. /\ x.list \in [Chapters -> Seq(ImageId)] /\ x.tmp \in [Chapters -> Int]
  BY <1>1 DEF SessionType
<1>5. d.list[k] = Append(x.list[k], m) /\ d.list[k] \in Seq(ImageId)
  BY <1>1, <1>2, <1>4
<1>6. Elements(d.list[k]) = Elements(x.list[k]) \cup {m}
  BY <1>1, <1>4, <1>5, ElementsAppend
<1>7. \A h \in Chapters \ {k} : d.list[h] = x.list[h] /\ d.tmp[h] = x.tmp[h]
  BY <1>2
<1>8. y \in SessionType /\ y.list = d.list /\ y.tmp = d.tmp /\ y.result = x.result /\ y.comic = c
  <2>1. y = d \/ y = [d EXCEPT !.phase = "finished"]
    BY <1>1, <1>3 DEF StoreChapter, Inv, TypeOK
  <2>2. y.list = d.list /\ y.tmp = d.tmp /\ y.result = d.result /\ y.comic = d.comic
    BY <1>2, <2>1 DEF SessionType
  <2>3. y \in SessionType
    BY <1>2, <2>1 DEF SessionType
  <2> QED  BY <1>2, <2>2, <2>3
<1>9. Countdown(x, k) /\ Countdown(y, k)
  <2>1. CountdownOK'
    BY CountdownStep
  <2>2. Started(s)'
    BY <1>1, <1>2, <1>3 DEF StoreChapter, Started, Inv, TypeOK, SessionType
  <2> QED  BY <1>1, <1>8, <2>1, <2>2 DEF CountdownOK
<1>10. CASE d.tmp[k] = 0 /\ StoreChapter(s, d, k)
  <2>1. ChapterAdded(c, d.list[k])
    BY <1>1, <1>2, <1>10 DEF StoreChapter, ChapterAdded
  <2>2. Len(Append(Chaps(c), d.list[k])) = Len(Chaps(c)) + 1
    BY <1>1, ChapsTyped DEF Inv
  <2>3. y = IF Len(Chaps(c)) + 1 = TotalChap(c) THEN [d EXCEPT !.phase = "finished"] ELSE d
    BY <1>1, <1>2, <1>10, <2>2 DEF StoreChapter, Chaps, Inv, TypeOK
  <2>4. y.phase = IF Len(Chaps(c)) + 1 = TotalChap(c) THEN "finished" ELSE x.phase
    BY <1>2, <2>3 DEF SessionType
  <2> QED  BY <1>1, <1>3, <1>6, <1>7, <1>8, <1>9, <1>10, <2>1, <2>4, SMTT(20)
<1>11. CASE d.tmp[k] # 0 /\ dl' = [dl EXCEPT ![s] = d] /\ UNCHANGED lcomics
  <2>1. y.phase = x.phase
    BY <1>1, <1>2, <1>11 DEF Inv, TypeOK
  <2> QED  BY <1>1, <1>3, <1>6, <1>7, <1>8, <1>9, <1>11, <2>1
<1> QED  BY <1>3, <1>10, <1>11

(* A countdown above 0 has an image to wait for; at 0 it has none.         *)
LEMMA CountdownZero ==
  ASSUME NEW d, NEW c \in Comics, d.comic = c, NEW k \in 1..TotalChap(c), Countdown(d, k)
  PROVE  d.tmp[k] = 0 <=> Elements(d.list[k]) = d.result[k]
<1>1. PICK n \in Listed(c, k) :
        /\ d.result[k] = Images(c, k, n)
        /\ Elements(d.list[k]) \subseteq d.result[k]
        /\ d.tmp[k] = Cardinality(d.result[k] \ Elements(d.list[k]))
  BY DEF Countdown
<1>2. n \in Nat
  BY ServerData
<1>3. IsFiniteSet(d.result[k] \ Elements(d.list[k]))
  BY <1>1, <1>2, ImagesCount, FS_Difference
<1>4. d.tmp[k] = 0 <=> d.result[k] \ Elements(d.list[k]) = {}
  BY <1>1, <1>3, FS_EmptySet
<1> QED  BY <1>1, <1>4

LEMMA DoneCount ==
  ASSUME NEW d, NEW c \in Comics
  PROVE  /\ IsFiniteSet(Done(d, c)) /\ Cardinality(Done(d, c)) \in Nat
         /\ Cardinality(Done(d, c)) = TotalChap(c) <=> Done(d, c) = 1..TotalChap(c)
<1>1. TotalChap(c) \in Nat /\ Done(d, c) \subseteq 1..TotalChap(c)
  BY ServerData, ConstantsAssumption DEF Done
<1>2. IsFiniteSet(1..TotalChap(c)) /\ Cardinality(1..TotalChap(c)) = TotalChap(c)
  BY <1>1, FS_Interval
<1>3. /\ IsFiniteSet(Done(d, c))
      /\ Cardinality(Done(d, c)) = Cardinality(1..TotalChap(c)) => Done(d, c) = 1..TotalChap(c)
  BY <1>1, <1>2, FS_Subset
<1> QED  BY <1>2, <1>3, FS_CardinalityType

LEMMA AllElementsAppend ==
  ASSUME NEW S, NEW chaps \in Seq(S), NEW ch \in S
  PROVE  AllElements(Append(chaps, ch)) = AllElements(chaps) \cup {Elements(ch)}
<1> DEFINE n == Len(chaps)
           t == Append(chaps, ch)
<1>1. n \in Nat /\ DOMAIN chaps = 1..n /\ DOMAIN t = 1..(n + 1)
  OBVIOUS
<1>2. t[n + 1] = ch /\ \A i \in 1..n : t[i] = chaps[i]
  OBVIOUS
<1>3. 1..(n + 1) = 1..n \cup {n + 1}
  BY <1>1
<1> HIDE DEF n, t
<1>4. ASSUME NEW e PROVE e \in AllElements(t) <=> e \in AllElements(chaps) \cup {Elements(ch)}
  BY <1>1, <1>2, <1>3 DEF AllElements
<1> QED  BY <1>4 DEF t

(* An image brings its chapter nearer; the last one stores it, and the     *)
(* last chapter finishes the session.                                      *)
LEMMA ProgressImage ==
  ASSUME Inv, TypeOK', CountdownOK, [Next]_vars, NEW s \in Sessions, NEW c \in Comics,
         NEW k, NEW j, Working(s, c), Progress(s, c), ImageArrives(s, k, j)
  PROVE  Progress(s, c)'
<1> DEFINE m == Image(c, k, j)
           W == Whole(c, k)
           I == ImageRequest(s, k, j)
           all == 1..TotalChap(c)
<1>1. PICK x : x = dl[s]
  OBVIOUS
<1>2. PICK y : y = dl'[s]
  OBVIOUS
<1>3. c = x.comic /\ c = dl[s].comic /\ TypeOK
  BY <1>1 DEF Working, Inv
<1>4. InRealm(c) /\ k \in all
  BY <1>3, ImageFacts
<1>5. /\ x \in SessionType /\ y \in SessionType /\ k \in Chapters
      /\ Countdown(x, k) /\ Countdown(y, k) /\ y.comic = c
      /\ m \in x.result[k] \ Elements(x.list[k])
      /\ y.result = x.result /\ Elements(y.list[k]) = Elements(x.list[k]) \cup {m}
      /\ \A h \in Chapters \ {k} : y.list[h] = x.list[h] /\ y.tmp[h] = x.tmp[h]
      /\ net' = net \ {I}
      /\ \/ y.tmp[k] # 0 /\ y.phase = x.phase /\ UNCHANGED lcomics
         \/ /\ y.tmp[k] = 0 /\ ChapterAdded(c, y.list[k])
            /\ y.phase = IF Len(Chaps(c)) + 1 = TotalChap(c) THEN "finished" ELSE x.phase
  BY <1>1, <1>2, <1>3, ImageOutcome
<1>6. Filling(s, c)
  BY <1>4 DEF Progress, BeforePoster
<1>7. all \subseteq Chapters
  BY ServerData
<1>8. Fetching(s, c, k)
  <2>1. ListRequest(s, k) \notin net
    <3>1. SUFFICES ASSUME ListRequest(s, k) \in net PROVE FALSE
      OBVIOUS
    <3>2. FreshChapter(s, k)
      BY <3>1, ListRequests DEF Inv, StageOK, RequestOK
    <3> QED  BY <1>1, <1>5, <3>2 DEF FreshChapter
  <2> QED  BY <1>4, <1>6, <2>1 DEF Filling
<1>9. x.result[k] = Images(c, k, W) /\ x.result[k] # {}
  BY <1>1, <1>5, <1>8 DEF Fetching
<1>10. ASSUME NEW h \in all
       PROVE  ListRequest(s, h) \in net' \/ Fetching(s, c, h)'
  <2>1. CASE ListRequest(s, h) \in net
    BY <1>5, <2>1, ListRequests, ImageRequests
  <2>2. CASE h # k /\ Fetching(s, c, h)
    <3>1. dl'[s].result[h] = dl[s].result[h] /\ dl'[s].list[h] = dl[s].list[h]
      BY <1>1, <1>2, <1>5, <1>7, <2>2
    <3>2. \A i : ImageRequest(s, h, i) \in net => ImageRequest(s, h, i) \in net'
      BY <1>5, <2>2, ImageRequests
    <3> QED  BY <2>2, <3>1, <3>2 DEF Fetching
  <2>3. CASE h = k
    <3>1. ASSUME NEW i \in 1..W
          PROVE  Image(c, k, i) \in Elements(y.list[k]) \/ ImageRequest(s, k, i) \in net'
      <4>1. CASE i = j
        BY <1>5, <4>1
      <4>2. CASE i # j
        <5>1. ImageRequest(s, k, i) # I
          BY <4>2, ImageRequests
        <5>2. Image(c, k, i) \in Elements(x.list[k]) \/ ImageRequest(s, k, i) \in net
          BY <1>1, <1>8 DEF Fetching
        <5> QED  BY <1>5, <5>1, <5>2
      <4> QED  BY <4>1, <4>2
    <3>2. Fetching(s, c, k)'
      BY <1>2, <1>5, <1>9, <3>1 DEF Fetching
    <3> QED  BY <2>3, <3>2
  <2> QED  BY <1>6, <2>1, <2>2, <2>3 DEF Filling
<1>11. k \notin Done(x, c)
  <2>1. Elements(x.list[k]) # x.result[k]
    BY <1>5
  <2>2. x.tmp[k] # 0
    BY <1>3, <1>4, <1>5, <2>1, CountdownZero, ZenonT(30)
  <2> QED  BY <2>2 DEF Done
<1>12. Done(y, c) = IF y.tmp[k] = 0 THEN Done(x, c) \cup {k} ELSE Done(x, c)
  BY <1>4, <1>5, <1>7, <1>9, <1>11 DEF Done
<1>13. Stores(x, c, Chaps(c))
  BY <1>1, <1>6 DEF Filling
<1>14. Chaps(c) \in Seq(Seq(ImageId)) /\ Len(Chaps(c)) \in Nat
  BY <1>3, <1>4, ChapsTyped
<1>15. Stores(y, c, Chaps(c)')
  <2>1. CASE y.tmp[k] # 0 /\ y.phase = x.phase /\ UNCHANGED lcomics
    <3>1. Chaps(c)' = Chaps(c)
      BY <2>1 DEF Chaps, First
    <3> QED  BY <1>12, <1>13, <2>1, <3>1 DEF Stores
  <2>2. CASE /\ y.tmp[k] = 0 /\ ChapterAdded(c, y.list[k])
             /\ y.phase = IF Len(Chaps(c)) + 1 = TotalChap(c) THEN "finished" ELSE x.phase
    <3>1. y.list[k] \in Seq(ImageId)
      BY <1>5 DEF SessionType
    <3>2. Chaps(c)' = Append(Chaps(c), y.list[k])
      <4>1. First(c)' = First(c)
        BY <1>4, FirstStable
      <4> QED  BY <1>3, <2>2, <3>1, <4>1, AddedChapter DEF Chaps
    <3>3. Len(Chaps(c)') = Len(Chaps(c)) + 1
      BY <1>14, <3>1, <3>2
    <3>4. Elements(y.list[k]) = Images(c, k, W)
      <4>1. Elements(y.list[k]) = y.result[k]
        BY <1>4, <1>5, <2>2, CountdownZero
      <4> QED  BY <1>5, <1>9, <4>1
    <3>5. AllElements(Chaps(c)') = AllElements(Chaps(c)) \cup {Images(c, k, W)}
      BY <1>14, <3>1, <3>2, <3>4, AllElementsAppend
    <3>6. Done(y, c) = Done(x, c) \cup {k}
      BY <1>12, <2>2
    <3>7. Cardinality(Done(y, c)) = Cardinality(Done(x, c)) + 1
      BY <1>11, <3>6, DoneCount, FS_AddElement
    <3>8. AllElements(Chaps(c)') = {Images(c, h, Whole(c, h)) : h \in Done(y, c)}
      BY <1>13, <3>5, <3>6 DEF Stores
    <3>9. x.phase # "finished"
      <4>1. SUFFICES ASSUME x.phase = "finished" PROVE FALSE
        OBVIOUS
      <4>2. Done(x, c) = all
        BY <1>13, <4>1, DoneCount DEF Stores
      <4> QED  BY <1>4, <1>11, <4>2
    <3>10. y.phase = "finished" <=> Len(Chaps(c)') = TotalChap(c)
      BY <2>2, <3>3, <3>9
    <3> QED  BY <1>13, <3>3, <3>7, <3>8, <3>10 DEF Stores
  <2> QED  BY <1>5, <2>1, <2>2
<1>16. InRealm(c)'
  BY <1>4, RealmKeeps
<1>17. Stores(dl[s], c, Chaps(c))'
  BY <1>2, <1>15 DEF Stores, Done, AllElements
<1>18. Filling(s, c)'
  BY <1>10, <1>16, <1>17 DEF Filling
<1> QED  BY <1>18 DEF Progress

LEMMA ProgressStep ==
  Inv /\ TypeOK' /\ CountdownOK /\ ShelfMirrorsRealm /\ RowsOK /\ ProgressOK /\ [Next]_vars
    => ProgressOK'
<1> SUFFICES ASSUME Inv, TypeOK', CountdownOK, ShelfMirrorsRealm, RowsOK, ProgressOK, [Next]_vars,
                    NEW s \in Sessions, NEW c \in Comics, Working(s, c)'
             PROVE  Progress(s, c)'
  BY DEF ProgressOK
<1>1. CASE Download(s)
  BY <1>1, ProgressStarts
<1>2. CASE ~Download(s)
  <2>1. Working(s, c) /\ Progress(s, c) /\ ~Restart
    BY <1>2, WorkingBefore DEF ProgressOK
  <2>2. s \notin broken'
    BY DEF Working
  <2>3. CASE DocumentArrives(s)
    BY <2>1, <2>3, ProgressDocument
  <2>4. CASE PosterArrives(s)
    BY <2>1, <2>4, ProgressPoster
  <2>5. ASSUME NEW k \in Chapters, ListArrives(s, k)
        PROVE  Progress(s, c)'
    BY <2>1, <2>2, <2>5, ProgressList
  <2>6. ASSUME NEW k, NEW j, ImageArrives(s, k, j)
        PROVE  Progress(s, c)'
    BY <2>1, <2>6, ProgressImage
  <2>7. CASE /\ ~DocumentArrives(s) /\ ~PosterArrives(s)
             /\ \A k \in Chapters : ~ListArrives(s, k)
             /\ \A k, j : ~ImageArrives(s, k, j)
    <3>1. /\ dl'[s] = dl[s]
          /\ \A q \in net : q.session = s => q \in net'
      <4> DEFINE Same == dl'[s] = dl[s] /\ \A q \in net : q.session = s => q \in net'
      <4>1. ASSUME NEW t \in Sessions \ {s}, Download(t) \/ DocumentArrives(t) \/ PosterArrives(t)
            PROVE  Same
        BY <4>1, SessionRequests DEF Download, DocumentArrives, PosterArrives, Inv, TypeOK
      <4>2. ASSUME NEW t \in Sessions \ {s}, NEW k \in Chapters, ListArrives(t, k)
            PROVE  Same
        BY <4>2, ListRequests DEF ListArrives, Inv, TypeOK
      <4>3. ASSUME NEW r \in net, RequestFails(r)
            PROVE  Same
        BY <2>2, <4>3 DEF RequestFails
      <4>4. ASSUME NEW r \in net, ImageArrives(r.session, r.chapter, r.image)
            PROVE  Same
        <5>1. PICK t, k, j : t = r.session /\ k = r.chapter /\ j = r.image
          OBVIOUS
        <5>2. PICK a : a = dl[t].comic
          OBVIOUS
        <5>3. ImageArrives(t, k, j) /\ t # s
          BY <2>7, <4>4, <5>1
        <5>4. dl'[s] = dl[s]
          BY <5>2, <5>3, FinishingStep
        <5>5. net' = net \ {ImageRequest(t, k, j)}
          BY <5>3 DEF ImageArrives
        <5> QED  BY <5>3, <5>4, <5>5, ImageRequests
      <4>5. CASE UNCHANGED <<dl, net>>
        BY <4>5
      <4> HIDE DEF Same
      <4>6. Same
        <5>1. CASE \E t \in Sessions : Download(t) \/ DocumentArrives(t) \/ PosterArrives(t)
          BY <1>2, <2>7, <4>1, <5>1
        <5>2. CASE \E t \in Sessions, k \in Chapters : ListArrives(t, k)
          BY <2>7, <4>2, <5>2
        <5>3. CASE \E r \in net : RequestFails(r)
          BY <4>3, <5>3
        <5>4. CASE \E r \in net : ImageArrives(r.session, r.chapter, r.image)
          BY <4>4, <5>4
        <5>5. CASE (\E a \in Comics : OpenInfo(a) \/ ReviewArrives(a)) \/ Back \/ UNCHANGED vars
          <6>1. UNCHANGED <<dl, net>>
            BY <5>5 DEF OpenInfo, ReviewArrives, Back, vars
          <6>2. dl' = dl /\ net' = net
            BY <6>1
          <6> QED  BY <6>2 DEF Same
        <5> QED  BY <2>1, <5>1, <5>2, <5>3, <5>4, <5>5 DEF Next
      <4> QED  BY <4>6 DEF Same
    <3> QED  BY <2>1, <2>7, <3>1, ProgressOfOthers
  <2> QED  BY <2>3, <2>4, <2>5, <2>6, <2>7
<1> QED  BY <1>1, <1>2

LEMMA ProgressInvariant ==
  Spec => [](Inv /\ CountdownOK /\ ProgressOK)
<1>1. Init => CountdownOK /\ RowsOK /\ ProgressOK
  <2>1. Init => CountdownOK
    BY DEF Init, Idle, CountdownOK, Started
  <2>2. Init => RowsOK
    BY DEF Init, RowsOK
  <2>3. Init => ProgressOK
    BY DEF Init, ProgressOK, Working, Started, Idle
  <2> QED  BY <2>1, <2>2, <2>3
<1>2. Inv => TypeOK
  BY DEF Inv
<1> QED
  BY <1>1, <1>2, CountdownStep, RowsStep, ProgressStep, ShelfMirrors, InductiveInvariant, PTL
     DEF Spec

LEMMA UndisturbedWorks ==
  ASSUME Inv, NEW s \in Sessions, Started(s), Undisturbed(s), s \notin broken, NEW c, c = dl[s].comic
  PROVE  c \in Comics /\ Working(s, c)
BY DEF Undisturbed, Working, Inv, StageOK

(* A session that reports finish, that no other disturbed and no request   *)
(* of which failed, has stored each chapter of its comic exactly once and  *)
(* whole, in whatever order the images came.                               *)
THEOREM FinishedComplete == Spec => []FinishedIsComplete
<1>1. Inv /\ ProgressOK => FinishedIsComplete
  <2> SUFFICES ASSUME Inv, ProgressOK, NEW s \in Sessions, dl[s].phase = "finished",
                      Undisturbed(s), s \notin broken, NEW c, c = dl[s].comic
               PROVE  /\ Len(Chaps(c)) = TotalChap(c)
                      /\ AllElements(Chaps(c)) = {Images(c, k, Whole(c, k)) : k \in 1..TotalChap(c)}
    BY DEF FinishedIsComplete, Chaps, AllElements
  <2>1. c \in Comics /\ Working(s, c)
    BY UndisturbedWorks DEF Started
  <2>2. Filling(s, c)
    BY <2>1 DEF ProgressOK, Progress, BeforePoster
  <2>3. Stores(dl[s], c, Chaps(c)) /\ Len(Chaps(c)) = TotalChap(c)
    BY <2>2 DEF Filling, Stores
  <2>4. Done(dl[s], c) = 1..TotalChap(c)
    BY <2>1, <2>3, DoneCount DEF Stores
  <2> QED  BY <2>3, <2>4 DEF Stores
<1> QED  BY <1>1, ProgressInvariant, PTL

(* A running session that nobody disturbs and no request of which failed   *)
(* still awaits an answer, unless a chapter folder is empty: the counter   *)
(* and the shelf's polling do not hang on an answer that was lost count of.*)
THEOREM NothingStalls == Spec => []NoSilentStall
<1>1. Inv /\ CountdownOK /\ ProgressOK => NoSilentStall
  <2> SUFFICES ASSUME Inv, CountdownOK, ProgressOK, NEW s \in Sessions, dl[s].phase = "running",
                      Undisturbed(s), s \notin broken, NEW c, c = dl[s].comic,
                      ~HasEmptyChapter(c)
               PROVE  \E r \in net : r.session = s
    BY DEF NoSilentStall
  <2>1. c \in Comics /\ Working(s, c) /\ Started(s)
    BY UndisturbedWorks DEF Started
  <2>2. CASE BeforePoster(s, c)
    BY <2>2, SessionRequests DEF BeforePoster
  <2>3. CASE Filling(s, c)
    <3>1. Stores(dl[s], c, Chaps(c)) /\ Len(Chaps(c)) # TotalChap(c)
      BY <2>3 DEF Filling, Stores
    <3>2. Done(dl[s], c) # 1..TotalChap(c)
      BY <2>1, <3>1, DoneCount DEF Stores
    <3>3. PICK k \in 1..TotalChap(c) : k \notin Done(dl[s], c)
      BY <3>2 DEF Done
    <3>4. CASE ListRequest(s, k) \in net
      BY <3>4, ListRequests
    <3>5. CASE Fetching(s, c, k)
      <4>1. Whole(c, k) \in Nat /\ Whole(c, k) # 0
        BY <2>1, ServerData DEF HasEmptyChapter
      <4>2. dl[s].result[k] # {}
        BY <3>5, <4>1 DEF Fetching, Images
      <4>3. dl[s].tmp[k] # 0
        BY <3>3, <4>2 DEF Done
      <4>4. Countdown(dl[s], k)
        BY <2>1 DEF CountdownOK
      <4>5. Elements(dl[s].list[k]) # dl[s].result[k]
        BY <2>1, <4>3, <4>4, CountdownZero
      <4>6. Elements(dl[s].list[k]) \subseteq dl[s].result[k]
        BY <4>4 DEF Countdown
      <4>7. PICK j \in 1..Whole(c, k) : Image(c, k, j) \notin Elements(dl[s].list[k])
        BY <3>5, <4>5, <4>6 DEF Fetching, Images
      <4>8. ImageRequest(s, k, j) \in net
        BY <3>5, <4>7 DEF Fetching
      <4> QED  BY <4>8, ImageRequests
    <3> QED  BY <2>3, <3>4, <3>5 DEF Filling
  <2> QED  BY <2>1, <2>2, <2>3 DEF ProgressOK, Progress
<1> QED  BY <1>1, ProgressInvariant, PTL

(***************************************************************************)
(* The table of the shelf (ShelfView)                                      *)
(***************************************************************************)
-----------------------------------------------------------------------------
(* Rows and taps *)

LEMMA RowsDomain == DOMAIN Rows = DOMAIN listDownload
BY DEF Rows

LEMMA LoadedRows ==
  ASSUME NEW seg
  PROVE  /\ seg = "download" => Loaded(seg) = Rows
         /\ \A i \in DOMAIN Loaded(seg) :
              seg = "download" => i \in DOMAIN listDownload
                                  /\ Loaded(seg)[i].comic = listDownload[i].comic
BY DEF Loaded, Rows, Row

(* A tap on a row opens a document of the collection. *)
LEMMA TapOpens ==
  ASSUME Inv, RowOpensItsComic, TapRow
  PROVE  \E c \in Comics : OpenInfo(c)
<1>1. CASE segment = "download"
  <2>0. PICK c \in {listDownload[i].comic : i \in DOMAIN table} : OpenInfo(c)
    BY <1>1 DEF TapRow
  <2>1. PICK i \in DOMAIN table : c = listDownload[i].comic
    OBVIOUS
  <2>2. i \in DOMAIN listDownload
    BY <1>1 DEF RowOpensItsComic
  <2>3. listDownload[i].comic \in Comics
    <3>1. listDownload \in Seq(RowType)
      BY DEF Inv, TypeOK
    <3>2. listDownload[i] \in RowType
      BY <2>2, <3>1
    <3> QED  BY <3>2 DEF RowType
  <2> QED  BY <2>0, <2>1, <2>3
<1>2. CASE segment # "download"
  BY <1>2 DEF TapRow
<1> QED  BY <1>1, <1>2

(* Every step of the shelf is a step or a stutter of ComicDownload. *)
LEMMA ShelfSteps == Inv /\ RowOpensItsComic /\ [ShelfNext]_allVars => [Next]_vars
<1> SUFFICES ASSUME Inv, RowOpensItsComic, [ShelfNext]_allVars
             PROVE  [Next]_vars
  OBVIOUS
<1>1. CASE SelectTab \/ ReLoad \/ SleepAndReload
  BY <1>1 DEF SelectTab, ReLoad, SleepAndReload
<1>2. CASE BackToShelf
  BY <1>2 DEF BackToShelf, Next
<1>3. CASE TapRow
  BY <1>3, TapOpens DEF Next
<1>4. CASE OpenElsewhere
  BY <1>4 DEF OpenElsewhere, Next
<1>5. CASE DownloadProceeds
  BY <1>5 DEF DownloadProceeds, Next
<1>6. CASE Launch
  BY <1>6 DEF Launch, Next
<1>7. CASE UNCHANGED allVars
  BY <1>7 DEF allVars
<1> QED  BY <1>1, <1>2, <1>3, <1>4, <1>5, <1>6, <1>7 DEF ShelfNext

(* The rows of the shelf are only ever appended to while the process lives. *)
LEMMA RowsKept ==
  ASSUME Inv, DownloadProceeds
  PROVE  \A i \in DOMAIN listDownload :
           i \in DOMAIN listDownload' /\ listDownload'[i] = listDownload[i]
<1>1. ASSUME NEW s \in Sessions, PosterArrives(s)
      PROVE  \A i \in DOMAIN listDownload :
               i \in DOMAIN listDownload' /\ listDownload'[i] = listDownload[i]
  <2>1. PICK row : listDownload' = Append(listDownload, row)
    BY <1>1 DEF PosterArrives
  <2>2. listDownload \in Seq(RowType)
    BY DEF Inv, TypeOK
  <2> QED  BY <2>1, <2>2
<1>2. CASE UNCHANGED listDownload
  BY <1>2, Zenon
<1>3. (\A s \in Sessions : ~PosterArrives(s)) => UNCHANGED listDownload
  BY Zenon DEF DownloadProceeds, Download, DocumentArrives, RequestFails, ListArrives, ImageArrives
<1> QED  BY <1>1, <1>2, <1>3

LEMMA TableStep == Inv /\ RowOpensItsComic /\ [ShelfNext]_allVars => RowOpensItsComic'
<1> SUFFICES ASSUME Inv, RowOpensItsComic, [ShelfNext]_allVars
             PROVE  RowOpensItsComic'
  OBVIOUS
<1>1. CASE UNCHANGED vars /\ table' = Loaded(segment')
  BY <1>1, LoadedRows DEF RowOpensItsComic, vars
<1>2. CASE UNCHANGED <<listDownload, segment, table>>
  BY <1>2 DEF RowOpensItsComic
<1>3. CASE SelectTab
  BY <1>1, <1>2, <1>3 DEF SelectTab, Appears, vars
<1>4. CASE BackToShelf
  <2>1. UNCHANGED <<listDownload, segment>>
    BY <1>4 DEF BackToShelf, Back
  <2>2. CASE table' = Loaded(segment)
    BY <2>1, <2>2, LoadedRows DEF RowOpensItsComic
  <2>3. CASE UNCHANGED table
    BY <2>1, <2>3, <1>2
  <2> QED  BY <1>4, <2>2, <2>3 DEF BackToShelf, Appears
<1>5. CASE ReLoad \/ SleepAndReload
  BY <1>1, <1>5 DEF ReLoad, SleepAndReload
<1>6. CASE TapRow
  BY <1>2, <1>6, TapOpens DEF TapRow, OpenInfo, shelfVars
<1>7. CASE OpenElsewhere
  BY <1>2, <1>7 DEF OpenElsewhere, OpenInfo, ReviewArrives, shelfVars
<1>8. CASE DownloadProceeds
  <2>1. UNCHANGED <<segment, table>>
    BY <1>8 DEF DownloadProceeds, shelfVars
  <2> QED  BY <1>8, <2>1, RowsKept DEF RowOpensItsComic
<1>9. CASE Launch
  BY <1>9 DEF Launch, RowOpensItsComic
<1>10. CASE UNCHANGED allVars
  BY <1>2, <1>10 DEF allVars, vars, shelfVars
<1> QED  BY <1>3, <1>4, <1>5, <1>6, <1>7, <1>8, <1>9, <1>10 DEF ShelfNext

LEMMA RowsInvariant == ShelfSpec => [](Inv /\ RowOpensItsComic)
<1>1. ShelfInit => Inv /\ RowOpensItsComic
  BY InitInv DEF ShelfInit, RowOpensItsComic
<1>2. Inv /\ RowOpensItsComic /\ [ShelfNext]_allVars => (Inv /\ RowOpensItsComic)'
  BY TableStep, ShelfSteps, TypeStep, ViewsStep, StageStep DEF Inv
<1> QED  BY <1>1, <1>2, PTL DEF ShelfSpec

(* A tap opens the comic its row shows, though the list behind the table   *)
(* may have grown since the row was loaded: it grows at its end.           *)
THEOREM RowsOpenTheirComics == ShelfSpec => []RowOpensItsComic
BY RowsInvariant, PTL

(* The shelf only watches: with its taps, reloads and chains of closures   *)
(* the downloads do nothing that ComicDownload does not allow, so that all *)
(* that is proved of them holds under the shelf.                           *)
THEOREM ShelfImplementsDownload == ShelfSpec => Spec
<1>1. ShelfInit => Init
  BY DEF ShelfInit
<1> QED  BY <1>1, RowsInvariant, ShelfSteps, PTL DEF ShelfSpec, Spec

-----------------------------------------------------------------------------
(* Types *)

LEMMA LoadedType ==
  ASSUME TypeOK, NEW seg
  PROVE  Loaded(seg) \in Seq(ShownRow)
<1>1. ASSUME NEW i \in DOMAIN listDownload
      PROVE  Row(listDownload[i]) \in ShownRow
  <2>1. listDownload[i] \in RowType /\ dl \in [Sessions -> SessionType]
    BY DEF TypeOK
  <2> QED  BY <2>1 DEF RowType, Row, ShownRow, SessionType
<1>2. listDownload \in Seq(RowType)
  BY DEF TypeOK
<1>3. DOMAIN listDownload = 1..Len(listDownload) /\ Len(listDownload) \in Nat
  BY <1>2
<1>4. Rows \in Seq(ShownRow)
  BY <1>1, <1>3 DEF Rows
<1> QED  BY <1>4 DEF Loaded

LEMMA ShelfTypeStep == TypeOK /\ ShelfTypeOK /\ [ShelfNext]_allVars => ShelfTypeOK'
<1> SUFFICES ASSUME TypeOK, ShelfTypeOK, [ShelfNext]_allVars
             PROVE  ShelfTypeOK'
  OBVIOUS
<1> USE DEF ShelfTypeOK
<1>0. isDowloading \in Int /\ timers \in 0..MaxTimers /\ MaxTimers \in Nat
  BY MaxTimersAssumption DEF TypeOK
<1>1. ASSUME Appears
      PROVE  cameOn' \in Segments /\ timers' \in 0..MaxTimers /\ table' \in Seq(ShownRow)
  BY <1>0, <1>1, LoadedType DEF Appears
<1>2. CASE SelectTab
  BY <1>1, <1>2 DEF SelectTab
<1>3. CASE BackToShelf
  BY <1>1, <1>3 DEF BackToShelf
<1>4. CASE ReLoad
  BY <1>4, LoadedType DEF ReLoad, Segments
<1>5. CASE SleepAndReload
  BY <1>0, <1>5, LoadedType DEF SleepAndReload
<1>6. CASE TapRow \/ OpenElsewhere \/ DownloadProceeds
  BY <1>6 DEF TapRow, OpenElsewhere, DownloadProceeds, shelfVars
<1>7. CASE Launch
  <2>1. <<>> \in Seq(ShownRow) /\ 0 \in 0..MaxTimers
    BY <1>0
  <2> QED  BY <1>7, <2>1 DEF Launch, Segments
<1>8. CASE UNCHANGED allVars
  BY <1>8 DEF allVars, shelfVars
<1> QED  BY <1>2, <1>3, <1>4, <1>5, <1>6, <1>7, <1>8 DEF ShelfNext

(* The shelf keeps its shape; no reload leaves more closures behind than   *)
(* there were chains.                                                      *)
THEOREM ShelfTypeCorrect == ShelfSpec => []ShelfTypeOK
<1>0. <<>> \in Seq(ShownRow) /\ 0 \in 0..MaxTimers
  BY MaxTimersAssumption
<1>1. ShelfInit => ShelfTypeOK
  BY <1>0 DEF ShelfInit, ShelfTypeOK, Segments
<1>2. Inv => TypeOK
  BY DEF Inv
<1> QED  BY <1>1, <1>2, RowsInvariant, ShelfTypeStep, PTL DEF ShelfSpec

-----------------------------------------------------------------------------
(* The table is up to date *)

(* A session whose document or poster is awaited has not finished. *)
EarlyRuns == \A r \in net : r.kind \in {"document", "poster"} => dl[r.session].phase = "running"

(* A Download shelf on the screen has a chain while there are downloads. *)
Chained == OnScreen /\ cameOn = "download" /\ isDowloading > 0 => timers > 0

LEMMA EarlyStep == Inv /\ EarlyRuns /\ [Next]_vars => EarlyRuns'
<1> SUFFICES ASSUME Inv, EarlyRuns, [Next]_vars
             PROVE  EarlyRuns'
  OBVIOUS
<1>0. /\ net \subseteq RequestType /\ dl \in [Sessions -> SessionType]
      /\ \A r \in net : RequestOK(r)
  BY DEF Inv, TypeOK, StageOK
<1>1. CASE net' \subseteq net /\ \A s \in Sessions : dl'[s].phase = dl[s].phase
  BY <1>0, <1>1 DEF EarlyRuns, RequestType
<1>2. ASSUME NEW s \in Sessions, Download(s)
      PROVE  EarlyRuns'
  BY <1>0, <1>2 DEF Download, EarlyRuns, RequestType, SessionType, DocumentRequest, Request
<1>3. ASSUME NEW s \in Sessions, DocumentArrives(s)
      PROVE  EarlyRuns'
  <2>1. /\ dl[s].phase = "running"
        /\ \A t \in Sessions : dl'[t].phase = dl[t].phase
    BY <1>0, <1>3 DEF DocumentArrives, EarlyRuns, DocumentRequest, Request, SessionType
  <2> QED
    BY <1>0, <1>3, <2>1 DEF DocumentArrives, EarlyRuns, RequestType, PosterRequest, Request
<1>4. ASSUME NEW s \in Sessions, PosterArrives(s)
      PROVE  EarlyRuns'
  BY <1>0, <1>4 DEF PosterArrives, EarlyRuns, RequestType, ListRequest, Request
<1>5. ASSUME NEW s \in Sessions, NEW k \in Chapters, ListArrives(s, k)
      PROVE  EarlyRuns'
  <2>1. \A t \in Sessions : dl'[t].phase = dl[t].phase
    BY <1>0, <1>5 DEF ListArrives, SessionType
  <2>2. \A q \in net' : q \in net \/ q.kind = "image"
    BY <1>5 DEF ListArrives, ImageRequest, Request
  <2> QED  BY <1>0, <2>1, <2>2 DEF EarlyRuns, RequestType
<1>6. ASSUME NEW r \in net, ImageArrives(r.session, r.chapter, r.image)
      PROVE  EarlyRuns'
  <2> DEFINE s == r.session
             q == ImageRequest(s, r.chapter, r.image)
  <2>1. q \in net /\ q.session = s /\ q.kind = "image"
    BY <1>6 DEF ImageArrives, ImageRequest, Request
  <2>2. \A p \in net : p.kind \in {"document", "poster"} => p.session # s
    BY <1>0, <2>1 DEF RequestOK
  <2>3. net' \subseteq net /\ \A t \in Sessions \ {s} : dl'[t] = dl[t]
    <3>1. net' \subseteq net
      BY <1>6 DEF ImageArrives
    <3>2. \E d : dl' = [dl EXCEPT ![s] = d]
      BY <1>6, Zenon DEF ImageArrives, StoreChapter
    <3> QED  BY <1>0, <3>1, <3>2
  <2> QED  BY <1>0, <2>2, <2>3 DEF EarlyRuns, RequestType
<1>7. CASE Restart
  BY <1>7 DEF Restart, EarlyRuns
<1>8. ASSUME NEW r \in net, RequestFails(r)
      PROVE  EarlyRuns'
  BY <1>1, <1>8 DEF RequestFails
<1>9. CASE UNCHANGED <<net, dl>>
  BY <1>1, <1>9
<1> QED
  BY <1>2, <1>3, <1>4, <1>5, <1>6, <1>7, <1>8, <1>9 DEF Next, OpenInfo, ReviewArrives, Back, vars

(* When no download is counted none is running, and no callback changes a  *)
(* row any more.                                                           *)
LEMMA NoneRuns ==
  ASSUME CounterExact, ~(isDowloading > 0), NEW s \in Sessions
  PROVE  dl[s].phase # "running"
<1> DEFINE R == {t \in Sessions : dl[t].phase = "running"}
<1>1. IsFiniteSet(R)
  BY ConstantsAssumption, FS_Subset
<1>2. Cardinality(R) \in Nat /\ isDowloading = Cardinality(R)
  BY <1>1, FS_CardinalityType DEF CounterExact
<1>3. Cardinality(R) = 0
  BY <1>2
<1>4. R = {}
  BY <1>1, <1>3, FS_EmptySet
<1> QED  BY <1>4

LEMMA QuietRows ==
  ASSUME Inv, TypeOK', [Next]_vars, EarlyRuns, CounterExact, ~(isDowloading > 0),
         DownloadProceeds, UNCHANGED info
  PROVE  Rows' = Rows /\ ~(isDowloading' > 0)
<1>0. /\ net \subseteq RequestType /\ dl \in [Sessions -> SessionType]
      /\ listDownload \in Seq(RowType) /\ \A r \in net : RequestOK(r)
      /\ isDowloading \in Int
  BY DEF Inv, TypeOK, StageOK
<1>1. \A s \in Sessions : dl[s].phase # "running"
  BY NoneRuns
<1>2. CASE /\ UNCHANGED <<listDownload, isDowloading>>
           /\ \A s \in Sessions : /\ dl'[s].phase = dl[s].phase
                                  /\ dl'[s].tmpTotalSize = dl[s].tmpTotalSize
  <2>1. ASSUME NEW i \in DOMAIN listDownload
        PROVE  Row(listDownload[i])' = Row(listDownload[i])
    <3>1. listDownload[i] \in RowType
      BY <1>0
    <3> QED  BY <1>2, <3>1 DEF Row, RowType
  <2> QED  BY <1>2, <2>1 DEF Rows
<1>3. ASSUME NEW s \in Sessions, Download(s)
      PROVE  FALSE
  BY <1>0, <1>3 DEF Download, Inv, TypeOK
<1>4. ASSUME NEW s \in Sessions, DocumentArrives(s) \/ PosterArrives(s)
      PROVE  FALSE
  BY <1>1, <1>4 DEF DocumentArrives, PosterArrives, EarlyRuns, DocumentRequest, PosterRequest, Request
<1>5. ASSUME NEW r \in net, RequestFails(r)
      PROVE  Rows' = Rows /\ ~(isDowloading' > 0)
  BY <1>2, <1>5 DEF RequestFails
<1>6. ASSUME NEW s \in Sessions, NEW k \in Chapters, ListArrives(s, k)
      PROVE  Rows' = Rows /\ ~(isDowloading' > 0)
  BY <1>0, <1>2, <1>6 DEF ListArrives, SessionType
<1>7. ASSUME NEW r \in net, ImageArrives(r.session, r.chapter, r.image)
      PROVE  Rows' = Rows /\ ~(isDowloading' > 0)
  <2> DEFINE s == r.session
  <2>0. r \in RequestType /\ s \in Sessions
    BY <1>0 DEF RequestType
  <2>1. dl[s].phase = "finished"
    <3>1. RequestOK(r)
      BY <1>0
    <3> QED  BY <1>1, <2>0, <3>1 DEF RequestOK, Started
  <2>2. /\ UNCHANGED listDownload
        /\ isDowloading' = isDowloading \/ isDowloading' = isDowloading - 1
        /\ dl'[s].phase = "finished"
        /\ \A t \in Sessions \ {s} : dl'[t] = dl[t]
    <3>1. UNCHANGED listDownload
      BY <1>7 DEF ImageArrives
    <3> QED  BY <1>7, <2>1, <3>1, FinishingStep
  <2>3. ASSUME NEW i \in DOMAIN listDownload
        PROVE  Row(listDownload[i])' = Row(listDownload[i])
    <3>1. listDownload[i] \in RowType
      BY <1>0
    <3> QED  BY <2>1, <2>2, <3>1 DEF Row, RowType
  <2> QED  BY <1>0, <2>2, <2>3 DEF Rows
<1> QED
  BY <1>3, <1>4, <1>5, <1>6, <1>7 DEF DownloadProceeds

LEMMA SameRows ==
  ASSUME UNCHANGED <<dl, listDownload>>
  PROVE  Rows' = Rows
BY DEF Rows, Row

LEMMA AppearsKeepsUp ==
  ASSUME ShelfTypeOK, UNCHANGED <<dl, listDownload, isDowloading, segment>>, Appears
  PROVE  Chained' /\ ShelfKeepsUp'
<1>1. Rows' = Rows
  BY SameRows
<1>2. /\ cameOn' = segment /\ table' = Loaded(segment)
      /\ segment = "download" /\ isDowloading > 0 => timers' = timers + 1
  BY DEF Appears
<1>3. timers \in Nat
  BY MaxTimersAssumption DEF ShelfTypeOK
<1> QED  BY <1>1, <1>2, <1>3 DEF Chained, ShelfKeepsUp, Loaded

LEMMA KeepsUpStep ==
  /\ Inv /\ TypeOK' /\ [Next]_vars /\ EarlyRuns /\ CounterExact
  /\ ShelfTypeOK /\ Chained /\ ShelfKeepsUp /\ [ShelfNext]_allVars
  => Chained' /\ ShelfKeepsUp'
<1> SUFFICES ASSUME Inv, TypeOK', [Next]_vars, EarlyRuns, CounterExact,
                    ShelfTypeOK, Chained, ShelfKeepsUp, [ShelfNext]_allVars
             PROVE  Chained' /\ ShelfKeepsUp'
  OBVIOUS
<1>0. timers \in Nat /\ isDowloading \in Int
  BY MaxTimersAssumption DEF ShelfTypeOK, Inv, TypeOK
<1>1. CASE ~OnScreen'
  BY <1>1 DEF Chained, ShelfKeepsUp
<1>2. CASE SelectTab
  <2>1. CASE selected'
    BY <1>2, <2>1, AppearsKeepsUp DEF SelectTab, vars
  <2>2. CASE ~selected'
    BY <1>1, <2>2 DEF OnScreen
  <2> QED  BY <2>1, <2>2
<1>3. CASE BackToShelf
  <2>1. CASE selected /\ info' = <<>>
    BY <1>3, <2>1, AppearsKeepsUp DEF BackToShelf, Back
  <2>2. CASE ~(selected /\ info' = <<>>)
    BY <1>1, <1>3, <2>2 DEF BackToShelf, OnScreen
  <2> QED  BY <2>1, <2>2
<1>4. CASE ReLoad
  <2>1. /\ OnScreen /\ table' = Loaded(segment')
        /\ UNCHANGED <<dl, listDownload, isDowloading, selected, info, cameOn, timers>>
    BY <1>4 DEF ReLoad, vars
  <2> QED  BY <2>1, SameRows DEF Chained, ShelfKeepsUp, OnScreen, Loaded
<1>5. CASE SleepAndReload
  (* The chain ends with a reload, and only when nothing is downloading. *)
  <2>1. /\ timers' = IF isDowloading > 0 THEN timers ELSE timers - 1
        /\ timers > 0 /\ table' = Loaded(segment)
        /\ UNCHANGED <<dl, listDownload, isDowloading, selected, segment, info, cameOn>>
    BY <1>5 DEF SleepAndReload, vars
  <2> QED  BY <1>0, <2>1, SameRows DEF Chained, ShelfKeepsUp, OnScreen, Loaded
<1>6. CASE TapRow
  BY <1>1, <1>6 DEF TapRow, OpenInfo, OnScreen
<1>7. CASE OpenElsewhere
  <2>1. CASE \E c \in Comics : OpenInfo(c)
    BY <1>1, <2>1 DEF OpenInfo, OnScreen
  <2>2. CASE /\ UNCHANGED <<dl, listDownload, isDowloading>> /\ UNCHANGED shelfVars
             /\ selected => info' = info
    BY <2>2, SameRows DEF Chained, ShelfKeepsUp, OnScreen, shelfVars
  <2> QED  BY <1>7, <2>1, <2>2 DEF OpenElsewhere, ReviewArrives
<1>8. CASE DownloadProceeds
  <2>1. CASE info = <<>> /\ UNCHANGED info
    <3>1. isDowloading' <= isDowloading
      <4>1. ASSUME NEW s \in Sessions PROVE ~Download(s)
        BY <2>1 DEF Download
      <4>2. \/ UNCHANGED isDowloading
            \/ \E s, k, j : ImageArrives(s, k, j)
        BY <1>8, <4>1 DEF DownloadProceeds, DocumentArrives, PosterArrives, RequestFails, ListArrives
      <4>3. ASSUME NEW s, NEW k, NEW j, ImageArrives(s, k, j)
            PROVE  UNCHANGED isDowloading \/ isDowloading' = isDowloading - 1
        BY <4>3, FinishingStep
      <4> QED  BY <1>0, <4>2, <4>3
    <3>2. CASE isDowloading > 0
      BY <1>8, <2>1, <3>2 DEF DownloadProceeds, shelfVars, Chained, ShelfKeepsUp, OnScreen
    <3>3. CASE ~(isDowloading > 0)
      BY <1>8, <2>1, <3>3, QuietRows DEF DownloadProceeds, shelfVars, Chained, ShelfKeepsUp, OnScreen
    <3> QED  BY <3>2, <3>3
  <2>2. CASE ~(info = <<>> /\ UNCHANGED info)
    <3>1. \/ info' # <<>>
          \/ UNCHANGED info /\ info # <<>>
      <4>1. \/ UNCHANGED info
            \/ \E s \in Sessions : Download(s)
        BY <1>8, Zenon DEF DownloadProceeds, DocumentArrives, PosterArrives, RequestFails,
             ListArrives, ImageArrives
      <4>2. info \in Seq(BOOLEAN)
        BY DEF Inv, TypeOK
      <4>3. ASSUME NEW s \in Sessions, Download(s)
            PROVE  info' # <<>>
        <5>1. info # <<>> /\ info' = [info EXCEPT ![Len(info)] = TRUE]
          BY <4>3 DEF Download
        <5>2. Len(info) \in DOMAIN info /\ DOMAIN info' = DOMAIN info
          BY <4>2, <5>1
        <5>3. Len(info) \in DOMAIN info'
          BY <5>2
        <5> QED  BY <5>3
      <4> QED  BY <2>2, <4>1, <4>3, Zenon
    <3> QED  BY <1>1, <3>1 DEF OnScreen
  <2> QED  BY <2>1, <2>2
<1>9. CASE Launch
  BY <1>1, <1>9 DEF Launch, OnScreen
<1>10. CASE UNCHANGED allVars
  <2>1. /\ UNCHANGED <<dl, listDownload, isDowloading, info>>
        /\ UNCHANGED <<selected, segment, cameOn, timers, table>>
    BY <1>10 DEF allVars, vars, shelfVars
  <2> QED  BY <2>1, SameRows DEF Chained, ShelfKeepsUp, OnScreen
<1> QED  BY <1>2, <1>3, <1>4, <1>5, <1>6, <1>7, <1>8, <1>9, <1>10 DEF ShelfNext

(* On the screen the Download shelf shows every download as it is, or a    *)
(* closure that reloads it is still to run.  The counter is why: a chain   *)
(* ends only with a reload at a moment when no session is running, and     *)
(* from then on no callback changes a row.                                 *)
THEOREM ShelfStaysFresh == ShelfSpec => []ShelfKeepsUp
<1>1. ShelfInit => EarlyRuns /\ Chained /\ ShelfKeepsUp
  BY DEF ShelfInit, Init, EarlyRuns, Chained, ShelfKeepsUp, OnScreen
<1>2. Inv /\ TypeOK' /\ RowOpensItsComic /\ CounterExact /\ ShelfTypeOK
        /\ EarlyRuns /\ Chained /\ ShelfKeepsUp /\ [ShelfNext]_allVars
        => (EarlyRuns /\ Chained /\ ShelfKeepsUp)'
  BY ShelfSteps, EarlyStep, KeepsUpStep
<1>3. Inv => TypeOK
  BY DEF Inv
<1> QED
  BY <1>1, <1>2, <1>3, RowsInvariant, ShelfTypeCorrect, ShelfImplementsDownload, CounterCorrect,
     PTL DEF ShelfSpec
=============================================================================
