---------------------------- MODULE ComicDownload ----------------------------
(***************************************************************************)
(* Downloading a comic for offline reading: the Download button of         *)
(* InfoViewController, Shelf.DownloadCommic with its four levels of        *)
(* nested Firebase callbacks, the Realm records it writes, and             *)
(* Shelf.ComicRealmToRam, which rebuilds the shelf at the next launch.     *)
(*                                                                         *)
(* Every Firebase callback runs on the main queue, so one callback is one  *)
(* atomic action; between two callbacks the user taps, other requests      *)
(* complete in any order, requests fail, and the process may be killed.    *)
(* A size is counted in images (every image has size 1).                   *)
(***************************************************************************)
EXTENDS Integers, Sequences, FiniteSets

CONSTANTS
  Comics,      (* documents of the collection "Comic"                      *)
  MaxViews,    (* bound on the comics opened one over another              *)
  Sessions,    (* calls of DownloadCommic: bounds the taps on Download     *)
  NoComic,     (* Comic.id before any comic was opened                     *)
  Restored,    (* origin of a shelf row read back from Realm               *)
  MaxChapters, (* bound on the chapters of a comic                         *)
  ImageCount,  (* [Comics -> Seq(Nat)]: images in each chapter folder      *)
  PageSize,    (* entries Cloud Storage returns in one page of a listing   *)
  StoredSize   (* [Comics -> Nat]: "size" of each document at the start    *)

ASSUME ConstantsAssumption ==
  /\ IsFiniteSet(Sessions)
  /\ MaxViews \in Nat
  /\ NoComic \notin Comics
  /\ Restored \notin Sessions
  /\ MaxChapters \in Nat
  /\ PageSize \in Nat \ {0}
  /\ ImageCount \in [Comics -> Seq(Nat)]
  /\ \A c \in Comics : Len(ImageCount[c]) \in 1..MaxChapters
  /\ StoredSize \in [Comics -> Nat]

VARIABLES
  (* RAM: lost when the process is killed *)
  comicId,      (* Comic.id, the comic every view acts on                  *)
  info,         (* btnDownload.isHidden of the InfoViewControllers: the    *)
                (* last one is on the screen and covers the others         *)
  isDowloading, (* Comic.isDowloading, the count of running downloads      *)
  listDownload, (* Shelf.listDownload: rows of the shelf                   *)
  dl,           (* per session: its DComic and what its closures capture   *)
  net,          (* requests whose callback has not run                     *)
  (* disk and server *)
  lcomics,      (* realm.objects(LComic.self), in order of insertion       *)
  serverSize,   (* "size" of each comic's document                         *)
  (* history, read by properties only *)
  broken        (* sessions with a failed request, or killed               *)

vars == <<comicId, info, isDowloading, listDownload, dl, net, lcomics, serverSize, broken>>

-----------------------------------------------------------------------------
(* Server data *)

Chapters == 1..MaxChapters
TotalChap(c) == Len(ImageCount[c])
Image(c, k, j) == <<c, k, j>>
Images(c, k, n) == {Image(c, k, j) : j \in 1..n}

(* What listAll hands over as result.items: the whole folder, or, when the *)
(* request for a later page fails, the pages that arrived before: its      *)
(* completion then runs twice, with the error and with what it has.        *)
Whole(c, k) == ImageCount[c][k]
Truncated(c, k) == {m \in 0..(Whole(c, k) - 1) : m % PageSize = 0}
FitsOnePage(c, k) == Whole(c, k) <= PageSize

(* Requests in flight *)
Request(kind, s, k, j) == [kind |-> kind, session |-> s, chapter |-> k, image |-> j]
DocumentRequest(s) == Request("document", s, 0, 0)
PosterRequest(s) == Request("poster", s, 0, 0)
ListRequest(s, k) == Request("list", s, k, 0)
ImageRequest(s, k, j) == Request("image", s, k, j)

(* realm.objects(LComic.self).filter("comicID == %@", c).first *)
InRealm(c) == \E i \in DOMAIN lcomics : lcomics[i].comicID = c
FirstOf(records, c) ==
  CHOOSE i \in DOMAIN records : /\ records[i].comicID = c
                                /\ \A h \in 1..(i - 1) : records[h].comicID # c
First(c) == FirstOf(lcomics, c)

Idle(phase) ==
  [phase        |-> phase,   (* "finished" is DComic.finish                *)
   comic        |-> NoComic, (* comicID                                    *)
   totalSize    |-> 1,       (* the document's "size"                      *)
   tmpTotalSize |-> 0,       (* the size received so far                   *)
   result       |-> [k \in Chapters |-> {}],   (* result.items             *)
   list         |-> [k \in Chapters |-> <<>>], (* in order of arrival      *)
   tmp          |-> [k \in Chapters |-> 0]]    (* images still to arrive   *)

Init ==
  /\ comicId = NoComic
  /\ info = <<>>
  /\ isDowloading = 0
  /\ listDownload = <<>>
  /\ dl = [s \in Sessions |-> Idle("unused")]
  /\ net = {}
  /\ lcomics = <<>>
  /\ serverSize = StoredSize
  /\ broken = {}

-----------------------------------------------------------------------------
(* A comic is opened: Comic.id is set and the view loads.  Its Download    *)
(* button is hidden when Realm already holds the comic.  While the view is *)
(* on its stack the tab bar is hidden, so a tap opens no other comic.      *)
OpenInfo(c) ==
  /\ info = <<>>
  /\ comicId' = c
  /\ info' = <<InRealm(c)>>
  /\ UNCHANGED <<isDowloading, listDownload, dl, net, lcomics, serverSize, broken>>

(* The comment tapped in the list of reviews arrives, whatever was opened  *)
(* since: Comic.id becomes its comic, which is opened over the others, or, *)
(* when another tab is selected, once the reviews are next on the screen.  *)
ReviewArrives(c) ==
  /\ comicId' = c
  /\ \/ Len(info) < MaxViews /\ info' = Append(info, InRealm(c))
     \/ UNCHANGED info
  /\ UNCHANGED <<isDowloading, listDownload, dl, net, lcomics, serverSize, broken>>

(* The navigation bar's back button.                                       *)
Back ==
  /\ info # <<>>
  /\ info' = SubSeq(info, 1, Len(info) - 1)
  /\ UNCHANGED <<comicId, isDowloading, listDownload, dl, net, lcomics, serverSize, broken>>

(* A tap on a visible Download button: it hides, the counter is raised,    *)
(* and a session starts for Comic.id, which ReviewArrives may have changed *)
(* since this view was loaded.                                             *)
Download(s) ==
  /\ info # <<>> /\ ~info[Len(info)]
  /\ dl[s].phase = "unused"
  /\ info' = [info EXCEPT ![Len(info)] = TRUE]
  /\ isDowloading' = isDowloading + 1
  /\ dl' = [dl EXCEPT ![s].phase = "running", ![s].comic = comicId]
  /\ net' = net \cup {DocumentRequest(s)}
  /\ UNCHANGED <<comicId, listDownload, lcomics, serverSize, broken>>

(* The comic's document arrives: its size is kept, its poster requested.   *)
DocumentArrives(s) ==
  /\ DocumentRequest(s) \in net
  /\ dl' = [dl EXCEPT ![s].totalSize = serverSize[dl[s].comic]]
  /\ net' = (net \ {DocumentRequest(s)}) \cup {PosterRequest(s)}
  /\ UNCHANGED <<comicId, info, isDowloading, listDownload, lcomics, serverSize, broken>>

(* Mutants of PosterArrives: a chapter too many is listed; Realm keeps one *)
(* record per comic but the shelf does not; a new record replaces the old; *)
(* the newest row of the shelf comes first.                                *)
MutantListsOneMore(s) ==
  LET c == dl[s].comic IN
  /\ PosterRequest(s) \in net
  /\ listDownload' = Append(listDownload, [comic |-> c, origin |-> s])
  /\ lcomics' = Append(lcomics, [comicID |-> c, comicNChap |-> TotalChap(c), listChap |-> <<>>])
  /\ net' = (net \ {PosterRequest(s)}) \cup {ListRequest(s, k) : k \in 1..(TotalChap(c) + 1)}
  /\ UNCHANGED <<comicId, info, isDowloading, dl, serverSize, broken>>
MutantOneRecord(s) ==
  LET c == dl[s].comic IN
  /\ PosterRequest(s) \in net
  /\ listDownload' = Append(listDownload, [comic |-> c, origin |-> s])
  /\ lcomics' = IF InRealm(c) THEN lcomics
                ELSE Append(lcomics, [comicID |-> c, comicNChap |-> TotalChap(c), listChap |-> <<>>])
  /\ net' = (net \ {PosterRequest(s)}) \cup {ListRequest(s, k) : k \in 1..TotalChap(c)}
  /\ UNCHANGED <<comicId, info, isDowloading, dl, serverSize, broken>>
MutantReplaces(s) ==
  LET c == dl[s].comic IN
  /\ PosterRequest(s) \in net
  /\ listDownload' = Append(listDownload, [comic |-> c, origin |-> s])
  /\ lcomics' = Append([i \in DOMAIN lcomics |->
                          IF lcomics[i].comicID = c THEN [lcomics[i] EXCEPT !.listChap = <<>>]
                          ELSE lcomics[i]],
                       [comicID |-> c, comicNChap |-> TotalChap(c), listChap |-> <<>>])
  /\ net' = (net \ {PosterRequest(s)}) \cup {ListRequest(s, k) : k \in 1..TotalChap(c)}
  /\ UNCHANGED <<comicId, info, isDowloading, dl, serverSize, broken>>

MutantNewestFirst(s) ==
  LET c == dl[s].comic IN
  /\ PosterRequest(s) \in net
  /\ listDownload' = <<[comic |-> c, origin |-> s]>> \o listDownload
  /\ lcomics' = Append(lcomics, [comicID |-> c, comicNChap |-> TotalChap(c), listChap |-> <<>>])
  /\ net' = (net \ {PosterRequest(s)}) \cup {ListRequest(s, k) : k \in 1..TotalChap(c)}
  /\ UNCHANGED <<comicId, info, isDowloading, dl, serverSize, broken>>

(* The poster arrives: the comic enters the shelf and Realm, without any   *)
(* chapter yet, and the listing of every chapter folder is requested.      *)
PosterArrives(s) ==
  LET c == dl[s].comic IN
  /\ PosterRequest(s) \in net
  /\ listDownload' = Append(listDownload, [comic |-> c, origin |-> s])
  /\ lcomics' = Append(lcomics, [comicID |-> c, comicNChap |-> TotalChap(c),
                                 listChap |-> <<>>])
  /\ net' = (net \ {PosterRequest(s)}) \cup {ListRequest(s, k) : k \in 1..TotalChap(c)}
  /\ UNCHANGED <<comicId, info, isDowloading, dl, serverSize, broken>>

(* Mutant of RequestFails: "tmp -= 1" also runs for a failed image. *)
MutantFailureCounted(r) ==
  /\ r \in net
  /\ r.kind = "image"
  /\ net' = net \ {r}
  /\ dl' = [dl EXCEPT ![r.session].tmp[r.chapter] = @ - 1]
  /\ broken' = broken \cup {r.session}
  /\ UNCHANGED <<comicId, info, isDowloading, listDownload, lcomics, serverSize>>

(* A document, poster or image request fails, or the document is missing:  *)
(* the callback returns and nothing else happens, then or later.           *)
RequestFails(r) ==
  /\ r \in net
  /\ r.kind \in {"document", "poster", "image"}
  /\ net' = net \ {r}
  /\ broken' = broken \cup {r.session}
  /\ UNCHANGED <<comicId, info, isDowloading, listDownload, dl, lcomics, serverSize>>

(* Mutant of ListArrives: tmp starts one too high. *)
MutantTmpTooHigh(s, k) ==
  LET c == dl[s].comic IN
  /\ ListRequest(s, k) \in net
  /\ \E n \in Truncated(c, k) \cup {Whole(c, k)} :
       /\ dl' = [dl EXCEPT ![s].result[k] = Images(c, k, n), ![s].tmp[k] = n + 1]
       /\ net' = (net \ {ListRequest(s, k)}) \cup {ImageRequest(s, k, j) : j \in 1..n}
       /\ broken' = IF n = Whole(c, k) THEN broken ELSE broken \cup {s}
  /\ UNCHANGED <<comicId, info, isDowloading, listDownload, lcomics, serverSize>>

(* A chapter's listing arrives with n images, each requested at once.      *)
ListArrives(s, k) ==
  LET c == dl[s].comic IN
  /\ ListRequest(s, k) \in net
  /\ \E n \in Truncated(c, k) \cup {Whole(c, k)} :
       /\ dl' = [dl EXCEPT ![s].result[k] = Images(c, k, n), ![s].tmp[k] = n]
       /\ net' = (net \ {ListRequest(s, k)}) \cup {ImageRequest(s, k, j) : j \in 1..n}
       /\ broken' = IF n = Whole(c, k) THEN broken ELSE broken \cup {s}
  /\ UNCHANGED <<comicId, info, isDowloading, listDownload, lcomics, serverSize>>

(* Mutants of StoreChapter: a count that passed totalChap also finishes;   *)
(* one chapter is missing; one too many is awaited; the record is looked   *)
(* up by Comic.id, which may have changed, not by comicID.                 *)
StoreAt(s, d, k, i, Enough(_)) ==
  LET listChap == Append(lcomics[i].listChap, d.list[k]) IN
  /\ lcomics' = [lcomics EXCEPT ![i].listChap = listChap]
  /\ dl' = [dl EXCEPT ![s] = IF Enough(Len(listChap)) THEN [d EXCEPT !.phase = "finished"] ELSE d]
  /\ isDowloading' = IF Enough(Len(listChap)) THEN isDowloading - 1 ELSE isDowloading
  /\ UNCHANGED serverSize
MutantAtLeast(s, d, k) == StoreAt(s, d, k, First(d.comic), LAMBDA n : n >= TotalChap(d.comic))
MutantOneShort(s, d, k) == StoreAt(s, d, k, First(d.comic), LAMBDA n : n = TotalChap(d.comic) - 1)
MutantOneMore(s, d, k) == StoreAt(s, d, k, First(d.comic), LAMBDA n : n > TotalChap(d.comic))
MutantGlobalId(s, d, k) ==
  /\ InRealm(comicId)
  /\ StoreAt(s, d, k, First(comicId), LAMBDA n : n = TotalChap(d.comic))

(* Session s, whose state is now d, holds every image of chapter k: the    *)
(* chapter is appended to the first LComic with that comicID. If that      *)
(* record now has totalChap chapters, the session corrects the document's  *)
(* size, lowers the counter and is finished.                               *)
StoreChapter(s, d, k) ==
  LET i == First(d.comic)
      listChap == Append(lcomics[i].listChap, d.list[k])
  IN
  /\ lcomics' = [lcomics EXCEPT ![i].listChap = listChap]
  /\ \/ /\ Len(listChap) = TotalChap(d.comic)
        /\ serverSize' = IF d.tmpTotalSize = d.totalSize THEN serverSize
                         ELSE [serverSize EXCEPT ![d.comic] = d.tmpTotalSize]
        /\ isDowloading' = isDowloading - 1
        /\ dl' = [dl EXCEPT ![s] = [d EXCEPT !.phase = "finished"]]
     \/ /\ Len(listChap) # TotalChap(d.comic)
        /\ dl' = [dl EXCEPT ![s] = d]
        /\ UNCHANGED <<serverSize, isDowloading>>

(* Mutant of ImageArrives: the chapter is stored with an image missing. *)
MutantStoresEarly(s, k, j) ==
  LET d == [dl[s] EXCEPT !.list[k] = Append(@, Image(dl[s].comic, k, j)),
                         !.tmpTotalSize = @ + 1,
                         !.tmp[k] = @ - 1]
  IN
  /\ ImageRequest(s, k, j) \in net
  /\ net' = net \ {ImageRequest(s, k, j)}
  /\ IF d.tmp[k] <= 1 THEN StoreChapter(s, d, k)
     ELSE dl' = [dl EXCEPT ![s] = d] /\ UNCHANGED <<isDowloading, lcomics, serverSize>>
  /\ UNCHANGED <<comicId, info, listDownload, broken>>

(* An image arrives: it joins its chapter in order of arrival; the last    *)
(* one outstanding stores the chapter.                                     *)
ImageArrives(s, k, j) ==
  LET d == [dl[s] EXCEPT !.list[k] = Append(@, Image(dl[s].comic, k, j)),
                         !.tmpTotalSize = @ + 1,
                         !.tmp[k] = @ - 1]
  IN
  /\ ImageRequest(s, k, j) \in net
  /\ net' = net \ {ImageRequest(s, k, j)}
  /\ \/ d.tmp[k] = 0 /\ StoreChapter(s, d, k)
     \/ /\ d.tmp[k] # 0
        /\ dl' = [dl EXCEPT ![s] = d]
        /\ UNCHANGED <<isDowloading, lcomics, serverSize>>
  /\ UNCHANGED <<comicId, info, listDownload, broken>>

(* The process is killed and the app launched again: memory is lost, and   *)
(* ComicRealmToRam turns every LComic into a finished row of the shelf.    *)
Restart ==
  /\ comicId' = NoComic
  /\ info' = <<>>
  /\ isDowloading' = 0
  /\ listDownload' = [i \in DOMAIN lcomics |->
                        [comic |-> lcomics[i].comicID, origin |-> Restored]]
  /\ dl' = [s \in Sessions |->
              Idle(IF dl[s].phase = "unused" THEN "unused" ELSE "lost")]
  /\ net' = {}
  /\ broken' = {s \in Sessions : dl[s].phase # "unused"}
  /\ UNCHANGED <<lcomics, serverSize>>

Next ==
  \/ \E c \in Comics : OpenInfo(c) \/ ReviewArrives(c)
  \/ Back
  \/ \E s \in Sessions : Download(s) \/ DocumentArrives(s) \/ PosterArrives(s)
  \/ \E r \in net : RequestFails(r)
  \/ \E s \in Sessions, k \in Chapters : ListArrives(s, k)
  \/ \E r \in net : ImageArrives(r.session, r.chapter, r.image)
  \/ Restart

Spec == Init /\ [][Next]_vars

(* The Firebase SDK answers every request, with a result or an error; the  *)
(* user owes the program no tap, the system no restart.                    *)
Answered(s) ==
  \/ DocumentArrives(s) \/ PosterArrives(s)
  \/ \E k \in Chapters : ListArrives(s, k)
  \/ \E r \in net : r.session = s /\ (RequestFails(r) \/ ImageArrives(s, r.chapter, r.image))

FairSpec == Spec /\ \A s \in Sessions : WF_vars(Answered(s))

-----------------------------------------------------------------------------
(* Properties *)

ImageId == Comics \X Chapters \X Nat
Elements(q) == {q[i] : i \in DOMAIN q}
Started(s) == dl[s].phase \in {"running", "finished"}

(* The first record of s's comic, the one every reader finds, was added by *)
(* s itself, and no other session of this launch works on that comic.      *)
Undisturbed(s) ==
  /\ \A t \in Sessions \ {s} : ~(Started(t) /\ dl[t].comic = dl[s].comic)
  /\ InRealm(dl[s].comic) => listDownload[First(dl[s].comic)].origin = s

RowType == [comic : Comics, origin : Sessions \cup {Restored}]
LComicType == [comicID : Comics, comicNChap : Nat, listChap : Seq(Seq(ImageId))]
SessionType ==
  [phase : {"unused", "running", "finished", "lost"}, comic : Comics \cup {NoComic},
   totalSize : Nat, tmpTotalSize : Nat, result : [Chapters -> SUBSET ImageId],
   list : [Chapters -> Seq(ImageId)], tmp : [Chapters -> Int]]
RequestType ==
  [kind : {"document", "poster", "list", "image"}, session : Sessions,
   chapter : 0..MaxChapters, image : Nat]

(* TypeOK: every variable keeps the shape its Swift declaration gives it.  *)
TypeOK ==
  /\ comicId \in Comics \cup {NoComic}
  /\ info \in Seq(BOOLEAN)
  /\ isDowloading \in Int
  /\ listDownload \in Seq(RowType)
  /\ dl \in [Sessions -> SessionType]
  /\ net \subseteq RequestType
  /\ lcomics \in Seq(LComicType)
  /\ serverSize \in [Comics -> Nat]
  /\ broken \subseteq Sessions

(* CounterExact: Comic.isDowloading, which drives the shelf's polling, is  *)
(* the number of sessions that did not finish: it is lowered exactly once  *)
(* per raise at most, though several sessions may fill one LComic.         *)
CounterExact == isDowloading = Cardinality({s \in Sessions : dl[s].phase = "running"})

(* StoredChaptersWhole: in every order of callbacks a stored chapter holds *)
(* images of one chapter of that very comic, each once, at least one, and  *)
(* all of them when the folder's listing fits one page.                    *)
IsChapterOf(c, ch) ==
  \E k \in 1..TotalChap(c) :
    /\ Len(ch) \in (Truncated(c, k) \cup {Whole(c, k)}) \ {0}
    /\ Elements(ch) = Images(c, k, Len(ch))
StoredChaptersWhole ==
  \A i \in DOMAIN lcomics : \A m \in DOMAIN lcomics[i].listChap :
    IsChapterOf(lcomics[i].comicID, lcomics[i].listChap[m])

(* ShelfMirrorsRealm: the rows of the Download shelf are the LComics of    *)
(* Realm, duplicates included, in the same order, before and after a       *)
(* restart: the two are only ever appended to together.                    *)
ShelfMirrorsRealm ==
  /\ DOMAIN listDownload = DOMAIN lcomics
  /\ \A i \in DOMAIN lcomics : listDownload[i].comic = lcomics[i].comicID

(* FinishedIsComplete: an undisturbed session with no failed request that  *)
(* reports finish has stored each chapter exactly once and whole.          *)
FinishedIsComplete ==
  \A s \in Sessions :
    dl[s].phase = "finished" /\ Undisturbed(s) /\ s \notin broken =>
      LET c == dl[s].comic
          chaps == lcomics[First(c)].listChap
      IN /\ Len(chaps) = TotalChap(c)
         /\ {Elements(chaps[m]) : m \in DOMAIN chaps}
              = {Images(c, k, Whole(c, k)) : k \in 1..TotalChap(c)}

(* NoSilentStall: an undisturbed running session whose requests all        *)
(* succeeded so far still waits for an answer, unless a folder is empty:   *)
(* the last answer to arrive is the one that finishes it.                  *)
HasEmptyChapter(c) == \E k \in 1..TotalChap(c) : Whole(c, k) = 0
NoSilentStall ==
  \A s \in Sessions :
    dl[s].phase = "running" /\ Undisturbed(s) /\ s \notin broken =>
      HasEmptyChapter(dl[s].comic) \/ \E r \in net : r.session = s

(* DownloadSettles: a session leaves the running phase, unless a request   *)
(* of it fails, another session fills the same LComic, or a chapter folder *)
(* is empty; only then may the polling of the shelf never stop.            *)
DownloadSettles ==
  \A s \in Sessions :
    dl[s].phase = "running" ~>
      \/ dl[s].phase # "running"
      \/ s \in broken \/ ~Undisturbed(s) \/ HasEmptyChapter(dl[s].comic)

(* ChaptersInOrder: ChapterViewController titles listChap[i] "Chap i+1".   *)
(* The m-th stored chapter would be chapter m of the comic.                *)
ChaptersInOrder ==
  \A i \in DOMAIN lcomics : \A m \in DOMAIN lcomics[i].listChap :
    \A p \in DOMAIN lcomics[i].listChap[m] : lcomics[i].listChap[m][p][2] = m

(* What the library promises its readers: see OfflineLibrary.              *)
Visible(c) ==
  IF InRealm(c)
    THEN LET chaps == lcomics[First(c)].listChap
         IN <<[m \in DOMAIN chaps |-> [chapter |-> chaps[m][1][2], pages |-> Len(chaps[m])]]>>
    ELSE <<>>
Library == INSTANCE OfflineLibrary WITH library <- [c \in Comics |-> Visible(c)]

(* LibraryRefined: through duplicate downloads, failures and restarts, the *)
(* record loadChapterFromRealm finds for a comic only ever gains chapters. *)
LibraryRefined == Library!Spec
=============================================================================
