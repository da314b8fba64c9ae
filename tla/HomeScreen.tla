------------------------------ MODULE HomeScreen ------------------------------
(***************************************************************************)
(* The home tab and its searches (ViewController/ReadViewController.swift): *)
(* a list of the comics' folders, a list of each folder the query matches, *)
(* and the poster found in it, each a request of FetcherService; a screen  *)
(* has one Storage object.  The list is a listAll, which asks page by page *)
(* and, when a page fails, calls its completion twice                      *)
(* (Pods/FirebaseStorage/.../FIRStorageReference.m).                        *)
(***************************************************************************)
EXTENDS FetcherService

CONSTANTS
    Views,       \* the home screen and the search screens opened over it
    Home,        \* the first of them
    Found,       \* Found[v]: the comics whose names contain the query of v
    Pages,       \* the pages in which the folder "Comic" is listed
    WithPoster   \* the comics whose folder holds a poster

Comics == UNION {Pages[i] : i \in DOMAIN Pages}

FolderPage(v, i) == [view |-> v, page |-> i]
ComicFolder(v, c) == [view |-> v, folder |-> c]
Poster(v, c) == [view |-> v, poster |-> c]

RequestsOf(v) ==
    {FolderPage(v, i) : i \in DOMAIN Pages} \union
    {ComicFolder(v, c) : c \in Comics} \union {Poster(v, c) : c \in Comics}

HomeRequests == UNION {RequestsOf(v) : v \in Views}

ASSUME HomeAssumption ==
    /\ Home \in Views /\ Found \in [Views -> SUBSET Comics]
    /\ Pages \in Seq(SUBSET Comics) /\ Pages # <<>> /\ WithPoster \subseteq Comics
    /\ Fetchers = HomeRequests /\ StorageOf = [f \in Fetchers |-> f.view]
    /\ Oversize \subseteq {Poster(v, c) : v \in Views, c \in Comics}

VARIABLES
    opened,   \* the views that have been loaded
    listed,   \* listed[v]: `prefixes' of the listAll of v, the pages so far
    names,    \* names[v]: the titles under the posters, in the order shown
    images,   \* images[v]: the posters
    failed    \* for the properties: the requests that ended with an error

homeVars == <<opened, listed, names, images, failed>>
vars == <<serviceVars, homeVars>>

HomeTypeOK ==
    /\ TypeOK
    /\ opened \subseteq Views
    /\ listed \in [Views -> SUBSET Comics]
    /\ names \in [Views -> Seq(Comics)]
    /\ images \in [Views -> Seq(Comics)]
    /\ failed \subseteq Fetchers

Init ==
    /\ ServiceInit
    /\ opened = {}
    /\ listed = [v \in Views |-> {}]
    /\ names = [v \in Views |-> <<>>]
    /\ images = [v \in Views |-> <<>>]
    /\ failed = {}

-----------------------------------------------------------------------------
\* viewDidLoad: the first page of the folder is asked for.  A search screen is
\* opened from a home screen with the text that was typed there.
Open(v) ==
    /\ v \notin opened /\ (v = Home \/ Home \in opened)
    /\ opened' = opened \union {v}
    /\ Enqueue({FolderPage(v, 1)})
    /\ UNCHANGED <<listed, names, images, failed>>

\* A mistake: the search is forgotten, every folder is listed.
MutantFoldersWanted(v, prefixes) == {ComicFolder(v, c) : c \in prefixes}

\* What the home screen does with the folders of its list: those the query
\* matches are listed in turn.
FoldersWanted(v, prefixes) == {ComicFolder(v, c) : c \in prefixes \intersect Found[v]}

\* A mistake: the completion gets the folders of the last page only.
MutantAfterPage(v, i, prefixes) ==
    IF i < Len(Pages) THEN {FolderPage(v, i + 1)} ELSE FoldersWanted(v, Pages[i])

\* What listAll does with the page it gets: the next one, or the completion.
AfterPage(v, i, prefixes) ==
    IF i < Len(Pages) THEN {FolderPage(v, i + 1)} ELSE FoldersWanted(v, prefixes)

PageArrives(v, i) ==
    LET prefixes == listed[v] \union Pages[i]
    IN  /\ listed' = [listed EXCEPT ![v] = prefixes]
        /\ Hear(FolderPage(v, i), "ok", AfterPage(v, i, prefixes))
        /\ UNCHANGED <<opened, names, images, failed>>

\* A page fails.  The completion is called with the error, and the screen
\* returns from it; then, there being no next page, it is called with the
\* folders of the pages before.
PageFails(v, i) ==
    /\ Hear(FolderPage(v, i), "error", FoldersWanted(v, listed[v]))
    /\ failed' = failed \union {FolderPage(v, i)}
    /\ UNCHANGED <<opened, listed, names, images>>

\* The contents of a comic's folder (one page): its poster is downloaded.
FolderArrives(v, c) ==
    /\ Hear(ComicFolder(v, c), "ok", IF c \in WithPoster THEN {Poster(v, c)} ELSE {})
    /\ UNCHANGED homeVars

\* The screen does not return on this error, but neither of the two results it
\* is called with has any item.
FolderFails(v, c) ==
    /\ Hear(ComicFolder(v, c), "error", {})
    /\ failed' = failed \union {ComicFolder(v, c)}
    /\ UNCHANGED <<opened, listed, names, images>>

\* The poster and its title are shown after those that came before.
PosterArrives(v, c) ==
    /\ Hear(Poster(v, c), "ok", {})
    /\ images' = [images EXCEPT ![v] = Append(@, c)]
    /\ names' = [names EXCEPT ![v] = Append(@, c)]
    /\ UNCHANGED <<opened, listed, failed>>

PosterFails(v, c) ==
    /\ Hear(Poster(v, c), "error", {})
    /\ failed' = failed \union {Poster(v, c)}
    /\ UNCHANGED <<opened, listed, names, images>>

\* The service goes on by itself.
Service(f) == ServiceStep(f) /\ UNCHANGED homeVars

Answered(v) ==
    \/ \E i \in DOMAIN Pages : PageArrives(v, i) \/ PageFails(v, i)
    \/ \E c \in Comics :
         \/ FolderArrives(v, c) \/ FolderFails(v, c)
         \/ PosterArrives(v, c) \/ PosterFails(v, c)

Next ==
    \/ \E v \in Views : Open(v) \/ Answered(v)
    \/ \E f \in Fetchers : Service(f)

Spec == Init /\ [][Next]_vars

-----------------------------------------------------------------------------
(***************************************************************************)
(* Properties.                                                             *)
(***************************************************************************)
InFlight(f) == phase[f] # "new" /\ heard[f] = 0

ShownIn(v) == {names[v][i] : i \in DOMAIN names[v]}

\* A poster is shown once, with its own title, and only on a screen whose query
\* its name contains, though listAll may have called back twice.
PostersRight ==
    \A v \in Views :
        /\ images[v] = names[v]
        /\ \A i, j \in DOMAIN names[v] : names[v][i] = names[v][j] => i = j
        /\ ShownIn(v) \subseteq Found[v]

\* A screen at rest shows the posters of all the comics it found in the pages
\* that came before the one that failed, but for those that failed themselves;
\* and these are all pages if none failed.  Only a poster whose download was
\* cancelled may be shown although it failed: its owner may hear of both.
ScreenComplete ==
    \A v \in opened :
        LET wanted == listed[v] \intersect Found[v] \intersect WithPoster
        IN  (\A f \in RequestsOf(v) : ~InFlight(f)) =>
                /\ {c \in wanted : {ComicFolder(v, c), Poster(v, c)} \intersect failed = {}}
                       \subseteq ShownIn(v)
                /\ ShownIn(v) \subseteq
                       {c \in wanted : {ComicFolder(v, c), Poster(v, c)} \intersect failed
                                            \subseteq userStopped}
                /\ \/ listed[v] = Comics
                   \/ \E i \in DOMAIN Pages : FolderPage(v, i) \in failed

\* Threads are scheduled, timers fire, the network answers or fails, and the
\* serial queues come to each of their blocks: weak fairness of each thread, of
\* each request and of the screens is less than that, and enough.
FairSpec ==
    /\ Spec
    /\ \A t \in Threads :
          WF_vars(\E j \in jobs : j.thread = t /\ Continues(j) /\ UNCHANGED homeVars)
    /\ \A f \in Fetchers : WF_vars(Proceeds(f) /\ UNCHANGED homeVars)
    /\ \A v \in Views : WF_vars(Answered(v))

\* Every request is answered in the end whose server does not put it off with
\* Retry-After, for that may go on for ever; however the others wait, fail and are
\* tried again, for ever or not.  Only a place can prevent it that is lost, or
\* that is held by a fetcher without a host: its retries keep it.
RequestsAnswered ==
    (\E f \in Fetchers \ PutOff : InFlight(f)) ~>
        (\A f \in Fetchers \ PutOff : ~InFlight(f)) \/ Hostless # {} \/ LostSlots # {}
===============================================================================
