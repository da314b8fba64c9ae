------------------------------- MODULE Comments -------------------------------
(***************************************************************************)
(* The comments: Comment.listCommentComic and listReviewWorld in memory,   *)
(* the arrays and documents they mirror on the server, the comment section *)
(* of InfoViewController and the tab of ReviewViewController.              *)
(*                                                                         *)
(* A Firestore request has its answer on Firestore's own queue (Reply),    *)
(* which hands the callback to the main queue; the main queue runs the     *)
(* callbacks in that order.  A read sees the writes that this device has   *)
(* made before, acknowledged or not.                                       *)
(***************************************************************************)
EXTENDS Naturals, Sequences, FiniteSets, TLC, SequencesExt

CONSTANTS
    Comics,   \* documents of the collection "Comic"
    Tabs,     \* tab stacks in which a comic can be opened
    Review,   \* the one whose root is ReviewViewController
    Other,    \* the other tabs, where users log in and out
    Old,      \* the comments at the start, in the order they were made
    OldOf,    \* the comic each of them is about
    OldIn,    \* the arrays of the comics' documents at the start
    New,      \* the ids addDocument may give
    Slots,    \* requests in flight at once: a bound of the model
    Depth,    \* views opened from the list of reviews at once: a bound
    Nil

ASSUME ConstantsAssumption ==
    /\ Review \in Tabs /\ Other \notin Tabs /\ Nil \notin Comics
    /\ Old \in Seq(ToSet(Old)) /\ IsInjective(Old)
    /\ OldOf \in [ToSet(Old) -> Comics]
    /\ OldIn \in [Comics -> Seq(ToSet(Old))]
    /\ \A c \in Comics : /\ IsInjective(OldIn[c])
                         /\ ToSet(OldIn[c]) = {k \in ToSet(Old) : OldOf[k] = c}
    /\ ToSet(Old) \cap New = {} /\ Depth \in Nat

VARIABLES
    userID,            \* whether UserLocal.UserID is set
    comicId,           \* Comic.id
    tab,               \* the selected tab
    stack,             \* per tab: the InfoViewControllers on its stack
    listCommentComic,  \* Comment.listCommentComic
    listReviewWorld,   \* Comment.listReviewWorld
    reviewRows,        \* the comments whose rows the review table shows
    net,               \* per slot: a request whose callback has not run, or Nil
    ready,             \* the slots whose callbacks the main queue holds
    (* server *)
    documents,         \* the documents of "Comment": the comic of each comment
    comments,          \* per comic: the array "comment" of its document
    listComment,       \* the array of the document "listCommentID"
    (* history, read by properties only *)
    calm,              \* nobody acted while a request was in flight, none failed
    lost               \* comments being sent when a process ended

server == <<documents, comments, listComment>>
vars == <<userID, comicId, tab, stack, listCommentComic, listReviewWorld, reviewRows,
          net, ready, server, calm, lost>>

-----------------------------------------------------------------------------
\* A view of a comic.  comic: Nil until it is loaded; field: staComment is shown;
\* meant: the comic of the row that was tapped; sure: nothing came between.
View(c, meant, sure) ==
    [comic |-> c, field |-> FALSE, meant |-> meant, sure |-> sure]

\* A request.  comic: what it asks about; meant: the comic of the row that was
\* tapped; sure, a history: of a tap, the row was that of its comment; of a
\* comment, Comic.id has not changed since.
Request(kind, c, id) ==
    [kind |-> kind, comic |-> c, id |-> id, value |-> Nil, meant |-> Nil, sure |-> TRUE]

Idle == \A i \in Slots : net[i] = Nil \/ net[i].kind = "world"
Calm == calm' = (calm /\ Idle)

\* r enters a free slot beside these requests.
Sent(requests, r) == \E i \in Slots : requests[i] = Nil /\ net' = [requests EXCEPT ![i] = r]

Top(t) == Last(stack[t])
Shows(t) == tab = t /\ t \in Tabs /\ stack[t] # <<>>

\* The rows of the list of reviews, the newest first.
Newest(list) == Reverse(list)

\* A mistake: the rows are numbered from the oldest.
MutantReviewAt(list, r) == list[r]

\* The comment that row r (from 1) of the list of reviews stands for.
ReviewAt(list, r) == list[Len(list) - r + 1]

\* Comic.id changes under the views that are not loaded yet.
Renamed(views) == [n \in DOMAIN views |-> [views[n] EXCEPT !.sure = @ /\ views[n].comic # Nil]]

\* Comic.id changes while comments are being sent.
Unsettled(requests) ==
    [i \in Slots |-> IF requests[i] # Nil /\ requests[i].kind = "add"
                     THEN [requests[i] EXCEPT !.sure = FALSE] ELSE requests[i]]

\* viewDidLoad of the view on top of the stack of tab t, while Comic.id is c:
\* the list is emptied and that of the comic asked for.
Load(t, stacks, c, requests) ==
    /\ stack' = [stacks EXCEPT ![t][Len(stacks[t])].comic = c]
    /\ listCommentComic' = <<>>
    /\ Sent(requests, Request("comments", c, Nil))

\* ReviewViewController.viewWillAppear reloads its table.
ReviewAppears == reviewRows' = Newest(listReviewWorld)

\* Tab t is shown with these stacks: a view that was pushed while another tab
\* was selected loads now, and the list of reviews appears when it is on top.
Appears(t, stacks, requests) ==
    LET views == IF t \in Tabs THEN stacks[t] ELSE <<>>
    IN  \/ /\ views # <<>> /\ Last(views).comic = Nil
           /\ Load(t, stacks, comicId, requests)
           /\ UNCHANGED reviewRows
        \/ /\ views # <<>> => Last(views).comic # Nil
           /\ stack' = stacks /\ net' = requests
           /\ UNCHANGED listCommentComic
           /\ IF t = Review /\ views = <<>> THEN ReviewAppears
              ELSE UNCHANGED reviewRows

\* The documents when the comments of the requests S are among them.
WithSent(S) ==
    LET ids == {net[i].id : i \in S}
    IN  [k \in DOMAIN documents \cup ids |->
           IF k \in ids THEN net[CHOOSE i \in S : net[i].id = k].comic ELSE documents[k]]

Empty == [t \in Tabs |-> <<>>]
\* TabBarController asks for the world's comments.
WorldAsked ==
    {[j \in Slots |-> IF j = i THEN Request("world", Nil, Nil) ELSE Nil] : i \in Slots}

Init ==
    /\ userID = FALSE /\ comicId = Nil
    /\ tab = Other /\ stack = Empty
    /\ listCommentComic = <<>> /\ listReviewWorld = <<>>
    /\ reviewRows = <<>>
    /\ net \in WorldAsked /\ ready = <<>>
    /\ documents = OldOf
    /\ comments = OldIn
    /\ listComment = Old
    /\ calm = TRUE /\ lost = {}

-----------------------------------------------------------------------------
\* The process ends and the app is launched again.  A comment that was being
\* sent may still reach the server, its callback never runs.
Launch ==
    LET sending == {i \in Slots : net[i] # Nil /\ net[i].kind = "add" /\ net[i].value = Nil}
    IN  /\ \E S \in SUBSET sending : documents' = WithSent(S)
        /\ lost' = lost \cup {net[i].id : i \in {j \in Slots : net[j] # Nil /\ net[j].kind = "add"}}
        /\ comicId' = Nil /\ tab' = Other /\ stack' = Empty
        /\ listCommentComic' = <<>> /\ listReviewWorld' = <<>>
        /\ reviewRows' = <<>>
        /\ net' \in WorldAsked /\ ready' = <<>>
        /\ calm' = TRUE
        /\ UNCHANGED <<userID, comments, listComment>>

\* On the account tab a user logs in or out; the other tabs stay as they are.
LogInOrOut ==
    /\ tab = Other
    /\ userID' = ~userID
    /\ UNCHANGED <<comicId, tab, stack, listCommentComic, listReviewWorld, reviewRows,
                   net, ready, server, calm, lost>>

\* While a comic is on the selected stack the tab bar is hidden.
SelectTab(t) ==
    /\ tab # t /\ ~Shows(tab)
    /\ tab' = t
    /\ Appears(t, stack, net)
    /\ Calm
    /\ UNCHANGED <<userID, comicId, listReviewWorld, ready, server, lost>>

Back ==
    /\ Shows(tab)
    /\ Appears(tab, [stack EXCEPT ![tab] = Front(@)], net)
    /\ Calm
    /\ UNCHANGED <<userID, comicId, tab, listReviewWorld, ready, server, lost>>

\* A poster is tapped: Comic.id is set and the view of the comic pushed.
OpenInfo(t, c) ==
    /\ tab = t /\ t # Review /\ stack[t] = <<>>
    /\ comicId' = c
    /\ Load(t, [s \in Tabs |-> IF s = t THEN <<View(Nil, c, TRUE)>> ELSE Renamed(stack[s])],
            c, Unsettled(net))
    /\ Calm
    /\ UNCHANGED <<userID, tab, listReviewWorld, reviewRows, ready, server, lost>>

\* The comment section is shown or hidden, and with it, while somebody is logged
\* in, the field to write in.
ShowComment ==
    /\ Shows(tab) /\ Top(tab).comic # Nil /\ userID
    /\ stack' = [stack EXCEPT ![tab][Len(stack[tab])].field = ~@]
    /\ UNCHANGED <<userID, comicId, tab, listCommentComic, listReviewWorld, reviewRows,
                   net, ready, server, calm, lost>>

\* A mistake: the comment is about the comic the view shows.
MutantSendComment(k) ==
    /\ Shows(tab) /\ Top(tab).field
    /\ k \in New /\ k \notin DOMAIN documents \cup lost
    /\ \A i \in Slots : net[i] # Nil => net[i].id # k
    /\ Sent(net, Request("add", Top(tab).comic, k))
    /\ Calm
    /\ UNCHANGED <<userID, comicId, tab, stack, listCommentComic, listReviewWorld, reviewRows,
                   ready, server, lost>>

\* The comment is about the comic of Comic.id.  addDocument chooses its id.
SendComment(k) ==
    /\ Shows(tab) /\ Top(tab).field
    /\ k \in New /\ k \notin DOMAIN documents \cup lost
    /\ \A i \in Slots : net[i] # Nil => net[i].id # k
    /\ Sent(net, Request("add", comicId, k))
    /\ Calm
    /\ UNCHANGED <<userID, comicId, tab, stack, listCommentComic, listReviewWorld, reviewRows,
                   ready, server, lost>>

\* A row of the list of reviews is tapped: the comment that now has its number
\* is asked for its comic.  (A row beyond the list would trap, if a download of
\* the list has shortened it since the table loaded; such a row is not tapped.)
TapReview(r) ==
    /\ tab = Review /\ stack[Review] = <<>>
    /\ Cardinality({i \in Slots : net[i] # Nil /\ net[i].kind = "select"}) < Depth
    /\ r \in 1..Len(reviewRows) /\ r <= Len(listReviewWorld)
    /\ Sent(net, [Request("select", Nil, ReviewAt(listReviewWorld, r)) EXCEPT
                    !.meant = documents[reviewRows[r]],
                    !.sure = (reviewRows = Newest(listReviewWorld))])
    /\ Calm
    /\ UNCHANGED <<userID, comicId, tab, stack, listCommentComic, listReviewWorld, reviewRows,
                   ready, server, lost>>

-----------------------------------------------------------------------------
\* Firestore has the answer of request i and hands the callback to the main
\* queue.  A comment is now a document of the server.
Reply(i) ==
    LET r == net[i]
        answer(value) == net' = [net EXCEPT ![i].value = value]
    IN  /\ r # Nil /\ r.value = Nil
        /\ ready' = Append(ready, i)
        /\ \/ r.kind = "world" /\ answer(listComment) /\ UNCHANGED documents
           \/ r.kind = "comments" /\ answer(comments[r.comic]) /\ UNCHANGED documents
           \/ r.kind = "select" /\ answer(documents[r.id]) /\ UNCHANGED documents
           \/ /\ r.kind = "add" /\ answer(r.id)
              /\ documents' = WithSent({i})
        /\ UNCHANGED <<userID, comicId, tab, stack, listCommentComic, listReviewWorld, reviewRows,
                       comments, listComment, calm, lost>>

\* The callbacks do nothing with an error.
RequestFails(i) ==
    /\ net[i] # Nil /\ net[i].value = Nil
    /\ net' = [net EXCEPT ![i] = Nil]
    /\ calm' = (calm /\ net[i].kind = "world")
    /\ UNCHANGED <<userID, comicId, tab, stack, listCommentComic, listReviewWorld, reviewRows,
                   ready, server, lost>>

\* The main queue runs the callback of i, a request of this kind.
Runs(i, kind) ==
    /\ ready # <<>> /\ i = Head(ready) /\ net[i].kind = kind
    /\ ready' = Tail(ready)

WorldArrives(i) ==
    /\ Runs(i, "world")
    /\ listReviewWorld' = net[i].value
    /\ net' = [net EXCEPT ![i] = Nil]
    /\ UNCHANGED <<userID, comicId, tab, stack, listCommentComic, reviewRows, server,
                   calm, lost>>

\* Whichever comic is open by now.
CommentsArrive(i) ==
    /\ Runs(i, "comments")
    /\ listCommentComic' = net[i].value
    /\ net' = [net EXCEPT ![i] = Nil]
    /\ UNCHANGED <<userID, comicId, tab, stack, listReviewWorld, reviewRows, server,
                   calm, lost>>

\* A mistake: the lists of this device learn of the comment when they are next
\* downloaded.
MutantCommentAdded(i) ==
    /\ Runs(i, "add")
    /\ comments' = [comments EXCEPT ![comicId] = Append(@, net[i].id)]
    /\ listComment' = Append(listComment, net[i].id)
    /\ net' = [net EXCEPT ![i] = Nil]
    /\ UNCHANGED <<userID, comicId, tab, stack, listCommentComic, listReviewWorld, reviewRows,
                   documents, calm, lost>>

\* A mistake: the world's list is left to the server.
MutantOnlyComic(i) ==
    /\ Runs(i, "add")
    /\ comments' = [comments EXCEPT ![comicId] = Append(@, net[i].id)]
    /\ listCommentComic' = Append(listCommentComic, net[i].id)
    /\ listReviewWorld' = Append(listReviewWorld, net[i].id)
    /\ net' = [net EXCEPT ![i] = Nil]
    /\ UNCHANGED <<userID, comicId, tab, stack, listComment, reviewRows, documents,
                   calm, lost>>

\* The comment joins both arrays and both lists, those of the comic that is
\* open by now.
CommentAdded(i) ==
    LET k == net[i].id
    IN  /\ Runs(i, "add")
        /\ comments' = [comments EXCEPT ![comicId] = Append(@, k)]
        /\ listComment' = Append(listComment, k)
        /\ listCommentComic' = Append(listCommentComic, k)
        /\ listReviewWorld' = Append(listReviewWorld, k)
        /\ net' = [net EXCEPT ![i] = Nil]
        /\ UNCHANGED <<userID, comicId, tab, stack, reviewRows, documents, calm, lost>>

\* The comic of the tapped row is opened over the list of reviews; if another
\* tab is selected, its view loads later.
ComicSelected(i) ==
    LET pushed == [t \in Tabs |->
                     IF t = Review
                     THEN Append(Renamed(stack[t]), View(Nil, net[i].meant, net[i].sure))
                     ELSE Renamed(stack[t])]
        requests == Unsettled([net EXCEPT ![i] = Nil])
    IN  /\ Runs(i, "select")
        /\ comicId' = net[i].value
        /\ \/ tab = Review /\ Load(Review, pushed, comicId', requests)
           \/ tab # Review /\ stack' = pushed /\ net' = requests /\ UNCHANGED listCommentComic
        /\ UNCHANGED <<userID, tab, listReviewWorld, reviewRows, server,
                       calm, lost>>

-----------------------------------------------------------------------------
Next ==
    \/ Launch
    \/ LogInOrOut
    \/ \E t \in Tabs \cup {Other} : SelectTab(t)
    \/ Back
    \/ \E t \in Tabs, c \in Comics : OpenInfo(t, c)
    \/ ShowComment
    \/ \E k \in New : SendComment(k)
    \/ \E r \in 1..(Len(Old) + Cardinality(New)) : TapReview(r)
    \/ \E i \in Slots :
         \/ Reply(i) \/ RequestFails(i)
         \/ WorldArrives(i) \/ CommentsArrive(i) \/ CommentAdded(i) \/ ComicSelected(i)

Spec == Init /\ [][Next]_vars

-----------------------------------------------------------------------------
(***************************************************************************)
(* Properties.                                                             *)
(***************************************************************************)
Ids == ToSet(Old) \cup New

ViewType == [comic : Comics \cup {Nil}, field : BOOLEAN, meant : Comics, sure : BOOLEAN]
RequestType ==
    [kind : {"world", "comments", "select", "add"}, comic : Comics \cup {Nil},
     id : Ids \cup {Nil}, value : Comics \cup Ids \cup Seq(Ids) \cup {Nil},
     meant : Comics \cup {Nil}, sure : BOOLEAN]

\* No answer is Nil, and no request.
ASSUME NilAssumption == Nil \notin Ids \cup Seq(Ids) \cup RequestType

\* TypeOK: every variable keeps the shape its Swift declaration gives it, and
\* the main queue holds the callbacks of the requests that are answered, once each.
TypeOK ==
    /\ userID \in BOOLEAN /\ comicId \in Comics \cup {Nil}
    /\ tab \in Tabs \cup {Other}
    /\ stack \in [Tabs -> Seq(ViewType)]
    /\ listCommentComic \in Seq(Ids) /\ listReviewWorld \in Seq(Ids)
    /\ reviewRows \in Seq(Ids)
    /\ net \in [Slots -> RequestType \cup {Nil}]
    /\ ready \in Seq(Slots) /\ IsInjective(ready)
    /\ ToSet(ready) = {i \in Slots : net[i] # Nil /\ net[i].value # Nil}
    /\ DOMAIN documents \subseteq Ids /\ documents \in [DOMAIN documents -> Comics]
    /\ comments \in [Comics -> Seq(Ids)] /\ listComment \in Seq(Ids)
    /\ calm \in BOOLEAN /\ lost \subseteq New

\* Who waits for each answer before the next tap sees, once the comic is open,
\* the comments of that comic, each once and in the order of the server, those
\* that were just written among them.
ListFollowsComic ==
    calm /\ Idle /\ comicId # Nil
         /\ (\A t \in Tabs : \A n \in DOMAIN stack[t] : stack[t][n].comic # Nil)
    => listCommentComic = comments[comicId]

\* A comment joins the array of the comic it is about, unless another comic was
\* opened while it was being sent.
AttachedToItsComic ==
    [][\A c \in Comics : \A k \in ToSet(comments'[c]) \ ToSet(comments[c]) :
          \E i \in Slots : /\ net[i] # Nil /\ net[i].id = k
                           /\ net[i].sure => documents[k] = c]_vars

\* A comment on the server is listed for one comic, once, and for the world,
\* once, unless the process ended while it was being sent.
CommentsListed ==
    \A k \in DOMAIN documents :
        LET times(list) == Cardinality({n \in DOMAIN list : list[n] = k})
        IN  \/ k \in lost
            \/ \E i \in Slots : net[i] # Nil /\ net[i].kind = "add" /\ net[i].id = k
            \/ /\ times(listComment) = 1
               /\ \E c \in Comics : times(comments[c]) = 1
                                    /\ \A d \in Comics \ {c} : times(comments[d]) = 0

\* The view opened by a tap on a review is that of the comic under the tapped
\* row, unless the list had changed under the table or another comic was opened
\* before the view could load.
RowOpensItsComic ==
    \A t \in Tabs : \A n \in DOMAIN stack[t] :
        stack[t][n].comic # Nil /\ stack[t][n].sure => stack[t][n].comic = stack[t][n].meant
===============================================================================
