---------------------------- MODULE CommentsProofs ----------------------------
(***************************************************************************)
(* Proofs about Comments for every number of comics, tabs, comments and    *)
(* requests in flight.                                                     *)
(*                                                                         *)
(* The inductive invariant is Inv.  That a comment is listed once rests on *)
(* what is listed: all that is on the server, but for the comments being   *)
(* sent and those a relaunch has lost (Listing).  That it joins the right  *)
(* array, and that a row opens its comic, rests on what the requests and   *)
(* the views that wait for Comic.id know about it (Sending, Tapped,        *)
(* Opened).  That the list on the screen follows the comic needs to know   *)
(* that who acts only when all is answered has one request in flight, and  *)
(* that it asks for the comic of Comic.id (Following).                     *)
(***************************************************************************)
EXTENDS Comments, SequenceTheorems, FiniteSetTheorems, TLAPS

-----------------------------------------------------------------------------
(* The inductive invariant *)

InFlight(i, kind) == net[i] # Nil /\ net[i].kind = kind

(* Answers are what their kind of request asks for. *)
Answers ==
  \A i \in Slots : net[i] # Nil /\ net[i].value # Nil =>
    /\ net[i].kind \in {"world", "comments"} => net[i].value \in Seq(Ids)
    /\ net[i].kind = "select" => net[i].value \in Comics
    /\ net[i].kind = "add" => net[i].value \in Ids

(* A request for comments is about a comic. *)
Asking == \A i \in Slots : InFlight(i, "comments") => net[i].comic \in Comics

(* Comic.id is set while a view is open or a comment is being sent. *)
ComicSet ==
  comicId = Nil => (\A t \in Tabs : stack[t] = <<>>) /\ \A i \in Slots : ~InFlight(i, "add")

(* A comment being sent is about a comic, Comic.id's unless that changed;  *)
(* it is a document once it is answered.                                   *)
Sending ==
  /\ \A i \in Slots : InFlight(i, "add") =>
       LET r == net[i] IN
       /\ r.id \in New \ lost /\ r.comic \in Comics
       /\ r.sure => r.comic = comicId
       /\ IF r.value = Nil THEN r.id \notin DOMAIN documents
          ELSE r.value = r.id /\ r.id \in DOMAIN documents /\ documents[r.id] = r.comic
  /\ \A i, j \in Slots : InFlight(i, "add") /\ InFlight(j, "add") /\ net[i].id = net[j].id => i = j

Adding == {net[i].id : i \in {j \in Slots : InFlight(j, "add")}}

Listing ==
  /\ ToSet(listComment) = DOMAIN documents \ (lost \cup Adding)
  /\ IsInjective(listComment)
  /\ \A c \in Comics : IsInjective(comments[c])
  /\ \A k \in ToSet(listComment) : \E c \in Comics : k \in ToSet(comments[c])
  /\ \A c \in Comics : ToSet(comments[c]) \subseteq ToSet(listComment)
  /\ \A c, d \in Comics : ToSet(comments[c]) \cap ToSet(comments[d]) # {} => c = d

(* The reviews of the world, those shown, and those on their way are       *)
(* documents.                                                              *)
Known ==
  /\ ToSet(listReviewWorld) \subseteq DOMAIN documents
  /\ ToSet(reviewRows) \subseteq DOMAIN documents

WorldKnown ==
  \A i \in Slots : InFlight(i, "world") /\ net[i].value # Nil =>
    ToSet(net[i].value) \subseteq DOMAIN documents

(* A tapped row's comment is about the comic under the row. *)
Tapped ==
  \A i \in Slots : InFlight(i, "select") =>
    LET r == net[i] IN
    /\ r.id \in DOMAIN documents /\ r.meant \in Comics
    /\ r.sure => documents[r.id] = r.meant
    /\ r.value # Nil => r.value = documents[r.id]

(* A view that is not loaded yet will show the comic of Comic.id. *)
Opened ==
  \A t \in Tabs : \A n \in DOMAIN stack[t] :
    LET v == stack[t][n] IN
    v.sure => v.meant = IF v.comic = Nil THEN comicId ELSE v.comic

(* The view on the screen is loaded. *)
TopLoaded == tab \in Tabs /\ stack[tab] # <<>> => Top(tab).comic # Nil

AllLoaded == \A t \in Tabs : \A n \in DOMAIN stack[t] : stack[t][n].comic # Nil

(* Of who acts only when all is answered. *)
Alone ==
  \A i, j \in Slots :
    net[i] # Nil /\ net[j] # Nil /\ net[i].kind # "world" /\ net[j].kind # "world" => i = j
RightComic ==
  \A i \in Slots : InFlight(i, "comments") =>
    /\ comicId \in Comics /\ net[i].comic = comicId
    /\ net[i].value # Nil => net[i].value = comments[comicId]
UpToDate ==
  comicId # Nil /\ AllLoaded /\ (\A i \in Slots : ~InFlight(i, "comments")) =>
    listCommentComic = comments[comicId]
Following == calm => Alone /\ RightComic /\ UpToDate

Inv ==
  /\ TypeOK /\ Answers /\ Asking /\ ComicSet
  /\ Sending /\ Listing /\ Known /\ WorldKnown /\ Tapped /\ Opened
  /\ TopLoaded /\ Following

-----------------------------------------------------------------------------
(* Facts about requests, views and sequences *)

LEMMA NilFacts ==
  /\ \A r \in RequestType : r # Nil
  /\ \A s \in Seq(Ids) : s # Nil
  /\ \A k \in Ids : k # Nil
  /\ \A c \in Comics : c # Nil
BY NilAssumption, ConstantsAssumption

LEMMA RequestTyped ==
  ASSUME NEW kind \in {"world", "comments", "select", "add"},
         NEW c \in Comics \cup {Nil}, NEW k \in Ids \cup {Nil}
  PROVE  /\ Request(kind, c, k) \in RequestType
         /\ Request(kind, c, k).kind = kind /\ Request(kind, c, k).comic = c
         /\ Request(kind, c, k).id = k /\ Request(kind, c, k).value = Nil
         /\ Request(kind, c, k).meant = Nil /\ Request(kind, c, k).sure
BY DEF Request, RequestType

LEMMA FieldsTyped ==
  ASSUME NEW r \in RequestType
  PROVE  /\ r.kind \in {"world", "comments", "select", "add"}
         /\ r.comic \in Comics \cup {Nil} /\ r.id \in Ids \cup {Nil}
         /\ r.value \in Comics \cup Ids \cup Seq(Ids) \cup {Nil}
         /\ r.meant \in Comics \cup {Nil} /\ r.sure \in BOOLEAN
BY DEF RequestType

(* What a new request leaves of the others. *)
LEMMA SentFacts ==
  ASSUME NEW requests \in [Slots -> RequestType \cup {Nil}], NEW r \in RequestType,
         Sent(requests, r)
  PROVE  /\ net' \in [Slots -> RequestType \cup {Nil}]
         /\ \E i \in Slots : /\ requests[i] = Nil /\ net'[i] = r
                             /\ \A j \in Slots \ {i} : net'[j] = requests[j]
BY DEF Sent

LEMMA UnsettledFacts ==
  ASSUME NEW requests \in [Slots -> RequestType \cup {Nil}]
  PROVE  /\ Unsettled(requests) \in [Slots -> RequestType \cup {Nil}]
         /\ \A j \in Slots : Unsettled(requests)[j] = Nil <=> requests[j] = Nil
         /\ \A j \in Slots : requests[j] # Nil =>
              /\ Unsettled(requests)[j].kind = requests[j].kind
              /\ Unsettled(requests)[j].comic = requests[j].comic
              /\ Unsettled(requests)[j].id = requests[j].id
              /\ Unsettled(requests)[j].value = requests[j].value
              /\ Unsettled(requests)[j].meant = requests[j].meant
              /\ requests[j].kind = "add" => ~Unsettled(requests)[j].sure
              /\ requests[j].kind # "add" => Unsettled(requests)[j] = requests[j]
<1>1. ASSUME NEW j \in Slots, requests[j] # Nil, requests[j].kind = "add"
      PROVE  LET q == [requests[j] EXCEPT !.sure = FALSE] IN
             /\ q \in RequestType /\ q # Nil
             /\ q.kind = requests[j].kind /\ q.comic = requests[j].comic
             /\ q.id = requests[j].id /\ q.value = requests[j].value
             /\ q.meant = requests[j].meant /\ ~q.sure
  <2>1. requests[j] \in RequestType
    BY <1>1
  <2>2. [requests[j] EXCEPT !.sure = FALSE] \in RequestType
    BY <2>1 DEF RequestType
  <2> QED  BY <2>1, <2>2, NilFacts DEF RequestType
<1>2. \A j \in Slots : Unsettled(requests)[j] =
        IF requests[j] # Nil /\ requests[j].kind = "add"
        THEN [requests[j] EXCEPT !.sure = FALSE] ELSE requests[j]
  BY DEF Unsettled
<1>3. \A j \in Slots : Unsettled(requests)[j] \in RequestType \cup {Nil}
  BY <1>1, <1>2
<1>4. Unsettled(requests) \in [Slots -> RequestType \cup {Nil}]
  BY <1>3 DEF Unsettled
<1> QED  BY <1>1, <1>2, <1>4

LEMMA ViewTyped ==
  ASSUME NEW c \in Comics \cup {Nil}, NEW m \in Comics, NEW b \in BOOLEAN
  PROVE  /\ View(c, m, b) \in ViewType
         /\ View(c, m, b).comic = c /\ View(c, m, b).meant = m /\ View(c, m, b).sure = b
BY DEF View, ViewType

LEMMA ViewFields ==
  ASSUME NEW v \in ViewType
  PROVE  /\ v.comic \in Comics \cup {Nil} /\ v.meant \in Comics /\ v.sure \in BOOLEAN
         /\ v.field \in BOOLEAN
         /\ \A c \in Comics \cup {Nil} :
              /\ [v EXCEPT !.comic = c] \in ViewType
              /\ [v EXCEPT !.comic = c].comic = c
              /\ [v EXCEPT !.comic = c].meant = v.meant
              /\ [v EXCEPT !.comic = c].sure = v.sure
         /\ \A b \in BOOLEAN :
              /\ [v EXCEPT !.sure = b] \in ViewType
              /\ [v EXCEPT !.sure = b].comic = v.comic
              /\ [v EXCEPT !.sure = b].meant = v.meant
              /\ [v EXCEPT !.sure = b].sure = b
         /\ \A b \in BOOLEAN :
              /\ [v EXCEPT !.field = b] \in ViewType
              /\ [v EXCEPT !.field = b].comic = v.comic
              /\ [v EXCEPT !.field = b].meant = v.meant
              /\ [v EXCEPT !.field = b].sure = v.sure
BY DEF ViewType

(* viewDidLoad changes the view on top of one stack, and only its comic. *)
LEMMA LoadFacts ==
  ASSUME NEW t \in Tabs, NEW stacks \in [Tabs -> Seq(ViewType)], stacks[t] # <<>>,
         NEW c \in Comics, NEW requests, Load(t, stacks, c, requests)
  PROVE  /\ stack' \in [Tabs -> Seq(ViewType)]
         /\ \A s \in Tabs : Len(stack'[s]) = Len(stacks[s])
         /\ \A s \in Tabs : DOMAIN stack'[s] = DOMAIN stacks[s]
         /\ \A s \in Tabs : \A n \in DOMAIN stacks[s] :
              ~(s = t /\ n = Len(stacks[t])) => stack'[s][n] = stacks[s][n]
         /\ Len(stacks[t]) \in DOMAIN stacks[t]
         /\ stack'[t][Len(stacks[t])] = [stacks[t][Len(stacks[t])] EXCEPT !.comic = c]
         /\ stack'[t] # <<>> /\ Last(stack'[t]).comic = c
<1> DEFINE last == Len(stacks[t])
           top == [stacks[t][last] EXCEPT !.comic = c]
<1>1. last \in 1..Len(stacks[t]) /\ DOMAIN stacks[t] = 1..Len(stacks[t])
  BY EmptySeq, LenProperties
<1>2. stacks[t][last] \in ViewType
  BY <1>1, ElementOfSeq
<1>3. top \in ViewType /\ top.comic = c
  BY <1>2, ViewFields
<1>4. stack' = [stacks EXCEPT ![t] = [stacks[t] EXCEPT ![last] = top]]
  BY DEF Load
<1> HIDE DEF last, top
<1>5. /\ [stacks[t] EXCEPT ![last] = top] \in Seq(ViewType)
      /\ Len([stacks[t] EXCEPT ![last] = top]) = Len(stacks[t])
      /\ DOMAIN [stacks[t] EXCEPT ![last] = top] = DOMAIN stacks[t]
      /\ \A n \in DOMAIN stacks[t] : n # last => [stacks[t] EXCEPT ![last] = top][n] = stacks[t][n]
      /\ [stacks[t] EXCEPT ![last] = top][last] = top
  BY <1>1, <1>3, ExceptSeq
<1>6. stack' \in [Tabs -> Seq(ViewType)] /\ stack'[t] = [stacks[t] EXCEPT ![last] = top]
      /\ \A s \in Tabs \ {t} : stack'[s] = stacks[s]
  BY <1>4, <1>5
<1>7. stack'[t] # <<>>
  BY <1>1, <1>5, <1>6, EmptySeq
<1>8. /\ \A s \in Tabs : Len(stack'[s]) = Len(stacks[s])
      /\ \A s \in Tabs : DOMAIN stack'[s] = DOMAIN stacks[s]
  BY <1>5, <1>6
<1>9. \A s \in Tabs : \A n \in DOMAIN stacks[s] :
        ~(s = t /\ n = last) => stack'[s][n] = stacks[s][n]
  BY <1>5, <1>6
<1>10. stack'[t][last] = top /\ Len(stack'[t]) = last /\ last \in DOMAIN stacks[t]
  BY <1>1, <1>5, <1>6 DEF last
<1>11. Last(stack'[t]).comic = c
  BY <1>10, <1>3 DEF Last
<1> QED  BY <1>6, <1>7, <1>8, <1>9, <1>10, <1>11 DEF last, top

(* The views that are not loaded when Comic.id changes are not sure any more. *)
LEMMA RenamedFacts ==
  ASSUME NEW views \in Seq(ViewType)
  PROVE  /\ Renamed(views) \in Seq(ViewType) /\ Len(Renamed(views)) = Len(views)
         /\ DOMAIN Renamed(views) = DOMAIN views
         /\ \A n \in DOMAIN views :
              /\ Renamed(views)[n].comic = views[n].comic
              /\ Renamed(views)[n].meant = views[n].meant
              /\ Renamed(views)[n].sure => views[n].sure /\ views[n].comic # Nil
         /\ Renamed(views) = <<>> <=> views = <<>>
<1>1. DOMAIN views = 1..Len(views) /\ Len(views) \in Nat
  BY LenProperties
<1>2. ASSUME NEW n \in DOMAIN views
      PROVE  LET b == (views[n].sure /\ views[n].comic # Nil) IN
             /\ [views[n] EXCEPT !.sure = b] \in ViewType
             /\ [views[n] EXCEPT !.sure = b].comic = views[n].comic
             /\ [views[n] EXCEPT !.sure = b].meant = views[n].meant
             /\ [views[n] EXCEPT !.sure = b].sure => views[n].sure /\ views[n].comic # Nil
  <2>1. views[n] \in ViewType
    BY <1>1, ElementOfSeq
  <2>2. \A v \in ViewType, b \in BOOLEAN :
          /\ [v EXCEPT !.sure = b] \in ViewType
          /\ [v EXCEPT !.sure = b].comic = v.comic
          /\ [v EXCEPT !.sure = b].meant = v.meant
          /\ [v EXCEPT !.sure = b].sure = b
    BY ViewFields
  <2>3. (views[n].sure /\ views[n].comic # Nil) \in BOOLEAN
    OBVIOUS
  <2>4. PICK b \in BOOLEAN : b = (views[n].sure /\ views[n].comic # Nil)
    BY <2>3
  <2> QED  BY <2>1, <2>2, <2>4
<1>3. Renamed(views) = [n \in 1..Len(views) |->
                          [views[n] EXCEPT !.sure = views[n].sure /\ views[n].comic # Nil]]
  BY <1>1 DEF Renamed
<1>4. Renamed(views) \in [1..Len(views) -> ViewType]
  BY <1>1, <1>2, <1>3
<1>5. Renamed(views) \in Seq(ViewType)
  BY <1>1, <1>4, SeqDef
<1>6. Len(Renamed(views)) = Len(views)
  BY <1>1, <1>4, <1>5, LenProperties
<1>7. Renamed(views) = <<>> <=> views = <<>>
  BY <1>1, <1>5, <1>6, EmptySeq
<1> QED  BY <1>1, <1>2, <1>3, <1>4, <1>5, <1>6, <1>7

LEMMA FrontFacts ==
  ASSUME NEW views \in Seq(ViewType), views # <<>>
  PROVE  /\ Front(views) \in Seq(ViewType) /\ DOMAIN Front(views) \subseteq DOMAIN views
         /\ \A n \in DOMAIN Front(views) : Front(views)[n] = views[n]
         /\ \A n \in DOMAIN views : n \notin DOMAIN Front(views) => views[n] = Last(views)
<1>1. Len(views) \in Nat \ {0} /\ DOMAIN views = 1..Len(views)
  BY EmptySeq, LenProperties
<1>2. \A n \in 1..(Len(views) - 1) : views[n] \in ViewType
  BY <1>1, ElementOfSeq
<1>3. /\ Front(views) \in Seq(ViewType)
      /\ Len(Front(views)) = Len(views) - 1
      /\ \A n \in 1..(Len(views) - 1) : Front(views)[n] = views[n]
  <2>1. Len(views) - 1 \in Int /\ 1 \in Int
    BY <1>1
  <2>2. /\ SubSeq(views, 1, Len(views) - 1) \in Seq(ViewType)
        /\ Len(SubSeq(views, 1, Len(views) - 1)) =
             IF 1 <= Len(views) - 1 THEN Len(views) - 1 - 1 + 1 ELSE 0
        /\ \A i \in 1..(Len(views) - 1 - 1 + 1) :
             SubSeq(views, 1, Len(views) - 1)[i] = views[1 + i - 1]
    BY <2>1, <1>2, SubSeqProperties
  <2> QED  BY <1>1, <2>2 DEF Front
<1>4. DOMAIN Front(views) = 1..(Len(views) - 1)
  BY <1>3, LenProperties
<1> QED  BY <1>1, <1>3, <1>4 DEF Last

LEMMA AppendFacts ==
  ASSUME NEW S, NEW s \in Seq(S), NEW e \in S
  PROVE  /\ Append(s, e) \in Seq(S) /\ Append(s, e) # <<>>
         /\ DOMAIN Append(s, e) = DOMAIN s \cup {Len(s) + 1}
         /\ \A n \in DOMAIN s : Append(s, e)[n] = s[n]
         /\ Append(s, e)[Len(s) + 1] = e /\ Last(Append(s, e)) = e
         /\ ToSet(Append(s, e)) = ToSet(s) \cup {e}
         /\ IsInjective(s) /\ e \notin ToSet(s) => IsInjective(Append(s, e))
<1>1. /\ Append(s, e) \in Seq(S) /\ Append(s, e) # <<>> /\ Len(Append(s, e)) = Len(s) + 1
      /\ \A n \in 1..Len(s) : Append(s, e)[n] = s[n]
      /\ Append(s, e)[Len(s) + 1] = e
  BY AppendProperties
<1>2. Len(s) \in Nat /\ DOMAIN s = 1..Len(s) /\ DOMAIN Append(s, e) = 1..(Len(s) + 1)
  BY <1>1, LenProperties
<1>3. DOMAIN Append(s, e) = DOMAIN s \cup {Len(s) + 1} /\ Len(s) + 1 \notin DOMAIN s
  BY <1>2
<1>4. ToSet(Append(s, e)) = ToSet(s) \cup {e}
  BY <1>1, <1>2, <1>3 DEF ToSet
<1>5. IsInjective(s) /\ e \notin ToSet(s) => IsInjective(Append(s, e))
  BY <1>1, <1>2, <1>3 DEF IsInjective, ToSet
<1> QED  BY <1>1, <1>2, <1>3, <1>4, <1>5 DEF Last

(* The main queue runs the callback at its head, whose request is done.    *)
LEMMA HeadFacts ==
  ASSUME TypeOK, ready # <<>>
  PROVE  /\ Head(ready) \in Slots /\ Tail(ready) \in Seq(Slots) /\ IsInjective(Tail(ready))
         /\ ToSet(Tail(ready)) = ToSet(ready) \ {Head(ready)}
         /\ net[Head(ready)] # Nil /\ net[Head(ready)] \in RequestType
         /\ net[Head(ready)].value # Nil
<1>1. /\ Head(ready) \in Slots /\ Tail(ready) \in Seq(Slots)
      /\ Len(Tail(ready)) = Len(ready) - 1
      /\ \A i \in 1..Len(Tail(ready)) : Tail(ready)[i] = ready[i + 1]
  BY HeadTailProperties DEF TypeOK
<1>2. Len(ready) \in Nat \ {0} /\ DOMAIN ready = 1..Len(ready)
      /\ DOMAIN Tail(ready) = 1..(Len(ready) - 1)
  BY <1>1, EmptySeq, LenProperties DEF TypeOK
<1>3. Head(ready) = ready[1]
  BY <1>2 DEF TypeOK
<1>4. IsInjective(ready) /\ ToSet(ready) = {i \in Slots : net[i] # Nil /\ net[i].value # Nil}
  BY DEF TypeOK
<1>5. IsInjective(Tail(ready))
  BY <1>1, <1>2, <1>4 DEF IsInjective
<1>6. ASSUME NEW x \in ToSet(Tail(ready)) PROVE x \in ToSet(ready) \ {ready[1]}
  <2>1. PICK n \in DOMAIN Tail(ready) : x = Tail(ready)[n]
    BY DEF ToSet
  <2>2. n + 1 \in DOMAIN ready /\ x = ready[n + 1] /\ n + 1 # 1 /\ 1 \in DOMAIN ready
    BY <2>1, <1>1, <1>2
  <2> QED  BY <2>2, <1>4 DEF IsInjective, ToSet
<1>7. ASSUME NEW x \in ToSet(ready), x # ready[1] PROVE x \in ToSet(Tail(ready))
  <2>1. PICK n \in DOMAIN ready : x = ready[n]
    BY DEF ToSet
  <2>2. n # 1
    BY <2>1, <1>7
  <2>3. n - 1 \in DOMAIN Tail(ready) /\ (n - 1) + 1 = n
    BY <2>1, <2>2, <1>2
  <2>4. Tail(ready)[n - 1] = x
    BY <2>1, <2>3, <1>1, <1>2
  <2> QED  BY <2>3, <2>4 DEF ToSet
<1>8. ready[1] \in ToSet(ready)
  BY <1>2 DEF ToSet
<1>9. net[Head(ready)] # Nil /\ net[Head(ready)].value # Nil
  BY <1>3, <1>4, <1>8
<1> QED  BY <1>1, <1>3, <1>5, <1>6, <1>7, <1>9 DEF TypeOK

(* The callbacks that wait are still those of the requests answered, when  *)
(* requests come and go only among the others.                             *)
LEMMA ReadyKept ==
  ASSUME TypeOK,
         \A j \in Slots : (net'[j] # Nil /\ net'[j].value # Nil) <=> (net[j] # Nil /\ net[j].value # Nil)
  PROVE  ToSet(ready) = {i \in Slots : net'[i] # Nil /\ net'[i].value # Nil}
BY DEF TypeOK

(* ReviewAt is the comment whose row stands there once the table reloads.  *)
LEMMA NewestFacts ==
  ASSUME NEW list \in Seq(Ids)
  PROVE  /\ Newest(list) \in Seq(Ids) /\ Len(Newest(list)) = Len(list)
         /\ ToSet(Newest(list)) \subseteq ToSet(list)
         /\ \A r \in 1..Len(list) : /\ ReviewAt(list, r) = Newest(list)[r]
                                    /\ ReviewAt(list, r) \in ToSet(list)
<1>1. Len(list) \in Nat /\ DOMAIN list = 1..Len(list) /\ list \in [1..Len(list) -> Ids]
  BY LenProperties
<1>2. \A r \in 1..Len(list) : Len(list) - r + 1 \in 1..Len(list)
  BY <1>1
<1>3. Newest(list) = [r \in 1..Len(list) |-> list[Len(list) - r + 1]]
  BY DEF Newest, Reverse
<1>4. Newest(list) \in [1..Len(list) -> Ids]
  BY <1>1, <1>2, <1>3
<1>5. Newest(list) \in Seq(Ids)
  BY <1>1, <1>4, SeqDef
<1>6. Len(Newest(list)) = Len(list)
  BY <1>1, <1>4, <1>5, LenProperties
<1>7. \A r \in 1..Len(list) : list[Len(list) - r + 1] \in ToSet(list)
  BY <1>1, <1>2 DEF ToSet
<1>8. DOMAIN Newest(list) = 1..Len(list)
  BY <1>3
<1>9. ToSet(Newest(list)) \subseteq ToSet(list)
  BY <1>3, <1>7, <1>8 DEF ToSet
<1> QED  BY <1>3, <1>5, <1>6, <1>7, <1>9 DEF ReviewAt

-----------------------------------------------------------------------------
(* Steps that send no comment and take none from the requests *)

(* Request j stays as it is; if Comic.id changes, a comment is unsettled.  *)
Stays(j) ==
  /\ net[j] # Nil /\ net'[j] # Nil
  /\ net'[j].kind = net[j].kind /\ net'[j].comic = net[j].comic /\ net'[j].id = net[j].id
  /\ net'[j].value = net[j].value /\ net'[j].meant = net[j].meant
  /\ net'[j].sure => net[j].sure /\ (net[j].kind = "add" => comicId' = comicId)

(* Or it makes way for nothing or for a request for a comic's comments.    *)
MakesWay(j) ==
  /\ ~InFlight(j, "add")
  /\ net'[j] # Nil => /\ net'[j].kind = "comments" /\ net'[j].value = Nil
                      /\ net'[j].comic \in Comics

LEMMA RequestsKept ==
  ASSUME TypeOK, Answers, Asking, Sending, Listing, WorldKnown, Tapped,
         net' \in [Slots -> RequestType \cup {Nil}],
         \A j \in Slots : Stays(j) \/ MakesWay(j),
         UNCHANGED <<documents, comments, listComment, lost>>
  PROVE  Answers' /\ Asking' /\ Sending' /\ Listing' /\ WorldKnown' /\ Tapped'
<1> USE DEF InFlight
<1>1. Answers' /\ Asking'
  BY DEF Answers, Asking, Stays, MakesWay
<1>2. \A j \in Slots : InFlight(j, "add")' <=> InFlight(j, "add")
  BY DEF Stays, MakesWay
<1>3. \A j \in Slots : InFlight(j, "add") => Stays(j)
  BY DEF MakesWay
<1>4. Sending'
  <2>1. ASSUME NEW j \in Slots, InFlight(j, "add")'
        PROVE  LET r == net'[j] IN
               /\ r.id \in New \ lost' /\ r.comic \in Comics
               /\ r.sure => r.comic = comicId'
               /\ IF r.value = Nil THEN r.id \notin DOMAIN documents'
                  ELSE r.value = r.id /\ r.id \in DOMAIN documents' /\ documents'[r.id] = r.comic
    BY <2>1, <1>2, <1>3 DEF Sending, Stays
  <2>2. \A i, j \in Slots : InFlight(i, "add")' /\ InFlight(j, "add")' /\ net'[i].id = net'[j].id => i = j
    BY <1>2, <1>3 DEF Sending, Stays
  <2> QED  BY <2>1, <2>2 DEF Sending
<1>5. Adding' = Adding
  <2>1. {j \in Slots : InFlight(j, "add")'} = {j \in Slots : InFlight(j, "add")}
    BY <1>2
  <2>2. \A j \in {i \in Slots : InFlight(i, "add")} : net'[j].id = net[j].id
    BY <1>3 DEF Stays
  <2> QED  BY <2>1, <2>2 DEF Adding
<1>6. Listing'
  BY <1>5 DEF Listing
<1>7. WorldKnown'
  BY DEF WorldKnown, Stays, MakesWay
<1>8. Tapped'
  BY DEF Tapped, Stays, MakesWay
<1> QED  BY <1>1, <1>4, <1>6, <1>7, <1>8

(* A request for the comments of the comic of Comic.id, beside the others. *)
LEMMA CommentsAsked ==
  ASSUME TypeOK, NEW c \in Comics, comicId' = c,
         Sent(net, Request("comments", c, Nil))
  PROVE  /\ net' \in [Slots -> RequestType \cup {Nil}]
         /\ comicId' = comicId => \A j \in Slots : Stays(j) \/ MakesWay(j)
         /\ \A j \in Slots : net'[j] # Nil /\ net'[j].value # Nil <=> net[j] # Nil /\ net[j].value # Nil
         /\ \E i \in Slots : InFlight(i, "comments")'
         /\ calm /\ Idle => Alone' /\ RightComic'
<1>1. /\ Request("comments", c, Nil) \in RequestType
      /\ Request("comments", c, Nil).kind = "comments" /\ Request("comments", c, Nil).comic = c
      /\ Request("comments", c, Nil).value = Nil
  BY RequestTyped
<1>2. net \in [Slots -> RequestType \cup {Nil}]
  BY DEF TypeOK
<1>3. /\ net' \in [Slots -> RequestType \cup {Nil}]
      /\ \E i \in Slots : /\ net[i] = Nil /\ net'[i] = Request("comments", c, Nil)
                          /\ \A j \in Slots \ {i} : net'[j] = net[j]
  BY <1>1, <1>2, SentFacts
<1>4. PICK i \in Slots : /\ net[i] = Nil /\ net'[i] = Request("comments", c, Nil)
                         /\ \A j \in Slots \ {i} : net'[j] = net[j]
  BY <1>3
<1>5. net'[i] # Nil
  BY <1>1, <1>4, NilFacts
<1>6. comicId' = comicId => \A j \in Slots : Stays(j) \/ MakesWay(j)
  BY <1>1, <1>4, <1>5 DEF Stays, MakesWay, InFlight
<1>7. ASSUME calm, Idle PROVE Alone' /\ RightComic'
  <2>1. \A j \in Slots : j # i => net'[j] = Nil \/ net'[j].kind = "world"
    BY <1>4, <1>7 DEF Idle
  <2>2. Alone'
    BY <2>1 DEF Alone
  <2>3. RightComic'
    BY <2>1, <1>1, <1>4 DEF RightComic, InFlight
  <2> QED  BY <2>2, <2>3
<1> QED  BY <1>1, <1>3, <1>4, <1>5, <1>6, <1>7 DEF InFlight

-----------------------------------------------------------------------------
(* Tabs and views *)

(* A tab is shown, and its view on top loads or is loaded already.         *)
LEMMA AppearsKeeps ==
  ASSUME Inv, NEW t \in Tabs \cup {Other}, NEW stacks \in [Tabs -> Seq(ViewType)],
         \A s \in Tabs : /\ DOMAIN stacks[s] \subseteq DOMAIN stack[s]
                         /\ \A n \in DOMAIN stacks[s] : stacks[s][n] = stack[s][n]
                         /\ \A n \in DOMAIN stack[s] :
                              n \notin DOMAIN stacks[s] => stack[s][n].comic # Nil,
         Appears(t, stacks, net), tab' = t, Calm,
         UNCHANGED <<userID, comicId, listReviewWorld, ready, server, lost>>
  PROVE  Inv'
<1> DEFINE views == IF t \in Tabs THEN stacks[t] ELSE <<>>
<1> USE DEF server
<1>1. TypeOK /\ \A s \in Tabs : stack[s] = <<>> => stacks[s] = <<>>
  <2>1. ASSUME NEW s \in Tabs, stack[s] = <<>> PROVE stacks[s] = <<>>
    <3>1. DOMAIN stacks[s] = {}
      BY <2>1
    <3>2. DOMAIN stacks[s] = 1..Len(stacks[s]) /\ Len(stacks[s]) \in Nat
      BY LenProperties
    <3>3. stacks[s] # <<>> => Len(stacks[s]) \in Nat \ {0}
      BY EmptySeq
    <3>4. 1 \notin 1..Len(stacks[s])
      BY <3>1, <3>2
    <3> QED  BY <3>2, <3>3, <3>4
  <2> QED  BY <2>1 DEF Inv
<1>2. reviewRows' = reviewRows \/ reviewRows' = Newest(listReviewWorld)
  BY DEF Appears, ReviewAppears
<1>3. reviewRows' \in Seq(Ids) /\ Known'
  <2>1. Newest(listReviewWorld) \in Seq(Ids) /\ ToSet(Newest(listReviewWorld)) \subseteq ToSet(listReviewWorld)
    BY NewestFacts, <1>1 DEF TypeOK
  <2> QED  BY <1>1, <1>2, <2>1 DEF Inv, Known, TypeOK
<1>4. calm' \in BOOLEAN
  BY <1>1 DEF Calm, TypeOK
<1>5. CASE views # <<>> /\ Last(views).comic = Nil /\ Load(t, stacks, comicId, net)
  <2>1. t \in Tabs /\ stacks[t] # <<>> /\ stack[t] # <<>> /\ views = stacks[t]
    BY <1>1, <1>5
  <2>2. comicId \in Comics
    BY <2>1, <1>1 DEF Inv, ComicSet, TypeOK
  <2>3. /\ stack' \in [Tabs -> Seq(ViewType)]
        /\ \A s \in Tabs : DOMAIN stack'[s] = DOMAIN stacks[s]
        /\ \A s \in Tabs : \A n \in DOMAIN stacks[s] :
             ~(s = t /\ n = Len(stacks[t])) => stack'[s][n] = stacks[s][n]
        /\ Len(stacks[t]) \in DOMAIN stacks[t]
        /\ stack'[t][Len(stacks[t])] = [stacks[t][Len(stacks[t])] EXCEPT !.comic = comicId]
        /\ Last(stack'[t]).comic = comicId
    BY <1>5, <2>1, <2>2, LoadFacts
  <2>4. /\ net' \in [Slots -> RequestType \cup {Nil}]
        /\ \A j \in Slots : Stays(j) \/ MakesWay(j)
        /\ \A j \in Slots : net'[j] # Nil /\ net'[j].value # Nil <=> net[j] # Nil /\ net[j].value # Nil
        /\ \E i \in Slots : InFlight(i, "comments")'
        /\ calm /\ Idle => Alone' /\ RightComic'
    BY <1>1, <1>5, <2>2, CommentsAsked DEF Load
  <2>5. TypeOK'
    BY <1>1, <1>3, <1>4, <1>5, <2>3, <2>4, ReadyKept, EmptySeq DEF TypeOK, Load
  <2>6. Answers' /\ Asking' /\ Sending' /\ Listing' /\ WorldKnown' /\ Tapped'
    BY <1>1, <2>4, RequestsKept DEF Inv
  <2>7. ComicSet'
    BY <2>2, NilFacts DEF ComicSet
  <2>8. Opened'
    <3>1. ASSUME NEW s \in Tabs, NEW n \in DOMAIN stacks[s]
          PROVE  stack'[s][n].sure => stack'[s][n].meant =
                   IF stack'[s][n].comic = Nil THEN comicId ELSE stack'[s][n].comic
      <4>1. stacks[s][n] \in ViewType /\ stacks[s][n] = stack[s][n] /\ n \in DOMAIN stack[s]
        BY <1>1, LenProperties, ElementOfSeq
      <4>2. stack[s][n].sure => stack[s][n].meant =
              IF stack[s][n].comic = Nil THEN comicId ELSE stack[s][n].comic
        BY <4>1 DEF Inv, Opened
      <4>3. CASE s = t /\ n = Len(stacks[t])
        <5>1. stack[s][n].comic = Nil
          BY <4>1, <4>3, <1>5, <2>1 DEF Last
        <5>2. stack'[s][n] = [stacks[s][n] EXCEPT !.comic = comicId]
          BY <2>3, <4>3
        <5>3. stack'[s][n].comic = comicId /\ stack'[s][n].meant = stacks[s][n].meant
              /\ stack'[s][n].sure = stacks[s][n].sure
          BY <4>1, <5>2, <2>2, ViewFields
        <5> QED  BY <5>1, <5>3, <4>1, <4>2, <2>2, NilFacts
      <4>4. CASE ~(s = t /\ n = Len(stacks[t]))
        BY <4>1, <4>2, <4>4, <2>3
      <4> QED  BY <4>3, <4>4
    <3> QED  BY <3>1, <2>3 DEF Opened
  <2>9. TopLoaded'
    BY <2>3, <2>2, NilFacts DEF TopLoaded, Top
  <2>10. Following'
    BY <2>4 DEF Following, UpToDate, Calm
  <2> QED  BY <2>5, <2>6, <2>7, <2>8, <2>9, <2>10, <1>3 DEF Inv
<1>6. CASE /\ views # <<>> => Last(views).comic # Nil
           /\ stack' = stacks /\ net' = net /\ UNCHANGED listCommentComic
  <2>1. TypeOK'
    BY <1>1, <1>3, <1>4, <1>6 DEF TypeOK
  <2>2. \A j \in Slots : Stays(j) \/ MakesWay(j)
    BY <1>6 DEF Stays, MakesWay, InFlight
  <2>3. Answers' /\ Asking' /\ Sending' /\ Listing' /\ WorldKnown' /\ Tapped'
    BY <1>1, <1>6, <2>2, RequestsKept DEF Inv, TypeOK
  <2>4. ComicSet'
    BY <1>1, <1>6 DEF Inv, ComicSet, InFlight
  <2>5. Opened'
    BY <1>6 DEF Inv, Opened
  <2>6. TopLoaded'
    BY <1>6 DEF TopLoaded, Top
  <2>7. Following'
    <3>1. AllLoaded' => AllLoaded
      BY <1>6 DEF AllLoaded
    <3> QED  BY <3>1, <1>6 DEF Inv, Following, Alone, RightComic, UpToDate, InFlight, Calm
  <2> QED  BY <2>1, <2>3, <2>4, <2>5, <2>6, <2>7, <1>3 DEF Inv
<1> QED  BY <1>5, <1>6 DEF Appears

LEMMA SelectTabKeeps ==
  ASSUME Inv, NEW t \in Tabs \cup {Other}, SelectTab(t)
  PROVE  Inv'
<1>1. stack \in [Tabs -> Seq(ViewType)]
  BY DEF Inv, TypeOK
<1> QED  BY <1>1, AppearsKeeps DEF SelectTab

LEMMA BackKeeps ==
  ASSUME Inv, Back
  PROVE  Inv'
<1> DEFINE stacks == [stack EXCEPT ![tab] = Front(stack[tab])]
<1>1. stack \in [Tabs -> Seq(ViewType)] /\ tab \in Tabs /\ stack[tab] # <<>>
  BY DEF Inv, TypeOK, Back, Shows
<1>2. /\ Front(stack[tab]) \in Seq(ViewType)
      /\ DOMAIN Front(stack[tab]) \subseteq DOMAIN stack[tab]
      /\ \A n \in DOMAIN Front(stack[tab]) : Front(stack[tab])[n] = stack[tab][n]
      /\ \A n \in DOMAIN stack[tab] :
           n \notin DOMAIN Front(stack[tab]) => stack[tab][n] = Last(stack[tab])
  BY <1>1, FrontFacts
<1>3. Last(stack[tab]).comic # Nil
  BY <1>1 DEF Inv, TopLoaded, Top
<1>4. stacks \in [Tabs -> Seq(ViewType)]
  BY <1>1, <1>2
<1>5. \A s \in Tabs : /\ DOMAIN stacks[s] \subseteq DOMAIN stack[s]
                      /\ \A n \in DOMAIN stacks[s] : stacks[s][n] = stack[s][n]
                      /\ \A n \in DOMAIN stack[s] :
                           n \notin DOMAIN stacks[s] => stack[s][n].comic # Nil
  BY <1>1, <1>2, <1>3
<1>6. Appears(tab, stacks, net)
  BY DEF Back
<1> HIDE DEF stacks
<1> QED  BY <1>1, <1>4, <1>5, <1>6, AppearsKeeps DEF Back

LEMMA FirstView ==
  ASSUME NEW c \in Comics
  PROVE  View(Nil, c, TRUE) \in ViewType /\ View(Nil, c, TRUE).comic = Nil /\ View(Nil, c, TRUE).meant = c
BY DEF View, ViewType

LEMMA OpenInfoKeeps ==
  ASSUME Inv, NEW t \in Tabs, NEW c \in Comics, OpenInfo(t, c)
  PROVE  Inv'
<1> DEFINE pushed == [s \in Tabs |-> IF s = t THEN <<View(Nil, c, TRUE)>> ELSE Renamed(stack[s])]
           requests == Unsettled(net)
<1> USE DEF server
<1>1. TypeOK /\ stack \in [Tabs -> Seq(ViewType)] /\ net \in [Slots -> RequestType \cup {Nil}]
  BY DEF Inv, TypeOK
<1>2. /\ tab = t /\ comicId' = c /\ Load(t, pushed, c, requests) /\ Calm
      /\ UNCHANGED <<userID, tab, listReviewWorld, reviewRows, ready, server, lost>>
  BY DEF OpenInfo
<1>3. PICK first \in ViewType : first.comic = Nil /\ first.meant = c /\ pushed[t] = <<first>>
  <2>1. /\ View(Nil, c, TRUE) \in ViewType
        /\ View(Nil, c, TRUE).comic = Nil /\ View(Nil, c, TRUE).meant = c
    BY FirstView
  <2>2. pushed[t] = <<View(Nil, c, TRUE)>>
    OBVIOUS
  <2> QED  BY <2>1, <2>2, Zenon
<1>4. /\ <<first>> \in Seq(ViewType) /\ <<first>> # <<>>
      /\ Len(<<first>>) = 1 /\ DOMAIN <<first>> = {1} /\ <<first>>[1] = first
  BY <1>3
<1>5. pushed \in [Tabs -> Seq(ViewType)] /\ pushed[t] # <<>>
      /\ \A s \in Tabs \ {t} : pushed[s] = Renamed(stack[s])
  <2>1. \A s \in Tabs \ {t} : pushed[s] = Renamed(stack[s]) /\ pushed[s] \in Seq(ViewType)
    BY <1>1, RenamedFacts
  <2>2. pushed[t] \in Seq(ViewType) /\ pushed[t] # <<>>
    BY <1>3, <1>4
  <2>3. pushed = [s \in Tabs |-> pushed[s]]
    OBVIOUS
  <2> HIDE DEF pushed
  <2> QED  BY <2>1, <2>2, <2>3
<1>6. /\ requests \in [Slots -> RequestType \cup {Nil}]
      /\ \A j \in Slots : requests[j] = Nil <=> net[j] = Nil
      /\ \A j \in Slots : net[j] # Nil =>
           /\ requests[j].kind = net[j].kind /\ requests[j].comic = net[j].comic
           /\ requests[j].id = net[j].id /\ requests[j].value = net[j].value
           /\ requests[j].meant = net[j].meant
           /\ net[j].kind = "add" => ~requests[j].sure
           /\ net[j].kind # "add" => requests[j] = net[j]
  BY <1>1, UnsettledFacts
<1> HIDE DEF pushed, requests
<1>7. /\ stack' \in [Tabs -> Seq(ViewType)]
      /\ \A s \in Tabs : DOMAIN stack'[s] = DOMAIN pushed[s]
      /\ \A s \in Tabs : \A n \in DOMAIN pushed[s] :
           ~(s = t /\ n = Len(pushed[t])) => stack'[s][n] = pushed[s][n]
      /\ stack'[t][Len(pushed[t])] = [pushed[t][Len(pushed[t])] EXCEPT !.comic = c]
      /\ Last(stack'[t]).comic = c
  <2>1. Load(t, pushed, c, requests)
    BY <1>2
  <2>2. pushed \in [Tabs -> Seq(ViewType)] /\ pushed[t] # <<>> /\ t \in Tabs /\ c \in Comics
    BY <1>5
  <2> QED  BY ONLY <2>1, <2>2, LoadFacts
<1>8. /\ Request("comments", c, Nil) \in RequestType
      /\ Request("comments", c, Nil).kind = "comments" /\ Request("comments", c, Nil).comic = c
      /\ Request("comments", c, Nil).value = Nil /\ Request("comments", c, Nil) # Nil
  BY RequestTyped, NilFacts
<1>9. /\ net' \in [Slots -> RequestType \cup {Nil}]
      /\ \E i \in Slots : /\ requests[i] = Nil /\ net'[i] = Request("comments", c, Nil)
                          /\ \A j \in Slots \ {i} : net'[j] = requests[j]
  BY <1>2, <1>6, <1>8, SentFacts DEF Load
<1>10. PICK i \in Slots : /\ requests[i] = Nil /\ net'[i] = Request("comments", c, Nil)
                          /\ \A j \in Slots \ {i} : net'[j] = requests[j]
  BY <1>9
<1>11. \A j \in Slots : Stays(j) \/ MakesWay(j)
  BY <1>6, <1>8, <1>10 DEF Stays, MakesWay, InFlight
<1>12. \A j \in Slots : net'[j] # Nil /\ net'[j].value # Nil <=> net[j] # Nil /\ net[j].value # Nil
  BY <1>6, <1>8, <1>10
<1>13. TypeOK'
  BY <1>1, <1>2, <1>7, <1>9, <1>12, ReadyKept, EmptySeq DEF TypeOK, Load, Calm
<1>14. Answers' /\ Asking' /\ Sending' /\ Listing' /\ WorldKnown' /\ Tapped'
  BY <1>1, <1>2, <1>9, <1>11, RequestsKept DEF Inv
<1>15. Known'
  BY <1>2 DEF Inv, Known
<1>16. ComicSet'
  BY <1>2, NilFacts DEF ComicSet
<1>17. TopLoaded'
  BY <1>2, <1>7, NilFacts DEF TopLoaded, Top
<1>18. Opened'
  <2>1. ASSUME NEW s \in Tabs, s # t, NEW n \in DOMAIN stack'[s], stack'[s][n].sure
        PROVE  stack'[s][n].meant = IF stack'[s][n].comic = Nil THEN comicId' ELSE stack'[s][n].comic
    <3>1. /\ n \in DOMAIN stack[s] /\ stack'[s][n] = Renamed(stack[s])[n]
          /\ stack'[s][n].comic = stack[s][n].comic /\ stack'[s][n].meant = stack[s][n].meant
          /\ stack[s][n].sure /\ stack[s][n].comic # Nil
      BY <1>1, <1>5, <1>7, <2>1, RenamedFacts
    <3> QED  BY <3>1 DEF Inv, Opened
  <2>2. ASSUME NEW n \in DOMAIN stack'[t]
        PROVE  stack'[t][n].meant = stack'[t][n].comic /\ stack'[t][n].comic # Nil
    <3>1. n = 1 /\ stack'[t][1] = [first EXCEPT !.comic = c]
      BY <1>3, <1>4, <1>7
    <3>2. stack'[t][1].comic = c /\ stack'[t][1].meant = c
      <4>1. [first EXCEPT !.comic = c].comic = c /\ [first EXCEPT !.comic = c].meant = c
        BY <1>3, ViewFields
      <4> QED  BY <3>1, <4>1
    <3> QED  BY <3>1, <3>2, NilFacts
  <2> QED  BY <2>1, <2>2 DEF Opened
<1>19. Following'
  <2>1. ASSUME calm, Idle PROVE Alone' /\ RightComic'
    <3>1. \A j \in Slots : j # i => net'[j] = Nil \/ net'[j].kind = "world"
      BY <1>6, <1>10, <2>1 DEF Idle
    <3>2. Alone'
      BY <3>1 DEF Alone
    <3>3. RightComic'
      BY <3>1, <1>2, <1>8, <1>10 DEF RightComic, InFlight
    <3> QED  BY <3>2, <3>3
  <2>2. UpToDate'
    BY <1>8, <1>10 DEF UpToDate, InFlight
  <2> QED  BY <2>1, <2>2, <1>2 DEF Following, Calm
<1> QED  BY <1>13, <1>14, <1>15, <1>16, <1>17, <1>18, <1>19 DEF Inv

LEMMA ShowCommentKeeps ==
  ASSUME Inv, ShowComment
  PROVE  Inv'
<1> DEFINE last == Len(stack[tab])
<1> USE DEF server
<1>1. TypeOK /\ stack \in [Tabs -> Seq(ViewType)] /\ tab \in Tabs /\ stack[tab] # <<>>
  BY DEF Inv, TypeOK, ShowComment, Shows
<1>2. last \in 1..last /\ DOMAIN stack[tab] = 1..last /\ stack[tab][last] \in ViewType
  BY <1>1, EmptySeq, LenProperties, ElementOfSeq
<1>3. PICK b \in BOOLEAN : b = ~stack[tab][last].field
  OBVIOUS
<1> DEFINE top == [stack[tab][last] EXCEPT !.field = b]
<1>4. /\ top \in ViewType /\ top.comic = stack[tab][last].comic
      /\ top.meant = stack[tab][last].meant /\ top.sure = stack[tab][last].sure
  BY <1>2, ViewFields
<1>5. stack' = [stack EXCEPT ![tab] = [stack[tab] EXCEPT ![last] = top]]
  BY <1>3 DEF ShowComment
<1> HIDE DEF last, top
<1>6. /\ [stack[tab] EXCEPT ![last] = top] \in Seq(ViewType)
      /\ DOMAIN [stack[tab] EXCEPT ![last] = top] = DOMAIN stack[tab]
      /\ Len([stack[tab] EXCEPT ![last] = top]) = Len(stack[tab])
      /\ \A n \in DOMAIN stack[tab] : n # last => [stack[tab] EXCEPT ![last] = top][n] = stack[tab][n]
      /\ [stack[tab] EXCEPT ![last] = top][last] = top
  BY <1>1, <1>2, <1>4, ExceptSeq DEF last
<1>7. /\ stack' \in [Tabs -> Seq(ViewType)]
      /\ \A s \in Tabs : DOMAIN stack'[s] = DOMAIN stack[s] /\ Len(stack'[s]) = Len(stack[s])
      /\ \A s \in Tabs : \A n \in DOMAIN stack[s] :
           /\ stack'[s][n].comic = stack[s][n].comic /\ stack'[s][n].meant = stack[s][n].meant
           /\ stack'[s][n].sure = stack[s][n].sure
  BY <1>1, <1>4, <1>5, <1>6
<1>8. UNCHANGED <<userID, comicId, tab, listCommentComic, listReviewWorld, reviewRows,
                  net, ready, server, calm, lost>>
  BY DEF ShowComment
<1>9. TypeOK'
  BY <1>1, <1>7, <1>8 DEF TypeOK
<1>10. \A j \in Slots : Stays(j) \/ MakesWay(j)
  BY <1>8 DEF Stays, MakesWay, InFlight
<1>11. Answers' /\ Asking' /\ Sending' /\ Listing' /\ WorldKnown' /\ Tapped' /\ Known'
  BY <1>1, <1>8, <1>10, RequestsKept DEF Inv, TypeOK, Known
<1>12. ComicSet'
  BY <1>1, <1>8 DEF Inv, ComicSet, InFlight, ShowComment, Top, Shows, TopLoaded
<1>13. Opened'
  BY <1>7, <1>8 DEF Inv, Opened
<1>14. TopLoaded'
  <2>1. Last(stack[tab]).comic # Nil
    BY <1>1 DEF Inv, TopLoaded, Top
  <2>2. Last(stack'[tab]).comic # Nil
    BY <2>1, <1>1, <1>2, <1>7 DEF Last, last
  <2> QED  BY <2>2, <1>8 DEF TopLoaded, Top
<1>15. Following'
  <2>1. AllLoaded' <=> AllLoaded
    BY <1>7 DEF AllLoaded
  <2> QED  BY <2>1, <1>8 DEF Inv, Following, Alone, RightComic, UpToDate, InFlight
<1> QED  BY <1>9, <1>11, <1>12, <1>13, <1>14, <1>15 DEF Inv

-----------------------------------------------------------------------------
(* Comments and reviews *)

LEMMA SendCommentKeeps ==
  ASSUME Inv, NEW k \in New, SendComment(k)
  PROVE  Inv'
<1> USE DEF server
<1> DEFINE r == Request("add", comicId, k)
<1>1. TypeOK /\ net \in [Slots -> RequestType \cup {Nil}]
  BY DEF Inv, TypeOK
<1>2. /\ Shows(tab) /\ k \notin DOMAIN documents /\ k \notin lost
      /\ \A i \in Slots : net[i] # Nil => net[i].id # k
      /\ Sent(net, r) /\ calm' = (calm /\ Idle)
      /\ UNCHANGED <<userID, comicId, tab, stack, listCommentComic, listReviewWorld, reviewRows,
                     ready, documents, comments, listComment, lost>>
  BY DEF SendComment, Calm
<1>3. comicId \in Comics
  BY <1>1, <1>2 DEF Inv, TypeOK, ComicSet, Shows
<1>4. k \in Ids /\ k # Nil
  BY NilFacts DEF Ids
<1>5. /\ r \in RequestType /\ r # Nil /\ r.kind = "add" /\ r.comic = comicId /\ r.id = k
      /\ r.value = Nil
  BY <1>3, <1>4, RequestTyped, NilFacts
<1> HIDE DEF r
<1>6. net' \in [Slots -> RequestType \cup {Nil}]
  BY <1>1, <1>2, <1>5, SentFacts
<1>7. PICK i \in Slots : /\ net[i] = Nil /\ net'[i] = r
                         /\ \A j \in Slots \ {i} : net'[j] = net[j]
  BY <1>1, <1>2, <1>5, SentFacts
<1>8. \A j \in Slots : net'[j] # Nil /\ net'[j].value # Nil <=> net[j] # Nil /\ net[j].value # Nil
  BY <1>5, <1>7
<1>9. TypeOK'
  BY <1>1, <1>2, <1>6, <1>8, ReadyKept DEF TypeOK
<1>10. Answers' /\ Asking' /\ WorldKnown' /\ Tapped' /\ Known'
  BY <1>2, <1>5, <1>7 DEF Inv, Answers, Asking, WorldKnown, Tapped, Known, InFlight
<1>11. ComicSet'
  BY <1>2, <1>3, NilFacts DEF ComicSet
<1>12. Sending'
  <2>1. ASSUME NEW j \in Slots, InFlight(j, "add")'
        PROVE  LET q == net'[j] IN
               /\ q.id \in New \ lost' /\ q.comic \in Comics
               /\ q.sure => q.comic = comicId'
               /\ IF q.value = Nil THEN q.id \notin DOMAIN documents'
                  ELSE q.value = q.id /\ q.id \in DOMAIN documents' /\ documents'[q.id] = q.comic
    BY <2>1, <1>2, <1>3, <1>5, <1>7 DEF Inv, Sending, InFlight
  <2>2. \A h, j \in Slots : InFlight(h, "add")' /\ InFlight(j, "add")' /\ net'[h].id = net'[j].id => h = j
    BY <1>2, <1>5, <1>7 DEF Inv, Sending, InFlight
  <2> QED  BY <2>1, <2>2 DEF Sending
<1>13. Adding' = Adding \cup {k}
  BY <1>5, <1>7 DEF Adding, InFlight
<1>14. Listing'
  BY <1>2, <1>13 DEF Inv, Listing
<1>15. Opened' /\ TopLoaded'
  BY <1>2 DEF Inv, Opened, TopLoaded, Top
<1>16. Following'
  <2>1. SUFFICES ASSUME calm, Idle PROVE Alone' /\ RightComic' /\ UpToDate'
    BY <1>2 DEF Following
  <2>2. \A j \in Slots : j # i => net'[j] = Nil \/ net'[j].kind = "world"
    BY <1>7, <2>1 DEF Idle
  <2>3. Alone' /\ RightComic'
    BY <2>2, <1>5, <1>7 DEF Alone, RightComic, InFlight
  <2>4. \A j \in Slots : ~InFlight(j, "comments")
    BY <2>1 DEF Idle, InFlight
  <2>5. UpToDate'
    BY <2>1, <2>4, <1>2 DEF Inv, Following, UpToDate, AllLoaded
  <2> QED  BY <2>3, <2>5
<1> QED  BY <1>9, <1>10, <1>11, <1>12, <1>14, <1>15, <1>16 DEF Inv

LEMMA TapReviewKeeps ==
  ASSUME Inv, NEW n, TapReview(n)
  PROVE  Inv'
<1> USE DEF server
<1>1. TypeOK /\ net \in [Slots -> RequestType \cup {Nil}]
      /\ reviewRows \in Seq(Ids) /\ listReviewWorld \in Seq(Ids)
  BY DEF Inv, TypeOK
<1>2. PICK b \in BOOLEAN : b = (reviewRows = Newest(listReviewWorld))
  OBVIOUS
<1> DEFINE k == ReviewAt(listReviewWorld, n)
           m == documents[reviewRows[n]]
           r == [Request("select", Nil, k) EXCEPT !.meant = m, !.sure = b]
<1>3. /\ n \in 1..Len(reviewRows) /\ n <= Len(listReviewWorld)
      /\ Sent(net, r) /\ calm' = (calm /\ Idle)
      /\ UNCHANGED <<userID, comicId, tab, stack, listCommentComic, listReviewWorld, reviewRows,
                     ready, documents, comments, listComment, lost>>
  BY <1>2 DEF TapReview, Calm
<1>4. n \in 1..Len(listReviewWorld) /\ n \in DOMAIN reviewRows
  BY <1>1, <1>3, LenProperties
<1>5. k \in ToSet(listReviewWorld) /\ k = Newest(listReviewWorld)[n] /\ reviewRows[n] \in ToSet(reviewRows)
  BY <1>1, <1>4, NewestFacts DEF ToSet
<1>6. k \in DOMAIN documents /\ reviewRows[n] \in DOMAIN documents /\ k \in Ids /\ m \in Comics
  BY <1>1, <1>5 DEF Inv, Known, TypeOK
<1>7. b => documents[k] = m
  BY <1>2, <1>5
<1>8. /\ r \in RequestType /\ r # Nil /\ r.kind = "select" /\ r.id = k
      /\ r.value = Nil /\ r.meant = m /\ r.sure = b
  <2>1. r \in RequestType /\ r.kind = "select" /\ r.id = k /\ r.value = Nil /\ r.meant = m /\ r.sure = b
    <3> HIDE DEF k, m
    <3> QED  BY <1>2, <1>6 DEF Request, RequestType
  <2> QED  BY <2>1, NilFacts
<1> HIDE DEF k, m, r
<1>9. net' \in [Slots -> RequestType \cup {Nil}]
  BY <1>1, <1>3, <1>8, SentFacts
<1>10. PICK i \in Slots : /\ net[i] = Nil /\ net'[i] = r
                          /\ \A j \in Slots \ {i} : net'[j] = net[j]
  BY <1>1, <1>3, <1>8, SentFacts
<1>11. \A j \in Slots : net'[j] # Nil /\ net'[j].value # Nil <=> net[j] # Nil /\ net[j].value # Nil
  BY <1>8, <1>10
<1>12. TypeOK'
  BY <1>1, <1>3, <1>9, <1>11, ReadyKept DEF TypeOK
<1>13. Answers' /\ Asking' /\ WorldKnown' /\ Known' /\ ComicSet'
  BY <1>3, <1>8, <1>10 DEF Inv, Answers, Asking, WorldKnown, Known, ComicSet, InFlight
<1>14. Tapped'
  BY <1>3, <1>6, <1>7, <1>8, <1>10 DEF Inv, Tapped, InFlight
<1>15. \A j \in Slots : /\ InFlight(j, "add")' <=> InFlight(j, "add")
                        /\ InFlight(j, "add") => net'[j] = net[j]
  BY <1>8, <1>10 DEF InFlight
<1>16. Sending' /\ Adding' = Adding
  BY <1>3, <1>15 DEF Inv, Sending, Adding
<1>17. Listing'
  BY <1>3, <1>16 DEF Inv, Listing
<1>18. Opened' /\ TopLoaded'
  BY <1>3 DEF Inv, Opened, TopLoaded, Top
<1>19. Following'
  <2>1. SUFFICES ASSUME calm, Idle PROVE Alone' /\ RightComic' /\ UpToDate'
    BY <1>3 DEF Following
  <2>2. \A j \in Slots : j # i => net'[j] = Nil \/ net'[j].kind = "world"
    BY <1>10, <2>1 DEF Idle
  <2>3. Alone' /\ RightComic'
    BY <2>2, <1>8, <1>10 DEF Alone, RightComic, InFlight
  <2>4. \A j \in Slots : ~InFlight(j, "comments")
    BY <2>1 DEF Idle, InFlight
  <2>5. UpToDate'
    BY <2>1, <2>4, <1>3 DEF Inv, Following, UpToDate, AllLoaded
  <2> QED  BY <2>3, <2>5
<1> QED  BY <1>12, <1>13, <1>14, <1>16, <1>17, <1>18, <1>19 DEF Inv

LEMMA RequestFailsKeeps ==
  ASSUME Inv, NEW i \in Slots, RequestFails(i)
  PROVE  Inv'
<1> USE DEF server
<1>1. TypeOK /\ net \in [Slots -> RequestType \cup {Nil}]
  BY DEF Inv, TypeOK
<1>2. /\ net[i] # Nil /\ net[i].value = Nil /\ net' = [net EXCEPT ![i] = Nil]
      /\ calm' = (calm /\ net[i].kind = "world")
      /\ UNCHANGED <<userID, comicId, tab, stack, listCommentComic, listReviewWorld, reviewRows,
                     ready, documents, comments, listComment, lost>>
  BY DEF RequestFails
<1>3. /\ net' \in [Slots -> RequestType \cup {Nil}] /\ net'[i] = Nil
      /\ \A j \in Slots \ {i} : net'[j] = net[j]
  BY <1>1, <1>2
<1>4. TypeOK'
  BY <1>1, <1>2, <1>3, ReadyKept DEF TypeOK
<1>5. Answers' /\ Asking' /\ WorldKnown' /\ Tapped' /\ Known' /\ ComicSet'
  BY <1>2, <1>3 DEF Inv, Answers, Asking, WorldKnown, Tapped, Known, ComicSet, InFlight
<1>6. Sending'
  BY <1>2, <1>3 DEF Inv, Sending, InFlight
<1>7. DOMAIN documents \ (lost \cup Adding') = DOMAIN documents \ (lost \cup Adding)
  <2>1. CASE InFlight(i, "add")
    <3>1. net[i].id \notin DOMAIN documents /\ Adding = Adding' \cup {net[i].id}
      BY <2>1, <1>2, <1>3 DEF Inv, Sending, Adding, InFlight
    <3> QED  BY <3>1
  <2>2. CASE ~InFlight(i, "add")
    <3>1. Adding' = Adding
      BY <2>2, <1>3 DEF Adding, InFlight
    <3> QED  BY <3>1
  <2> QED  BY <2>1, <2>2
<1>8. Listing'
  BY <1>2, <1>7 DEF Inv, Listing
<1>9. Opened' /\ TopLoaded'
  BY <1>2 DEF Inv, Opened, TopLoaded, Top
<1>10. Following'
  <2>1. SUFFICES ASSUME calm, net[i].kind = "world" PROVE Alone' /\ RightComic' /\ UpToDate'
    BY <1>2 DEF Following
  <2>2. Alone' /\ RightComic'
    BY <2>1, <1>2, <1>3 DEF Inv, Following, Alone, RightComic, InFlight
  <2>3. (\A j \in Slots : ~InFlight(j, "comments")') => \A j \in Slots : ~InFlight(j, "comments")
    BY <2>1, <1>3 DEF InFlight
  <2>4. UpToDate'
    BY <2>1, <2>3, <1>2 DEF Inv, Following, UpToDate, AllLoaded
  <2> QED  BY <2>2, <2>4
<1> QED  BY <1>4, <1>5, <1>6, <1>8, <1>9, <1>10 DEF Inv

(* What the server's documents are once comments have reached it.          *)
LEMMA SentDocuments ==
  ASSUME NEW i
  PROVE  /\ DOMAIN WithSent({i}) = DOMAIN documents \cup {net[i].id}
         /\ WithSent({i})[net[i].id] = net[i].comic
         /\ \A k \in DOMAIN documents : k # net[i].id => WithSent({i})[k] = documents[k]
         /\ WithSent({i}) = [k \in DOMAIN WithSent({i}) |-> WithSent({i})[k]]
<1>1. \A k : k \in {net[h].id : h \in {i}} <=> k = net[i].id
  OBVIOUS
<1>2. (CHOOSE h \in {i} : net[h].id = net[i].id) = i
  OBVIOUS
<1> QED  BY <1>1, <1>2 DEF WithSent

LEMMA ReplyKeeps ==
  ASSUME Inv, NEW i \in Slots, Reply(i)
  PROVE  Inv'
<1> USE DEF server
<1> DEFINE r == net[i]
<1>1. TypeOK /\ net \in [Slots -> RequestType \cup {Nil}] /\ ready \in Seq(Slots)
      /\ documents \in [DOMAIN documents -> Comics] /\ DOMAIN documents \subseteq Ids
  BY DEF Inv, TypeOK
<1>2. /\ r # Nil /\ r.value = Nil /\ ready' = Append(ready, i)
      /\ UNCHANGED <<userID, comicId, tab, stack, listCommentComic, listReviewWorld, reviewRows,
                     comments, listComment, calm, lost>>
  BY DEF Reply
<1>3. r \in RequestType
  BY <1>1, <1>2
<1>4. PICK v : /\ net' = [net EXCEPT ![i].value = v]
               /\ \/ r.kind = "world" /\ v = listComment /\ documents' = documents
                  \/ r.kind = "comments" /\ v = comments[r.comic] /\ documents' = documents
                  \/ r.kind = "select" /\ v = documents[r.id] /\ documents' = documents
                  \/ r.kind = "add" /\ v = r.id /\ documents' = WithSent({i})
  BY DEF Reply
<1>5. /\ r.kind = "world" => v \in Seq(Ids) /\ ToSet(v) \subseteq DOMAIN documents
      /\ r.kind = "comments" => (calm => r.comic = comicId /\ comicId \in Comics)
      /\ r.kind = "select" => r.id \in DOMAIN documents /\ v = documents[r.id] /\ v \in Comics
      /\ r.kind = "add" => /\ v = r.id /\ v \in New /\ v \in Ids /\ v \notin lost
                           /\ r.id \notin DOMAIN documents /\ r.comic \in Comics
  <2>1. r.kind = "world" => v \in Seq(Ids) /\ ToSet(v) \subseteq DOMAIN documents
    BY <1>1, <1>4 DEF Inv, TypeOK, Listing
  <2>2. r.kind = "comments" => (calm => r.comic = comicId /\ comicId \in Comics)
    BY <1>2 DEF Inv, Following, RightComic, InFlight
  <2>3. r.kind = "select" => r.id \in DOMAIN documents /\ v = documents[r.id] /\ v \in Comics
    BY <1>1, <1>2, <1>4 DEF Inv, Tapped, InFlight
  <2>4. r.kind = "add" => /\ v = r.id /\ v \in New /\ v \in Ids /\ v \notin lost
                          /\ r.id \notin DOMAIN documents /\ r.comic \in Comics
    BY <1>2, <1>4 DEF Inv, Sending, InFlight, Ids
  <2> QED  BY <2>1, <2>2, <2>3, <2>4
<1>6. r.kind = "comments" => v \in Seq(Ids)
  <2>1. r.kind = "comments" => r.comic \in Comics
    BY <1>2 DEF Inv, Asking, InFlight
  <2> QED  BY <2>1, <1>1, <1>4 DEF TypeOK
<1>7. v \in Comics \cup Ids \cup Seq(Ids) /\ v # Nil
  BY <1>3, <1>5, <1>6, FieldsTyped, NilFacts
<1>8. /\ [r EXCEPT !.value = v] \in RequestType
      /\ [r EXCEPT !.value = v].kind = r.kind /\ [r EXCEPT !.value = v].comic = r.comic
      /\ [r EXCEPT !.value = v].id = r.id /\ [r EXCEPT !.value = v].value = v
      /\ [r EXCEPT !.value = v].meant = r.meant /\ [r EXCEPT !.value = v].sure = r.sure
  <2> HIDE DEF r
  <2> QED  BY <1>3, <1>7 DEF RequestType
<1>9. /\ net' \in [Slots -> RequestType \cup {Nil}]
      /\ net'[i] # Nil
      /\ net'[i].kind = r.kind /\ net'[i].comic = r.comic /\ net'[i].id = r.id
      /\ net'[i].value = v /\ net'[i].meant = r.meant /\ net'[i].sure = r.sure
      /\ \A j \in Slots \ {i} : net'[j] = net[j]
  <2>1. /\ net'[i] = [r EXCEPT !.value = v] /\ \A j \in Slots \ {i} : net'[j] = net[j]
        /\ net' = [net EXCEPT ![i] = [r EXCEPT !.value = v]]
    BY <1>1, <1>4
  <2> QED  BY <2>1, <1>1, <1>8, NilFacts
<1>10. \A j \in Slots : \A kind : InFlight(j, kind)' <=> InFlight(j, kind)
  BY <1>2, <1>9 DEF InFlight
<1>11. /\ documents' \in [DOMAIN documents' -> Comics] /\ DOMAIN documents' \subseteq Ids
       /\ DOMAIN documents' = IF r.kind = "add" THEN DOMAIN documents \cup {r.id} ELSE DOMAIN documents
       /\ \A k \in DOMAIN documents : documents'[k] = documents[k]
       /\ r.kind = "add" => documents'[r.id] = r.comic
  <2>1. CASE r.kind # "add"
    BY <2>1, <1>1, <1>4
  <2>2. CASE r.kind = "add"
    <3> HIDE DEF r
    <3>1. /\ DOMAIN documents' = DOMAIN documents \cup {r.id} /\ documents'[r.id] = r.comic
          /\ \A k \in DOMAIN documents : k # r.id => documents'[k] = documents[k]
          /\ documents' = [k \in DOMAIN documents' |-> documents'[k]]
      BY <2>2, <1>4, SentDocuments DEF r
    <3>2. r.id \in Ids /\ r.id \notin DOMAIN documents /\ r.comic \in Comics
      BY <2>2, <1>5
    <3>3. \A k \in DOMAIN documents' : documents'[k] \in Comics
      BY <3>1, <3>2, <1>1
    <3>4. documents' \in [DOMAIN documents' -> Comics]
      BY <3>1, <3>3
    <3> QED  BY <3>1, <3>2, <3>4, <2>2, <1>1
  <2> QED  BY <2>1, <2>2
<1>12. ToSet(ready) = {j \in Slots : net[j] # Nil /\ net[j].value # Nil} /\ i \notin ToSet(ready)
  BY <1>1, <1>2 DEF TypeOK
<1>13. /\ ready' \in Seq(Slots) /\ IsInjective(ready')
       /\ ToSet(ready') = {j \in Slots : net'[j] # Nil /\ net'[j].value # Nil}
  <2>1. ready' \in Seq(Slots) /\ IsInjective(ready') /\ ToSet(ready') = ToSet(ready) \cup {i}
    BY <1>1, <1>2, <1>12, AppendFacts DEF TypeOK
  <2> QED  BY <2>1, <1>7, <1>9, <1>12
<1>14. TypeOK'
  BY <1>1, <1>2, <1>9, <1>11, <1>13 DEF TypeOK
<1>15. Answers' /\ Asking'
  BY <1>2, <1>5, <1>6, <1>9, <1>10 DEF Inv, Answers, Asking, InFlight
<1>16. ComicSet'
  BY <1>2, <1>10 DEF Inv, ComicSet
<1>17. Sending'
  <2>1. ASSUME NEW j \in Slots, InFlight(j, "add")'
        PROVE  LET q == net'[j] IN
               /\ q.id \in New \ lost' /\ q.comic \in Comics
               /\ q.sure => q.comic = comicId'
               /\ IF q.value = Nil THEN q.id \notin DOMAIN documents'
                  ELSE q.value = q.id /\ q.id \in DOMAIN documents' /\ documents'[q.id] = q.comic
    <3>1. InFlight(j, "add")
      BY <2>1, <1>10
    <3>2. CASE j = i
      <4>1. r.kind = "add"
        BY <3>1, <3>2 DEF InFlight
      <4> QED  BY <4>1, <3>1, <3>2, <1>2, <1>5, <1>7, <1>9, <1>11 DEF Inv, Sending
    <3>3. CASE j # i
      <4>1. net'[j] = net[j]
        BY <3>3, <1>9
      <4>2. r.kind = "add" => net[j].id # r.id
        BY <3>1, <3>3, <1>2 DEF Inv, Sending, InFlight
      <4> QED  BY <4>1, <4>2, <3>1, <1>2, <1>11 DEF Inv, Sending
    <3> QED  BY <3>2, <3>3
  <2>2. \A h, j \in Slots : InFlight(h, "add")' /\ InFlight(j, "add")' /\ net'[h].id = net'[j].id => h = j
    BY <1>9, <1>10 DEF Inv, Sending
  <2> QED  BY <2>1, <2>2 DEF Sending
<1>18. Adding' = Adding /\ (r.kind = "add" => r.id \in Adding)
  <2>1. {j \in Slots : InFlight(j, "add")'} = {j \in Slots : InFlight(j, "add")}
    BY <1>10
  <2>2. \A j \in Slots : net'[j].id = net[j].id
    BY <1>9
  <2> QED  BY <2>1, <2>2, <1>2 DEF Adding, InFlight
<1>19. Listing'
  <2>1. DOMAIN documents' \ (lost \cup Adding) = DOMAIN documents \ (lost \cup Adding)
    BY <1>11, <1>18
  <2> QED  BY <2>1, <1>2, <1>18 DEF Inv, Listing
<1>20. Known'
  BY <1>2, <1>11 DEF Inv, Known
<1>21. WorldKnown'
  <2>1. ASSUME NEW j \in Slots, InFlight(j, "world")', net'[j].value # Nil
        PROVE  ToSet(net'[j].value) \subseteq DOMAIN documents
    BY <2>1, <1>5, <1>9, <1>10 DEF Inv, WorldKnown, InFlight
  <2> QED  BY <2>1, <1>11 DEF WorldKnown
<1>22. Tapped'
  <2>1. ASSUME NEW j \in Slots, InFlight(j, "select")'
        PROVE  LET q == net'[j] IN
               /\ q.id \in DOMAIN documents' /\ q.meant \in Comics
               /\ q.sure => documents'[q.id] = q.meant
               /\ q.value # Nil => q.value = documents'[q.id]
    <3>1. InFlight(j, "select")
      BY <2>1, <1>10
    <3>2. /\ net[j].id \in DOMAIN documents /\ net[j].meant \in Comics
          /\ net[j].sure => documents[net[j].id] = net[j].meant
          /\ net[j].value # Nil => net[j].value = documents[net[j].id]
      BY <3>1 DEF Inv, Tapped
    <3>3. CASE j = i
      BY <3>1, <3>2, <3>3, <1>5, <1>9, <1>11 DEF InFlight
    <3>4. CASE j # i
      BY <3>1, <3>2, <3>4, <1>9, <1>11
    <3> QED  BY <3>3, <3>4
  <2> QED  BY <2>1 DEF Tapped
<1>23. Opened' /\ TopLoaded'
  BY <1>2 DEF Inv, Opened, TopLoaded, Top
<1>24. Following'
  <2>1. SUFFICES ASSUME calm PROVE Alone' /\ RightComic' /\ UpToDate'
    BY <1>2 DEF Following
  <2>2. Alone /\ RightComic /\ UpToDate
    BY <2>1 DEF Inv, Following
  <2>3. Alone'
    BY <2>2, <1>2, <1>9 DEF Alone
  <2>4. RightComic'
    BY <2>1, <2>2, <1>2, <1>4, <1>5, <1>9, <1>10 DEF RightComic, InFlight
  <2>5. UpToDate'
    BY <2>2, <1>2, <1>10 DEF UpToDate, AllLoaded
  <2> QED  BY <2>3, <2>4, <2>5
<1> QED  BY <1>14, <1>15, <1>16, <1>17, <1>19, <1>20, <1>21, <1>22, <1>23, <1>24 DEF Inv

LEMMA WorldArrivesKeeps ==
  ASSUME Inv, NEW i \in Slots, WorldArrives(i)
  PROVE  Inv'
<1> USE DEF server
<1>1. TypeOK /\ net \in [Slots -> RequestType \cup {Nil}]
  BY DEF Inv, TypeOK
<1>2. /\ ready # <<>> /\ i = Head(ready) /\ net[i].kind = "world" /\ ready' = Tail(ready)
      /\ listReviewWorld' = net[i].value /\ net' = [net EXCEPT ![i] = Nil]
      /\ UNCHANGED <<userID, comicId, tab, stack, listCommentComic, reviewRows,
                     documents, comments, listComment, calm, lost>>
  BY DEF WorldArrives, Runs
<1>3. /\ ready' \in Seq(Slots) /\ IsInjective(ready') /\ ToSet(ready') = ToSet(ready) \ {i}
      /\ net[i] # Nil /\ net[i].value # Nil
  BY <1>1, <1>2, HeadFacts
<1>4. /\ net' \in [Slots -> RequestType \cup {Nil}] /\ net'[i] = Nil
      /\ \A j \in Slots \ {i} : net'[j] = net[j]
  BY <1>1, <1>2
<1>5. net[i].value \in Seq(Ids) /\ ToSet(net[i].value) \subseteq DOMAIN documents
  BY <1>2, <1>3 DEF Inv, Answers, WorldKnown, InFlight
<1>6. TypeOK'
  BY <1>1, <1>2, <1>3, <1>4, <1>5 DEF TypeOK
<1>7. \A j \in Slots : Stays(j) \/ MakesWay(j)
  BY <1>2, <1>4 DEF Stays, MakesWay, InFlight
<1>8. Answers' /\ Asking' /\ Sending' /\ Listing' /\ WorldKnown' /\ Tapped'
  BY <1>1, <1>2, <1>4, <1>7, RequestsKept DEF Inv
<1>9. Known' /\ ComicSet'
  BY <1>2, <1>4, <1>5 DEF Inv, Known, ComicSet, InFlight
<1>10. Opened' /\ TopLoaded'
  BY <1>2 DEF Inv, Opened, TopLoaded, Top
<1>11. Following'
  <2>1. (\A j \in Slots : ~InFlight(j, "comments")') => \A j \in Slots : ~InFlight(j, "comments")
    BY <1>2, <1>4 DEF InFlight
  <2>2. SUFFICES ASSUME calm PROVE Alone' /\ RightComic' /\ UpToDate'
    BY <1>2 DEF Following
  <2>3. Alone' /\ RightComic'
    BY <2>2, <1>2, <1>4 DEF Inv, Following, Alone, RightComic, InFlight
  <2>4. UpToDate'
    BY <2>1, <2>2, <1>2 DEF Inv, Following, UpToDate, AllLoaded
  <2> QED  BY <2>3, <2>4
<1> QED  BY <1>6, <1>8, <1>9, <1>10, <1>11 DEF Inv

LEMMA CommentsArriveKeeps ==
  ASSUME Inv, NEW i \in Slots, CommentsArrive(i)
  PROVE  Inv'
<1> USE DEF server
<1>1. TypeOK /\ net \in [Slots -> RequestType \cup {Nil}]
  BY DEF Inv, TypeOK
<1>2. /\ ready # <<>> /\ i = Head(ready) /\ net[i].kind = "comments" /\ ready' = Tail(ready)
      /\ listCommentComic' = net[i].value /\ net' = [net EXCEPT ![i] = Nil]
      /\ UNCHANGED <<userID, comicId, tab, stack, listReviewWorld, reviewRows,
                     documents, comments, listComment, calm, lost>>
  BY DEF CommentsArrive, Runs
<1>3. /\ ready' \in Seq(Slots) /\ IsInjective(ready') /\ ToSet(ready') = ToSet(ready) \ {i}
      /\ net[i] # Nil /\ net[i].value # Nil
  BY <1>1, <1>2, HeadFacts
<1>4. /\ net' \in [Slots -> RequestType \cup {Nil}] /\ net'[i] = Nil
      /\ \A j \in Slots \ {i} : net'[j] = net[j]
  BY <1>1, <1>2
<1>5. net[i].value \in Seq(Ids)
  BY <1>2, <1>3 DEF Inv, Answers, InFlight
<1>6. TypeOK'
  BY <1>1, <1>2, <1>3, <1>4, <1>5 DEF TypeOK
<1>7. \A j \in Slots : Stays(j) \/ MakesWay(j)
  BY <1>2, <1>4 DEF Stays, MakesWay, InFlight
<1>8. Answers' /\ Asking' /\ Sending' /\ Listing' /\ WorldKnown' /\ Tapped'
  BY <1>1, <1>2, <1>4, <1>7, RequestsKept DEF Inv
<1>9. Known' /\ ComicSet'
  BY <1>2, <1>4 DEF Inv, Known, ComicSet, InFlight
<1>10. Opened' /\ TopLoaded'
  BY <1>2 DEF Inv, Opened, TopLoaded, Top
<1>11. Following'
  <2>1. SUFFICES ASSUME calm PROVE Alone' /\ RightComic' /\ UpToDate'
    BY <1>2 DEF Following
  <2>2. Alone' /\ RightComic'
    BY <2>1, <1>2, <1>4 DEF Inv, Following, Alone, RightComic, InFlight
  <2>3. net[i].value = comments[comicId]
    BY <2>1, <1>2, <1>3 DEF Inv, Following, RightComic, InFlight
  <2> QED  BY <2>2, <2>3, <1>2 DEF UpToDate
<1> QED  BY <1>6, <1>8, <1>9, <1>10, <1>11 DEF Inv

(* The comment that was sent joins the arrays and the lists.               *)
LEMMA CommentAddedKeeps ==
  ASSUME Inv, NEW i \in Slots, CommentAdded(i)
  PROVE  Inv'
<1> USE DEF server
<1> DEFINE k == net[i].id
<1>1. TypeOK /\ net \in [Slots -> RequestType \cup {Nil}]
      /\ comments \in [Comics -> Seq(Ids)] /\ listComment \in Seq(Ids)
      /\ listCommentComic \in Seq(Ids) /\ listReviewWorld \in Seq(Ids)
  BY DEF Inv, TypeOK
<1>2. /\ ready # <<>> /\ i = Head(ready) /\ net[i].kind = "add" /\ ready' = Tail(ready)
      /\ comments' = [comments EXCEPT ![comicId] = Append(comments[comicId], k)]
      /\ listComment' = Append(listComment, k)
      /\ listCommentComic' = Append(listCommentComic, k)
      /\ listReviewWorld' = Append(listReviewWorld, k)
      /\ net' = [net EXCEPT ![i] = Nil]
      /\ UNCHANGED <<userID, comicId, tab, stack, reviewRows, documents, calm, lost>>
  BY DEF CommentAdded, Runs
<1>3. /\ ready' \in Seq(Slots) /\ IsInjective(ready') /\ ToSet(ready') = ToSet(ready) \ {i}
      /\ net[i] # Nil /\ net[i].value # Nil
  BY <1>1, <1>2, HeadFacts
<1>4. /\ net' \in [Slots -> RequestType \cup {Nil}] /\ net'[i] = Nil
      /\ \A j \in Slots \ {i} : net'[j] = net[j]
  BY <1>1, <1>2
<1>5. InFlight(i, "add")
  BY <1>2, <1>3 DEF InFlight
<1>6. comicId \in Comics
  BY <1>1, <1>5 DEF Inv, ComicSet, TypeOK
<1>7. k \in New /\ k \notin lost /\ k \in DOMAIN documents /\ k \in Ids /\ k \in Adding
  BY <1>3, <1>5 DEF Inv, Sending, Ids, Adding
<1>8. Adding' = Adding \ {k}
  <2>1. \A j \in Slots : j # i => (InFlight(j, "add")' <=> InFlight(j, "add")) /\ net'[j] = net[j]
    BY <1>4 DEF InFlight
  <2>2. ~InFlight(i, "add")'
    BY <1>4 DEF InFlight
  <2>3. \A j \in Slots : InFlight(j, "add") /\ j # i => net[j].id # k
    BY <1>5 DEF Inv, Sending
  <2> QED  BY <2>1, <2>2, <2>3, <1>5 DEF Adding
<1> HIDE DEF k
<1>9. /\ Append(comments[comicId], k) \in Seq(Ids)
      /\ ToSet(Append(comments[comicId], k)) = ToSet(comments[comicId]) \cup {k}
      /\ IsInjective(comments[comicId]) /\ k \notin ToSet(comments[comicId])
           => IsInjective(Append(comments[comicId], k))
  <2>1. comments[comicId] \in Seq(Ids)
    BY <1>1, <1>6
  <2> QED  BY <2>1, <1>7, AppendFacts
<1>10. /\ listComment' \in Seq(Ids) /\ ToSet(listComment') = ToSet(listComment) \cup {k}
       /\ IsInjective(listComment) /\ k \notin ToSet(listComment) => IsInjective(listComment')
  BY <1>1, <1>2, <1>7, AppendFacts
<1>11. /\ listCommentComic' \in Seq(Ids)
       /\ listReviewWorld' \in Seq(Ids) /\ ToSet(listReviewWorld') = ToSet(listReviewWorld) \cup {k}
  BY <1>1, <1>2, <1>7, AppendFacts
<1>12. /\ comments' \in [Comics -> Seq(Ids)]
       /\ comments'[comicId] = Append(comments[comicId], k)
       /\ \A c \in Comics \ {comicId} : comments'[c] = comments[c]
  BY <1>1, <1>2, <1>6, <1>9
<1>13. TypeOK'
  BY <1>1, <1>2, <1>3, <1>4, <1>10, <1>11, <1>12 DEF TypeOK
<1>14. Answers' /\ Asking' /\ WorldKnown' /\ Tapped' /\ ComicSet'
  BY <1>2, <1>4 DEF Inv, Answers, Asking, WorldKnown, Tapped, ComicSet, InFlight
<1>15. Known'
  BY <1>2, <1>7, <1>11 DEF Inv, Known
<1>16. Sending'
  BY <1>2, <1>4 DEF Inv, Sending, InFlight
<1>17. Listing'
  <2>1. Listing /\ k \notin ToSet(listComment)
    BY <1>7 DEF Inv, Listing
  <2>2. \A c \in Comics : k \notin ToSet(comments[c])
    BY <2>1 DEF Listing
  <2>3. ToSet(listComment') = DOMAIN documents' \ (lost' \cup Adding')
    BY <2>1, <1>2, <1>7, <1>8, <1>10 DEF Listing
  <2>4. IsInjective(listComment')
    BY <2>1, <1>10 DEF Listing
  <2>5. \A c \in Comics : ToSet(comments'[c]) = IF c = comicId THEN ToSet(comments[c]) \cup {k}
                                                ELSE ToSet(comments[c])
    BY <1>9, <1>12
  <2>6. \A c \in Comics : IsInjective(comments'[c])
    BY <2>1, <2>2, <1>9, <1>12 DEF Listing
  <2>7. \A h \in ToSet(listComment') : \E c \in Comics : h \in ToSet(comments'[c])
    BY <2>1, <2>5, <1>6, <1>10 DEF Listing
  <2>8. \A c \in Comics : ToSet(comments'[c]) \subseteq ToSet(listComment')
    BY <2>1, <2>5, <1>10 DEF Listing
  <2>9. ASSUME NEW c \in Comics, NEW d \in Comics, NEW h \in ToSet(comments'[c]) \cap ToSet(comments'[d])
        PROVE  c = d
    <3>1. CASE h = k
      BY <3>1, <2>2, <2>5, <2>9
    <3>2. CASE h # k
      <4>1. h \in ToSet(comments[c]) /\ h \in ToSet(comments[d])
        <5>1. h \in ToSet(comments'[c]) /\ h \in ToSet(comments'[d])
          BY <2>9
        <5>2. \A e \in Comics : h \in ToSet(comments'[e]) => h \in ToSet(comments[e])
          BY <3>2, <2>5
        <5> QED  BY <5>1, <5>2, <2>9
      <4> QED  BY <4>1, <2>1 DEF Listing
    <3> QED  BY <3>1, <3>2
  <2>10. \A c, d \in Comics : ToSet(comments'[c]) \cap ToSet(comments'[d]) # {} => c = d
    BY <2>9
  <2> QED  BY <2>3, <2>4, <2>6, <2>7, <2>8, <2>10 DEF Listing
<1>18. Opened' /\ TopLoaded'
  BY <1>2 DEF Inv, Opened, TopLoaded, Top
<1>19. Following'
  <2>1. SUFFICES ASSUME calm PROVE Alone' /\ RightComic' /\ UpToDate'
    BY <1>2 DEF Following
  <2>2. Alone /\ RightComic /\ UpToDate
    BY <2>1 DEF Inv, Following
  <2>3. Alone'
    BY <2>2, <1>4 DEF Alone
  <2>4. \A j \in Slots : ~InFlight(j, "comments")
    BY <2>2, <1>2, <1>3 DEF Alone, InFlight
  <2>5. RightComic'
    BY <2>4, <1>4 DEF RightComic, InFlight
  <2>6. UpToDate'
    BY <2>2, <2>4, <1>2, <1>12 DEF UpToDate, AllLoaded
  <2> QED  BY <2>3, <2>5, <2>6
<1> QED  BY <1>13, <1>14, <1>15, <1>16, <1>17, <1>18, <1>19 DEF Inv

(* The comic of a tapped row is pushed, and loaded if its tab is shown.    *)
LEMMA ComicSelectedKeeps ==
  ASSUME Inv, NEW i \in Slots, ComicSelected(i)
  PROVE  Inv'
<1> USE DEF server
<1> DEFINE freed == [net EXCEPT ![i] = Nil]
           requests == Unsettled(freed)
           pushed == [t \in Tabs |-> IF t = Review
                                     THEN Append(Renamed(stack[t]), View(Nil, net[i].meant, net[i].sure))
                                     ELSE Renamed(stack[t])]
<1>1. TypeOK /\ net \in [Slots -> RequestType \cup {Nil}] /\ stack \in [Tabs -> Seq(ViewType)]
      /\ Review \in Tabs
  BY ConstantsAssumption DEF Inv, TypeOK
<1>2. /\ ready # <<>> /\ i = Head(ready) /\ net[i].kind = "select" /\ ready' = Tail(ready)
      /\ comicId' = net[i].value
      /\ UNCHANGED <<userID, tab, listReviewWorld, reviewRows, documents, comments, listComment,
                     calm, lost>>
  BY DEF ComicSelected, Runs
<1>3. \/ tab = Review /\ Load(Review, pushed, comicId', requests)
      \/ tab # Review /\ stack' = pushed /\ net' = requests /\ UNCHANGED listCommentComic
  BY DEF ComicSelected
<1>4. /\ ready' \in Seq(Slots) /\ IsInjective(ready') /\ ToSet(ready') = ToSet(ready) \ {i}
      /\ net[i] # Nil /\ net[i].value # Nil /\ net[i] \in RequestType
  BY <1>1, <1>2, HeadFacts
<1>5. /\ net[i].value \in Comics /\ net[i].meant \in Comics /\ net[i].sure \in BOOLEAN
      /\ net[i].sure => net[i].meant = net[i].value
  BY <1>2, <1>4, FieldsTyped DEF Inv, Answers, Tapped, InFlight
<1>6. PICK c \in Comics : c = net[i].value
  BY <1>5
<1>7. comicId' = c
  BY <1>2, <1>6
<1>8. PICK v \in ViewType : /\ v.comic = Nil /\ (v.sure => v.meant = c)
                            /\ pushed[Review] = Append(Renamed(stack[Review]), v)
  <2>1. PICK v \in ViewType : v = View(Nil, net[i].meant, net[i].sure) /\ v.comic = Nil
                              /\ (v.sure => v.meant = c)
    BY <1>5, <1>6, ViewTyped
  <2>2. pushed[Review] = Append(Renamed(stack[Review]), View(Nil, net[i].meant, net[i].sure))
    BY <1>1
  <2> HIDE DEF pushed
  <2> QED  BY <2>1, <2>2
<1>9. freed \in [Slots -> RequestType \cup {Nil}] /\ freed[i] = Nil
      /\ \A j \in Slots \ {i} : freed[j] = net[j]
  BY <1>1
<1> HIDE DEF freed
<1>10. /\ requests \in [Slots -> RequestType \cup {Nil}]
       /\ \A j \in Slots : requests[j] = Nil <=> freed[j] = Nil
       /\ \A j \in Slots : freed[j] # Nil =>
            /\ requests[j].kind = freed[j].kind /\ requests[j].comic = freed[j].comic
            /\ requests[j].id = freed[j].id /\ requests[j].value = freed[j].value
            /\ requests[j].meant = freed[j].meant
            /\ freed[j].kind = "add" => ~requests[j].sure
            /\ freed[j].kind # "add" => requests[j] = freed[j]
  BY <1>9, UnsettledFacts
<1>11. Renamed(stack[Review]) \in Seq(ViewType)
  BY <1>1, RenamedFacts
<1>12. /\ pushed[Review] = Append(Renamed(stack[Review]), v)
       /\ \A t \in Tabs \ {Review} : pushed[t] = Renamed(stack[t])
       /\ pushed = [t \in Tabs |-> pushed[t]]
  <2>1. \A t \in Tabs \ {Review} : pushed[t] = Renamed(stack[t])
    OBVIOUS
  <2>2. pushed = [t \in Tabs |-> pushed[t]]
    OBVIOUS
  <2> HIDE DEF pushed
  <2> QED  BY <2>1, <2>2, <1>8
<1> HIDE DEF pushed, requests
<1>13. pushed \in [Tabs -> Seq(ViewType)] /\ pushed[Review] # <<>> /\ Last(pushed[Review]) = v
  <2>1. /\ pushed[Review] \in Seq(ViewType) /\ pushed[Review] # <<>> /\ Last(pushed[Review]) = v
    BY ONLY <1>8, <1>11, AppendFacts
  <2>2. \A t \in Tabs : pushed[t] \in Seq(ViewType)
    BY <2>1, <1>1, <1>12, RenamedFacts
  <2> QED  BY <2>1, <2>2, <1>12
(* The views pushed are those of before, not sure unless they are loaded.  *)
<1>14. ASSUME NEW t \in Tabs, NEW n \in DOMAIN pushed[t]
       PROVE  /\ pushed[t][n] \in ViewType
              /\ pushed[t][n].sure => pushed[t][n].meant = IF pushed[t][n].comic = Nil THEN c
                                                           ELSE pushed[t][n].comic
  <2>1. pushed[t][n] \in ViewType
    BY <1>13, LenProperties, ElementOfSeq
  <2>2. ASSUME n \in DOMAIN stack[t], pushed[t][n] = Renamed(stack[t])[n], pushed[t][n].sure
        PROVE  pushed[t][n].meant = IF pushed[t][n].comic = Nil THEN c ELSE pushed[t][n].comic
    <3>1. /\ pushed[t][n].comic = stack[t][n].comic /\ pushed[t][n].meant = stack[t][n].meant
          /\ stack[t][n].sure /\ stack[t][n].comic # Nil
      BY <2>2, <1>1, RenamedFacts
    <3> QED  BY <3>1, <2>2 DEF Inv, Opened
  <2>3. CASE t # Review
    <3>1. n \in DOMAIN stack[t] /\ pushed[t][n] = Renamed(stack[t])[n]
      BY <2>3, <1>1, <1>12, <1>14, RenamedFacts
    <3> QED  BY <3>1, <2>1, <2>2
  <2>4. CASE t = Review
    <3>1. /\ DOMAIN pushed[t] = DOMAIN Renamed(stack[t]) \cup {Len(Renamed(stack[t])) + 1}
          /\ \A h \in DOMAIN Renamed(stack[t]) : pushed[t][h] = Renamed(stack[t])[h]
          /\ pushed[t][Len(Renamed(stack[t])) + 1] = v
      BY <2>4, <1>8, <1>11, <1>12, AppendFacts
    <3>2. CASE n \in DOMAIN Renamed(stack[t])
      <4>1. n \in DOMAIN stack[t] /\ pushed[t][n] = Renamed(stack[t])[n]
        BY <3>1, <3>2, <1>1, RenamedFacts
      <4> QED  BY <4>1, <2>1, <2>2
    <3>3. CASE n = Len(Renamed(stack[t])) + 1
      BY <3>1, <3>3, <2>1, <1>8
    <3> QED  BY <3>1, <3>2, <3>3, <1>14
  <2> QED  BY <2>3, <2>4
<1>15. Known' /\ ComicSet'
  BY <1>2, <1>7, NilFacts DEF Inv, Known, ComicSet
<1>16. CASE tab = Review /\ Load(Review, pushed, comicId', requests)
  <2>1. Load(Review, pushed, c, requests) /\ pushed \in [Tabs -> Seq(ViewType)]
        /\ pushed[Review] # <<>> /\ Review \in Tabs /\ c \in Comics
    BY <1>1, <1>7, <1>13, <1>16
  <2>2. /\ stack' \in [Tabs -> Seq(ViewType)]
        /\ \A s \in Tabs : DOMAIN stack'[s] = DOMAIN pushed[s]
        /\ \A s \in Tabs : \A n \in DOMAIN pushed[s] :
             ~(s = Review /\ n = Len(pushed[Review])) => stack'[s][n] = pushed[s][n]
        /\ Len(pushed[Review]) \in DOMAIN pushed[Review]
        /\ stack'[Review][Len(pushed[Review])] = [pushed[Review][Len(pushed[Review])] EXCEPT !.comic = c]
        /\ Last(stack'[Review]).comic = c
    BY ONLY <2>1, LoadFacts
  <2>3. pushed[Review][Len(pushed[Review])] = v
    BY <1>13 DEF Last
  <2>4. [v EXCEPT !.comic = c].comic = c /\ [v EXCEPT !.comic = c].meant = v.meant
        /\ [v EXCEPT !.comic = c].sure = v.sure
    BY <1>8, ViewFields
  <2>5. /\ Request("comments", c, Nil) \in RequestType
        /\ Request("comments", c, Nil).kind = "comments" /\ Request("comments", c, Nil).comic = c
        /\ Request("comments", c, Nil).value = Nil /\ Request("comments", c, Nil) # Nil
    BY RequestTyped, NilFacts
  <2>6. Sent(requests, Request("comments", c, Nil)) /\ listCommentComic' = <<>>
    BY <2>1 DEF Load
  <2>7. net' \in [Slots -> RequestType \cup {Nil}]
    BY <2>5, <2>6, <1>10, SentFacts
  <2>8. PICK h \in Slots : /\ requests[h] = Nil /\ net'[h] = Request("comments", c, Nil)
                           /\ \A j \in Slots \ {h} : net'[j] = requests[j]
    BY <2>5, <2>6, <1>10, SentFacts
  <2>9. \A j \in Slots : Stays(j) \/ MakesWay(j)
    BY <2>5, <2>8, <1>2, <1>9, <1>10 DEF Stays, MakesWay, InFlight
  <2>10. \A j \in Slots : net'[j] # Nil /\ net'[j].value # Nil
                           <=> j # i /\ net[j] # Nil /\ net[j].value # Nil
    BY <2>5, <2>8, <1>9, <1>10
  <2>11. ToSet(ready') = {j \in Slots : net'[j] # Nil /\ net'[j].value # Nil}
    BY <2>10, <1>1, <1>4 DEF TypeOK
  <2>12. TypeOK'
    BY <2>2, <2>6, <2>7, <2>11, <1>1, <1>2, <1>4, <1>7, EmptySeq DEF TypeOK
  <2>13. Answers' /\ Asking' /\ Sending' /\ Listing' /\ WorldKnown' /\ Tapped'
    BY <2>7, <2>9, <1>1, <1>2, RequestsKept DEF Inv
  <2>14. Opened'
    <3>1. ASSUME NEW s \in Tabs, NEW n \in DOMAIN stack'[s], stack'[s][n].sure
          PROVE  stack'[s][n].meant = IF stack'[s][n].comic = Nil THEN c ELSE stack'[s][n].comic
      <4>1. CASE s = Review /\ n = Len(pushed[Review])
        BY <4>1, <3>1, <2>2, <2>3, <2>4, <1>8, NilFacts
      <4>2. CASE ~(s = Review /\ n = Len(pushed[Review]))
        BY <4>2, <3>1, <2>2, <1>14
      <4> QED  BY <4>1, <4>2
    <3> QED  BY <3>1, <1>7 DEF Opened
  <2>15. TopLoaded'
    BY <2>2, <1>2, <1>16, NilFacts DEF TopLoaded, Top
  <2>16. Following'
    <3>1. ASSUME calm PROVE Alone' /\ RightComic'
      <4>1. \A j \in Slots : j # h => net'[j] = Nil \/ net'[j].kind = "world"
        BY <3>1, <2>8, <1>2, <1>4, <1>9, <1>10 DEF Inv, Following, Alone
      <4>2. Alone'
        BY <4>1 DEF Alone
      <4>3. RightComic'
        BY <4>1, <2>5, <2>8, <1>7 DEF RightComic, InFlight
      <4> QED  BY <4>2, <4>3
    <3>2. UpToDate'
      BY <2>5, <2>8 DEF UpToDate, InFlight
    <3> QED  BY <3>1, <3>2, <1>2 DEF Following
  <2> QED  BY <2>12, <2>13, <2>14, <2>15, <2>16, <1>15 DEF Inv
<1>17. CASE tab # Review /\ stack' = pushed /\ net' = requests /\ UNCHANGED listCommentComic
  <2>1. \A j \in Slots : Stays(j) \/ MakesWay(j)
    BY <1>2, <1>9, <1>10, <1>17 DEF Stays, MakesWay, InFlight
  <2>2. \A j \in Slots : net'[j] # Nil /\ net'[j].value # Nil
                           <=> j # i /\ net[j] # Nil /\ net[j].value # Nil
    BY <1>9, <1>10, <1>17
  <2>3. ToSet(ready') = {j \in Slots : net'[j] # Nil /\ net'[j].value # Nil}
    BY <2>2, <1>1, <1>4 DEF TypeOK
  <2>4. TypeOK'
    BY <2>3, <1>1, <1>2, <1>4, <1>7, <1>10, <1>13, <1>17 DEF TypeOK
  <2>5. Answers' /\ Asking' /\ Sending' /\ Listing' /\ WorldKnown' /\ Tapped'
    BY <2>1, <1>1, <1>2, <1>10, <1>17, RequestsKept DEF Inv
  <2>6. Opened'
    BY <1>7, <1>14, <1>17 DEF Opened
  <2>7. TopLoaded'
    <3>1. ASSUME tab \in Tabs, stack'[tab] # <<>> PROVE Last(stack'[tab]).comic # Nil
      <4>1. stack'[tab] = Renamed(stack[tab]) /\ stack[tab] # <<>> /\ Len(stack'[tab]) = Len(stack[tab])
        BY <3>1, <1>1, <1>12, <1>17, RenamedFacts
      <4>2. Last(stack[tab]).comic # Nil
        BY <3>1, <4>1 DEF Inv, TopLoaded, Top
      <4>3. Len(stack[tab]) \in DOMAIN stack[tab]
        BY <3>1, <4>1, <1>1, EmptySeq, LenProperties
      <4> QED  BY <3>1, <4>1, <4>2, <4>3, <1>1, RenamedFacts DEF Last
    <3> QED  BY <3>1, <1>2 DEF TopLoaded, Top
  <2>8. Following'
    <3>1. ASSUME calm PROVE Alone' /\ RightComic'
      <4>1. \A j \in Slots : net'[j] = Nil \/ net'[j].kind = "world"
        BY <3>1, <1>2, <1>4, <1>9, <1>10, <1>17 DEF Inv, Following, Alone
      <4> QED  BY <4>1 DEF Alone, RightComic, InFlight
    <3>2. ~AllLoaded'
      <4>1. Len(pushed[Review]) \in DOMAIN pushed[Review]
        BY <1>1, <1>13, EmptySeq, LenProperties
      <4> QED  BY <4>1, <1>1, <1>8, <1>13, <1>17 DEF AllLoaded, Last
    <3> QED  BY <3>1, <3>2, <1>2 DEF Following, UpToDate
  <2> QED  BY <2>4, <2>5, <2>6, <2>7, <2>8, <1>15 DEF Inv
<1> QED  BY <1>3, <1>16, <1>17

-----------------------------------------------------------------------------
(* Launches, logins and the start *)

LEMMA WorldAskedFacts ==
  ASSUME NEW n \in WorldAsked
  PROVE  /\ n \in [Slots -> RequestType \cup {Nil}]
         /\ \A i \in Slots : n[i] = Nil \/ (n[i].kind = "world" /\ n[i].value = Nil)
<1>1. /\ Request("world", Nil, Nil) \in RequestType
      /\ Request("world", Nil, Nil).kind = "world" /\ Request("world", Nil, Nil).value = Nil
  BY RequestTyped
<1>2. PICK i \in Slots : n = [j \in Slots |-> IF j = i THEN Request("world", Nil, Nil) ELSE Nil]
  BY DEF WorldAsked
<1>3. PICK r \in RequestType : r = Request("world", Nil, Nil) /\ r.kind = "world" /\ r.value = Nil
  BY <1>1
<1>4. n = [j \in Slots |-> IF j = i THEN r ELSE Nil]
  BY <1>2, <1>3
<1>5. \A j \in Slots : n[j] = Nil \/ n[j] = r
  BY <1>4
<1>6. n \in [Slots -> RequestType \cup {Nil}]
  BY <1>3, <1>4, Zenon
<1>7. r.kind = "world" /\ r.value = Nil
  BY <1>3
<1> QED  BY <1>5, <1>6, <1>7, Zenon

LEMMA EmptyFacts ==
  /\ Empty \in [Tabs -> Seq(ViewType)] /\ \A t \in Tabs : Empty[t] = <<>> /\ DOMAIN Empty[t] = {}
  /\ \A S : <<>> \in Seq(S)
  /\ IsInjective(<<>>) /\ ToSet(<<>>) = {}
<1>1. DOMAIN <<>> = {} /\ \A S : <<>> \in Seq(S)
  BY EmptySeq
<1>2. IsInjective(<<>>) /\ ToSet(<<>>) = {}
  BY <1>1 DEF IsInjective, ToSet
<1> QED  BY <1>1, <1>2 DEF Empty

(* What a process begins with, whatever the server has.                    *)
LEMMA Begins ==
  ASSUME userID' \in BOOLEAN, lost' \subseteq New,
         DOMAIN documents' \subseteq Ids, documents' \in [DOMAIN documents' -> Comics],
         comments' \in [Comics -> Seq(Ids)], listComment' \in Seq(Ids),
         ToSet(listComment') = DOMAIN documents' \ lost',
         IsInjective(listComment'), \A c \in Comics : IsInjective(comments'[c]),
         \A k \in ToSet(listComment') : \E c \in Comics : k \in ToSet(comments'[c]),
         \A c \in Comics : ToSet(comments'[c]) \subseteq ToSet(listComment'),
         \A c, d \in Comics : ToSet(comments'[c]) \cap ToSet(comments'[d]) # {} => c = d,
         comicId' = Nil, tab' = Other, stack' = Empty,
         listCommentComic' = <<>>, listReviewWorld' = <<>>, reviewRows' = <<>>,
         net' \in WorldAsked, ready' = <<>>, calm'
  PROVE  Inv'
<1>1. /\ net' \in [Slots -> RequestType \cup {Nil}]
      /\ \A i \in Slots : net'[i] = Nil \/ (net'[i].kind = "world" /\ net'[i].value = Nil)
  BY WorldAskedFacts
<1>2. TypeOK'
  <2>1. ToSet(ready') = {i \in Slots : net'[i] # Nil /\ net'[i].value # Nil}
    BY <1>1, EmptyFacts
  <2>2. stack' \in [Tabs -> Seq(ViewType)]
    BY EmptyFacts
  <2>3. /\ listCommentComic' \in Seq(Ids) /\ listReviewWorld' \in Seq(Ids) /\ reviewRows' \in Seq(Ids)
        /\ ready' \in Seq(Slots) /\ IsInjective(ready')
    BY EmptyFacts
  <2>4. calm' \in BOOLEAN
    OBVIOUS
  <2> QED  BY <2>1, <2>2, <2>3, <2>4, <1>1 DEF TypeOK
<1>3. \A i \in Slots : ~InFlight(i, "add")' /\ ~InFlight(i, "comments")' /\ ~InFlight(i, "select")'
  BY <1>1 DEF InFlight
<1>4. Answers' /\ Asking' /\ Sending' /\ WorldKnown' /\ Tapped'
  <2>1. \A i \in Slots : ~(net'[i] # Nil /\ net'[i].value # Nil)
    BY <1>1
  <2>2. Answers' /\ WorldKnown'
    BY <2>1 DEF Answers, WorldKnown, InFlight
  <2>3. Asking' /\ Sending' /\ Tapped'
    BY <1>3 DEF Asking, Sending, Tapped
  <2> QED  BY <2>2, <2>3
<1>5. Adding' = {}
  BY <1>3 DEF Adding
<1>6. Listing'
  BY <1>5 DEF Listing
<1>7. ComicSet' /\ Opened' /\ TopLoaded' /\ Known'
  BY <1>3, EmptyFacts, ConstantsAssumption DEF ComicSet, Opened, TopLoaded, Top, Known
<1>8. Alone' /\ RightComic' /\ UpToDate'
  BY <1>1, <1>3 DEF Alone, RightComic, UpToDate
<1> QED  BY <1>2, <1>4, <1>6, <1>7, <1>8 DEF Inv, Following

LEMMA LaunchKeeps ==
  ASSUME Inv, Launch
  PROVE  Inv'
<1> DEFINE sending == {i \in Slots : net[i] # Nil /\ net[i].kind = "add" /\ net[i].value = Nil}
<1>1. /\ lost' = lost \cup {net[i].id : i \in {j \in Slots : net[j] # Nil /\ net[j].kind = "add"}}
      /\ comicId' = Nil /\ tab' = Other /\ stack' = Empty
      /\ listCommentComic' = <<>> /\ listReviewWorld' = <<>> /\ reviewRows' = <<>>
      /\ net' \in WorldAsked /\ ready' = <<>> /\ calm' = TRUE
      /\ UNCHANGED <<userID, comments, listComment>>
      /\ \E S \in SUBSET sending : documents' = WithSent(S)
  BY DEF Launch
<1>2. lost' = lost \cup Adding /\ Adding \subseteq New
  BY <1>1 DEF Inv, Sending, Adding, InFlight
<1>3. PICK S \in SUBSET sending : documents' = WithSent(S)
  BY <1>1
<1>4. \A i \in S : net[i].comic \in Comics /\ net[i].id \in Adding /\ net[i].id \in Ids
  BY <1>3 DEF Inv, Sending, Adding, InFlight, Ids
<1> DEFINE ids == {net[i].id : i \in S}
<1>5. /\ DOMAIN documents' = DOMAIN documents \cup ids
      /\ \A k \in DOMAIN documents' :
           documents'[k] = IF k \in ids THEN net[CHOOSE i \in S : net[i].id = k].comic ELSE documents[k]
      /\ documents' = [k \in DOMAIN documents' |-> documents'[k]]
  BY <1>3 DEF WithSent
<1>6. ASSUME NEW k \in ids PROVE net[CHOOSE i \in S : net[i].id = k].comic \in Comics
  <2>1. \E i \in S : net[i].id = k
    BY <1>6
  <2>2. (CHOOSE i \in S : net[i].id = k) \in S
    BY <2>1
  <2> QED  BY <2>2, <1>4
<1>7. ids \subseteq Adding /\ ids \subseteq Ids
  BY <1>4
<1> HIDE DEF ids, sending
<1>8. /\ documents \in [DOMAIN documents -> Comics] /\ DOMAIN documents \subseteq Ids
      /\ userID' \in BOOLEAN /\ lost \subseteq New /\ comments' \in [Comics -> Seq(Ids)]
      /\ listComment' \in Seq(Ids)
  BY <1>1 DEF Inv, TypeOK
<1>9. \A k \in DOMAIN documents' : documents'[k] \in Comics
  BY <1>5, <1>6, <1>8
<1>10. documents' \in [DOMAIN documents' -> Comics] /\ DOMAIN documents' \subseteq Ids /\ lost' \subseteq New
  BY <1>2, <1>5, <1>7, <1>8, <1>9
<1>11. DOMAIN documents' \ lost' = DOMAIN documents \ (lost \cup Adding)
  BY <1>2, <1>5, <1>7
<1>12. Listing
  BY DEF Inv
<1>13. /\ ToSet(listComment') = DOMAIN documents' \ lost'
       /\ IsInjective(listComment') /\ \A c \in Comics : IsInjective(comments'[c])
       /\ \A k \in ToSet(listComment') : \E c \in Comics : k \in ToSet(comments'[c])
       /\ \A c \in Comics : ToSet(comments'[c]) \subseteq ToSet(listComment')
       /\ \A c, d \in Comics : ToSet(comments'[c]) \cap ToSet(comments'[d]) # {} => c = d
  BY <1>1, <1>11, <1>12 DEF Listing
<1> QED  BY <1>1, <1>8, <1>10, <1>13, Begins

LEMMA LogInOrOutKeeps ==
  ASSUME Inv, LogInOrOut
  PROVE  Inv'
<1> USE DEF server
<1>1. TypeOK'
  BY DEF Inv, TypeOK, LogInOrOut
<1>2. Answers' /\ Asking' /\ ComicSet' /\ Sending' /\ WorldKnown' /\ Tapped' /\ Known'
  BY DEF Inv, LogInOrOut, Answers, Asking, ComicSet, Sending, WorldKnown, Tapped, Known, InFlight
<1>3. Listing'
  BY DEF Inv, LogInOrOut, Listing, Adding, InFlight
<1>4. Opened' /\ TopLoaded' /\ Following'
  BY DEF Inv, LogInOrOut, Opened, TopLoaded, Top, Following, Alone, RightComic, UpToDate,
         AllLoaded, InFlight
<1> QED  BY <1>1, <1>2, <1>3, <1>4 DEF Inv

LEMMA InitInv == Init => Inv
<1> SUFFICES ASSUME Init PROVE Inv
  OBVIOUS
<1>1. /\ userID = FALSE /\ comicId = Nil /\ tab = Other /\ stack = Empty
      /\ listCommentComic = <<>> /\ listReviewWorld = <<>> /\ reviewRows = <<>>
      /\ net \in WorldAsked /\ ready = <<>>
      /\ documents = OldOf /\ comments = OldIn /\ listComment = Old
      /\ calm = TRUE /\ lost = {}
  BY DEF Init
<1>2. /\ net \in [Slots -> RequestType \cup {Nil}]
      /\ \A i \in Slots : net[i] = Nil \/ (net[i].kind = "world" /\ net[i].value = Nil)
  BY <1>1, WorldAskedFacts
<1>3. /\ Old \in Seq(ToSet(Old)) /\ IsInjective(Old)
      /\ OldOf \in [ToSet(Old) -> Comics]
      /\ OldIn \in [Comics -> Seq(ToSet(Old))]
      /\ \A c \in Comics : IsInjective(OldIn[c]) /\ ToSet(OldIn[c]) = {k \in ToSet(Old) : OldOf[k] = c}
      /\ Other \notin Tabs
  BY ConstantsAssumption
<1>4. Old \in Seq(Ids) /\ OldIn \in [Comics -> Seq(Ids)]
  <2>1. \A s \in Seq(ToSet(Old)) : s \in Seq(Ids)
    BY SeqMonotonic DEF Ids
  <2> QED  BY <2>1, <1>3
<1>5. TypeOK
  <2>1. ToSet(ready) = {i \in Slots : net[i] # Nil /\ net[i].value # Nil}
    BY <1>1, <1>2, EmptyFacts
  <2>2. stack \in [Tabs -> Seq(ViewType)]
    BY <1>1, EmptyFacts
  <2>3. /\ listCommentComic \in Seq(Ids) /\ listReviewWorld \in Seq(Ids) /\ reviewRows \in Seq(Ids)
        /\ ready \in Seq(Slots) /\ IsInjective(ready)
    BY <1>1, EmptyFacts
  <2>4. DOMAIN documents = ToSet(Old) /\ documents \in [DOMAIN documents -> Comics]
        /\ DOMAIN documents \subseteq Ids
    BY <1>1, <1>3 DEF Ids
  <2> QED  BY <2>1, <2>2, <2>3, <2>4, <1>1, <1>2, <1>4 DEF TypeOK
<1>6. \A i \in Slots : ~InFlight(i, "add") /\ ~InFlight(i, "comments") /\ ~InFlight(i, "select")
  BY <1>2 DEF InFlight
<1>7. Answers /\ Asking /\ Sending /\ WorldKnown /\ Tapped
  <2>1. \A i \in Slots : ~(net[i] # Nil /\ net[i].value # Nil)
    BY <1>2
  <2>2. Answers /\ WorldKnown
    BY <2>1 DEF Answers, WorldKnown, InFlight
  <2>3. Asking /\ Sending /\ Tapped
    BY <1>6 DEF Asking, Sending, Tapped
  <2> QED  BY <2>2, <2>3
<1>8. Adding = {}
  BY <1>6 DEF Adding
<1>9. Listing
  <2>1. DOMAIN documents = ToSet(Old)
    BY <1>1, <1>3
  <2>2. \A k \in ToSet(Old) : OldOf[k] \in Comics
    BY <1>3
  <2> QED  BY <2>1, <2>2, <1>1, <1>3, <1>8 DEF Listing
<1>10. ComicSet /\ Opened /\ TopLoaded /\ Known
  BY <1>1, <1>3, <1>6, EmptyFacts DEF ComicSet, Opened, TopLoaded, Top, Known
<1>11. Alone /\ RightComic /\ UpToDate
  BY <1>1, <1>2, <1>6 DEF Alone, RightComic, UpToDate
<1> QED  BY <1>5, <1>7, <1>9, <1>10, <1>11 DEF Inv, Following

LEMMA NextInv == Inv /\ [Next]_vars => Inv'
<1> SUFFICES ASSUME Inv, [Next]_vars PROVE Inv'
  OBVIOUS
<1>1. CASE Launch
  BY <1>1, LaunchKeeps
<1>2. CASE LogInOrOut
  BY <1>2, LogInOrOutKeeps
<1>3. CASE \E t \in Tabs \cup {Other} : SelectTab(t)
  BY <1>3, SelectTabKeeps
<1>4. CASE Back
  BY <1>4, BackKeeps
<1>5. CASE \E t \in Tabs, c \in Comics : OpenInfo(t, c)
  BY <1>5, OpenInfoKeeps
<1>6. CASE ShowComment
  BY <1>6, ShowCommentKeeps
<1>7. CASE \E k \in New : SendComment(k)
  BY <1>7, SendCommentKeeps
<1>8. CASE \E n \in 1..(Len(Old) + Cardinality(New)) : TapReview(n)
  BY <1>8, TapReviewKeeps
<1>9. ASSUME NEW i \in Slots,
             \/ Reply(i) \/ RequestFails(i)
             \/ WorldArrives(i) \/ CommentsArrive(i) \/ CommentAdded(i) \/ ComicSelected(i)
      PROVE  Inv'
  BY <1>9, ReplyKeeps, RequestFailsKeeps, WorldArrivesKeeps, CommentsArriveKeeps,
     CommentAddedKeeps, ComicSelectedKeeps
<1>10. CASE UNCHANGED vars
  <2>1. TypeOK'
    BY <1>10 DEF Inv, TypeOK, vars, server
  <2>2. \A j \in Slots : Stays(j) \/ MakesWay(j)
    BY <1>10 DEF Stays, MakesWay, InFlight, vars
  <2>3. Answers' /\ Asking' /\ Sending' /\ Listing' /\ WorldKnown' /\ Tapped'
    BY <2>2, <1>10, RequestsKept DEF Inv, TypeOK, vars, server
  <2>4. ComicSet' /\ Known' /\ Opened' /\ TopLoaded' /\ Following'
    BY <1>10 DEF Inv, ComicSet, Known, Opened, TopLoaded, Top, Following, Alone, RightComic,
                 UpToDate, AllLoaded, InFlight, vars, server
  <2> QED  BY <2>1, <2>3, <2>4 DEF Inv
<1> QED  BY <1>1, <1>2, <1>3, <1>4, <1>5, <1>6, <1>7, <1>8, <1>9, <1>10 DEF Next

LEMMA Invariance == Spec => []Inv
BY InitInv, NextInv, PTL DEF Spec

-----------------------------------------------------------------------------
(* The results *)

(* The lists, the views, the requests and the server keep their types.     *)
THEOREM CommentsTypeCorrect == Spec => []TypeOK
<1>1. Inv => TypeOK
  BY DEF Inv
<1> QED  BY <1>1, Invariance, PTL

(* Who waits for each answer before the next tap sees the comments of the  *)
(* comic that is open, each once and in the order of the server.           *)
THEOREM ListsFollow == Spec => []ListFollowsComic
<1>1. Inv => ListFollowsComic
  <2> SUFFICES ASSUME Inv, calm, Idle, comicId # Nil, AllLoaded
               PROVE  listCommentComic = comments[comicId]
    BY DEF ListFollowsComic, AllLoaded
  <2>1. \A i \in Slots : ~InFlight(i, "comments")
    BY DEF Idle, InFlight
  <2> QED  BY <2>1 DEF Inv, Following, UpToDate
<1> QED  BY <1>1, Invariance, PTL

LEMMA ListedTimes ==
  ASSUME NEW list \in Seq(Ids), IsInjective(list), NEW k
  PROVE  Cardinality({n \in DOMAIN list : list[n] = k}) = IF k \in ToSet(list) THEN 1 ELSE 0
<1>1. CASE k \in ToSet(list)
  <2>1. PICK n \in DOMAIN list : list[n] = k
    BY <1>1 DEF ToSet
  <2>2. {m \in DOMAIN list : list[m] = k} = {n}
    BY <2>1 DEF IsInjective
  <2> QED  BY <1>1, <2>2, FS_Singleton
<1>2. CASE k \notin ToSet(list)
  <2>1. {m \in DOMAIN list : list[m] = k} = {}
    BY <1>2 DEF ToSet
  <2> QED  BY <1>2, <2>1, FS_EmptySet
<1> QED  BY <1>1, <1>2

(* Each comment on the server is in the array of one comic, once, and in   *)
(* that of the world, once, unless it is being sent or a relaunch lost it. *)
THEOREM CommentsAreListed == Spec => []CommentsListed
<1>1. Inv => CommentsListed
  <2> SUFFICES ASSUME Inv, NEW k \in DOMAIN documents, k \notin lost,
                      ~\E i \in Slots : net[i] # Nil /\ net[i].kind = "add" /\ net[i].id = k
               PROVE  /\ Cardinality({n \in DOMAIN listComment : listComment[n] = k}) = 1
                      /\ \E c \in Comics :
                           /\ Cardinality({n \in DOMAIN comments[c] : comments[c][n] = k}) = 1
                           /\ \A d \in Comics \ {c} :
                                Cardinality({n \in DOMAIN comments[d] : comments[d][n] = k}) = 0
    BY DEF CommentsListed
  <2>1. Listing /\ listComment \in Seq(Ids) /\ comments \in [Comics -> Seq(Ids)]
    BY DEF Inv, TypeOK
  <2>2. k \in ToSet(listComment)
    BY <2>1 DEF Listing, Adding, InFlight
  <2>3. Cardinality({n \in DOMAIN listComment : listComment[n] = k}) = 1
    BY <2>1, <2>2, ListedTimes DEF Listing
  <2>4. PICK c \in Comics : k \in ToSet(comments[c])
    BY <2>1, <2>2 DEF Listing
  <2>5. \A d \in Comics \ {c} : k \notin ToSet(comments[d])
    BY <2>1, <2>4 DEF Listing
  <2>6. \A d \in Comics : Cardinality({n \in DOMAIN comments[d] : comments[d][n] = k})
                            = IF k \in ToSet(comments[d]) THEN 1 ELSE 0
    BY <2>1, ListedTimes DEF Listing
  <2> QED  BY <2>3, <2>4, <2>5, <2>6
<1> QED  BY <1>1, Invariance, PTL

(* A view opened from the list of reviews is that of the comic under the   *)
(* tapped row, unless the list had changed under the table or another      *)
(* comic was opened before the view could load.                            *)
THEOREM RowsOpenTheirComics == Spec => []RowOpensItsComic
<1>1. Inv => RowOpensItsComic
  BY DEF Inv, Opened, RowOpensItsComic
<1> QED  BY <1>1, Invariance, PTL

(* A comment joins the array of the comic it is about, unless another      *)
(* comic was opened while it was being sent.                               *)
THEOREM CommentsAttached == Spec => AttachedToItsComic
<1> DEFINE Attaches ==
      \A c \in Comics : \A k \in ToSet(comments'[c]) \ ToSet(comments[c]) :
        \E i \in Slots : /\ net[i] # Nil /\ net[i].id = k
                         /\ net[i].sure => documents[k] = c
<1>1. ASSUME Inv, comments' = comments PROVE Attaches
  BY <1>1
<1>2. ASSUME Inv, NEW i \in Slots, CommentAdded(i) PROVE Attaches
  <2>1. /\ ready # <<>> /\ i = Head(ready) /\ net[i].kind = "add"
        /\ comments' = [comments EXCEPT ![comicId] = Append(comments[comicId], net[i].id)]
    BY <1>2 DEF CommentAdded, Runs
  <2>2. net[i] # Nil /\ net[i].value # Nil /\ TypeOK
    BY <1>2, <2>1, HeadFacts DEF Inv
  <2>3. InFlight(i, "add")
    BY <2>1, <2>2 DEF InFlight
  <2>4. /\ comicId \in Comics /\ comments[comicId] \in Seq(Ids) /\ net[i].id \in Ids
        /\ comments \in [Comics -> Seq(Ids)]
    BY <1>2, <2>2, <2>3 DEF Inv, ComicSet, TypeOK, Sending, Ids
  <2>5. net[i].sure => documents[net[i].id] = comicId
    BY <1>2, <2>2, <2>3 DEF Inv, Sending
  <2>6. ToSet(Append(comments[comicId], net[i].id)) = ToSet(comments[comicId]) \cup {net[i].id}
    BY <2>4, AppendFacts
  <2>7. ASSUME NEW c \in Comics, NEW k \in ToSet(comments'[c]) \ ToSet(comments[c])
        PROVE  k = net[i].id /\ c = comicId
    BY <2>1, <2>4, <2>6, <2>7
  <2> QED  BY <2>2, <2>5, <2>7, <1>2
<1>3. ASSUME [Next]_vars, comments' # comments PROVE \E i \in Slots : CommentAdded(i)
  BY <1>3 DEF Next, vars, server, Launch, LogInOrOut, SelectTab, Back, OpenInfo, ShowComment,
              SendComment, TapReview, Reply, RequestFails, WorldArrives, CommentsArrive, ComicSelected
<1>4. Inv /\ [Next]_vars => [Attaches]_vars
  BY <1>1, <1>2, <1>3
<1> QED  BY <1>4, Invariance, PTL DEF Spec, AttachedToItsComic
=============================================================================
