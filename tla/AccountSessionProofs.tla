------------------------- MODULE AccountSessionProofs -------------------------
(***************************************************************************)
(* Proofs about AccountSession for every set of users and every number of  *)
(* requests in flight.                                                     *)
(*                                                                         *)
(* The inductive invariant is Typed /\ SessionOwn.  SessionOwn says, while *)
(* no answer was used after its session had ended, why every callback may  *)
(* unwrap UserID and write what it brings into the account: each request   *)
(* of this session that will do so is the logged-in user's (RequestsOwn),  *)
(* and so is what the network monitor's handler has read (MonitorOwn).     *)
(***************************************************************************)
EXTENDS AccountSession, TLAPS

-----------------------------------------------------------------------------
(* The inductive invariant *)

MonitorTyped == monitor.at \in {"read", "named", "filled"} => monitor.saved \in RecordType

(* Only a document or its photo may be asked for an empty UserID. *)
SentByUsers ==
  \A i \in Slots :
    net[i] # Nil /\ net[i].kind \in {"signIn", "createUser", "put", "url"} => net[i].user \in Users

Typed == TypeOK /\ MonitorTyped /\ SentByUsers

RecordOf(r, id) == r.userID = id /\ r.owner = id /\ r.avatar \in {Nil, id}

(* A request of this session whose callback writes into the account, or    *)
(* into the server's document, of whoever is logged in then.               *)
OwnRequest(r, id, owner) ==
  r # Nil /\ ~r.stale /\ r.kind \in {"document", "photo", "put", "url"} =>
    id \in Users /\ r.user = id /\ (r.kind = "photo" => owner = id)

RequestsOwn == \A i \in Slots : OwnRequest(net[i], userID, account.owner)

MonitorOwn ==
  ~monitor.stale =>
    /\ monitor.at = "checked" => userID \in Users
    /\ monitor.at \in {"read", "named", "filled"} => lUser # Nil /\ RecordOf(monitor.saved, userID)

(* Edit is offered, and its form shown, only with a user. *)
EditKnown == top = "edit" \/ (top = "account" /\ buttons) => userID # Nil

RecordOwn == lUser # Nil => userID \in Users /\ RecordOf(lUser, userID)
AccountOwn == account.owner \in {Guest, userID} /\ account.avatar \in {Nil, userID}

(* What is known of the user is in Realm, or its photo is awaited. *)
KnownSaved ==
  ~photoLost /\ userID # Nil /\ account.owner = userID =>
    lUser # Nil \/ \E i \in Slots : net[i] # Nil /\ net[i].kind = "photo"

Own ==
  /\ crashed = "no"
  /\ userID \in Users \cup {Nil}
  /\ RequestsOwn /\ MonitorOwn /\ EditKnown
  /\ RecordOwn /\ AccountOwn /\ KnownSaved
SessionOwn == ~overtaken => Own

Inv == Typed /\ SessionOwn

-----------------------------------------------------------------------------
(* Facts about the table of requests *)

NetType == [Slots -> RequestType \cup {Nil}]

(* A request stays in its slot; its view may leave the screen. *)
Kept(new, old) ==
  /\ new = Nil <=> old = Nil
  /\ old # Nil => new.kind = old.kind /\ new.user = old.user /\ new.stale = old.stale

LEMMA Names ==
  /\ Nil \notin Users /\ Empty \notin Users /\ Guest \notin Users
  /\ Nil \notin RequestType /\ Nil \notin RecordType
BY ConstantsAssumption, NilAssumption

LEMMA RequestTyped ==
  ASSUME NEW kind \in {"document", "photo", "signIn", "createUser", "put", "url"},
         NEW u \in Users \cup {Empty}, NEW view \in BOOLEAN
  PROVE  /\ Request(kind, u, view) \in RequestType
         /\ Request(kind, u, view) # Nil
         /\ Request(kind, u, view).kind = kind /\ Request(kind, u, view).user = u
         /\ Request(kind, u, view).stale = FALSE
<1>1. Request(kind, u, view) \in RequestType
  BY DEF Request, RequestType
<1>2. /\ Request(kind, u, view).kind = kind /\ Request(kind, u, view).user = u
      /\ Request(kind, u, view).stale = FALSE
  BY DEF Request
<1> QED  BY <1>1, <1>2, Names

(* The requests of the forms. *)
LEMMA FormRequestTyped ==
  ASSUME NEW kind \in {"signIn", "createUser", "put"}, NEW u \in Users
  PROVE  /\ Request(kind, u, TRUE) \in RequestType
         /\ Request(kind, u, TRUE).kind = kind /\ Request(kind, u, TRUE).user = u
         /\ Request(kind, u, TRUE).stale = FALSE
BY DEF Request, RequestType

LEMMA SentSlots ==
  ASSUME NEW old \in NetType, NEW new, NEW r \in RequestType, NEW n, Sent(old, new, r, n)
  PROVE  /\ new \in NetType
         /\ \A i \in Slots : new[i] = old[i] \/ (old[i] = Nil /\ new[i] = r)
<1>1. PICK S \in SUBSET {i \in Slots : old[i] = Nil} :
         new = [i \in Slots |-> IF i \in S THEN r ELSE old[i]]
  BY DEF Sent
<1> QED  BY <1>1 DEF NetType

LEMMA LeftSlots ==
  ASSUME NEW requests \in NetType, NEW kinds
  PROVE  /\ Left(requests, kinds) \in NetType
         /\ \A i \in Slots : Kept(Left(requests, kinds)[i], requests[i])
<1>1. ASSUME NEW i \in Slots, requests[i] # Nil
      PROVE  /\ [requests[i] EXCEPT !.view = FALSE] \in RequestType
             /\ Kept([requests[i] EXCEPT !.view = FALSE], requests[i])
  <2>1. requests[i] \in RequestType
    BY <1>1 DEF NetType
  <2>2. [requests[i] EXCEPT !.view = FALSE] \in RequestType
    BY <2>1 DEF RequestType
  <2> QED  BY <1>1, <2>1, <2>2, Names DEF Kept, RequestType
<1>2. ASSUME NEW i \in Slots PROVE Kept(requests[i], requests[i])
  BY DEF Kept
<1> QED  BY <1>1, <1>2 DEF Left, NetType

LEMMA PoppedSlots ==
  ASSUME NEW requests \in NetType, NEW view
  PROVE  /\ PoppedIf(view, requests) \in NetType
         /\ \A i \in Slots : Kept(PoppedIf(view, requests)[i], requests[i])
<1>1. \A i \in Slots : Kept(requests[i], requests[i])
  BY DEF Kept
<1> QED  BY <1>1, LeftSlots DEF PoppedIf

LEMMA InTurnSlots ==
  ASSUME TypeOK, NEW i \in Slots, NEW r \in RequestType \cup {Nil}
  PROVE  /\ InTurn(i, r) \in NetType
         /\ InTurn(i, r)[i] = r
         /\ \A j \in Slots : j # i => InTurn(i, r)[j] = net[j]
BY DEF TypeOK, NetType, InTurn

LEMMA DoneSlots ==
  ASSUME TypeOK, NEW i \in Slots
  PROVE  /\ Done(i) \in NetType
         /\ Done(i)[i] = Nil
         /\ \A j \in Slots : j # i => Done(i)[j] = net[j]
BY DEF TypeOK, NetType, Done

LEMMA NetTyped ==
  ASSUME TypeOK
  PROVE  /\ net \in NetType
         /\ \A i \in Slots : net[i] # Nil => net[i] \in RequestType
BY DEF TypeOK, NetType

LEMMA PendingTyped ==
  ASSUME Typed, NEW i \in Slots, NEW kind, Pending(i, kind)
  PROVE  /\ net[i] \in RequestType /\ net[i] # Nil /\ net[i].kind = kind
         /\ net[i].user \in Users \cup {Empty} /\ net[i].view \in BOOLEAN
         /\ kind \in {"signIn", "createUser", "put", "url"} => net[i].user \in Users
BY NetTyped DEF Typed, Pending, SentByUsers, RequestType

(* SignedIn, UserCreated and PhotoUploaded: the slot is emptied or goes on *)
(* as r, and the forms may be popped.                                      *)
LEMMA PopSlots ==
  ASSUME TypeOK, NEW i \in Slots, NEW view, NEW r \in RequestType \cup {Nil},
         NEW new, new = PoppedIf(view, InTurn(i, r))
  PROVE  /\ new \in NetType
         /\ Kept(new[i], r)
         /\ \A j \in Slots : j # i => Kept(new[j], net[j])
<1>1. InTurn(i, r) \in NetType
  BY InTurnSlots
<1>2. new \in NetType /\ \A j \in Slots : Kept(new[j], InTurn(i, r)[j])
  BY <1>1, PoppedSlots
<1> QED  BY <1>2, InTurnSlots

LEMMA DoneInTurn == ASSUME NEW i PROVE Done(i) = InTurn(i, Nil)
BY DEF Done, InTurn

(* OpenLogin makes every request stale. *)
LEMMA StaleSlots ==
  ASSUME TypeOK, OpenLogin
  PROVE  /\ net' \in NetType
         /\ \A i \in Slots : net'[i] = Nil <=> net[i] = Nil
         /\ \A i \in Slots : net[i] # Nil =>
              net'[i].kind = net[i].kind /\ net'[i].user = net[i].user /\ net'[i].stale
<1>1. net' = [i \in Slots |-> IF net[i] = Nil THEN Nil ELSE [net[i] EXCEPT !.stale = TRUE]]
  BY DEF OpenLogin
<1>2. ASSUME NEW i \in Slots, net[i] # Nil
      PROVE  /\ net'[i] \in RequestType
             /\ net'[i].kind = net[i].kind /\ net'[i].user = net[i].user /\ net'[i].stale
  <2>1. net[i] \in RequestType
    BY <1>2, NetTyped
  <2> QED  BY <1>1, <1>2, <2>1 DEF RequestType
<1> QED  BY <1>1, <1>2, Names DEF NetType

-----------------------------------------------------------------------------
(* Every step keeps the types *)

SenderTyped(r) == r.kind \in {"signIn", "createUser", "put", "url"} => r.user \in Users

LEMMA SendersKept ==
  ASSUME SentByUsers,
         \A j \in Slots : net'[j] = Nil \/ Kept(net'[j], net[j]) \/ SenderTyped(net'[j])
  PROVE  SentByUsers'
BY DEF SentByUsers, Kept, SenderTyped

LEMMA SavedTyped ==
  ASSUME TypeOK, NEW acc \in [owner : Users \cup {Guest}, avatar : Someone, isDownAvatar : BOOLEAN]
  PROVE  Saved(acc) \in RecordType
<1>1. CASE lUser # Nil
  <2>1. lUser \in RecordType
    BY <1>1 DEF TypeOK
  <2> QED  BY <1>1, <2>1 DEF Saved, RecordType
<1>2. CASE lUser = Nil
  <2>1. (IF userID = Nil THEN Empty ELSE userID) \in Users \cup {Empty}
    BY DEF TypeOK, Someone
  <2> QED  BY <1>2, <2>1 DEF Saved, RecordType
<1> QED  BY <1>1, <1>2

LEMMA TrapTyped ==
  /\ \A id : Trap(id) \in {"no", "unwrap", "path"}
  /\ \A id \in Someone : Trap(id) = "no" => id \in Users
  /\ \A id \in Someone : id # Nil => id \in Users \cup {Empty}
  /\ \A id \in Users : Trap(id) = "no"
BY Names DEF Trap, Someone

AccountType == [owner : Users \cup {Guest}, avatar : Someone, isDownAvatar : BOOLEAN]
MonitorType ==
  [at : {"idle", "checked", "read", "named", "filled", "copied", "offline"},
   saved : RecordType \cup {Nil}, stale : BOOLEAN]

LEMMA AccountTyped ==
  ASSUME TypeOK
  PROVE  /\ \A b \in BOOLEAN : [account EXCEPT !.isDownAvatar = b] \in AccountType
         /\ \A u \in Users \cup {Guest} : [account EXCEPT !.owner = u] \in AccountType
         /\ \A v \in Someone : [account EXCEPT !.avatar = v] \in AccountType
         /\ \A u \in Users \cup {Guest}, v \in Someone :
              [account EXCEPT !.owner = u, !.avatar = v] \in AccountType
         /\ \A u \in Users, b \in BOOLEAN :
              [account EXCEPT !.owner = u, !.isDownAvatar = b] \in AccountType
         /\ \A v \in Someone, b \in BOOLEAN :
              [account EXCEPT !.avatar = v, !.isDownAvatar = b] \in AccountType
         /\ NewUser \in AccountType
BY DEF TypeOK, AccountType, NewUser, Someone

LEMMA IdleTyped == IdleMonitor \in MonitorType /\ IdleMonitor.at = "idle" /\ ~IdleMonitor.stale
BY DEF IdleMonitor, MonitorType

(* The parts of the types, as every step must keep them. *)
LEMMA TypedParts ==
  ASSUME userID \in Someone, account \in AccountType, lUser \in RecordType \cup {Nil},
         top \in {"unloaded", "appearing", "account", "login", "signup", "edit"},
         buttons \in BOOLEAN, network \in BOOLEAN, monitor \in MonitorType, net \in NetType,
         crashed \in {"no", "unwrap", "path"},
         members \subseteq Users, docs \subseteq members, avatarUrl \subseteq docs,
         photos \subseteq Users, overtaken \in BOOLEAN, photoLost \in BOOLEAN
  PROVE  TypeOK
BY DEF TypeOK, AccountType, MonitorType, NetType

LEMMA MonitorStep ==
  ASSUME Typed, Monitor \/ MonitorRuns
  PROVE  Typed'
<1> USE DEF Typed
<1>1. CASE NetworkBack
  <2>1. monitor' \in MonitorType /\ MonitorTyped'
    BY <1>1 DEF NetworkBack, TypeOK, MonitorType, MonitorTyped
  <2>2. SentByUsers'
    BY <1>1 DEF NetworkBack, SentByUsers
  <2> QED  BY <1>1, <2>1, <2>2 DEF NetworkBack, TypeOK, MonitorType, server, history
<1>2. CASE FetchByMonitor
  <2>1. monitor' \in MonitorType /\ MonitorTyped'
    BY <1>2, IdleTyped DEF FetchByMonitor, MonitorTyped
  <2>2. net' \in NetType /\ SentByUsers'
    <3>1. CASE Trap(userID) = "no"
      <4> DEFINE r == Request("document", userID, FALSE)
      <4>1. userID \in Users /\ Sent(net, net', r, 1)
        BY <1>2, <3>1, TrapTyped DEF FetchByMonitor, TypeOK
      <4>2. r \in RequestType /\ SenderTyped(r)
        BY <4>1, RequestTyped DEF SenderTyped
      <4> HIDE DEF r
      <4>3. net' \in NetType /\ \A j \in Slots : net'[j] = net[j] \/ net'[j] = r
        BY <4>1, <4>2, SentSlots, NetTyped
      <4> QED  BY <4>2, <4>3, SendersKept DEF Kept
    <3>2. CASE Trap(userID) # "no"
      BY <1>2, <3>2, NetTyped DEF FetchByMonitor, SentByUsers
    <3> QED  BY <3>1, <3>2
  <2>3. crashed' \in {"no", "unwrap", "path"} /\ overtaken' \in BOOLEAN
    BY <1>2, TrapTyped DEF FetchByMonitor, TypeOK
  <2> QED  BY <1>2, <2>1, <2>2, <2>3 DEF FetchByMonitor, TypeOK, MonitorType, NetType, server
<1>3. CASE NetworkLost
  <2>1. monitor' \in MonitorType /\ MonitorTyped'
    BY <1>3 DEF NetworkLost, TypeOK, MonitorType, MonitorTyped
  <2>2. SentByUsers'
    BY <1>3 DEF NetworkLost, SentByUsers
  <2> QED  BY <1>3, <2>1, <2>2 DEF NetworkLost, TypeOK, MonitorType, server, history
<1>4. CASE CopyUserID
  <2>1. monitor.saved \in RecordType
    BY <1>4 DEF CopyUserID, MonitorTyped
  <2>2. userID' \in Someone
    BY <1>4, <2>1 DEF CopyUserID, RecordType, Someone
  <2>3. monitor' \in MonitorType /\ MonitorTyped'
    BY <1>4, <2>1 DEF CopyUserID, TypeOK, MonitorType, MonitorTyped
  <2>4. SentByUsers' /\ overtaken' \in BOOLEAN
    BY <1>4 DEF CopyUserID, SentByUsers, TypeOK
  <2> QED  BY <1>4, <2>2, <2>3, <2>4 DEF CopyUserID, TypeOK, MonitorType, server
<1>5. CASE CopyAccount
  <2>1. monitor.saved \in RecordType
    BY <1>5 DEF CopyAccount, MonitorTyped
  <2>2. account' \in AccountType
    BY <1>5, <2>1, AccountTyped DEF CopyAccount, RecordType
  <2>3. monitor' \in MonitorType /\ MonitorTyped'
    BY <1>5 DEF CopyAccount, TypeOK, MonitorType, MonitorTyped
  <2>4. SentByUsers' /\ overtaken' \in BOOLEAN
    BY <1>5 DEF CopyAccount, SentByUsers, TypeOK
  <2> QED  BY <1>5, <2>2, <2>3, <2>4 DEF CopyAccount, TypeOK, MonitorType, AccountType, server
<1>6. CASE CopyAvatar
  <2>1. monitor.saved \in RecordType
    BY <1>6 DEF CopyAvatar, MonitorTyped
  <2>2. account' \in AccountType
    BY <1>6, <2>1, AccountTyped DEF CopyAvatar, RecordType, Someone
  <2>3. monitor' \in MonitorType /\ MonitorTyped'
    BY <1>6 DEF CopyAvatar, TypeOK, MonitorType, MonitorTyped
  <2>4. SentByUsers' /\ overtaken' \in BOOLEAN
    BY <1>6 DEF CopyAvatar, SentByUsers, TypeOK
  <2> QED  BY <1>6, <2>2, <2>3, <2>4 DEF CopyAvatar, TypeOK, MonitorType, AccountType, server
<1>7. CASE GoOffline
  <2>1. monitor' \in MonitorType /\ MonitorTyped'
    BY <1>7 DEF GoOffline, TypeOK, MonitorType, MonitorTyped
  <2>2. SentByUsers'
    BY <1>7 DEF GoOffline, SentByUsers
  <2> QED  BY <1>7, <2>1, <2>2 DEF GoOffline, TypeOK, MonitorType, server, history
<1>8. CASE StopWaiting
  <2>1. account' \in AccountType /\ monitor' \in MonitorType /\ MonitorTyped'
    BY <1>8, AccountTyped, IdleTyped DEF StopWaiting, MonitorTyped
  <2>2. SentByUsers'
    BY <1>8 DEF StopWaiting, SentByUsers
  <2> QED  BY <1>8, <2>1, <2>2 DEF StopWaiting, TypeOK, MonitorType, AccountType, server, history
<1> QED  BY <1>1, <1>2, <1>3, <1>4, <1>5, <1>6, <1>7, <1>8 DEF Monitor, MonitorRuns

LEMMA UserStep ==
  ASSUME Typed, User
  PROVE  Typed'
<1> USE DEF Typed
<1>1. CASE AccountAppears
  <2>1. buttons' \in BOOLEAN
    BY <1>1 DEF AccountAppears, TypeOK
  <2>2. net' \in NetType /\ SentByUsers' /\ crashed' \in {"no", "unwrap", "path"}
    <3>1. CASE account.isDownAvatar /\ userID # Nil
      <4> DEFINE r == Request("document", userID, TRUE)
                 n == IF top = "unloaded" THEN 2 ELSE 1
      <4>1. userID \in Users \cup {Empty} /\ Sent(net, net', r, n) /\ crashed' = Trap(userID)
        BY <1>1, <3>1, TrapTyped DEF AccountAppears, TypeOK
      <4>2. r \in RequestType /\ SenderTyped(r)
        BY <4>1, RequestTyped DEF SenderTyped
      <4> HIDE DEF r, n
      <4>3. net' \in NetType /\ \A j \in Slots : net'[j] = net[j] \/ net'[j] = r
        BY <4>1, <4>2, SentSlots, NetTyped
      <4> QED  BY <4>1, <4>2, <4>3, SendersKept, TrapTyped DEF Kept
    <3>2. CASE ~(account.isDownAvatar /\ userID # Nil)
      <4>1. net' = net /\ crashed' = crashed
        BY <1>1, <3>2 DEF AccountAppears
      <4> QED  BY <4>1, NetTyped DEF SentByUsers, TypeOK
    <3> QED  BY <3>1, <3>2
  <2> QED  BY <1>1, <2>1, <2>2 DEF AccountAppears, TypeOK, NetType, MonitorTyped, server, history
<1>2. CASE OpenLogin
  <2>1. net' \in NetType /\ SentByUsers'
    BY <1>2, StaleSlots DEF SentByUsers
  <2>2. monitor' \in MonitorType /\ MonitorTyped'
    BY <1>2 DEF OpenLogin, TypeOK, MonitorType, MonitorTyped
  <2>3. userID' \in Someone /\ account' \in AccountType
    BY <1>2, AccountTyped DEF OpenLogin, Someone
  <2> QED  BY <1>2, <2>1, <2>2, <2>3
           DEF OpenLogin, TypeOK, NetType, MonitorType, AccountType, server, history
<1>3. CASE OpenSignUp
  BY <1>3 DEF OpenSignUp, TypeOK, MonitorTyped, SentByUsers, server, history
<1>4. CASE Back
  <2>1. net' \in NetType /\ \A j \in Slots : Kept(net'[j], net[j])
    BY <1>4, LeftSlots, NetTyped DEF Back
  <2> QED  BY <1>4, <2>1, SendersKept DEF Back, TypeOK, NetType, MonitorTyped, server, history
<1>5. CASE CancelLogin
  <2>1. net' \in NetType /\ \A j \in Slots : Kept(net'[j], net[j])
    BY <1>5, LeftSlots, NetTyped DEF CancelLogin
  <2>2. account' \in AccountType
    BY <1>5, AccountTyped DEF CancelLogin
  <2>3. crashed' \in {"no", "unwrap", "path"}
    BY <1>5, TrapTyped DEF CancelLogin
  <2> QED  BY <1>5, <2>1, <2>2, <2>3, SendersKept
           DEF CancelLogin, TypeOK, NetType, AccountType, MonitorTyped, server, history
<1>6. CASE OpenEdit
  BY <1>6 DEF OpenEdit, TypeOK, MonitorTyped, SentByUsers, server, history
<1>7. CASE Save
  <2>1. crashed' \in {"no", "unwrap", "path"}
    BY <1>7, TrapTyped DEF Save
  <2>2. account' \in AccountType /\ top' \in {"edit", "appearing"}
    BY <1>7, AccountTyped DEF Save, TypeOK, AccountType
  <2>3. net' \in NetType /\ SentByUsers'
    <3>1. CASE UNCHANGED net
      BY <3>1, NetTyped DEF SentByUsers
    <3>2. CASE net' = Left(net, {"put"})
      BY <3>2, LeftSlots, NetTyped, SendersKept
    <3>3. CASE Trap(userID) = "no" /\ Sent(net, net', Request("put", userID, TRUE), 1)
      <4> DEFINE r == Request("put", userID, TRUE)
      <4>1. userID \in Users
        BY <3>3, TrapTyped DEF TypeOK
      <4>2. r \in RequestType /\ r.user \in Users
        BY <4>1, FormRequestTyped
      <4>3. Sent(net, net', r, 1)
        BY <3>3
      <4> HIDE DEF r
      <4>4. net' \in NetType /\ \A j \in Slots : net'[j] = net[j] \/ net'[j] = r
        BY <4>2, <4>3, SentSlots, NetTyped
      <4> QED  BY <4>2, <4>4, SendersKept DEF Kept, SenderTyped
    <3> QED  BY <1>7, <3>1, <3>2, <3>3 DEF Save
  <2> QED  BY <1>7, <2>1, <2>2, <2>3
           DEF Save, TypeOK, NetType, AccountType, MonitorTyped, server, history
<1>8. ASSUME NEW u \in Users, NEW kind \in {"signIn", "createUser"},
             Sent(net, net', Request(kind, u, TRUE), 1),
             UNCHANGED <<userID, account, top, buttons, network, monitor, crashed, lUser, server, history>>
      PROVE  Typed'
  <2> DEFINE r == Request(kind, u, TRUE)
  <2>1. r \in RequestType /\ r.user \in Users
    BY DEF Request, RequestType
  <2>2. Sent(net, net', r, 1)
    BY <1>8
  <2> HIDE DEF r
  <2>3. net' \in NetType /\ \A j \in Slots : net'[j] = net[j] \/ net'[j] = r
    BY <2>1, <2>2, SentSlots, NetTyped
  <2>4. SentByUsers'
    BY <2>1, <2>3, SendersKept DEF Kept, SenderTyped
  <2> QED  BY <1>8, <2>3, <2>4 DEF TypeOK, NetType, MonitorTyped, server, history
<1>9. ASSUME NEW u \in Users, LoginTapped(u) \/ SignUpTapped(u) PROVE Typed'
  BY <1>8, <1>9 DEF LoginTapped, SignUpTapped
<1> QED  BY <1>1, <1>2, <1>3, <1>4, <1>5, <1>6, <1>7, <1>9 DEF User

(* The slot of an answered request is emptied, or goes on as r. *)
LEMMA SlotStep ==
  ASSUME Typed, NEW i \in Slots, NEW r \in RequestType \cup {Nil}, net' = InTurn(i, r),
         r = Nil \/ SenderTyped(r)
  PROVE  net' \in NetType /\ SentByUsers'
<1>1. /\ net' \in NetType /\ net'[i] = r
      /\ \A j \in Slots : j # i => net'[j] = net[j]
  BY InTurnSlots DEF Typed
<1> QED  BY <1>1, SendersKept DEF Typed, Kept

LEMMA PopStep ==
  ASSUME Typed, NEW i \in Slots, NEW view, NEW r \in RequestType \cup {Nil},
         net' = PoppedIf(view, InTurn(i, r)), r = Nil \/ SenderTyped(r)
  PROVE  net' \in NetType /\ SentByUsers'
<1>1. /\ net' \in NetType /\ Kept(net'[i], r)
      /\ \A j \in Slots : j # i => Kept(net'[j], net[j])
  BY PopSlots DEF Typed
<1>2. net'[i] = Nil \/ SenderTyped(net'[i])
  BY <1>1 DEF Kept, SenderTyped
<1> QED  BY <1>1, <1>2, SendersKept DEF Typed

LEMMA AnswerStep ==
  ASSUME Typed, NEW i \in Slots, Answer(i)
  PROVE  Typed'
<1> USE DEF Typed
<1> DEFINE q == net[i]
<1>1. ASSUME SignedIn(i) \/ UserCreated(i) PROVE Typed'
  <2>1. q.user \in Users /\ userID' = q.user
    BY <1>1, PendingTyped DEF SignedIn, UserCreated
  <2>2. account' \in AccountType
    BY <1>1, AccountTyped DEF SignedIn, UserCreated
  <2>3. net' \in NetType /\ SentByUsers'
    <3>1. net' = PoppedIf(net[i].view, InTurn(i, Nil))
      BY <1>1, DoneInTurn DEF SignedIn, UserCreated
    <3> QED  BY <3>1, PopStep
  <2>4. top' \in {top, "appearing"} /\ overtaken' \in BOOLEAN
    BY <1>1 DEF SignedIn, UserCreated, PopIf, TypeOK
  <2>5. members' \subseteq Users /\ docs' \subseteq members' /\ avatarUrl' \subseteq docs' /\ photos' = photos
    BY <1>1, <2>1 DEF SignedIn, UserCreated, TypeOK, server
  <2> QED  BY <1>1, <2>1, <2>2, <2>3, <2>4, <2>5
           DEF SignedIn, UserCreated, TypeOK, NetType, AccountType, MonitorTyped, Someone
<1>2. CASE PlainDocument(i)
  <2> DEFINE acc == [account EXCEPT !.owner = q.user, !.avatar = Nil]
             again == q.view /\ acc.isDownAvatar /\ userID # Nil
             trap == IF again THEN Trap(userID) ELSE "no"
  <2>1. q.user \in Users /\ account' = acc /\ acc \in AccountType
    BY <1>2, AccountTyped DEF PlainDocument, TypeOK, Someone
  <2>2. net' \in NetType /\ SentByUsers'
    <3>1. CASE again
      <4>1. userID \in Users \cup {Empty}
        BY <3>1, TrapTyped DEF TypeOK
      <4>2. net' = InTurn(i, Request("document", userID, TRUE))
        BY <1>2, <3>1 DEF PlainDocument
      <4> QED  BY <4>1, <4>2, RequestTyped, SlotStep DEF SenderTyped
    <3>2. CASE ~again
      <4>1. net' = InTurn(i, Nil)
        BY <1>2, <3>2, DoneInTurn DEF PlainDocument
      <4> QED  BY <4>1, SlotStep
    <3> QED  BY <3>1, <3>2
  <2>3. crashed' \in {"no", "unwrap", "path"}
    BY <1>2, TrapTyped DEF PlainDocument
  <2>4. lUser' \in RecordType \cup {Nil}
    <3>1. lUser' = lUser \/ lUser' = Saved(acc)
      BY <1>2 DEF PlainDocument
    <3> HIDE DEF acc
    <3> QED  BY <2>1, <3>1, SavedTyped DEF TypeOK, AccountType
  <2>5. buttons' \in BOOLEAN /\ overtaken' \in BOOLEAN
    BY <1>2 DEF PlainDocument, ButtonsAfter, LateUse, TypeOK
  <2> HIDE DEF acc
  <2> QED  BY <1>2, <2>1, <2>2, <2>3, <2>4, <2>5
           DEF PlainDocument, TypeOK, NetType, AccountType, MonitorTyped, server
<1>3. CASE DocumentWithAvatar(i)
  <2>0. Pending(i, "document")
    BY <1>3 DEF DocumentWithAvatar
  <2>1. account' \in AccountType
    <3>1. q.user \in Users /\ q.view \in BOOLEAN
      BY <1>3, <2>0, PendingTyped DEF DocumentWithAvatar, TypeOK
    <3>2. account.isDownAvatar \in BOOLEAN
      BY DEF TypeOK
    <3>3. account' = [account EXCEPT !.owner = q.user,
                                     !.isDownAvatar = IF q.view THEN account.isDownAvatar ELSE TRUE]
      BY <1>3 DEF DocumentWithAvatar
    <3> QED  BY <3>1, <3>2, <3>3, AccountTyped
  <2>2. net' \in NetType /\ SentByUsers'
    <3>1. CASE userID = Nil
      <4>1. net' = InTurn(i, Nil)
        BY <1>3, <3>1, DoneInTurn DEF DocumentWithAvatar
      <4> QED  BY <4>1, SlotStep
    <3>2. CASE userID # Nil
      <4>1. userID \in Users \cup {Empty} /\ q.view \in BOOLEAN
        BY <2>0, <3>2, TrapTyped, PendingTyped DEF TypeOK
      <4>2. net' = InTurn(i, Request("photo", userID, q.view))
        BY <1>3, <3>2 DEF DocumentWithAvatar
      <4> QED  BY <4>1, <4>2, RequestTyped, SlotStep DEF SenderTyped
    <3> QED  BY <3>1, <3>2
  <2>3. crashed' \in {"no", "unwrap", "path"} /\ overtaken' \in BOOLEAN
    BY <1>3 DEF DocumentWithAvatar, LateUse, TypeOK
  <2> QED  BY <1>3, <2>1, <2>2, <2>3
           DEF DocumentWithAvatar, TypeOK, NetType, AccountType, MonitorTyped, server
<1>4. CASE PhotoArrives(i)
  <2> DEFINE acc == [account EXCEPT !.avatar = q.user, !.isDownAvatar = FALSE]
  <2>1. q.user \in Users /\ account' = acc /\ lUser' = Saved(acc) /\ acc \in AccountType
    BY <1>4, AccountTyped DEF PhotoArrives, TypeOK, Someone
  <2>2. net' \in NetType /\ SentByUsers'
    <3>1. net' = InTurn(i, Nil)
      BY <1>4, DoneInTurn DEF PhotoArrives
    <3> QED  BY <3>1, SlotStep
  <2>3. buttons' \in BOOLEAN /\ overtaken' \in BOOLEAN
    BY <1>4 DEF PhotoArrives, ButtonsAfter, LateUse, TypeOK
  <2> HIDE DEF acc
  <2>4. lUser' \in RecordType
    BY <2>1, SavedTyped DEF AccountType
  <2> QED  BY <1>4, <2>1, <2>2, <2>3, <2>4
           DEF PhotoArrives, TypeOK, NetType, AccountType, MonitorTyped, server
<1>5. CASE PhotoUploaded(i)
  <2> DEFINE r == [q EXCEPT !.kind = "url"]
  <2>1. Pending(i, "put") /\ q \in RequestType /\ q.user \in Users
    BY <1>5, PendingTyped DEF PhotoUploaded
  <2>2. r \in RequestType /\ SenderTyped(r)
    BY <2>1 DEF RequestType, SenderTyped
  <2>3. net' = PoppedIf(net[i].view, InTurn(i, r))
    BY <1>5 DEF PhotoUploaded
  <2> HIDE DEF r
  <2>4. net' \in NetType /\ SentByUsers'
    BY <2>2, <2>3, PopStep
  <2>5. account' \in AccountType /\ top' \in {top, "appearing"} /\ photos' \subseteq Users
    BY <1>5, <2>1, AccountTyped DEF PhotoUploaded, PopIf, TypeOK
  <2> QED  BY <1>5, <2>4, <2>5
           DEF PhotoUploaded, TypeOK, NetType, AccountType, MonitorTyped, history
<1>6. CASE UrlArrives(i)
  <2>1. net' \in NetType /\ SentByUsers'
    <3>1. net' = InTurn(i, Nil)
      BY <1>6, DoneInTurn DEF UrlArrives
    <3> QED  BY <3>1, SlotStep
  <2>2. /\ crashed' \in {"no", "unwrap", "path"} /\ overtaken' \in BOOLEAN
        /\ avatarUrl' \subseteq docs
    BY <1>6, TrapTyped DEF UrlArrives, LateUse, TypeOK
  <2> QED  BY <1>6, <2>1, <2>2 DEF UrlArrives, TypeOK, NetType, MonitorTyped
<1>7. CASE RequestFails(i)
  <2>1. net' \in NetType /\ SentByUsers'
    <3>1. net' = InTurn(i, Nil)
      BY <1>7, DoneInTurn DEF RequestFails
    <3> QED  BY <3>1, SlotStep
  <2>2. account' \in AccountType
    BY <1>7, AccountTyped DEF RequestFails, TypeOK, AccountType
  <2>3. photoLost' \in BOOLEAN
    BY <1>7 DEF RequestFails, TypeOK
  <2> QED  BY <1>7, <2>1, <2>2, <2>3
           DEF RequestFails, TypeOK, NetType, AccountType, MonitorTyped, server
<1> QED  BY <1>1, <1>2, <1>3, <1>4, <1>5, <1>6, <1>7 DEF Answer

LEMMA TypedStep == Typed /\ [Next]_vars => Typed'
<1> SUFFICES ASSUME Typed, [Next]_vars PROVE Typed'
  OBVIOUS
<1>1. CASE Launch
  <2> USE DEF Typed
  <2>1. userID' \in Someone
    BY <1>1 DEF Launch, TypeOK, RecordType, Someone
  <2>2. net' \in NetType /\ SentByUsers'
    BY <1>1 DEF Launch, NetType, SentByUsers
  <2>3. account' \in AccountType /\ monitor' \in MonitorType /\ MonitorTyped'
    BY <1>1, AccountTyped, IdleTyped DEF Launch, MonitorTyped
  <2>4. crashed' \in {"no", "unwrap", "path"}
    BY <1>1, TrapTyped DEF Launch
  <2> QED  BY <1>1, <2>1, <2>2, <2>3, <2>4
           DEF Launch, TypeOK, NetType, AccountType, MonitorType, server, history
<1>2. CASE UNCHANGED vars
  BY <1>2 DEF Typed, TypeOK, MonitorTyped, SentByUsers, vars, ram, server, history
<1> QED  BY <1>1, <1>2, MonitorStep, UserStep, AnswerStep DEF Next

LEMMA TypedInit == Init => Typed
<1> SUFFICES ASSUME Init PROVE Typed
  OBVIOUS
<1>1. net \in NetType /\ SentByUsers
  BY DEF Init, NetType, SentByUsers
<1>2. account \in AccountType /\ monitor \in MonitorType /\ MonitorTyped
  BY IdleTyped DEF Init, AccountType, NewUser, Someone, MonitorTyped
<1> QED  BY <1>1, <1>2, ConstantsAssumption
         DEF Init, Typed, TypeOK, NetType, AccountType, MonitorType, Someone

(* Everybody's data keeps its shape, and only a user signs in, signs up,   *)
(* or uploads a photo.                                                     *)
THEOREM AccountTypeCorrect == Spec => []TypeOK
<1>1. Typed => TypeOK
  BY DEF Typed
<1> QED  BY TypedInit, TypedStep, <1>1, PTL DEF Spec

-----------------------------------------------------------------------------
(* While the session is not overtaken, every step keeps it one user's *)

(* Requests stay in their slots, end, or enter one as the user's own, and  *)
(* only a session without a user gets another UserID.                      *)
LEMMA RequestsKept ==
  ASSUME RequestsOwn,
         \A j \in Slots : \/ net'[j] = Nil
                          \/ Kept(net'[j], net[j])
                          \/ OwnRequest(net'[j], userID', account'.owner),
         userID' = userID \/ userID \notin Users,
         account'.owner = account.owner \/ account'.owner = userID'
  PROVE  RequestsOwn'
<1> SUFFICES ASSUME NEW j \in Slots, Kept(net'[j], net[j])
             PROVE  OwnRequest(net'[j], userID', account'.owner)
  BY DEF RequestsOwn, OwnRequest
<1>1. OwnRequest(net[j], userID, account.owner)
  BY DEF RequestsOwn
<1> QED  BY <1>1 DEF OwnRequest, Kept

LEMMA MonitorKept ==
  ASSUME MonitorOwn, RecordOwn, monitor' = monitor, userID' = userID \/ userID \notin Users,
         lUser' = lUser \/ lUser' # Nil
  PROVE  MonitorOwn'
BY DEF MonitorOwn, RecordOwn

LEMMA EditKept ==
  ASSUME EditKnown, userID' = userID \/ userID' # Nil, top' \in {top, "appearing"},
         ~buttons' \/ buttons \/ userID' # Nil
  PROVE  EditKnown'
BY DEF EditKnown

LEMMA SavedKept ==
  ASSUME KnownSaved, photoLost => photoLost', userID' = userID, account'.owner = account.owner,
         lUser' = lUser \/ lUser' # Nil,
         \A j \in Slots : net[j] # Nil /\ net[j].kind = "photo" =>
           (net'[j] # Nil /\ net'[j].kind = "photo") \/ photoLost'
  PROVE  KnownSaved'
BY DEF KnownSaved

(* A callback of this session finds the user that sent it. *)
LEMMA OwnAnswer ==
  ASSUME Own, NEW i \in Slots, net[i] # Nil, ~net[i].stale,
         net[i].kind \in {"document", "photo", "put", "url"}
  PROVE  /\ userID \in Users /\ userID # Nil /\ net[i].user = userID
         /\ Trap(userID) = "no"
         /\ net[i].kind = "photo" => account.owner = userID
BY Names, TrapTyped DEF Own, RequestsOwn, OwnRequest

LEMMA SavedOwn ==
  ASSUME Typed, Own, userID \in Users,
         NEW acc \in AccountType, acc.owner = userID, acc.avatar \in {Nil, userID}
  PROVE  Saved(acc) # Nil /\ RecordOf(Saved(acc), userID)
<1>1. Saved(acc) # Nil
  BY SavedTyped, Names DEF Typed, AccountType
<1>2. CASE lUser # Nil
  <2>1. lUser \in RecordType /\ lUser.userID = userID
    BY <1>2 DEF Typed, TypeOK, Own, RecordOwn, RecordOf
  <2> QED  BY <1>1, <1>2, <2>1 DEF Saved, RecordOf, RecordType
<1>3. CASE lUser = Nil
  BY <1>1, <1>3, Names DEF Saved, RecordOf
<1> QED  BY <1>2, <1>3

LEMMA MonitorOwnStep ==
  ASSUME Typed, Own, Monitor \/ MonitorRuns, ~overtaken'
  PROVE  Own'
<1> USE DEF Own
<1>1. CASE NetworkBack
  <2>1. MonitorOwn'
    BY <1>1 DEF NetworkBack, MonitorOwn, Typed, TypeOK
  <2>2. RequestsOwn' /\ EditKnown' /\ RecordOwn' /\ AccountOwn' /\ KnownSaved'
    BY <1>1 DEF NetworkBack, RequestsOwn, EditKnown, RecordOwn, AccountOwn, KnownSaved, history
  <2> QED  BY <1>1, <2>1, <2>2 DEF NetworkBack
<1>2. CASE FetchByMonitor
  <2> DEFINE r == Request("document", userID, FALSE)
  <2>1. userID \in Users /\ Trap(userID) = "no"
    BY <1>2, TrapTyped DEF FetchByMonitor, MonitorOwn
  <2>2. r \in RequestType /\ OwnRequest(r, userID, account.owner)
    BY <2>1 DEF Request, RequestType, OwnRequest
  <2>3. Sent(net, net', r, 1)
    BY <1>2, <2>1 DEF FetchByMonitor
  <2> HIDE DEF r
  <2>4. \A j \in Slots : net'[j] = net[j] \/ (net[j] = Nil /\ net'[j] = r)
    BY <2>2, <2>3, SentSlots, NetTyped DEF Typed
  <2>5. userID' = userID /\ account' = account
    BY <1>2 DEF FetchByMonitor
  <2>6. RequestsOwn'
    BY <2>2, <2>4, <2>5, RequestsKept DEF Kept
  <2>7. KnownSaved'
    BY <1>2, <2>4, <2>5, SavedKept DEF FetchByMonitor
  <2>8. MonitorOwn'
    BY <1>2, IdleTyped DEF FetchByMonitor, MonitorOwn
  <2>9. EditKnown' /\ RecordOwn' /\ AccountOwn'
    BY <1>2 DEF FetchByMonitor, EditKnown, RecordOwn, AccountOwn
  <2> QED  BY <1>2, <2>1, <2>5, <2>6, <2>7, <2>8, <2>9 DEF FetchByMonitor
<1>3. CASE NetworkLost
  <2>1. MonitorOwn'
    BY <1>3 DEF NetworkLost, MonitorOwn, RecordOwn, Typed, TypeOK
  <2>2. RequestsOwn' /\ EditKnown' /\ RecordOwn' /\ AccountOwn' /\ KnownSaved'
    BY <1>3 DEF NetworkLost, RequestsOwn, EditKnown, RecordOwn, AccountOwn, KnownSaved, history
  <2> QED  BY <1>3, <2>1, <2>2 DEF NetworkLost
<1>4. CASE CopyUserID
  <2>1. userID' = userID
    BY <1>4 DEF CopyUserID, MonitorOwn, RecordOf
  <2>2. MonitorOwn'
    BY <1>4, <2>1 DEF CopyUserID, MonitorOwn, Typed, TypeOK
  <2>3. RequestsOwn' /\ EditKnown' /\ RecordOwn' /\ AccountOwn' /\ KnownSaved'
    BY <1>4, <2>1 DEF CopyUserID, RequestsOwn, EditKnown, RecordOwn, AccountOwn, KnownSaved
  <2> QED  BY <1>4, <2>1, <2>2, <2>3 DEF CopyUserID
<1>5. CASE CopyAccount
  <2>1. lUser # Nil /\ RecordOf(monitor.saved, userID) /\ userID \in Users
    BY <1>5 DEF CopyAccount, MonitorOwn, RecordOwn
  <2>2. account'.owner = userID /\ account'.avatar = account.avatar
    BY <1>5, <2>1 DEF CopyAccount, RecordOf, Typed, TypeOK
  <2>3. userID' = userID /\ lUser' = lUser /\ net' = net /\ ~monitor.stale
    BY <1>5 DEF CopyAccount
  <2>4. MonitorOwn'
    BY <1>5, <2>1, <2>3 DEF CopyAccount, MonitorOwn, Typed, TypeOK
  <2>5. RequestsOwn'
    BY <2>2, <2>3, RequestsKept DEF Kept
  <2>6. EditKnown' /\ RecordOwn' /\ AccountOwn' /\ KnownSaved'
    BY <1>5, <2>1, <2>2, <2>3 DEF CopyAccount, EditKnown, RecordOwn, AccountOwn, KnownSaved
  <2> QED  BY <1>5, <2>3, <2>4, <2>5, <2>6 DEF CopyAccount
<1>6. CASE CopyAvatar
  <2>1. lUser # Nil /\ RecordOf(monitor.saved, userID) /\ userID \in Users
    BY <1>6 DEF CopyAvatar, MonitorOwn, RecordOwn
  <2>2. account'.owner = account.owner /\ account'.avatar \in {Nil, userID}
    BY <1>6, <2>1 DEF CopyAvatar, RecordOf, Typed, TypeOK
  <2>3. userID' = userID /\ lUser' = lUser /\ net' = net /\ ~monitor.stale
    BY <1>6 DEF CopyAvatar
  <2>4. MonitorOwn'
    BY <1>6, <2>1, <2>3 DEF CopyAvatar, MonitorOwn, Typed, TypeOK
  <2>5. RequestsOwn'
    BY <2>2, <2>3, RequestsKept DEF Kept
  <2>6. EditKnown' /\ RecordOwn' /\ AccountOwn' /\ KnownSaved'
    BY <1>6, <2>1, <2>2, <2>3 DEF CopyAvatar, EditKnown, RecordOwn, AccountOwn, KnownSaved
  <2> QED  BY <1>6, <2>3, <2>4, <2>5, <2>6 DEF CopyAvatar
<1>7. CASE GoOffline
  <2>1. MonitorOwn'
    BY <1>7 DEF GoOffline, MonitorOwn, Typed, TypeOK
  <2>2. RequestsOwn' /\ EditKnown' /\ RecordOwn' /\ AccountOwn' /\ KnownSaved'
    BY <1>7 DEF GoOffline, RequestsOwn, EditKnown, RecordOwn, AccountOwn, KnownSaved, history
  <2> QED  BY <1>7, <2>1, <2>2 DEF GoOffline
<1>8. CASE StopWaiting
  <2>1. account'.owner = account.owner /\ account'.avatar = account.avatar
    BY <1>8 DEF StopWaiting, Typed, TypeOK
  <2>2. MonitorOwn'
    BY <1>8, IdleTyped DEF StopWaiting, MonitorOwn
  <2>3. RequestsOwn' /\ EditKnown' /\ RecordOwn' /\ AccountOwn' /\ KnownSaved'
    BY <1>8, <2>1 DEF StopWaiting, RequestsOwn, EditKnown, RecordOwn, AccountOwn, KnownSaved, history
  <2> QED  BY <1>8, <2>2, <2>3 DEF StopWaiting
<1> QED  BY <1>1, <1>2, <1>3, <1>4, <1>5, <1>6, <1>7, <1>8 DEF Monitor, MonitorRuns

LEMMA UserOwnStep ==
  ASSUME Typed, Own, User, ~overtaken'
  PROVE  Own'
<1> USE DEF Own
(* A request enters a slot, and nothing else changes but the top and the buttons. *)
<1>a. ASSUME NEW r \in RequestType, OwnRequest(r, userID, account.owner),
             NEW n, Sent(net, net', r, n) \/ net' = net,
             crashed' = "no", EditKnown',
             UNCHANGED <<userID, account, monitor, lUser, photoLost>>
      PROVE  Own'
  <2>1. \A j \in Slots : net'[j] = net[j] \/ (net[j] = Nil /\ net'[j] = r)
    BY <1>a, SentSlots, NetTyped DEF Typed
  <2>2. /\ userID' = userID /\ account' = account /\ monitor' = monitor
        /\ lUser' = lUser /\ photoLost' = photoLost
    BY <1>a
  <2>3. RequestsOwn'
    BY <1>a, <2>1, <2>2, RequestsKept DEF Kept
  <2>4. KnownSaved'
    BY <2>1, <2>2, SavedKept
  <2>5. MonitorOwn' /\ RecordOwn' /\ AccountOwn'
    BY <2>2, MonitorKept DEF RecordOwn, AccountOwn
  <2> QED  BY <1>a, <2>2, <2>3, <2>4, <2>5
(* The requests stay as they are, and so does everything the session is about. *)
<1>b. ASSUME \A j \in Slots : Kept(net'[j], net[j]), EditKnown',
             account'.owner = account.owner, account'.avatar = account.avatar,
             crashed' = "no", UNCHANGED <<userID, monitor, lUser, photoLost>>
      PROVE  Own'
  <2>1. userID' = userID /\ monitor' = monitor /\ lUser' = lUser /\ photoLost' = photoLost
    BY <1>b
  <2>2. RequestsOwn'
    BY <1>b, <2>1, RequestsKept
  <2>3. KnownSaved'
    BY <1>b, <2>1, SavedKept DEF Kept
  <2>4. MonitorOwn' /\ RecordOwn' /\ AccountOwn'
    BY <1>b, <2>1, MonitorKept DEF RecordOwn, AccountOwn
  <2> QED  BY <1>b, <2>1, <2>2, <2>3, <2>4
<1>c. /\ account.isDownAvatar \in BOOLEAN
      /\ \A b : /\ [account EXCEPT !.isDownAvatar = b].owner = account.owner
                /\ [account EXCEPT !.isDownAvatar = b].avatar = account.avatar
  BY DEF Typed, TypeOK
<1>d. net \in NetType /\ \A j \in Slots : Kept(net[j], net[j])
  BY NetTyped DEF Typed, Kept
<1>1. CASE AccountAppears
  <2>1. EditKnown'
    BY <1>1 DEF AccountAppears, EditKnown
  <2>2. CASE account.isDownAvatar /\ userID # Nil
    <3> DEFINE r == Request("document", userID, TRUE)
               n == IF top = "unloaded" THEN 2 ELSE 1
    <3>1. userID \in Users /\ Trap(userID) = "no"
      BY <2>2, TrapTyped
    <3>2. r \in RequestType /\ OwnRequest(r, userID, account.owner)
      BY <3>1 DEF Request, RequestType, OwnRequest
    <3>3. Sent(net, net', r, n) /\ crashed' = "no"
      BY <1>1, <2>2, <3>1 DEF AccountAppears
    <3>4. UNCHANGED <<userID, account, monitor, lUser, photoLost>>
      BY <1>1 DEF AccountAppears, history
    <3> HIDE DEF r, n
    <3> QED  BY <1>a, <2>1, <3>2, <3>3, <3>4
  <2>3. CASE ~(account.isDownAvatar /\ userID # Nil)
    <3>1. net' = net /\ crashed' = "no" /\ account' = account
      BY <1>1, <2>3 DEF AccountAppears
    <3>2. UNCHANGED <<userID, monitor, lUser, photoLost>>
      BY <1>1 DEF AccountAppears, history
    <3> QED  BY <1>b, <1>d, <2>1, <3>1, <3>2
  <2> QED  BY <2>2, <2>3
<1>2. CASE OpenLogin
  <2>1. RequestsOwn'
    BY <1>2, StaleSlots DEF Typed, RequestsOwn, OwnRequest
  <2>2. MonitorOwn'
    BY <1>2 DEF OpenLogin, MonitorOwn, Typed, TypeOK
  <2>3. EditKnown' /\ RecordOwn' /\ AccountOwn' /\ KnownSaved'
    BY <1>2 DEF OpenLogin, EditKnown, RecordOwn, AccountOwn, KnownSaved, NewUser
  <2> QED  BY <1>2, <2>1, <2>2, <2>3 DEF OpenLogin
<1>3. CASE OpenSignUp
  <2>1. EditKnown'
    BY <1>3 DEF OpenSignUp, EditKnown
  <2> QED  BY <1>3, <1>b, <1>d, <2>1 DEF OpenSignUp, history
<1>4. CASE Back
  <2>1. \A j \in Slots : Kept(net'[j], net[j])
    BY <1>4, <1>d, LeftSlots DEF Back
  <2>2. EditKnown'
    BY <1>4 DEF Back, EditKnown
  <2> QED  BY <1>4, <1>b, <2>1, <2>2 DEF Back, history
<1>5. CASE CancelLogin
  <2>1. \A j \in Slots : Kept(net'[j], net[j])
    BY <1>5, <1>d, LeftSlots DEF CancelLogin
  <2>2. EditKnown'
    BY <1>5 DEF CancelLogin, EditKnown
  <2>3. crashed' = "no"
    BY <1>5, TrapTyped DEF CancelLogin
  <2> QED  BY <1>5, <1>b, <1>c, <2>1, <2>2, <2>3 DEF CancelLogin, history
<1>6. CASE OpenEdit
  <2>1. EditKnown'
    BY <1>6 DEF OpenEdit, EditKnown
  <2> QED  BY <1>6, <1>b, <1>d, <2>1 DEF OpenEdit, history
<1>7. CASE Save
  <2>1. userID \in Users /\ Trap(userID) = "no"
    BY <1>7, TrapTyped DEF Save, EditKnown
  <2>2. crashed' = "no" /\ UNCHANGED <<userID, monitor, lUser, photoLost>>
    BY <1>7, <2>1 DEF Save, history
  <2>3. EditKnown'
    BY <1>7, <2>1, Names DEF Save, EditKnown
  <2>4. CASE account' = [account EXCEPT !.isDownAvatar = TRUE] /\ net' = Left(net, {"put"})
    <3>1. \A j \in Slots : Kept(net'[j], net[j])
      BY <1>d, <2>4, LeftSlots
    <3> QED  BY <1>b, <1>c, <2>2, <2>3, <2>4, <3>1
  <2>5. CASE Sent(net, net', Request("put", userID, TRUE), 1) /\ account' = account
    <3> DEFINE r == Request("put", userID, TRUE)
    <3>1. r \in RequestType /\ OwnRequest(r, userID, account.owner)
      BY <2>1 DEF Request, RequestType, OwnRequest
    <3>2. Sent(net, net', r, 1)
      BY <2>5
    <3> HIDE DEF r
    <3> QED  BY <1>a, <2>2, <2>3, <2>5, <3>1, <3>2
  <2> QED  BY <1>7, <2>1, <2>4, <2>5 DEF Save
<1>8. ASSUME NEW u \in Users, LoginTapped(u) \/ SignUpTapped(u) PROVE Own'
  <2>1. PICK kind \in {"signIn", "createUser"} : Sent(net, net', Request(kind, u, TRUE), 1)
    BY <1>8 DEF LoginTapped, SignUpTapped
  <2> DEFINE r == Request(kind, u, TRUE)
  <2>2. r \in RequestType /\ OwnRequest(r, userID, account.owner)
    BY DEF Request, RequestType, OwnRequest
  <2>3. crashed' = "no" /\ UNCHANGED <<userID, account, monitor, lUser, photoLost>>
    BY <1>8 DEF LoginTapped, SignUpTapped, history
  <2>4. EditKnown'
    BY <1>8 DEF LoginTapped, SignUpTapped, EditKnown
  <2>5. Sent(net, net', r, 1)
    BY <2>1
  <2> HIDE DEF r
  <2> QED  BY <1>a, <2>2, <2>3, <2>4, <2>5
<1> QED  BY <1>1, <1>2, <1>3, <1>4, <1>5, <1>6, <1>7, <1>8 DEF User

LEMMA AnswerOwnStep ==
  ASSUME Typed, Own, NEW i \in Slots, Answer(i), ~overtaken'
  PROVE  Own'
<1> USE DEF Own
<1> DEFINE q == net[i]
(* What the session is about, when the slot is emptied or goes on as r. *)
<1>a. ASSUME NEW r \in RequestType \cup {Nil}, net' = InTurn(i, r),
             r = Nil \/ OwnRequest(r, userID, account'.owner),
             userID' = userID, account'.owner \in {account.owner, userID},
             monitor' = monitor, lUser' = lUser \/ lUser' # Nil
      PROVE  /\ RequestsOwn' /\ MonitorOwn'
             /\ net'[i] = r /\ \A j \in Slots : j # i => net'[j] = net[j]
  <2>1. net'[i] = r /\ \A j \in Slots : j # i => net'[j] = net[j]
    BY <1>a, InTurnSlots DEF Typed
  <2>2. \A j \in Slots : \/ net'[j] = Nil
                         \/ Kept(net'[j], net[j])
                         \/ OwnRequest(net'[j], userID', account'.owner)
    BY <1>a, <2>1 DEF Kept
  <2>3. RequestsOwn'
    BY <1>a, <2>2, RequestsKept
  <2> QED  BY <1>a, <2>1, <2>3, MonitorKept
<1>1. ASSUME SignedIn(i) \/ UserCreated(i) PROVE Own'
  <2>1. q.user \in Users /\ userID' = q.user /\ userID = Nil
    BY <1>1, PendingTyped DEF SignedIn, UserCreated
  <2>2. lUser = Nil /\ lUser' = Nil
    BY <1>1, <2>1, Names DEF SignedIn, UserCreated, RecordOwn
  <2>3. account.owner = Guest /\ account.avatar = Nil
    BY <2>1, Names DEF AccountOwn, Typed, TypeOK
  <2>4. account'.owner = Guest /\ account'.avatar = Nil
    BY <1>1, <2>3 DEF SignedIn, UserCreated, Typed, TypeOK
  <2>5. RequestsOwn'
    <3>1. net' = PoppedIf(q.view, InTurn(i, Nil))
      BY <1>1, DoneInTurn DEF SignedIn, UserCreated
    <3>2. \A j \in Slots : net'[j] = Nil \/ Kept(net'[j], net[j])
      BY <3>1, PopSlots DEF Typed, Kept
    <3> QED  BY <2>1, <2>3, <2>4, <3>2, RequestsKept, Names
  <2>6. MonitorOwn'
    BY <1>1, <2>1, <2>2, MonitorKept, Names DEF SignedIn, UserCreated
  <2>7. userID' # Nil /\ userID' # Guest
    BY <2>1, Names
  <2>8. EditKnown' /\ RecordOwn' /\ AccountOwn' /\ KnownSaved'
    BY <2>2, <2>4, <2>7 DEF EditKnown, RecordOwn, AccountOwn, KnownSaved
  <2> QED  BY <1>1, <2>1, <2>5, <2>6, <2>8 DEF SignedIn, UserCreated
<1>2. CASE PlainDocument(i)
  <2> DEFINE acc == [account EXCEPT !.owner = q.user, !.avatar = Nil]
             again == q.view /\ acc.isDownAvatar /\ userID # Nil
             r == IF again THEN Request("document", userID, TRUE) ELSE Nil
  <2>1. Pending(i, "document") /\ ~q.stale /\ q.user \in Users
    BY <1>2 DEF PlainDocument, LateUse, Typed, TypeOK
  <2>2. userID \in Users /\ userID # Nil /\ q.user = userID /\ Trap(userID) = "no"
    BY <2>1, OwnAnswer DEF Pending
  <2>3. acc \in AccountType /\ acc.owner = userID /\ acc.avatar = Nil
    BY <2>2, AccountTyped DEF Typed, TypeOK, Someone
  <2>4. account' = acc /\ crashed' = "no" /\ lUser' = Saved(acc)
    BY <1>2, <2>2 DEF PlainDocument
  <2>5. /\ userID' = userID /\ top' = top /\ monitor' = monitor /\ photoLost' = photoLost
        /\ net' = InTurn(i, r)
    BY <1>2, DoneInTurn DEF PlainDocument
  <2>6. r \in RequestType \cup {Nil} /\ (r = Nil \/ OwnRequest(r, userID, userID))
    BY <2>2 DEF Request, RequestType, OwnRequest
  <2> HIDE DEF acc, r
  <2>7. lUser' # Nil /\ RecordOf(lUser', userID)
    BY <2>2, <2>3, <2>4, SavedOwn
  <2>8. RequestsOwn' /\ MonitorOwn'
    BY <1>a, <2>3, <2>4, <2>5, <2>6, <2>7
  <2>9. EditKnown'
    BY <2>2, <2>5 DEF EditKnown
  <2>10. RecordOwn' /\ AccountOwn' /\ KnownSaved'
    BY <2>2, <2>3, <2>4, <2>5, <2>7 DEF RecordOwn, AccountOwn, KnownSaved
  <2> QED  BY <2>4, <2>5, <2>8, <2>9, <2>10
<1>3. CASE DocumentWithAvatar(i)
  <2> DEFINE r == Request("photo", userID, q.view)
  <2>1. Pending(i, "document") /\ ~q.stale /\ q.view \in BOOLEAN
    BY <1>3, PendingTyped DEF DocumentWithAvatar, LateUse
  <2>2. userID \in Users /\ userID # Nil /\ q.user = userID
    BY <2>1, OwnAnswer DEF Pending
  <2>3. account'.owner = userID /\ account'.avatar = account.avatar
    BY <1>3, <2>2 DEF DocumentWithAvatar, Typed, TypeOK
  <2>4. /\ userID' = userID /\ monitor' = monitor /\ lUser' = lUser /\ crashed' = crashed
        /\ top' = top /\ buttons' = buttons /\ net' = InTurn(i, r)
    BY <1>3, <2>2 DEF DocumentWithAvatar
  <2>5. r \in RequestType /\ r.kind = "photo" /\ OwnRequest(r, userID, userID)
    BY <2>1, <2>2 DEF Request, RequestType, OwnRequest
  <2> HIDE DEF r
  <2>6. RequestsOwn' /\ MonitorOwn' /\ net'[i] = r
    BY <1>a, <2>3, <2>4, <2>5
  <2>7. KnownSaved'
    BY <2>5, <2>6, Names DEF KnownSaved
  <2>8. EditKnown' /\ RecordOwn' /\ AccountOwn'
    BY <2>3, <2>4 DEF EditKnown, RecordOwn, AccountOwn
  <2> QED  BY <2>4, <2>6, <2>7, <2>8
<1>4. CASE PhotoArrives(i)
  <2> DEFINE acc == [account EXCEPT !.avatar = q.user, !.isDownAvatar = FALSE]
  <2>1. Pending(i, "photo") /\ ~q.stale
    BY <1>4 DEF PhotoArrives, LateUse
  <2>2. userID \in Users /\ userID # Nil /\ q.user = userID /\ account.owner = userID
    BY <2>1, OwnAnswer DEF Pending
  <2>3. acc \in AccountType /\ acc.owner = userID /\ acc.avatar = userID
    BY <2>2, AccountTyped DEF Typed, TypeOK, Someone
  <2>4. account' = acc /\ lUser' = Saved(acc)
    BY <1>4 DEF PhotoArrives
  <2>5. /\ userID' = userID /\ top' = top /\ monitor' = monitor /\ crashed' = crashed
        /\ net' = InTurn(i, Nil)
    BY <1>4, DoneInTurn DEF PhotoArrives
  <2> HIDE DEF acc
  <2>6. lUser' # Nil /\ RecordOf(lUser', userID)
    BY <2>2, <2>3, <2>4, SavedOwn
  <2>7. RequestsOwn' /\ MonitorOwn'
    BY <1>a, <2>3, <2>4, <2>5, <2>6
  <2>8. EditKnown' /\ RecordOwn' /\ AccountOwn' /\ KnownSaved'
    BY <2>2, <2>3, <2>4, <2>5, <2>6 DEF EditKnown, RecordOwn, AccountOwn, KnownSaved
  <2> QED  BY <2>5, <2>7, <2>8
<1>5. CASE PhotoUploaded(i)
  <2> DEFINE r == [q EXCEPT !.kind = "url"]
  <2>1. q \in RequestType /\ q # Nil /\ q.kind = "put"
    BY <1>5, PendingTyped DEF PhotoUploaded
  <2>2. /\ r \in RequestType /\ r.kind = "url" /\ r.user = q.user /\ r.stale = q.stale
    BY <2>1 DEF RequestType
  <2>3. net' = PoppedIf(q.view, InTurn(i, r))
    BY <1>5 DEF PhotoUploaded
  <2> HIDE DEF r
  <2>4. Kept(net'[i], r) /\ \A j \in Slots : j # i => Kept(net'[j], net[j])
    BY <2>2, <2>3, PopSlots DEF Typed
  <2>5. account'.owner = account.owner /\ account'.avatar = account.avatar
    BY <1>5 DEF PhotoUploaded, Typed, TypeOK
  <2>6. /\ userID' = userID /\ monitor' = monitor /\ lUser' = lUser /\ photoLost' = photoLost
        /\ buttons' = buttons /\ crashed' = crashed /\ top' \in {top, "appearing"}
    BY <1>5 DEF PhotoUploaded, PopIf, history
  <2>7. RequestsOwn'
    <3>1. OwnRequest(q, userID, account.owner)
      BY DEF RequestsOwn
    <3>2. OwnRequest(net'[i], userID, account.owner)
      BY <2>1, <2>2, <2>4, <3>1, Names DEF OwnRequest, Kept
    <3> QED  BY <2>4, <2>5, <2>6, <3>2, RequestsKept
  <2>8. KnownSaved'
    <3>1. \A j \in Slots : net[j] # Nil /\ net[j].kind = "photo" =>
            net'[j] # Nil /\ net'[j].kind = "photo"
      BY <2>1, <2>4 DEF Kept
    <3> QED  BY <2>5, <2>6, <3>1, SavedKept
  <2>9. MonitorOwn' /\ EditKnown' /\ RecordOwn' /\ AccountOwn'
    BY <2>5, <2>6, MonitorKept, EditKept DEF RecordOwn, AccountOwn
  <2> QED  BY <2>6, <2>7, <2>8, <2>9
<1>6. CASE UrlArrives(i)
  <2>1. Pending(i, "url") /\ ~q.stale
    BY <1>6 DEF UrlArrives, LateUse
  <2>2. crashed' = "no"
    BY <1>6, <2>1, OwnAnswer DEF UrlArrives, Pending
  <2>3. /\ userID' = userID /\ account' = account /\ monitor' = monitor /\ lUser' = lUser
        /\ top' = top /\ buttons' = buttons /\ photoLost' = photoLost
        /\ net' = InTurn(i, Nil)
    BY <1>6, DoneInTurn DEF UrlArrives
  <2>4. RequestsOwn' /\ MonitorOwn' /\ \A j \in Slots : j # i => net'[j] = net[j]
    BY <1>a, <2>3
  <2>5. KnownSaved'
    BY <2>1, <2>3, <2>4, SavedKept DEF Pending
  <2>6. EditKnown' /\ RecordOwn' /\ AccountOwn'
    BY <2>3 DEF EditKnown, RecordOwn, AccountOwn
  <2> QED  BY <2>2, <2>3, <2>4, <2>5, <2>6
<1>7. CASE RequestFails(i)
  <2>1. account'.owner = account.owner /\ account'.avatar = account.avatar
    BY <1>7 DEF RequestFails, Typed, TypeOK
  <2>2. /\ userID' = userID /\ monitor' = monitor /\ lUser' = lUser /\ crashed' = crashed
        /\ top' = top /\ buttons' = buttons /\ net' = InTurn(i, Nil)
        /\ photoLost' = (photoLost \/ q.kind = "photo")
    BY <1>7, DoneInTurn DEF RequestFails
  <2>3. RequestsOwn' /\ MonitorOwn' /\ \A j \in Slots : j # i => net'[j] = net[j]
    BY <1>a, <2>1, <2>2
  <2>4. KnownSaved'
    BY <2>1, <2>2, <2>3, SavedKept
  <2>5. EditKnown' /\ RecordOwn' /\ AccountOwn'
    BY <2>1, <2>2 DEF EditKnown, RecordOwn, AccountOwn
  <2> QED  BY <2>2, <2>3, <2>4, <2>5
<1> QED  BY <1>1, <1>2, <1>3, <1>4, <1>5, <1>6, <1>7 DEF Answer

(* A launch logs in the user of the LUser, and forgets all that was read. *)
LEMMA LaunchOwnStep ==
  ASSUME Typed, Own, Launch
  PROVE  Own'
<1> USE DEF Own
<1>1. userID' \in Users \cup {Nil} /\ crashed' = "no" /\ (userID' # Nil => userID' # Guest)
  BY TrapTyped, Names DEF Launch, RecordOwn, RecordOf
<1>2. RequestsOwn' /\ MonitorOwn'
  BY IdleTyped DEF Launch, RequestsOwn, OwnRequest, MonitorOwn
<1>3. EditKnown' /\ RecordOwn' /\ AccountOwn' /\ KnownSaved'
  BY <1>1 DEF Launch, EditKnown, RecordOwn, RecordOf, AccountOwn, KnownSaved, NewUser
<1> QED  BY <1>1, <1>2, <1>3

LEMMA InvStep == Inv /\ [Next]_vars => Inv'
<1> SUFFICES ASSUME Inv, [Next]_vars PROVE Inv'
  OBVIOUS
<1>1. Typed /\ SessionOwn /\ Typed'
  BY TypedStep DEF Inv
<1> SUFFICES ASSUME ~overtaken' PROVE Own'
  BY <1>1 DEF Inv, SessionOwn
<1>2. CASE UNCHANGED vars
  <2>1. Own
    BY <1>1, <1>2 DEF SessionOwn, vars, history
  <2> QED  BY <1>2, <2>1 DEF Own, RequestsOwn, MonitorOwn, EditKnown, RecordOwn, AccountOwn,
                             KnownSaved, vars, ram, server, history
<1>3. CASE Next
  <2>1. Own
    BY <1>1, <1>3, Zenon DEF SessionOwn, Next, Launch, Monitor, NetworkBack, NetworkLost, MonitorRuns,
      FetchByMonitor, CopyUserID, CopyAccount, CopyAvatar, GoOffline, StopWaiting, User, AccountAppears, OpenLogin,
      OpenSignUp, Back, CancelLogin, OpenEdit, Save, LoginTapped, SignUpTapped, Answer, SignedIn,
      UserCreated, PlainDocument, DocumentWithAvatar, PhotoArrives, PhotoUploaded, UrlArrives,
      RequestFails, LateUse, history
  <2>2. CASE Launch
    BY <1>1, <2>1, <2>2, LaunchOwnStep
  <2>3. CASE Monitor \/ MonitorRuns
    BY <1>1, <2>1, <2>3, MonitorOwnStep
  <2>4. CASE User
    BY <1>1, <2>1, <2>4, UserOwnStep
  <2>5. ASSUME NEW i \in Slots, Answer(i) PROVE Own'
    BY <1>1, <2>1, <2>5, AnswerOwnStep
  <2> QED  BY <1>3, <2>2, <2>3, <2>4, <2>5 DEF Next
<1> QED  BY <1>2, <1>3

LEMMA InvInit == Init => Inv
<1> SUFFICES ASSUME Init PROVE Own
  BY TypedInit DEF Inv, SessionOwn
<1>1. RequestsOwn /\ MonitorOwn /\ KnownSaved
  BY IdleTyped DEF Init, RequestsOwn, OwnRequest, MonitorOwn, KnownSaved
<1> QED  BY <1>1 DEF Init, Own, EditKnown, RecordOwn, AccountOwn, NewUser

LEMMA InvHolds == Spec => []Inv
BY InvInit, InvStep, PTL DEF Spec

-----------------------------------------------------------------------------
(* Unless an answer outlived its session, the LUser that the next launch   *)
(* logs in is the logged-in user's, with that user's data and photo        *)
(* (userRamToRealm, userRealmToRam and their callers).                     *)
THEOREM RecordOwned == Spec => []RecordIsOwn
<1>1. Inv => RecordIsOwn
  BY DEF Inv, SessionOwn, Own, RecordOwn, RecordOf, RecordIsOwn
<1> QED  BY InvHolds, <1>1, PTL

(* ... and so is the account that the account tab shows.                   *)
THEOREM AccountOwned == Spec => []AccountIsOwn
<1>1. Inv => AccountIsOwn
  BY DEF Inv, SessionOwn, Own, AccountOwn, AccountIsOwn
<1> QED  BY InvHolds, <1>1, PTL

(* ... and no callback finds UserID nil, or empty, where it unwraps it or  *)
(* makes a document's path of it.                                          *)
THEOREM NothingTraps == Spec => []NoTrap
<1>1. Inv => NoTrap
  BY DEF Inv, SessionOwn, Own, NoTrap
<1> QED  BY InvHolds, <1>1, PTL

(* ... and a user whose data the app has, with no photo awaited or lost,   *)
(* is in Realm, and stays logged in through a restart.                     *)
THEOREM LoginKept == Spec => []LoginSurvives
<1>1. Inv => LoginSurvives
  BY DEF Inv, SessionOwn, Own, KnownSaved, LoginSurvives
<1> QED  BY InvHolds, <1>1, PTL
=============================================================================
