---------------------------- MODULE AccountSession ----------------------------
(***************************************************************************)
(* Who is logged in: UserLocal.UserID and localAccount in memory, the one  *)
(* LUser in Realm, the document and photo of a user on the server, the     *)
(* controllers of the account tab that change them, and the network        *)
(* monitor, whose handler runs on a queue of its own.                      *)
(*                                                                         *)
(* Account data is abstracted to whose it is (owner) and whose photo is    *)
(* the avatar.  Firebase callbacks run on the main queue and are atomic;   *)
(* the monitor's handler is cut where it reads or writes shared state.     *)
(***************************************************************************)
EXTENDS Naturals, FiniteSets

CONSTANTS
  Users,        (* uids                                                    *)
  Registered,   (* users with an account and a document at the start       *)
  WithAvatar,   (* those whose document has a non-empty avatarUrl          *)
  Slots,        (* requests in flight at once: a bound of the model        *)
  Beyond,       (* whether a process whose session was overtaken runs on:  *)
                (* a bound for runs that say nothing of what it does then  *)
  Nil,          (* nil                                                     *)
  Empty,        (* the empty string, where a uid is expected               *)
  Guest         (* owner of the data of a fresh User()                     *)

ASSUME ConstantsAssumption ==
  /\ WithAvatar \subseteq Registered /\ Registered \subseteq Users
  /\ Cardinality({Nil, Empty, Guest}) = 3
  /\ {Nil, Empty, Guest} \cap Users = {}
  /\ IsFiniteSet(Slots)
  /\ Beyond \in BOOLEAN

VARIABLES
  (* RAM *)
  userID,       (* UserLocal.UserID                                        *)
  account,      (* UserLocal.localAccount: owner, avatar, isDownAvatar     *)
  top,          (* controller on top of the account tab's stack            *)
  buttons,      (* AccountViewController shows Edit and Change password    *)
  network,      (* Utilities.isNetworkConnect                              *)
  monitor,      (* where the network monitor's handler is                  *)
  net,          (* per slot: a request whose callback has not run, or Nil  *)
  crashed,      (* why the process trapped: "no", "unwrap", "path"         *)
  (* disk and server *)
  lUser,        (* realm.objects(LUser.self).first, or Nil                 *)
  members,      (* users that can sign in                                  *)
  docs,         (* users with a document                                   *)
  avatarUrl,    (* those whose avatarUrl is not ""                         *)
  photos,       (* users with a file "User/<uid>.jpg"                      *)
  (* history, read by properties only *)
  overtaken,    (* an answer was used after its session had ended          *)
  photoLost     (* the request of a photo failed                           *)

ram == <<userID, account, top, buttons, network, monitor, net, crashed>>
server == <<members, docs, avatarUrl, photos>>
history == <<overtaken, photoLost>>
vars == <<ram, lUser, server, history>>

-----------------------------------------------------------------------------
NewUser == [owner |-> Guest, avatar |-> Nil, isDownAvatar |-> FALSE]
IdleMonitor == [at |-> "idle", saved |-> Nil, stale |-> FALSE]

(* view: the controller that sent it is on screen, or, for a document or a *)
(* photo, is AccountViewController; stale: a logout happened since.        *)
Request(kind, u, view) == [kind |-> kind, user |-> u, view |-> view, stale |-> FALSE]

(* The process runs.  *)
Alive == crashed = "no" /\ (Beyond \/ ~overtaken)
Pending(i, kind) == Alive /\ net[i] # Nil /\ net[i].kind = kind
Done(i) == [net EXCEPT ![i] = Nil]
InTurn(i, r) == [net EXCEPT ![i] = r]

(* n copies of request r enter free slots of old, giving new. *)
Sent(old, new, r, n) ==
  \E S \in SUBSET {i \in Slots : old[i] = Nil} :
    /\ Cardinality(S) = n
    /\ new = [i \in Slots |-> IF i \in S THEN r ELSE old[i]]

(* The controllers popped off the stack lose their navigationController.   *)
Left(requests, kinds) ==
  [i \in Slots |-> IF requests[i] # Nil /\ requests[i].kind \in kinds
                   THEN [requests[i] EXCEPT !.view = FALSE] ELSE requests[i]]
Forms == {"signIn", "createUser", "put"}
(* transitionToHome: popToRootViewController has no effect when the        *)
(* controller that calls it has left the stack.                            *)
PopIf(view) == top' = IF view THEN "appearing" ELSE top
PoppedIf(view, requests) == IF view THEN Left(requests, Forms) ELSE requests

(* userRamToRealm: an existing LUser keeps its userID. *)
Saved(acc) ==
  IF lUser # Nil
    THEN [lUser EXCEPT !.owner = acc.owner, !.avatar = acc.avatar]
    ELSE [userID |-> IF userID = Nil THEN Empty ELSE userID,
          owner |-> acc.owner, avatar |-> acc.avatar]

(* AccountViewController.setAccount: what the two buttons become. *)
ButtonsAfter == IF userID = Nil THEN FALSE ELSE buttons \/ network

(* What document(UserLocal.UserID!) does: unwrapping nil traps, and        *)
(* Firestore aborts on an empty path.                                      *)
Trap(id) == IF id = Nil THEN "unwrap" ELSE IF id = Empty THEN "path" ELSE "no"

LateUse(r) == overtaken' = (overtaken \/ r.stale)

Init ==
  /\ userID = Nil /\ account = NewUser /\ lUser = Nil
  /\ top = "unloaded" /\ buttons = FALSE /\ network = TRUE
  /\ monitor = IdleMonitor
  /\ net = [i \in Slots |-> Nil]
  /\ crashed = "no"
  /\ members = Registered /\ docs = Registered
  /\ avatarUrl = WithAvatar /\ photos = WithAvatar
  /\ overtaken = FALSE /\ photoLost = FALSE

-----------------------------------------------------------------------------
(* The process ends, or has trapped, and the app is launched.  Launching   *)
(* opens the document of UserID if it is not nil (DownloadList).           *)
Launch ==
  /\ userID' = IF lUser = Nil THEN Nil ELSE lUser.userID
  /\ crashed' = IF lUser = Nil THEN "no" ELSE Trap(lUser.userID)
  /\ account' = NewUser
  /\ top' = "unloaded" /\ buttons' = FALSE /\ network' = TRUE
  /\ monitor' = IdleMonitor
  /\ net' = [i \in Slots |-> Nil]
  /\ UNCHANGED <<lUser, server, history>>

(* The network monitor's handler, on its own queue: the network is back,   *)
(* and a UserID is there ...                                               *)
NetworkBack ==
  /\ Alive /\ monitor.at = "idle"
  /\ network' = TRUE
  /\ monitor' = IF userID = Nil THEN monitor ELSE [monitor EXCEPT !.at = "checked"]
  /\ UNCHANGED <<userID, account, top, buttons, net, crashed, lUser, server, history>>

(* ... and userFirebaseToRam unwraps it a moment later.                    *)
FetchByMonitor ==
  /\ Alive /\ monitor.at = "checked"
  /\ monitor' = IdleMonitor
  /\ overtaken' = (overtaken \/ monitor.stale)
  /\ crashed' = Trap(userID)
  /\ IF Trap(userID) = "no"
       THEN Sent(net, net', Request("document", userID, FALSE), 1)
       ELSE UNCHANGED net
  /\ UNCHANGED <<userID, account, top, buttons, network, lUser, server, photoLost>>

(* The network is lost: userRealmToRam reads the LUser, ...                *)
NetworkLost ==
  /\ Alive /\ monitor.at = "idle"
  /\ monitor' = [monitor EXCEPT !.at = IF lUser = Nil THEN "copied" ELSE "read",
                                !.saved = lUser]
  /\ UNCHANGED <<userID, account, top, buttons, network, net, crashed, lUser, server, history>>

(* ... sets UserID and then the account from it, field by field (its data, *)
(* and at last the avatar), ...                                            *)
CopyUserID ==
  /\ Alive /\ monitor.at = "read"
  /\ userID' = monitor.saved.userID
  /\ monitor' = [monitor EXCEPT !.at = "named"]
  /\ overtaken' = (overtaken \/ monitor.stale)
  /\ UNCHANGED <<account, top, buttons, network, net, crashed, lUser, server, photoLost>>
CopyAccount ==
  /\ Alive /\ monitor.at = "named"
  /\ account' = [account EXCEPT !.owner = monitor.saved.owner]
  /\ monitor' = [monitor EXCEPT !.at = "filled"]
  /\ overtaken' = (overtaken \/ monitor.stale)
  /\ UNCHANGED <<userID, top, buttons, network, net, crashed, lUser, server, photoLost>>
CopyAvatar ==
  /\ Alive /\ monitor.at = "filled"
  /\ account' = [account EXCEPT !.avatar = monitor.saved.avatar]
  /\ monitor' = [monitor EXCEPT !.at = "copied"]
  /\ overtaken' = (overtaken \/ monitor.stale)
  /\ UNCHANGED <<userID, top, buttons, network, net, crashed, lUser, server, photoLost>>

(* ... and the handler lowers isNetworkConnect and then isDownAvatar.      *)
GoOffline ==
  /\ Alive /\ monitor.at = "copied"
  /\ network' = FALSE
  /\ monitor' = [monitor EXCEPT !.at = "offline"]
  /\ UNCHANGED <<userID, account, top, buttons, net, crashed, lUser, server, history>>
StopWaiting ==
  /\ Alive /\ monitor.at = "offline"
  /\ account' = [account EXCEPT !.isDownAvatar = FALSE]
  /\ monitor' = IdleMonitor
  /\ UNCHANGED <<userID, top, buttons, network, net, crashed, lUser, server, history>>

-----------------------------------------------------------------------------
(* Mutant of AccountAppears: without a user, setAccount is not called. *)
MutantNoRefresh ==
  /\ Alive /\ top \in {"unloaded", "appearing", "account"}
  /\ top' = "account"
  /\ buttons' = IF top = "unloaded" THEN userID # Nil /\ network ELSE buttons
  /\ IF account.isDownAvatar /\ userID # Nil
       THEN /\ crashed' = Trap(userID)
            /\ Sent(net, net', Request("document", userID, TRUE), IF top = "unloaded" THEN 2 ELSE 1)
       ELSE UNCHANGED <<crashed, net>>
  /\ UNCHANGED <<userID, account, network, monitor, lUser, server, history>>

(* The account tab appears; the first time, viewDidLoad runs before.       *)
(* setAccount and downAccount each fetch while isDownAvatar is set.        *)
AccountAppears ==
  /\ Alive /\ top \in {"unloaded", "appearing", "account"}
  /\ top' = "account"
  /\ buttons' = CASE top = "unloaded" -> userID # Nil /\ network
                  [] userID = Nil     -> FALSE
                  [] OTHER            -> buttons
  /\ IF account.isDownAvatar /\ userID # Nil
       THEN /\ crashed' = Trap(userID)
            /\ Sent(net, net', Request("document", userID, TRUE), IF top = "unloaded" THEN 2 ELSE 1)
       ELSE UNCHANGED <<crashed, net>>
  /\ UNCHANGED <<userID, account, network, monitor, lUser, server, history>>

(* Mutants of OpenLogin: the LUser, or localAccount, of the old account    *)
(* stays.                                                                  *)
MutantKeepsAccount ==
  /\ Alive /\ top = "account"
  /\ top' = "login"
  /\ userID' = Nil /\ lUser' = Nil
  /\ net' = [i \in Slots |-> IF net[i] = Nil THEN Nil ELSE [net[i] EXCEPT !.stale = TRUE]]
  /\ monitor' = [monitor EXCEPT !.stale = (monitor.at # "idle")]
  /\ UNCHANGED <<account, buttons, network, crashed, server, history>>
MutantKeepsRecord ==
  /\ Alive /\ top = "account"
  /\ top' = "login"
  /\ userID' = Nil /\ account' = NewUser
  /\ net' = [i \in Slots |-> IF net[i] = Nil THEN Nil ELSE [net[i] EXCEPT !.stale = TRUE]]
  /\ monitor' = [monitor EXCEPT !.stale = (monitor.at # "idle")]
  /\ UNCHANGED <<buttons, network, crashed, lUser, server, history>>

(* Login or Logout is tapped: LoginViewController loads, and forgets the   *)
(* old account whichever the button said.                                  *)
OpenLogin ==
  /\ Alive /\ top = "account"
  /\ top' = "login"
  /\ userID' = Nil /\ account' = NewUser /\ lUser' = Nil
  /\ net' = [i \in Slots |-> IF net[i] = Nil THEN Nil ELSE [net[i] EXCEPT !.stale = TRUE]]
  /\ monitor' = [monitor EXCEPT !.stale = (monitor.at # "idle")]
  /\ UNCHANGED <<buttons, network, crashed, server, history>>

(* Login is tapped in the form; the answer may be slow, and the button can *)
(* be tapped again.                                                        *)
LoginTapped(u) ==
  /\ Alive /\ top = "login" /\ u \in members
  /\ Sent(net, net', Request("signIn", u, TRUE), 1)
  /\ UNCHANGED <<userID, account, top, buttons, network, monitor, crashed, lUser, server, history>>

OpenSignUp ==
  /\ Alive /\ top = "login"
  /\ top' = "signup"
  /\ UNCHANGED <<userID, account, buttons, network, monitor, net, crashed, lUser, server, history>>

SignUpTapped(u) ==
  /\ Alive /\ top = "signup" /\ u \notin members
  /\ Sent(net, net', Request("createUser", u, TRUE), 1)
  /\ UNCHANGED <<userID, account, top, buttons, network, monitor, crashed, lUser, server, history>>

(* The navigation bar's back button.                                       *)
Back ==
  /\ Alive /\ top \in {"login", "signup", "edit"}
  /\ top' = IF top = "signup" THEN "login" ELSE "appearing"
  /\ net' = Left(net, CASE top = "login"  -> {"signIn"}
                        [] top = "signup" -> {"createUser"}
                        [] OTHER          -> {"put"})
  /\ UNCHANGED <<userID, account, buttons, network, monitor, crashed, lUser, server, history>>

(* Cancel in the login form is a transitionToHome, without a user as a     *)
(* rule: DownloadList opens the document of UserID if it is not nil.       *)
CancelLogin ==
  /\ Alive /\ top = "login"
  /\ crashed' = IF userID = Nil THEN "no" ELSE Trap(userID)
  /\ top' = "appearing"
  /\ account' = [account EXCEPT !.isDownAvatar = TRUE]
  /\ net' = Left(net, Forms)
  /\ UNCHANGED <<userID, buttons, network, monitor, lUser, server, history>>

SignedIn(i) ==
  /\ Pending(i, "signIn")
  /\ userID' = net[i].user
  /\ account' = [account EXCEPT !.isDownAvatar = TRUE]
  /\ PopIf(net[i].view)
  /\ net' = PoppedIf(net[i].view, Done(i))
  /\ overtaken' = (overtaken \/ userID # Nil)
  /\ UNCHANGED <<buttons, network, monitor, crashed, lUser, server, photoLost>>

(* The new user's document, without an avatar, is written at once, or the  *)
(* write is refused; the app goes on in both cases.                        *)
UserCreated(i) ==
  /\ Pending(i, "createUser") /\ net[i].user \notin members
  /\ members' = members \cup {net[i].user}
  /\ docs' \in {docs, docs \cup {net[i].user}}
  /\ userID' = net[i].user
  /\ account' = [account EXCEPT !.isDownAvatar = TRUE]
  /\ PopIf(net[i].view)
  /\ net' = PoppedIf(net[i].view, Done(i))
  /\ overtaken' = (overtaken \/ userID # Nil)
  /\ UNCHANGED <<buttons, network, monitor, crashed, lUser, avatarUrl, photos, photoLost>>

-----------------------------------------------------------------------------
(* The document of a user without an avatar arrives: the account is saved. *)
(* AccountViewController, finding isDownAvatar still set, asks again.      *)
PlainDocument(i) ==
  LET acc == [account EXCEPT !.owner = net[i].user, !.avatar = Nil]
      again == net[i].view /\ acc.isDownAvatar /\ userID # Nil
      trap == IF again THEN Trap(userID) ELSE "no"
  IN
  /\ Pending(i, "document") /\ net[i].user \in docs \ avatarUrl
  /\ account' = acc
  /\ buttons' = IF net[i].view THEN ButtonsAfter ELSE buttons
  /\ net' = IF again THEN InTurn(i, Request("document", userID, TRUE)) ELSE Done(i)
  /\ crashed' = trap
  /\ lUser' = IF trap = "no" THEN Saved(acc) ELSE lUser
  /\ LateUse(net[i])
  /\ UNCHANGED <<userID, top, network, monitor, server, photoLost>>

(* The document of a user with an avatar arrives: the photo of UserID,     *)
(* unwrapped, is requested.                                                *)
DocumentWithAvatar(i) ==
  /\ Pending(i, "document") /\ net[i].user \in docs \cap avatarUrl
  /\ account' = [account EXCEPT !.owner = net[i].user,
                                !.isDownAvatar = IF net[i].view THEN @ ELSE TRUE]
  /\ IF userID = Nil
       THEN crashed' = "unwrap" /\ net' = Done(i)
       ELSE net' = InTurn(i, Request("photo", userID, net[i].view)) /\ UNCHANGED crashed
  /\ LateUse(net[i])
  /\ UNCHANGED <<userID, top, buttons, network, monitor, lUser, server, photoLost>>

(* Mutant of PhotoArrives: isDownAvatar stays set, setAccount asks again.  *)
MutantNotLowered(i) ==
  LET acc == [account EXCEPT !.avatar = net[i].user] IN
  /\ Pending(i, "photo") /\ net[i].user \in photos
  /\ account' = acc
  /\ lUser' = Saved(acc)
  /\ buttons' = IF net[i].view THEN ButtonsAfter ELSE buttons
  /\ net' = IF net[i].view /\ acc.isDownAvatar /\ userID # Nil
              THEN InTurn(i, Request("document", userID, TRUE)) ELSE Done(i)
  /\ LateUse(net[i])
  /\ UNCHANGED <<userID, top, network, monitor, crashed, server, photoLost>>
(* Mutant of PhotoArrives: the photo is kept but the account not saved.    *)
MutantNotSaved(i) ==
  LET acc == [account EXCEPT !.avatar = net[i].user, !.isDownAvatar = FALSE] IN
  /\ Pending(i, "photo") /\ net[i].user \in photos
  /\ account' = acc
  /\ buttons' = IF net[i].view THEN ButtonsAfter ELSE buttons
  /\ net' = Done(i)
  /\ LateUse(net[i])
  /\ UNCHANGED <<userID, top, network, monitor, crashed, lUser, server, photoLost>>

(* The photo arrives: the account is complete and saved.                   *)
PhotoArrives(i) ==
  LET acc == [account EXCEPT !.avatar = net[i].user, !.isDownAvatar = FALSE] IN
  /\ Pending(i, "photo") /\ net[i].user \in photos
  /\ account' = acc
  /\ lUser' = Saved(acc)
  /\ buttons' = IF net[i].view THEN ButtonsAfter ELSE buttons
  /\ net' = Done(i)
  /\ LateUse(net[i])
  /\ UNCHANGED <<userID, top, network, monitor, crashed, server, photoLost>>

(* A request fails, or finds no document, file or free address.  Only a    *)
(* failed document request has a consequence: isDownAvatar is lowered.     *)
RequestFails(i) ==
  /\ Alive /\ net[i] # Nil
  /\ \/ /\ net[i].kind = "document"
        /\ account' = [account EXCEPT !.isDownAvatar = FALSE]
     \/ net[i].kind = "document" /\ net[i].user \notin docs /\ UNCHANGED account
     \/ net[i].kind # "document" /\ UNCHANGED account
  /\ net' = Done(i)
  /\ photoLost' = (photoLost \/ net[i].kind = "photo")
  /\ UNCHANGED <<userID, top, buttons, network, monitor, crashed, lUser, server, overtaken>>

-----------------------------------------------------------------------------
(* Edit is tapped.                                                         *)
OpenEdit ==
  /\ Alive /\ top = "account" /\ buttons
  /\ top' = "edit"
  /\ UNCHANGED <<userID, account, buttons, network, monitor, net, crashed, lUser, server, history>>

(* Save writes the user's document at once; a new photo is uploaded before *)
(* the form goes home.  In the form with empty fields nothing happens.     *)
Save ==
  /\ Alive /\ top = "edit"
  /\ crashed' = Trap(userID)
  /\ \/ Trap(userID) # "no" /\ UNCHANGED <<account, top, net>>
     \/ /\ Trap(userID) = "no"
        /\ account' = [account EXCEPT !.isDownAvatar = TRUE]
        /\ top' = "appearing"
        /\ net' = Left(net, {"put"})
     \/ /\ Trap(userID) = "no"
        /\ Sent(net, net', Request("put", userID, TRUE), 1)
        /\ UNCHANGED <<account, top>>
  /\ UNCHANGED <<userID, buttons, network, monitor, lUser, server, history>>

PhotoUploaded(i) ==
  /\ Pending(i, "put")
  /\ photos' = photos \cup {net[i].user}
  /\ account' = [account EXCEPT !.isDownAvatar = TRUE]
  /\ PopIf(net[i].view)
  /\ net' = PoppedIf(net[i].view, InTurn(i, [net[i] EXCEPT !.kind = "url"]))
  /\ UNCHANGED <<userID, buttons, network, monitor, crashed, lUser, members, docs, avatarUrl, history>>

(* The uploaded file's address goes to the document of UserID, unwrapped.  *)
UrlArrives(i) ==
  /\ Pending(i, "url")
  /\ crashed' = Trap(userID)
  /\ avatarUrl' = avatarUrl \cup ({userID} \cap docs)
  /\ net' = Done(i)
  /\ LateUse(net[i])
  /\ UNCHANGED <<userID, account, top, buttons, network, monitor, lUser, members, docs, photos, photoLost>>

-----------------------------------------------------------------------------
Answer(i) ==
  \/ SignedIn(i) \/ UserCreated(i)
  \/ PlainDocument(i) \/ DocumentWithAvatar(i) \/ PhotoArrives(i)
  \/ PhotoUploaded(i) \/ UrlArrives(i)
  \/ RequestFails(i)

Monitor == NetworkBack \/ NetworkLost
MonitorRuns == FetchByMonitor \/ CopyUserID \/ CopyAccount \/ CopyAvatar \/ GoOffline \/ StopWaiting

User ==
  \/ AccountAppears \/ OpenLogin \/ OpenSignUp \/ Back \/ CancelLogin
  \/ OpenEdit \/ Save
  \/ \E u \in Users : LoginTapped(u) \/ SignUpTapped(u)

Next ==
  \/ Launch
  \/ Monitor \/ MonitorRuns
  \/ User
  \/ \E i \in Slots : Answer(i)

Spec == Init /\ [][Next]_vars

(* Every request is answered, and the handler, once called, runs on.       *)
FairSpec == Spec /\ WF_vars(MonitorRuns) /\ \A i \in Slots : WF_vars(Answer(i))
-----------------------------------------------------------------------------
(* Properties *)

Someone == Users \cup {Nil, Empty}
RequestType ==
  [kind : {"document", "photo", "signIn", "createUser", "put", "url"},
   user : Users \cup {Empty}, view : BOOLEAN, stale : BOOLEAN]
RecordType ==
  [userID : Users \cup {Empty}, owner : Users \cup {Guest}, avatar : Someone]

(* Nil stands for the absence of either. *)
ASSUME NilAssumption == Nil \notin RequestType \cup RecordType

(* TypeOK: every variable keeps the shape its Swift declaration gives it.  *)
TypeOK ==
  /\ userID \in Someone
  /\ account \in [owner : Users \cup {Guest}, avatar : Someone, isDownAvatar : BOOLEAN]
  /\ lUser \in RecordType \cup {Nil}
  /\ top \in {"unloaded", "appearing", "account", "login", "signup", "edit"}
  /\ buttons \in BOOLEAN /\ network \in BOOLEAN
  /\ monitor \in [at : {"idle", "checked", "read", "named", "filled", "copied", "offline"},
                  saved : RecordType \cup {Nil}, stale : BOOLEAN]
  /\ net \in [Slots -> RequestType \cup {Nil}]
  /\ crashed \in {"no", "unwrap", "path"}
  /\ members \subseteq Users /\ docs \subseteq members
  /\ avatarUrl \subseteq docs /\ photos \subseteq Users
  /\ overtaken \in BOOLEAN /\ photoLost \in BOOLEAN

(* RecordIsOwn: unless an answer outlived its session, the LUser in Realm, *)
(* which the next launch logs in, names the user who is logged in and      *)
(* holds that user's data and photo.                                       *)
RecordIsOwn ==
  ~overtaken /\ lUser # Nil =>
    /\ userID \in Users
    /\ lUser.userID = userID /\ lUser.owner = userID
    /\ lUser.avatar \in {Nil, userID}

(* AccountIsOwn: likewise what the app shows is the logged-in user's.      *)
AccountIsOwn ==
  ~overtaken => account.owner \in {Guest, userID} /\ account.avatar \in {Nil, userID}

(* NoTrap: likewise no forced unwrap of UserID in a callback, and no       *)
(* document path made of it, ends the process.                             *)
NoTrap == crashed # "no" => overtaken

(* LoginSurvives: once the data of the logged-in user is known and nothing *)
(* of it is awaited, Realm has it, so the next launch logs the user in.    *)
LoginSurvives ==
  /\ ~overtaken /\ ~photoLost
  /\ userID # Nil /\ account.owner = userID
  /\ \A i \in Slots : net[i] # Nil => net[i].kind # "photo"
  => lUser # Nil

(* FetchesDrain: while nobody acts and the network is stable, the requests *)
(* in flight come to an end, unless a user without an avatar is logged in: *)
(* only then does AccountViewController ask for the document for ever.     *)
FetchesDrain ==
  \/ []<>(userID \in Users \ avatarUrl)
  \/ []<><<User \/ Monitor \/ Launch>>_vars
  \/ <>[](~Alive \/ \A i \in Slots : net[i] = Nil)
=============================================================================
