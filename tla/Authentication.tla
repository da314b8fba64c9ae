---------------------------- MODULE Authentication ----------------------------
(***************************************************************************)
(* Signing in, signing up and changing the password: the three forms of    *)
(* the account tab, the app's own idea of who is logged in                 *)
(* (UserLocal.UserID), and Firebase Auth's, the current user, which it     *)
(* keeps in the keychain and which a logout of the app leaves alone.       *)
(*                                                                         *)
(* Auth treats the answers of the server on its work queue, where it sets  *)
(* the current user, and hands each callback to the main queue, which runs *)
(* them in that order.  Whatever happens on the main queue in between      *)
(* finds a current user whose callback has not run.                        *)
(*                                                                         *)
(* A text field is what it holds after trimming: every reader trims.  The  *)
(* account's document arrives while its user is logged in; for answers     *)
(* that come after a logout see AccountSession.                            *)
(***************************************************************************)
EXTENDS Naturals, Sequences, SequencesExt

CONSTANTS
  Users,     (* people with an email address                               *)
  Guest,     (* the address of a fresh User(), which nobody signed up with *)
  Passwords, (* [length, letters, digits, others : Nat]                    *)
  First,     (* [Users -> Passwords \cup {Nil}]: at the start; Nil: none   *)
  Forms,     (* change forms in memory, one on the screen: a bound         *)
  Slots,     (* requests in flight at once: a bound                        *)
  Beyond,    (* whether a process in which sign-ins overlapped runs on: a  *)
             (* bound for runs that say nothing of what it does then       *)
  Nil

Blank == [length |-> 0, letters |-> 0, digits |-> 0, others |-> 0]

ASSUME ConstantsAssumption ==
  /\ Guest \notin Users /\ Nil \notin Users \cup {Guest}
  /\ Passwords \subseteq [length : Nat \ {0}, letters : Nat, digits : Nat, others : Nat]
  /\ Nil \notin Passwords \cup {Blank}
  /\ First \in [Users -> Passwords \cup {Nil}]
  /\ Beyond \in BOOLEAN /\ Slots \subseteq Nat
  /\ Forms \cap {"account", "login", "signup"} = {}

VARIABLES
  userID,      (* UserLocal.UserID                                         *)
  email,       (* whose UserLocal.localAccount.email is                    *)
  top,         (* "account", "login", "signup", or a change form           *)
  buttons,     (* AccountViewController shows the Change password button   *)
  forms,       (* the change forms                                         *)
  net,         (* per slot: a request whose callback has not run, or Nil   *)
  ready,       (* the slots whose callbacks the main queue holds           *)
  currentUser, (* Auth's, in the keychain                                  *)
  passwords,   (* on the server, of those who signed up                    *)
  (* history, read by properties only *)
  overlap      (* somebody signed in while another was, or was doing so    *)

vars == <<userID, email, top, buttons, forms, net, ready, currentUser, passwords, overlap>>

-----------------------------------------------------------------------------
(* Utilities.isPasswordValid: ^(?=.*[A-Za-z])(?=.*\d)[A-Za-z\d]{8,}$       *)
IsPasswordValid(p) == p.length >= 8 /\ p.letters > 0 /\ p.digits > 0 /\ p.others = 0
(* The server's own rule. *)
Accepted(p) == p.length >= 6

(* Mutant of ValidateFields: the new password is not compared. *)
MutantValidateFields(current, new, retype) ==
  Blank \notin {current, new, retype} /\ IsPasswordValid(retype)

(* The three fields of a change form: filled, the same twice, valid.       *)
ValidateFields(current, new, retype) ==
  /\ Blank \notin {current, new, retype}
  /\ new = retype
  /\ IsPasswordValid(new)

(* new: txtNewPassword; lblError: "error" for every message but one.       *)
(* Histories: asked, the password the last Send validated, Nil once the    *)
(* field was edited, or when a form left before still waited; waits, until *)
(* there is a message.                                                     *)
Fresh == [new |-> Blank, lblError |-> "", asked |-> Nil, waits |-> FALSE]

(* from: the form that sent it, or Nil when it has left the stack, except  *)
(* that a change form lives on.  Histories: for whom a change was asked,   *)
(* and whether its field stayed as it was.                                 *)
Request(kind, u, p, from, for) ==
  [kind |-> kind, user |-> u, password |-> p, from |-> from, answer |-> "none",
   for |-> for, sure |-> TRUE]

SignIns == {"signIn", "createUser", "reauth"}
ForType == [user : Users \cup {Nil}, password : Passwords \cup {Blank}]
RequestType ==
  [kind : SignIns \cup {"update"}, user : Users \cup {Guest}, password : Passwords \cup {Blank},
   from : Forms \cup {"login", "signup", Nil}, answer : {"none", "ok", "error"},
   for : ForType \cup {Nil}, sure : BOOLEAN]
FormType ==
  [new : Passwords \cup {Blank}, lblError : {"", "error", "Successful!"},
   asked : Passwords \cup {Nil}, waits : BOOLEAN]

(* Nil is no form and no record. *)
ASSUME NilAssumption == Nil \notin Forms \cup {"login", "signup"} \cup RequestType \cup ForType

(* The slot of the next request. *)
Unused(i) == net[i] = Nil /\ \A j \in Slots : net[j] = Nil => i <= j
Sent(r) == \E i \in Slots : Unused(i) /\ net' = [net EXCEPT ![i] = r]
(* A request of u is sent. *)
Overlaps(u) ==
  overlap' = (overlap \/ userID \notin {Nil, u}
                \/ \E i \in Slots : net[i] # Nil /\ net[i].user # u)
(* What forms[f].asked becomes when p is sent: p, if it is valid, unless   *)
(* an answer is awaited that may set another password, of this form or of  *)
(* one left before; then which password will be the last is open (Nil).    *)
Asked(f, p, valid) ==
  IF \/ \E i \in Slots : net[i] # Nil /\ net[i].from = f /\ forms[f].asked # p
     \/ valid /\ \E i \in Slots : net[i] # Nil /\ net[i].from \in Forms \ {f}
    THEN Nil ELSE IF valid THEN p ELSE forms[f].asked
InUse(f) == top = f \/ \E i \in Slots : net[i] # Nil /\ net[i].from = f
(* The requests of a form of which the callback only finds a dead view.    *)
Left(view) ==
  [i \in Slots |-> IF net[i] # Nil /\ net[i].from \in view THEN [net[i] EXCEPT !.from = Nil]
                   ELSE net[i]]
(* The new password's field of form f is now p. *)
Unsure(f, p, requests) ==
  [i \in Slots |-> IF requests[i] # Nil /\ requests[i].from = f /\ forms[f].new # p
                   THEN [requests[i] EXCEPT !.sure = FALSE] ELSE requests[i]]

Init ==
  /\ userID = Nil /\ email = Guest /\ top = "account" /\ buttons = FALSE
  /\ forms = [f \in Forms |-> Fresh]
  /\ net = [i \in Slots |-> Nil] /\ ready = <<>>
  /\ currentUser = Nil /\ passwords = First
  /\ overlap = FALSE

-----------------------------------------------------------------------------
(* The process ends and the app is launched: Auth's user comes back from   *)
(* the keychain, the app's from Realm if its account had been saved.       *)
Launch ==
  /\ userID' = IF email = userID THEN userID ELSE Nil
  /\ email' = Guest
  /\ top' = "account" /\ buttons' = (userID' # Nil)
  /\ forms' = [f \in Forms |-> Fresh]
  /\ net' = [i \in Slots |-> Nil] /\ ready' = <<>>
  /\ UNCHANGED <<currentUser, passwords, overlap>>

(* The account's document arrives and is shown. *)
AccountArrives ==
  /\ userID # Nil /\ email # userID
  /\ email' = userID /\ buttons' = TRUE
  /\ UNCHANGED <<userID, top, forms, net, ready, currentUser, passwords, overlap>>

(* Login or Logout: the login form loads and forgets the account.          *)
OpenLogin ==
  /\ top = "account" /\ top' = "login"
  /\ userID' = Nil /\ email' = Guest
  /\ UNCHANGED <<buttons, forms, net, ready, currentUser, passwords, overlap>>

LoginTapped(u, p) ==
  /\ top = "login"
  /\ Sent(Request("signIn", u, p, "login", Nil))
  /\ Overlaps(u)
  /\ UNCHANGED <<userID, email, top, buttons, forms, ready, currentUser, passwords>>

OpenSignUp ==
  /\ top = "login" /\ top' = "signup"
  /\ UNCHANGED <<userID, email, buttons, forms, net, ready, currentUser, passwords, overlap>>

SignUpTapped(u, p) ==
  /\ top = "signup" /\ IsPasswordValid(p)
  /\ Sent(Request("createUser", u, p, "signup", Nil))
  /\ Overlaps(u)
  /\ UNCHANGED <<userID, email, top, buttons, forms, ready, currentUser, passwords>>

(* Cancel, or the navigation bar's back button. *)
Back ==
  /\ top # "account"
  /\ top' = IF top = "signup" THEN "login" ELSE "account"
  /\ net' = IF top \in Forms THEN net ELSE Left({top})
  /\ forms' = IF top \in Forms THEN [forms EXCEPT ![top] = [Fresh EXCEPT !.new = forms[top].new]] ELSE forms
  /\ buttons' = (buttons /\ (top = "login" => userID # Nil))
  /\ UNCHANGED <<userID, email, ready, currentUser, passwords, overlap>>

OpenChange(f) ==
  /\ top = "account" /\ buttons /\ ~InUse(f)
  /\ top' = f
  /\ forms' = [forms EXCEPT ![f] = Fresh]
  /\ UNCHANGED <<userID, email, buttons, net, ready, currentUser, passwords, overlap>>

(* Send, with the three fields filled in like this: if they are valid, the *)
(* owner of localAccount.email signs in once more.                         *)
Send(current, new, retype) ==
  /\ top \in Forms
  /\ LET f == top
         kept == Unsure(f, new, net)
     IN IF ValidateFields(current, new, retype)
          THEN /\ forms' = [forms EXCEPT ![f].new = new, ![f].waits = TRUE,
                                         ![f].asked = Asked(f, new, TRUE)]
               /\ \E i \in Slots : /\ Unused(i)
                                   /\ net' = [kept EXCEPT ![i] =
                                                Request("reauth", email, current, f,
                                                        [user |-> userID, password |-> retype])]
               /\ Overlaps(email)
          ELSE /\ forms' = [forms EXCEPT ![f].new = new, ![f].lblError = "error",
                                         ![f].asked = Asked(f, new, FALSE)]
               /\ net' = kept
               /\ UNCHANGED overlap
  /\ UNCHANGED <<userID, email, top, buttons, ready, currentUser, passwords>>

(* The field is edited while an answer is awaited. *)
Edit(p) ==
  /\ top \in Forms /\ forms[top].new # p
  /\ \E i \in Slots : net[i] # Nil /\ net[i].from = top
  /\ forms' = [forms EXCEPT ![top].new = p, ![top].asked = Nil]
  /\ net' = Unsure(top, p, net)
  /\ UNCHANGED <<userID, email, top, buttons, ready, currentUser, passwords, overlap>>

-----------------------------------------------------------------------------
(* On Auth's work queue: the server's answer to request i.                 *)
Answered(i, answer) ==
  /\ net[i] # Nil /\ net[i].answer = "none"
  /\ net' = [net EXCEPT ![i].answer = answer]
  /\ ready' = Append(ready, i)
  /\ UNCHANGED <<userID, email, top, buttons, forms, overlap>>

(* A user has signed in and becomes the current user. *)
SignsIn(i) ==
  LET r == net[i] IN
  /\ Answered(i, "ok")
  /\ \/ r.kind \in {"signIn", "reauth"} /\ r.user \in Users /\ passwords[r.user] = r.password
        /\ UNCHANGED passwords
     \/ r.kind = "createUser" /\ passwords[r.user] = Nil
        /\ passwords' = [passwords EXCEPT ![r.user] = r.password]
  /\ currentUser' = r.user

(* updatePassword: the server changes the password of the user whose token *)
(* it was given.  The answer may be lost.                                  *)
Updates(i) ==
  LET r == net[i] IN
  /\ \E answer \in {"ok", "error"} : Answered(i, answer)
  /\ r.kind = "update" /\ Accepted(r.password)
  /\ passwords' = [passwords EXCEPT ![r.user] = r.password]
  /\ UNCHANGED currentUser

(* A request fails, at the server, on the way, or, with an empty password, *)
(* at once; an update also because the token is not valid any more, and    *)
(* then its user is signed out.  An account may be made and the answer     *)
(* lost.                                                                   *)
Fails(i) ==
  LET r == net[i] IN
  /\ Answered(i, "error")
  /\ \/ UNCHANGED <<currentUser, passwords>>
     \/ /\ r.kind = "update" /\ r.password # Blank /\ currentUser = r.user
        /\ currentUser' = Nil
        /\ UNCHANGED passwords
     \/ /\ r.kind = "createUser" /\ passwords[r.user] = Nil
        /\ passwords' = [passwords EXCEPT ![r.user] = r.password]
        /\ UNCHANGED currentUser

Reply(i) == SignsIn(i) \/ Updates(i) \/ Fails(i)

-----------------------------------------------------------------------------
(* The main queue runs the callback of i.                                  *)
Runs(i, kind, answer) ==
  /\ ready # <<>> /\ i = Head(ready) /\ ready' = Tail(ready)
  /\ net[i].kind = kind /\ net[i].answer = answer

(* A message in form f, if it is still on the screen. *)
Says(f, text) ==
  IF top = f THEN [forms EXCEPT ![f].lblError = text, ![f].waits = FALSE] ELSE forms

(* signIn and createUser: the user is logged in, and the form popped, if   *)
(* it is still on the stack.                                               *)
LoggedIn(i) ==
  LET onStack == net[i].from # Nil IN
  /\ \E kind \in {"signIn", "createUser"} : Runs(i, kind, "ok")
  /\ userID' = net[i].user
  /\ top' = IF onStack THEN "account" ELSE top
  /\ net' = [(IF onStack THEN Left({"login", "signup"}) ELSE net) EXCEPT ![i] = Nil]
  /\ UNCHANGED <<email, buttons, forms, currentUser, passwords, overlap>>

(* Mutant of LoginFails: the error is not looked at. *)
MutantLoginFails(i) ==
  /\ \E kind \in {"signIn", "createUser"} : Runs(i, kind, "error")
  /\ userID' = net[i].user
  /\ net' = [net EXCEPT ![i] = Nil]
  /\ UNCHANGED <<email, top, buttons, forms, currentUser, passwords, overlap>>

(* Their errors only show a message. *)
LoginFails(i) ==
  /\ \E kind \in {"signIn", "createUser"} : Runs(i, kind, "error")
  /\ net' = [net EXCEPT ![i] = Nil]
  /\ UNCHANGED <<userID, email, top, buttons, forms, currentUser, passwords, overlap>>

(* Mutant of Reauthenticated: the password that was current is set. *)
MutantReauthenticated(i) ==
  LET r == net[i] IN
  /\ Runs(i, "reauth", "ok")
  /\ net' = [net EXCEPT ![i] = IF currentUser = Nil THEN Nil
                               ELSE [Request("update", currentUser, r.password, r.from, r.for)
                                       EXCEPT !.sure = r.sure]]
  /\ UNCHANGED <<userID, email, top, buttons, forms, currentUser, passwords, overlap>>

(* Send's first callback: the password of the current user is updated, if  *)
(* there is one, to what the field holds now.                              *)
Reauthenticated(i) ==
  LET r == net[i] IN
  /\ Runs(i, "reauth", "ok")
  /\ net' = [net EXCEPT ![i] = IF currentUser = Nil THEN Nil
                               ELSE [Request("update", currentUser, forms[r.from].new, r.from, r.for)
                                       EXCEPT !.sure = r.sure]]
  /\ UNCHANGED <<userID, email, top, buttons, forms, currentUser, passwords, overlap>>

(* Mutant of ReauthFails: the message is left out. *)
MutantReauthFails(i) ==
  /\ Runs(i, "reauth", "error")
  /\ net' = [net EXCEPT ![i] = Nil]
  /\ UNCHANGED <<userID, email, top, buttons, forms, currentUser, passwords, overlap>>

ReauthFails(i) ==
  /\ Runs(i, "reauth", "error")
  /\ forms' = Says(net[i].from, "error")
  /\ net' = [net EXCEPT ![i] = Nil]
  /\ UNCHANGED <<userID, email, top, buttons, currentUser, passwords, overlap>>

(* Send's second callback: a success also empties the fields.              *)
Updated(i) ==
  LET f == net[i].from IN
  /\ Runs(i, "update", "ok")
  /\ forms' = [Says(f, "Successful!") EXCEPT ![f].new = Blank]
  /\ net' = Unsure(f, Blank, [net EXCEPT ![i] = Nil])
  /\ UNCHANGED <<userID, email, top, buttons, currentUser, passwords, overlap>>

UpdateFails(i) ==
  /\ Runs(i, "update", "error")
  /\ forms' = Says(net[i].from, "error")
  /\ net' = [net EXCEPT ![i] = Nil]
  /\ UNCHANGED <<userID, email, top, buttons, currentUser, passwords, overlap>>

Callback(i) ==
  \/ LoggedIn(i) \/ LoginFails(i)
  \/ Reauthenticated(i) \/ ReauthFails(i)
  \/ Updated(i) \/ UpdateFails(i)

-----------------------------------------------------------------------------
Next ==
  \/ Launch
  \/ /\ Beyond \/ ~overlap
     /\ \/ AccountArrives
        \/ OpenLogin \/ OpenSignUp \/ Back
        \/ \E u \in Users, p \in Passwords : LoginTapped(u, p) \/ SignUpTapped(u, p)
        \/ \E f \in Forms : OpenChange(f)
        \/ \E current, new, retype \in Passwords \cup {Blank} : Send(current, new, retype)
        \/ \E p \in Passwords \cup {Blank} : Edit(p)
        \/ \E i \in Slots : Reply(i) \/ Callback(i)

Spec == Init /\ [][Next]_vars

(* Auth calls back for every request, and the main queue runs on.          *)
FairSpec ==
  /\ Spec
  /\ \A i \in Slots : WF_vars((Beyond \/ ~overlap) /\ Reply(i))
  /\ WF_vars((Beyond \/ ~overlap) /\ \E i \in Slots : Callback(i))

-----------------------------------------------------------------------------
(* Properties *)

(* A request knows what its answer and its callback will ask of it. *)
Complete(r) ==
  /\ IF r.kind \in {"reauth", "update"} THEN r.from \in Forms /\ r.for \in ForType
     ELSE r.from \notin Forms /\ r.password # Blank
  /\ r.kind # "reauth" => r.user \in Users

(* TypeOK: every variable keeps its shape, requests are complete, and the  *)
(* main queue holds the callbacks of those that are answered, each once.   *)
TypeOK ==
  /\ userID \in Users \cup {Nil} /\ email \in Users \cup {Guest}
  /\ top \in {"account", "login", "signup"} \cup Forms
  /\ buttons \in BOOLEAN /\ overlap \in BOOLEAN
  /\ forms \in [Forms -> FormType]
  /\ net \in [Slots -> RequestType \cup {Nil}]
  /\ \A i \in Slots : net[i] # Nil => Complete(net[i])
  /\ ready \in Seq(Slots) /\ IsInjective(ready)
  /\ ToSet(ready) = {i \in Slots : net[i] # Nil /\ net[i].answer # "none"}
  /\ currentUser \in Users \cup {Nil}
  /\ passwords \in [Users -> Passwords \cup {Nil}]

(* AuthIsOwn: while a user is logged in, Firebase Auth acts for that user  *)
(* or for nobody, through logouts, failed sign-ins, answers that are not   *)
(* called back yet, changes of password and relaunches; unless sign-ins of *)
(* two people overlapped.                                                  *)
AuthIsOwn == userID # Nil => overlap \/ currentUser \in {userID, Nil}

(* ChangedAsAsked: a password is only changed for the user who asked, to   *)
(* what that user typed twice and the rule admits; unless the field was    *)
(* edited before the answer, or sign-ins overlapped.                       *)
ChangedAsAsked ==
  [][\A i \in Slots :
        Updates(i) /\ net[i].sure /\ ~overlap =>
          /\ net[i].user = net[i].for.user
          /\ net[i].password = net[i].for.password
          /\ IsPasswordValid(net[i].password)]_vars

(* SuccessIsTrue: when all is answered and the form on the screen says     *)
(* "Successful!", the password of its user is the one that was asked for,  *)
(* and the field is empty; however often Send was tapped, unless it was    *)
(* tapped while a form left before still waited for its answer.            *)
SuccessIsTrue ==
  /\ top \in Forms /\ forms[top].lblError = "Successful!" /\ forms[top].asked # Nil
  /\ (\A i \in Slots : net[i] = Nil) /\ ~overlap
  => passwords[userID] = forms[top].asked /\ forms[top].new = Blank

(* SendIsAnswered: a Send ends in a message, unless its form is left,      *)
(* sign-ins overlapped, or Auth, finding a token invalid, has signed the   *)
(* user out: then Send's callback updates nobody and says nothing.         *)
SendIsAnswered ==
  \A f \in Forms : forms[f].waits ~> ~forms[f].waits \/ overlap \/ currentUser = Nil
=============================================================================
