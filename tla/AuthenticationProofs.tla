------------------------- MODULE AuthenticationProofs -------------------------
(***************************************************************************)
(* Proofs about Authentication for any users, passwords, change forms and  *)
(* requests in flight.                                                     *)
(*                                                                         *)
(* The inductive invariant is Inv.  While no two people overlapped, all    *)
(* requests in flight are of one user, the one who is logged in if anybody *)
(* is (OneUser), so that Auth's current user cannot be another's           *)
(* (OwnAuth); what a change of password asks for is then what its form     *)
(* asked for (Asks).  That a success is true needs, beside what the form   *)
(* on the screen waits for (Success), that an answer which finds Auth      *)
(* without a user, and so ends in silence, has a failed one behind it in   *)
(* the main queue that does not (Tells).                                   *)
(***************************************************************************)
EXTENDS Authentication, SequenceTheorems, TLAPS

-----------------------------------------------------------------------------
(* The inductive invariant *)

OneUser ==
  ~overlap =>
    /\ \A i, j \in Slots : net[i] # Nil /\ net[j] # Nil => net[i].user = net[j].user
    /\ \A i \in Slots : net[i] # Nil => userID \in {Nil, net[i].user}

(* i has signed its user in, and its callback waits. *)
SignedIn(i) == net[i] # Nil /\ net[i].kind \in SignIns /\ net[i].answer = "ok"

OwnAuth ==
  ~overlap =>
    /\ userID # Nil => currentUser \in {userID, Nil}
    /\ \A i \in Slots : SignedIn(i) => currentUser \in {net[i].user, Nil}

(* Whoever is logged in, or is about to be, has signed up. *)
Known ==
  /\ userID # Nil => passwords[userID] # Nil
  /\ \A i \in Slots : SignedIn(i) => net[i].user \in Users /\ passwords[net[i].user] # Nil

(* A change form is only opened, and stays open, while a user is logged in. *)
LoggedUser == top \in Forms \/ (top = "account" /\ buttons) => userID # Nil

(* The requests of the two other forms that are on the stack. *)
OnStack ==
  \A i \in Slots : net[i] # Nil =>
    /\ net[i].from = "login" => top \in {"login", "signup"}
    /\ net[i].from = "signup" => top = "signup"

(* What a change of password asks for. *)
Asks ==
  \A i \in Slots : net[i] # Nil /\ net[i].kind \in {"reauth", "update"} =>
    /\ IsPasswordValid(net[i].for.password)
    /\ ~overlap => net[i].for.user = net[i].user
    /\ net[i].kind = "reauth" /\ net[i].sure => forms[net[i].from].new = net[i].for.password
    /\ net[i].kind = "update" /\ net[i].sure => net[i].password = net[i].for.password

(* An update that failed waits in the main queue behind the n-th callback. *)
FailedBehind(n) ==
  \E m \in DOMAIN ready : m > n /\ net[ready[m]].kind = "update" /\ net[ready[m]].answer = "error"
Tells ==
  \A n \in DOMAIN ready :
    net[ready[n]].kind \in SignIns /\ net[ready[n]].answer = "ok" /\ currentUser = Nil => FailedBehind(n)

(* i is a request of a change form. *)
Sends(i) == net[i] # Nil /\ net[i].from \in Forms
Success ==
  top \in Forms /\ forms[top].asked # Nil /\ ~overlap =>
    /\ \A i \in Slots : Sends(i) =>
         /\ net[i].from = top /\ net[i].for.password = forms[top].asked
         /\ forms[top].new \in {forms[top].asked, Blank}
         /\ net[i].kind = "update" =>
              /\ net[i].password \in {forms[top].asked, Blank}
              /\ net[i].answer = "ok" => passwords[userID] = forms[top].asked
    /\ forms[top].lblError = "Successful!" =>
         \/ passwords[userID] = forms[top].asked /\ forms[top].new = Blank
         \/ \E i \in Slots : Sends(i)

Inv ==
  /\ TypeOK /\ OneUser /\ OwnAuth /\ Known /\ LoggedUser
  /\ OnStack /\ Asks /\ Tells /\ Success

-----------------------------------------------------------------------------
(* The constants and records *)

LEMMA ConstantFacts ==
  /\ Nil \notin Users /\ Guest \notin Users /\ Nil # Guest
  /\ Nil \notin Forms /\ Nil # "login" /\ Nil # "signup"
  /\ Nil \notin RequestType /\ Nil \notin ForType
  /\ Nil \notin Passwords /\ Nil # Blank /\ Blank \notin Passwords
  /\ "account" \notin Forms /\ "login" \notin Forms /\ "signup" \notin Forms
<1>1. Blank \notin Passwords
  BY ConstantsAssumption DEF Blank
<1> QED  BY <1>1, ConstantsAssumption, NilAssumption

LEMMA RequestTyped ==
  ASSUME NEW kind \in SignIns \cup {"update"}, NEW u \in Users \cup {Guest},
         NEW p \in Passwords \cup {Blank}, NEW from \in Forms \cup {"login", "signup", Nil},
         NEW for \in ForType \cup {Nil}, NEW r, r = Request(kind, u, p, from, for)
  PROVE  /\ r \in RequestType /\ r # Nil
         /\ r.kind = kind /\ r.user = u /\ r.password = p /\ r.from = from
         /\ r.for = for /\ r.answer = "none" /\ r.sure
<1>1. /\ r.kind = kind /\ r.user = u /\ r.password = p /\ r.from = from
      /\ r.for = for /\ r.answer = "none" /\ r.sure
  BY DEF Request
<1>2. r \in RequestType
  BY DEF Request, RequestType
<1> QED  BY <1>1, <1>2, ConstantFacts

LEMMA ReauthTyped ==
  ASSUME NEW u \in Users \cup {Guest}, NEW p \in Passwords \cup {Blank}, NEW f \in Forms,
         NEW for \in ForType, NEW r, r = Request("reauth", u, p, f, for)
  PROVE  /\ r \in RequestType /\ r # Nil
         /\ r.kind = "reauth" /\ r.user = u /\ r.password = p /\ r.from = f
         /\ r.for = for /\ r.answer = "none" /\ r.sure
<1>1. PICK kind \in SignIns \cup {"update"} : kind = "reauth"
  BY DEF SignIns
<1> QED  BY <1>1, RequestTyped

LEMMA FieldsTyped ==
  ASSUME NEW r \in RequestType
  PROVE  /\ r # Nil
         /\ r.kind \in SignIns \cup {"update"} /\ r.user \in Users \cup {Guest}
         /\ r.password \in Passwords \cup {Blank} /\ r.from \in Forms \cup {"login", "signup", Nil}
         /\ r.answer \in {"none", "ok", "error"} /\ r.for \in ForType \cup {Nil}
         /\ r.sure \in BOOLEAN
BY ConstantFacts DEF RequestType

LEMMA Unsured ==
  ASSUME NEW r \in RequestType, NEW q, q = [r EXCEPT !.sure = FALSE]
  PROVE  /\ q \in RequestType /\ q # Nil
         /\ q.kind = r.kind /\ q.user = r.user /\ q.password = r.password
         /\ q.from = r.from /\ q.for = r.for /\ q.answer = r.answer
         /\ ~q.sure
BY ConstantFacts DEF RequestType

LEMMA Unstacked ==
  ASSUME NEW r \in RequestType, NEW q, q = [r EXCEPT !.from = Nil]
  PROVE  /\ q \in RequestType /\ q # Nil
         /\ q.kind = r.kind /\ q.user = r.user /\ q.password = r.password
         /\ q.from = Nil /\ q.for = r.for /\ q.answer = r.answer
         /\ q.sure = r.sure
BY ConstantFacts DEF RequestType

LEMMA AnswerTyped ==
  ASSUME NEW r \in RequestType, NEW a \in {"ok", "error"}, NEW q, q = [r EXCEPT !.answer = a]
  PROVE  /\ q \in RequestType /\ q # Nil
         /\ q.kind = r.kind /\ q.user = r.user /\ q.password = r.password
         /\ q.from = r.from /\ q.for = r.for /\ q.answer = a
         /\ q.sure = r.sure
BY ConstantFacts DEF RequestType

LEMMA FormTyped ==
  /\ Fresh \in FormType /\ Fresh.asked = Nil /\ Fresh.lblError = "" /\ Fresh.new = Blank
  /\ \A r \in FormType : /\ r.new \in Passwords \cup {Blank} /\ r.asked \in Passwords \cup {Nil}
                         /\ r.lblError \in {"", "error", "Successful!"} /\ r.waits \in BOOLEAN
BY DEF Fresh, FormType

-----------------------------------------------------------------------------
(* Requests that stay as they are, but for being in doubt or unstacked *)

(* Request i is as it was, if it still is. *)
Stays(i) ==
  net'[i] # Nil =>
    /\ net[i] # Nil
    /\ net'[i].kind = net[i].kind /\ net'[i].user = net[i].user
    /\ net'[i].password = net[i].password /\ net'[i].for = net[i].for
    /\ net'[i].answer = net[i].answer
    /\ net'[i].from = net[i].from \/ (net'[i].from = Nil /\ net[i].from \notin Forms)
    /\ net'[i].sure => net[i].sure

(* Unsure and Left only touch what they are named for. *)
LEMMA UnsureFacts ==
  ASSUME NEW f \in Forms, NEW p, NEW n \in [Slots -> RequestType \cup {Nil}],
         NEW m, m = Unsure(f, p, n)
  PROVE  /\ m \in [Slots -> RequestType \cup {Nil}]
         /\ \A i \in Slots :
              /\ m[i] = Nil <=> n[i] = Nil
              /\ m[i] # Nil =>
                   /\ m[i].kind = n[i].kind /\ m[i].user = n[i].user
                   /\ m[i].password = n[i].password /\ m[i].for = n[i].for
                   /\ m[i].answer = n[i].answer /\ m[i].from = n[i].from
                   /\ m[i].sure => n[i].sure
                   /\ n[i].from = f /\ forms[f].new # p => ~m[i].sure
<1>1. ASSUME NEW i \in Slots
      PROVE  /\ m[i] \in RequestType \cup {Nil}
             /\ m[i] = Nil <=> n[i] = Nil
             /\ m[i] # Nil =>
                  /\ m[i].kind = n[i].kind /\ m[i].user = n[i].user
                  /\ m[i].password = n[i].password /\ m[i].for = n[i].for
                  /\ m[i].answer = n[i].answer /\ m[i].from = n[i].from
                  /\ m[i].sure => n[i].sure
                  /\ n[i].from = f /\ forms[f].new # p => ~m[i].sure
  <2>1. m[i] = IF n[i] # Nil /\ n[i].from = f /\ forms[f].new # p
                 THEN [n[i] EXCEPT !.sure = FALSE] ELSE n[i]
    BY <1>1 DEF Unsure
  <2>2. CASE n[i] # Nil /\ n[i].from = f /\ forms[f].new # p
    <3>1. n[i] \in RequestType
      BY <1>1, <2>2
    <3> QED  BY <3>1, <2>1, <2>2, Unsured
  <2>3. CASE ~(n[i] # Nil /\ n[i].from = f /\ forms[f].new # p)
    BY <2>1, <2>3, <1>1
  <2> QED  BY <2>2, <2>3
<1>2. m = [i \in Slots |-> m[i]]
  BY DEF Unsure
<1> QED  BY <1>1, <1>2

LEMMA LeftFacts ==
  ASSUME TypeOK, NEW view, Nil \notin view, NEW m, m = Left(view)
  PROVE  /\ m \in [Slots -> RequestType \cup {Nil}]
         /\ \A i \in Slots :
              /\ m[i] = Nil <=> net[i] = Nil
              /\ m[i] # Nil =>
                   /\ m[i].kind = net[i].kind /\ m[i].user = net[i].user
                   /\ m[i].password = net[i].password /\ m[i].for = net[i].for
                   /\ m[i].answer = net[i].answer /\ m[i].sure = net[i].sure
                   /\ m[i].from = IF net[i].from \in view THEN Nil ELSE net[i].from
<1>1. ASSUME NEW i \in Slots
      PROVE  /\ m[i] \in RequestType \cup {Nil}
             /\ m[i] = Nil <=> net[i] = Nil
             /\ m[i] # Nil =>
                  /\ m[i].kind = net[i].kind /\ m[i].user = net[i].user
                  /\ m[i].password = net[i].password /\ m[i].for = net[i].for
                  /\ m[i].answer = net[i].answer /\ m[i].sure = net[i].sure
                  /\ m[i].from = IF net[i].from \in view THEN Nil ELSE net[i].from
  <2>1. m[i] = IF net[i] # Nil /\ net[i].from \in view THEN [net[i] EXCEPT !.from = Nil] ELSE net[i]
    BY <1>1 DEF Left
  <2>2. net[i] \in RequestType \cup {Nil}
    BY <1>1 DEF TypeOK
  <2>3. CASE net[i] # Nil /\ net[i].from \in view
    <3>1. net[i] \in RequestType
      BY <2>2, <2>3
    <3> QED  BY <3>1, <2>1, <2>3, Unstacked
  <2>4. CASE ~(net[i] # Nil /\ net[i].from \in view)
    BY <2>1, <2>2, <2>4
  <2> QED  BY <2>3, <2>4
<1>2. m = [i \in Slots |-> m[i]]
  BY DEF Left
<1> QED  BY <1>1, <1>2

(* The requests that stay keep what they know, and whose they are.         *)
LEMMA CompleteKept ==
  ASSUME TypeOK, \A i \in Slots : Stays(i)
  PROVE  \A i \in Slots : net'[i] # Nil => Complete(net'[i])
BY ConstantFacts DEF TypeOK, Stays, Complete

LEMMA OwnersKept ==
  ASSUME OneUser, OwnAuth, Known, \A i \in Slots : Stays(i),
         UNCHANGED <<currentUser, passwords, overlap>>, userID' \in {userID, Nil}
  PROVE  OneUser' /\ OwnAuth' /\ Known'
<1>1. OneUser'
  BY DEF OneUser, Stays
<1>2. OwnAuth'
  BY DEF OwnAuth, Stays, SignedIn
<1>3. Known'
  BY DEF Known, Stays, SignedIn
<1> QED  BY <1>1, <1>2, <1>3

LEMMA AsksKept ==
  ASSUME Asks, TypeOK, \A i \in Slots : Stays(i), overlap' = overlap,
         \A i \in Slots : net'[i] # Nil /\ net'[i].from \in Forms /\ net'[i].sure =>
           forms'[net'[i].from].new = forms[net'[i].from].new
  PROVE  Asks'
<1> SUFFICES ASSUME NEW i \in Slots, net'[i] # Nil, net'[i].kind \in {"reauth", "update"}
             PROVE  /\ IsPasswordValid(net'[i].for.password)
                    /\ ~overlap' => net'[i].for.user = net'[i].user
                    /\ net'[i].kind = "reauth" /\ net'[i].sure =>
                         forms'[net'[i].from].new = net'[i].for.password
                    /\ net'[i].kind = "update" /\ net'[i].sure =>
                         net'[i].password = net'[i].for.password
  BY DEF Asks
<1>1. /\ net[i] # Nil
      /\ net'[i].kind = net[i].kind /\ net'[i].user = net[i].user
      /\ net'[i].password = net[i].password /\ net'[i].for = net[i].for
      /\ net'[i].from = net[i].from \/ (net'[i].from = Nil /\ net[i].from \notin Forms)
      /\ net'[i].sure => net[i].sure
  BY DEF Stays
<1>2. net[i].from \in Forms
  BY <1>1 DEF TypeOK, Complete
<1>3. net'[i].from = net[i].from
  BY <1>1, <1>2
<1> QED  BY <1>1, <1>2, <1>3 DEF Asks

-----------------------------------------------------------------------------
(* The main queue *)

LEMMA AppendFacts ==
  ASSUME NEW S, NEW s \in Seq(S), NEW e \in S
  PROVE  /\ Append(s, e) \in Seq(S)
         /\ DOMAIN Append(s, e) = DOMAIN s \cup {Len(s) + 1} /\ Len(s) + 1 \in Nat
         /\ \A n \in DOMAIN s : Append(s, e)[n] = s[n] /\ n \in Nat /\ n < Len(s) + 1
         /\ Append(s, e)[Len(s) + 1] = e
         /\ ToSet(Append(s, e)) = ToSet(s) \cup {e}
         /\ IsInjective(s) /\ e \notin ToSet(s) => IsInjective(Append(s, e))
<1>1. /\ Append(s, e) \in Seq(S) /\ Len(Append(s, e)) = Len(s) + 1
      /\ \A n \in 1..Len(s) : Append(s, e)[n] = s[n]
      /\ Append(s, e)[Len(s) + 1] = e
  BY AppendProperties
<1>2. Len(s) \in Nat /\ DOMAIN s = 1..Len(s) /\ DOMAIN Append(s, e) = 1..(Len(s) + 1)
  BY <1>1, LenProperties
<1>3. DOMAIN Append(s, e) = DOMAIN s \cup {Len(s) + 1} /\ Len(s) + 1 \notin DOMAIN s
  BY <1>2
<1>4. ToSet(Append(s, e)) = ToSet(s) \cup {e}
  BY <1>1, <1>2, <1>3 DEF ToSet
<1>5. IsInjective(s) /\ e \notin ToSet(s) => IsInjective(Append(s, e))
  BY <1>1, <1>2, <1>3 DEF IsInjective, ToSet
<1> QED  BY <1>1, <1>2, <1>3, <1>4, <1>5

(* The main queue runs the callback at its head, whose request is answered. *)
LEMMA HeadFacts ==
  ASSUME TypeOK, ready # <<>>
  PROVE  /\ Head(ready) \in Slots /\ Tail(ready) \in Seq(Slots) /\ IsInjective(Tail(ready))
         /\ ToSet(Tail(ready)) = ToSet(ready) \ {Head(ready)}
         /\ \A n \in DOMAIN Tail(ready) : n \in Nat /\ n + 1 \in DOMAIN ready /\ Tail(ready)[n] = ready[n + 1]
         /\ \A m \in DOMAIN ready : m \in Nat /\ (m > 1 => m - 1 \in DOMAIN Tail(ready))
         /\ 1 \in DOMAIN ready /\ Head(ready) = ready[1]
         /\ net[Head(ready)] # Nil /\ net[Head(ready)] \in RequestType
         /\ net[Head(ready)].answer # "none"
<1>1. /\ Head(ready) \in Slots /\ Tail(ready) \in Seq(Slots)
      /\ Len(Tail(ready)) = Len(ready) - 1
      /\ \A i \in 1..Len(Tail(ready)) : Tail(ready)[i] = ready[i + 1]
  BY HeadTailProperties DEF TypeOK
<1>2. Len(ready) \in Nat \ {0} /\ DOMAIN ready = 1..Len(ready)
      /\ DOMAIN Tail(ready) = 1..(Len(ready) - 1)
  BY <1>1, EmptySeq, LenProperties DEF TypeOK
<1>3. Head(ready) = ready[1]
  BY <1>2 DEF TypeOK
<1>4. IsInjective(ready) /\ ToSet(ready) = {i \in Slots : net[i] # Nil /\ net[i].answer # "none"}
  BY DEF TypeOK
<1>5. IsInjective(Tail(ready))
  BY <1>1, <1>2, <1>4 DEF IsInjective
<1>6. ASSUME NEW x \in ToSet(Tail(ready)) PROVE x \in ToSet(ready) \ {ready[1]}
  <2>1. PICK n \in DOMAIN Tail(ready) : x = Tail(ready)[n]
    BY DEF ToSet
  <2>2. n + 1 \in DOMAIN ready /\ x = ready[n + 1] /\ n + 1 # 1 /\ 1 \in DOMAIN ready
    BY <2>1, <1>1, <1>2
  <2> QED  BY <2>2, <1>4 DEF IsInjective, ToSet
<1>7. ASSUME NEW x \in ToSet(ready), x # ready[1] PROVE x \in ToSet(Tail(ready))
  <2>1. PICK n \in DOMAIN ready : x = ready[n]
    BY DEF ToSet
  <2>2. n # 1
    BY <2>1, <1>7
  <2>3. n - 1 \in DOMAIN Tail(ready) /\ (n - 1) + 1 = n
    BY <2>1, <2>2, <1>2
  <2>4. Tail(ready)[n - 1] = x
    BY <2>1, <2>3, <1>1, <1>2
  <2> QED  BY <2>3, <2>4 DEF ToSet
<1>8. ready[1] \in ToSet(ready)
  BY <1>2 DEF ToSet
<1>9. net[Head(ready)] # Nil /\ net[Head(ready)].answer # "none"
  BY <1>3, <1>4, <1>8
<1>10. /\ \A n \in DOMAIN Tail(ready) : n \in Nat /\ n + 1 \in DOMAIN ready /\ Tail(ready)[n] = ready[n + 1]
       /\ \A m \in DOMAIN ready : m \in Nat /\ (m > 1 => m - 1 \in DOMAIN Tail(ready))
       /\ 1 \in DOMAIN ready
  BY <1>1, <1>2
<1> QED  BY <1>1, <1>3, <1>5, <1>6, <1>7, <1>9, <1>10 DEF TypeOK

(* The queue tells what became of everybody, when nothing is answered, ... *)
LEMMA TellsKept ==
  ASSUME TypeOK, Tells, ready' = ready, currentUser' = currentUser,
         \A i \in ToSet(ready) : net'[i].kind = net[i].kind /\ net'[i].answer = net[i].answer
  PROVE  Tells'
<1>1. \A n \in DOMAIN ready : ready[n] \in ToSet(ready)
  BY DEF ToSet
<1>2. ASSUME NEW n \in DOMAIN ready, FailedBehind(n) PROVE FailedBehind(n)'
  BY <1>1, <1>2 DEF FailedBehind
<1> QED  BY <1>1, <1>2 DEF Tells

(* ... when a callback runs, ... *)
LEMMA TellsPopped ==
  ASSUME TypeOK, Tells, ready # <<>>, ready' = Tail(ready), currentUser' = currentUser,
         \A i \in ToSet(ready) \ {Head(ready)} :
           net'[i].kind = net[i].kind /\ net'[i].answer = net[i].answer
  PROVE  Tells'
<1>1. \A n \in DOMAIN Tail(ready) : Tail(ready)[n] \in ToSet(ready) \ {Head(ready)}
  BY HeadFacts DEF ToSet
<1>2. \A n \in DOMAIN Tail(ready) : n \in Nat /\ n + 1 \in DOMAIN ready /\ Tail(ready)[n] = ready[n + 1]
  BY HeadFacts
<1>3. \A m \in DOMAIN ready : m \in Nat /\ (m > 1 => m - 1 \in DOMAIN Tail(ready))
  BY HeadFacts
<1>4. ASSUME NEW n \in DOMAIN Tail(ready), FailedBehind(n + 1) PROVE FailedBehind(n)'
  <2>1. PICK m \in DOMAIN ready : /\ m > n + 1 /\ net[ready[m]].kind = "update"
                                  /\ net[ready[m]].answer = "error"
    BY <1>4 DEF FailedBehind
  <2>2. m - 1 \in DOMAIN Tail(ready) /\ m - 1 > n /\ (m - 1) + 1 = m
    BY <2>1, <1>2, <1>3
  <2>3. Tail(ready)[m - 1] = ready[m]
    BY <2>2, <1>2
  <2>4. net'[ready[m]].kind = "update" /\ net'[ready[m]].answer = "error"
    BY <2>1, <2>2, <2>3, <1>1
  <2> QED  BY <2>2, <2>3, <2>4 DEF FailedBehind
<1>5. ASSUME NEW n \in DOMAIN Tail(ready), net'[Tail(ready)[n]].kind \in SignIns,
             net'[Tail(ready)[n]].answer = "ok", currentUser' = Nil
      PROVE  FailedBehind(n)'
  <2>1. n + 1 \in DOMAIN ready /\ net[ready[n + 1]].kind \in SignIns /\ net[ready[n + 1]].answer = "ok"
    BY <1>1, <1>2, <1>5
  <2> QED  BY <2>1, <1>4, <1>5 DEF Tells
<1> QED  BY <1>5 DEF Tells, SignIns

(* ... and when an answer arrives that signs out nobody else's.            *)
LEMMA TellsMore ==
  ASSUME TypeOK, Tells, NEW i \in Slots, ready' = Append(ready, i),
         \A j \in ToSet(ready) : net'[j].kind = net[j].kind /\ net'[j].answer = net[j].answer,
         currentUser' = Nil =>
           /\ ~(net'[i].kind \in SignIns /\ net'[i].answer = "ok")
           /\ currentUser = Nil \/ (net'[i].kind = "update" /\ net'[i].answer = "error")
  PROVE  Tells'
<1> DEFINE last == Len(ready) + 1
<1>1. /\ DOMAIN ready' = DOMAIN ready \cup {last} /\ last \in Nat
      /\ \A n \in DOMAIN ready : ready'[n] = ready[n] /\ n \in Nat /\ n < last /\ ready[n] \in ToSet(ready)
      /\ ready'[last] = i
  BY AppendFacts DEF TypeOK, ToSet
<1> HIDE DEF last
<1>2. ASSUME NEW n \in DOMAIN ready, FailedBehind(n) PROVE FailedBehind(n)'
  BY <1>1, <1>2 DEF FailedBehind
<1>3. ASSUME NEW n \in DOMAIN ready, net'[i].kind = "update", net'[i].answer = "error"
      PROVE  FailedBehind(n)'
  <2>1. last > n /\ last \in DOMAIN ready'
    BY <1>1
  <2> QED  BY <2>1, <1>1, <1>3 DEF FailedBehind
<1>4. ASSUME NEW n \in DOMAIN ready', net'[ready'[n]].kind \in SignIns,
             net'[ready'[n]].answer = "ok", currentUser' = Nil
      PROVE  FailedBehind(n)'
  <2>1. n # last
    BY <1>1, <1>4
  <2>2. n \in DOMAIN ready /\ net[ready[n]].kind \in SignIns /\ net[ready[n]].answer = "ok"
    BY <2>1, <1>1, <1>4
  <2> QED  BY <2>2, <1>2, <1>3, <1>4 DEF Tells
<1> QED  BY <1>4 DEF Tells, SignIns

-----------------------------------------------------------------------------
(* What happens on the screen *)

(* Nothing is sent or answered. *)
LEMMA Quiet ==
  ASSUME Inv, net' \in [Slots -> RequestType \cup {Nil}], \A i \in Slots : Stays(i),
         \A i \in Slots : net'[i] = Nil => net[i] = Nil,
         UNCHANGED <<ready, currentUser, passwords, overlap>>,
         userID' \in {userID, Nil}, email' \in Users \cup {Guest},
         top' \in {"account", "login", "signup"} \cup Forms, buttons' \in BOOLEAN,
         forms' \in [Forms -> FormType],
         \A i \in Slots : net'[i] # Nil /\ net'[i].from \in Forms /\ net'[i].sure =>
           forms'[net'[i].from].new = forms[net'[i].from].new
  PROVE  TypeOK' /\ OneUser' /\ OwnAuth' /\ Known' /\ Asks' /\ Tells'
<1>1. TypeOK /\ OneUser /\ OwnAuth /\ Known /\ Asks /\ Tells
  BY DEF Inv
<1>2. \A i \in Slots : net'[i] # Nil => Complete(net'[i])
  BY <1>1, CompleteKept
<1>3. \A i \in Slots : /\ net'[i] = Nil <=> net[i] = Nil
                       /\ net'[i] # Nil => net'[i].kind = net[i].kind /\ net'[i].answer = net[i].answer
  BY DEF Stays
<1>4. ToSet(ready') = {i \in Slots : net'[i] # Nil /\ net'[i].answer # "none"}
  BY <1>1, <1>3 DEF TypeOK
<1>5. TypeOK'
  BY <1>1, <1>2, <1>4 DEF TypeOK
<1>6. Tells'
  <2>1. \A i \in ToSet(ready) : i \in Slots /\ net[i] # Nil
    BY <1>1 DEF TypeOK
  <2> QED  BY <1>1, <1>3, <2>1, TellsKept
<1> QED  BY <1>1, <1>5, <1>6, OwnersKept, AsksKept

LEMMA StaysSame ==
  ASSUME net' = net
  PROVE  \A i \in Slots : Stays(i)
BY DEF Stays

LEMMA LaunchStep == ASSUME Inv, Launch PROVE Inv'
<1>1. /\ userID' \in {userID, Nil} /\ email' = Guest /\ top' = "account"
      /\ buttons' = (userID' # Nil) /\ forms' = [f \in Forms |-> Fresh]
      /\ net' = [i \in Slots |-> Nil] /\ ready' = <<>>
      /\ UNCHANGED <<currentUser, passwords, overlap>>
  BY DEF Launch
<1>2. \A i \in Slots : net'[i] = Nil
  BY <1>1
<1>3. TypeOK
  BY DEF Inv
<1>4. TypeOK'
  <2>1. forms' \in [Forms -> FormType]
    BY <1>1, FormTyped
  <2>2. ready' \in Seq(Slots) /\ IsInjective(ready') /\ ToSet(ready') = {}
    BY <1>1, EmptySeq DEF IsInjective, ToSet
  <2>3. net' \in [Slots -> RequestType \cup {Nil}]
    BY <1>1
  <2>4. ToSet(ready') = {i \in Slots : net'[i] # Nil /\ net'[i].answer # "none"}
    BY <2>2, <1>2
  <2>5. buttons' \in BOOLEAN
    BY <1>1
  <2> QED  BY <1>1, <1>2, <1>3, <2>1, <2>2, <2>3, <2>4, <2>5 DEF TypeOK
<1>5. OneUser' /\ OwnAuth' /\ Known'
  <2>1. \A i \in Slots : Stays(i)
    BY <1>2 DEF Stays
  <2> QED  BY <1>1, <2>1, OwnersKept DEF Inv
<1>6. LoggedUser'
  BY <1>1, ConstantFacts DEF LoggedUser
<1>7. OnStack' /\ Asks'
  BY <1>2 DEF OnStack, Asks
<1>8. Tells'
  BY <1>1, EmptySeq DEF Tells
<1>9. Success'
  BY <1>1, ConstantFacts DEF Success
<1> QED  BY <1>4, <1>5, <1>6, <1>7, <1>8, <1>9 DEF Inv

LEMMA AccountStep == ASSUME Inv, AccountArrives PROVE Inv'
<1>1. /\ userID # Nil /\ email' = userID /\ buttons' = TRUE
      /\ UNCHANGED <<userID, top, forms, net, ready, currentUser, passwords, overlap>>
  BY DEF AccountArrives
<1>2. email' \in Users \cup {Guest} /\ buttons' \in BOOLEAN /\ TypeOK
  BY <1>1 DEF Inv, TypeOK
<1>3. TypeOK' /\ OneUser' /\ OwnAuth' /\ Known' /\ Asks' /\ Tells'
  BY <1>1, <1>2, StaysSame, Quiet DEF TypeOK
<1>4. LoggedUser' /\ OnStack'
  BY <1>1 DEF Inv, LoggedUser, OnStack
<1>5. Success'
  BY <1>1 DEF Inv, Success, Sends
<1> QED  BY <1>3, <1>4, <1>5 DEF Inv

LEMMA OpenLoginStep == ASSUME Inv, OpenLogin PROVE Inv'
<1>1. /\ top = "account" /\ top' = "login" /\ userID' = Nil /\ email' = Guest
      /\ UNCHANGED <<buttons, forms, net, ready, currentUser, passwords, overlap>>
  BY DEF OpenLogin
<1>2. TypeOK' /\ OneUser' /\ OwnAuth' /\ Known' /\ Asks' /\ Tells'
  BY <1>1, StaysSame, Quiet DEF Inv, TypeOK
<1>3. LoggedUser' /\ Success'
  BY <1>1, ConstantFacts DEF LoggedUser, Success
<1>4. OnStack'
  BY <1>1 DEF Inv, OnStack
<1> QED  BY <1>2, <1>3, <1>4 DEF Inv

LEMMA OpenSignUpStep == ASSUME Inv, OpenSignUp PROVE Inv'
<1>1. /\ top = "login" /\ top' = "signup"
      /\ UNCHANGED <<userID, email, buttons, forms, net, ready, currentUser, passwords, overlap>>
  BY DEF OpenSignUp
<1>2. TypeOK' /\ OneUser' /\ OwnAuth' /\ Known' /\ Asks' /\ Tells'
  BY <1>1, StaysSame, Quiet DEF Inv, TypeOK
<1>3. LoggedUser' /\ Success'
  BY <1>1, ConstantFacts DEF LoggedUser, Success
<1>4. OnStack'
  BY <1>1 DEF Inv, OnStack
<1> QED  BY <1>2, <1>3, <1>4 DEF Inv

LEMMA BackStep == ASSUME Inv, Back PROVE Inv'
<1>1. /\ top # "account" /\ top' = IF top = "signup" THEN "login" ELSE "account"
      /\ net' = IF top \in Forms THEN net ELSE Left({top})
      /\ forms' = IF top \in Forms
                    THEN [forms EXCEPT ![top] = [Fresh EXCEPT !.new = forms[top].new]] ELSE forms
      /\ buttons' = (buttons /\ (top = "login" => userID # Nil))
      /\ UNCHANGED <<userID, email, ready, currentUser, passwords, overlap>>
  BY DEF Back
<1>2. TypeOK /\ top \in {"login", "signup"} \cup Forms
  BY <1>1 DEF Inv, TypeOK
<1>3. /\ net' \in [Slots -> RequestType \cup {Nil}]
      /\ \A i \in Slots : Stays(i) /\ (net'[i] = Nil => net[i] = Nil)
      /\ \A i \in Slots : net'[i] # Nil => ~(net'[i].from = top /\ top \notin Forms)
  <2>1. CASE top \in Forms
    BY <1>1, <1>2, <2>1, StaysSame DEF TypeOK
  <2>2. CASE top \notin Forms
    <3>1. Nil \notin {top}
      BY <1>2, <2>2, ConstantFacts
    <3>2. PICK m : m = Left({top})
      OBVIOUS
    <3>3. net' = m
      BY <1>1, <2>2, <3>2
    <3>4. /\ m \in [Slots -> RequestType \cup {Nil}]
          /\ \A i \in Slots :
               /\ m[i] = Nil <=> net[i] = Nil
               /\ m[i] # Nil =>
                    /\ m[i].kind = net[i].kind /\ m[i].user = net[i].user
                    /\ m[i].password = net[i].password /\ m[i].for = net[i].for
                    /\ m[i].answer = net[i].answer /\ m[i].sure = net[i].sure
                    /\ m[i].from = IF net[i].from \in {top} THEN Nil ELSE net[i].from
      BY <1>2, <3>1, <3>2, LeftFacts
    <3>5. \A i \in Slots : Stays(i)
      BY <3>3, <3>4, <2>2 DEF Stays
    <3> QED  BY <3>1, <3>3, <3>4, <3>5
  <2> QED  BY <2>1, <2>2
<1>4. /\ forms' \in [Forms -> FormType]
      /\ \A f \in Forms : forms'[f].new = forms[f].new
  <2>1. \A f \in Forms : /\ [Fresh EXCEPT !.new = forms[f].new] \in FormType
                         /\ [Fresh EXCEPT !.new = forms[f].new].new = forms[f].new
    BY <1>2 DEF Fresh, FormType, TypeOK
  <2>2. forms \in [Forms -> FormType]
    BY <1>2 DEF TypeOK
  <2> QED  BY <1>1, <2>1, <2>2
<1>5. top' \in {"account", "login"} /\ buttons' \in BOOLEAN
  BY <1>1, <1>2 DEF TypeOK
<1>6. TypeOK' /\ OneUser' /\ OwnAuth' /\ Known' /\ Asks' /\ Tells'
  <2>1. email' \in Users \cup {Guest}
    BY <1>1, <1>2 DEF TypeOK
  <2> QED  BY <2>1, <1>1, <1>3, <1>4, <1>5, Quiet
<1>7. LoggedUser'
  <2>1. top \in Forms => userID # Nil
    BY DEF Inv, LoggedUser
  <2> QED  BY <2>1, <1>1, <1>2, <1>5, ConstantFacts DEF LoggedUser
<1>8. OnStack'
  <2>1. ASSUME NEW i \in Slots, net'[i] # Nil
        PROVE  /\ net'[i].from = "login" => top' \in {"login", "signup"}
               /\ net'[i].from = "signup" => top' = "signup"
    <3>1. /\ net[i] # Nil /\ (net'[i].from = net[i].from \/ net'[i].from = Nil)
          /\ ~(net'[i].from = top /\ top \notin Forms)
      BY <1>3, <2>1 DEF Stays
    <3>2. /\ net[i].from = "login" => top \in {"login", "signup"}
          /\ net[i].from = "signup" => top = "signup"
      BY <3>1, <2>1, <1>3 DEF Inv, OnStack, Stays
    <3> QED  BY <3>1, <3>2, <1>1, ConstantFacts
  <2> QED  BY <2>1 DEF OnStack
<1>9. Success'
  BY <1>5, ConstantFacts DEF Success
<1> QED  BY <1>6, <1>7, <1>8, <1>9 DEF Inv

LEMMA OpenChangeStep == ASSUME Inv, NEW f \in Forms, OpenChange(f) PROVE Inv'
<1>1. /\ top = "account" /\ buttons /\ ~InUse(f) /\ top' = f
      /\ forms' = [forms EXCEPT ![f] = Fresh]
      /\ UNCHANGED <<userID, email, buttons, net, ready, currentUser, passwords, overlap>>
  BY DEF OpenChange
<1>2. TypeOK
  BY DEF Inv
<1>3. /\ forms' \in [Forms -> FormType] /\ forms'[f].asked = Nil
      /\ \A g \in Forms \ {f} : forms'[g] = forms[g]
  BY <1>1, <1>2, FormTyped DEF TypeOK
<1>4. \A i \in Slots : net[i] # Nil => net[i].from # f
  BY <1>1 DEF InUse
<1>5. TypeOK' /\ OneUser' /\ OwnAuth' /\ Known' /\ Asks' /\ Tells'
  <2>1. \A i \in Slots : net'[i] # Nil /\ net'[i].from \in Forms /\ net'[i].sure =>
           forms'[net'[i].from].new = forms[net'[i].from].new
    BY <1>1, <1>3, <1>4
  <2> QED  BY <2>1, <1>1, <1>2, <1>3, StaysSame, Quiet DEF TypeOK
<1>6. LoggedUser'
  BY <1>1 DEF Inv, LoggedUser
<1>7. OnStack'
  BY <1>1 DEF Inv, OnStack
<1>8. Success'
  BY <1>1, <1>3 DEF Success
<1> QED  BY <1>5, <1>6, <1>7, <1>8 DEF Inv

LEMMA EditStep ==
  ASSUME Inv, NEW p \in Passwords \cup {Blank}, Edit(p)
  PROVE  Inv'
<1>1. /\ top \in Forms /\ forms' = [forms EXCEPT ![top].new = p, ![top].asked = Nil]
      /\ net' = Unsure(top, p, net)
      /\ UNCHANGED <<userID, email, top, buttons, ready, currentUser, passwords, overlap>>
  BY DEF Edit
<1>2. TypeOK
  BY DEF Inv
<1>3. /\ forms' \in [Forms -> FormType] /\ forms'[top].asked = Nil /\ forms'[top].new = p
      /\ \A g \in Forms \ {top} : forms'[g] = forms[g]
  BY <1>1, <1>2 DEF FormType, TypeOK
<1>4. /\ net' \in [Slots -> RequestType \cup {Nil}]
      /\ \A i \in Slots : Stays(i) /\ (net'[i] = Nil => net[i] = Nil)
      /\ \A i \in Slots : net'[i] # Nil /\ net'[i].from = top /\ net'[i].sure => forms[top].new = p
  <2>1. PICK m : m = Unsure(top, p, net)
    OBVIOUS
  <2>2. /\ m \in [Slots -> RequestType \cup {Nil}]
        /\ \A i \in Slots :
             /\ m[i] = Nil <=> net[i] = Nil
             /\ m[i] # Nil =>
                  /\ m[i].kind = net[i].kind /\ m[i].user = net[i].user
                  /\ m[i].password = net[i].password /\ m[i].for = net[i].for
                  /\ m[i].answer = net[i].answer /\ m[i].from = net[i].from
                  /\ m[i].sure => net[i].sure
                  /\ net[i].from = top /\ forms[top].new # p => ~m[i].sure
    BY <1>1, <1>2, <2>1, UnsureFacts DEF TypeOK
  <2> QED  BY <1>1, <2>1, <2>2 DEF Stays
<1>5. TypeOK' /\ OneUser' /\ OwnAuth' /\ Known' /\ Asks' /\ Tells'
  <2>1. \A i \in Slots : net'[i] # Nil /\ net'[i].from \in Forms /\ net'[i].sure =>
           forms'[net'[i].from].new = forms[net'[i].from].new
    BY <1>3, <1>4
  <2> QED  BY <2>1, <1>1, <1>2, <1>3, <1>4, Quiet DEF TypeOK
<1>6. LoggedUser'
  BY <1>1 DEF Inv, LoggedUser
<1>7. OnStack'
  BY <1>1, <1>4, ConstantFacts DEF Inv, OnStack, Stays
<1>8. Success'
  BY <1>1, <1>3 DEF Success
<1> QED  BY <1>5, <1>6, <1>7, <1>8 DEF Inv

-----------------------------------------------------------------------------
(* What is sent *)

(* A request r of u joins those in flight in slot i; some may be in doubt. *)
LEMMA Sending ==
  ASSUME Inv, NEW i \in Slots, net[i] = Nil, NEW r \in RequestType, Complete(r),
         r.answer = "none", net' \in [Slots -> RequestType \cup {Nil}], net'[i] = r,
         \A j \in Slots : j # i => Stays(j) /\ (net'[j] = Nil => net[j] = Nil),
         Overlaps(r.user),
         UNCHANGED <<userID, email, top, buttons, ready, currentUser, passwords>>,
         forms' \in [Forms -> FormType]
  PROVE  /\ TypeOK' /\ OneUser' /\ OwnAuth' /\ Known' /\ Tells'
         /\ ~overlap' => ~overlap /\ userID \in {Nil, r.user}
<1>1. TypeOK /\ OneUser /\ OwnAuth /\ Known /\ Tells
  BY DEF Inv
<1>2. /\ overlap' \in BOOLEAN
      /\ ~overlap' => /\ ~overlap /\ userID \in {Nil, r.user}
                      /\ \A j \in Slots : net[j] # Nil => net[j].user = r.user
  BY <1>1 DEF Overlaps, TypeOK
<1>3. r # Nil
  BY FieldsTyped
<1>4. \A j \in Slots : net'[j] # Nil => Complete(net'[j])
  <2>1. ASSUME NEW j \in Slots, j # i, net'[j] # Nil PROVE Complete(net'[j])
    BY <1>1, <2>1, ConstantFacts DEF TypeOK, Stays, Complete
  <2> QED  BY <2>1
<1>5. \A j \in Slots : (net'[j] # Nil /\ net'[j].answer # "none") <=> (net[j] # Nil /\ net[j].answer # "none")
  BY <1>3 DEF Stays
<1>6. TypeOK'
  BY <1>1, <1>2, <1>4, <1>5 DEF TypeOK
<1>7. OneUser'
  BY <1>2 DEF OneUser, Stays
<1>8. \A j \in Slots : SignedIn(j)' => j # i /\ SignedIn(j) /\ net'[j].user = net[j].user
  BY DEF SignedIn, Stays
<1>9. OwnAuth'
  BY <1>1, <1>2, <1>8 DEF OwnAuth
<1>10. Known'
  BY <1>1, <1>8 DEF Known
<1>11. Tells'
  <2>1. \A j \in ToSet(ready) : j \in Slots /\ net[j] # Nil
    BY <1>1 DEF TypeOK
  <2>2. \A j \in ToSet(ready) : net'[j].kind = net[j].kind /\ net'[j].answer = net[j].answer
    BY <2>1 DEF Stays
  <2> QED  BY <1>1, <2>2, TellsKept
<1> QED  BY <1>2, <1>6, <1>7, <1>9, <1>10, <1>11

LEMMA SignInSent ==
  ASSUME Inv, NEW kind \in {"signIn", "createUser"}, NEW u \in Users, NEW p \in Passwords,
         top \in {"login", "signup"}, Sent(Request(kind, u, p, top, Nil)), Overlaps(u),
         UNCHANGED <<userID, email, top, buttons, forms, ready, currentUser, passwords>>
  PROVE  Inv'
<1>1. PICK r : r = Request(kind, u, p, top, Nil)
  OBVIOUS
<1>2. /\ r \in RequestType /\ r # Nil
      /\ r.kind = kind /\ r.user = u /\ r.password = p /\ r.from = top
      /\ r.for = Nil /\ r.answer = "none"
  <2>1. /\ kind \in SignIns \cup {"update"} /\ u \in Users \cup {Guest} /\ p \in Passwords \cup {Blank}
        /\ top \in Forms \cup {"login", "signup", Nil} /\ Nil \in ForType \cup {Nil}
    BY DEF SignIns
  <2> QED  BY <1>1, <2>1, RequestTyped
<1>3. PICK i \in Slots : net[i] = Nil /\ net' = [net EXCEPT ![i] = r]
  BY <1>1 DEF Sent, Unused
<1>4. TypeOK
  BY DEF Inv
<1>5. /\ net' \in [Slots -> RequestType \cup {Nil}] /\ net'[i] = r
      /\ \A j \in Slots : j # i => net'[j] = net[j]
  BY <1>2, <1>3, <1>4 DEF TypeOK
<1>6. Complete(r)
  BY <1>2, ConstantFacts DEF Complete
<1>7. \A j \in Slots : j # i => Stays(j) /\ (net'[j] = Nil => net[j] = Nil)
  BY <1>5 DEF Stays
<1>8. /\ TypeOK' /\ OneUser' /\ OwnAuth' /\ Known' /\ Tells'
      /\ ~overlap' => ~overlap
  BY <1>2, <1>3, <1>4, <1>5, <1>6, <1>7, Sending DEF TypeOK
<1>9. LoggedUser' /\ Success'
  BY ConstantFacts DEF Inv, LoggedUser, Success
<1>10. OnStack'
  BY <1>2, <1>5 DEF Inv, OnStack
<1>11. Asks'
  BY <1>2, <1>5, <1>8 DEF Inv, Asks
<1> QED  BY <1>8, <1>9, <1>10, <1>11 DEF Inv

LEMMA LoginTappedStep ==
  ASSUME Inv, NEW u \in Users, NEW p \in Passwords, LoginTapped(u, p)
  PROVE  Inv'
BY SignInSent DEF LoginTapped

LEMMA SignUpTappedStep ==
  ASSUME Inv, NEW u \in Users, NEW p \in Passwords, SignUpTapped(u, p)
  PROVE  Inv'
BY SignInSent DEF SignUpTapped

(* Send with fields that are not valid: only a message. *)
LEMMA InvalidSend ==
  ASSUME Inv, NEW current \in Passwords \cup {Blank}, NEW new \in Passwords \cup {Blank},
         NEW retype \in Passwords \cup {Blank},
         Send(current, new, retype), ~ValidateFields(current, new, retype)
  PROVE  Inv'
<1> DEFINE f == top
<1>1. /\ f \in Forms
      /\ forms' = [forms EXCEPT ![f].new = new, ![f].lblError = "error",
                                ![f].asked = Asked(f, new, FALSE)]
      /\ net' = Unsure(f, new, net)
      /\ UNCHANGED <<userID, email, top, buttons, ready, currentUser, passwords, overlap>>
  BY DEF Send
<1>2. TypeOK
  BY DEF Inv
<1>3. Asked(f, new, FALSE) \in Passwords \cup {Nil}
  BY <1>1, <1>2 DEF Asked, TypeOK, FormType
<1>4. PICK a \in Passwords \cup {Nil} : a = Asked(f, new, FALSE)
  BY <1>3
<1>5. a # Nil => /\ a = forms[f].asked
                 /\ \A i \in Slots : Sends(i) /\ net[i].from = f => forms[f].asked = new
  BY <1>1, <1>4 DEF Asked, Sends
<1>6. /\ forms' \in [Forms -> FormType] /\ forms'[f].asked = a /\ forms'[f].new = new
      /\ forms'[f].lblError = "error"
      /\ \A g \in Forms \ {f} : forms'[g] = forms[g]
  <2>1. forms' = [forms EXCEPT ![f].new = new, ![f].lblError = "error", ![f].asked = a]
    BY <1>1, <1>4
  <2>2. PICK e : e = [forms[f] EXCEPT !.new = new, !.lblError = "error", !.asked = a]
    OBVIOUS
  <2>3. forms \in [Forms -> FormType] /\ forms[f] \in FormType
    BY <1>1, <1>2 DEF TypeOK
  <2>4. e \in FormType /\ e.new = new /\ e.asked = a /\ e.lblError = "error"
    BY <2>2, <2>3 DEF FormType
  <2>5. forms' = [forms EXCEPT ![f] = e]
    BY <2>1, <2>2, <2>3
  <2> QED  BY <2>3, <2>4, <2>5, <1>1
<1>7. /\ net' \in [Slots -> RequestType \cup {Nil}]
      /\ \A i \in Slots : /\ Stays(i) /\ (net'[i] = Nil => net[i] = Nil)
                          /\ net'[i] # Nil => net'[i].from = net[i].from
      /\ \A i \in Slots : net'[i] # Nil /\ net'[i].from = f /\ net'[i].sure => forms[f].new = new
  <2>1. PICK m : m = Unsure(f, new, net)
    OBVIOUS
  <2>2. /\ m \in [Slots -> RequestType \cup {Nil}]
        /\ \A i \in Slots :
             /\ m[i] = Nil <=> net[i] = Nil
             /\ m[i] # Nil =>
                  /\ m[i].kind = net[i].kind /\ m[i].user = net[i].user
                  /\ m[i].password = net[i].password /\ m[i].for = net[i].for
                  /\ m[i].answer = net[i].answer /\ m[i].from = net[i].from
                  /\ m[i].sure => net[i].sure
                  /\ net[i].from = f /\ forms[f].new # new => ~m[i].sure
    BY <1>1, <1>2, <2>1, UnsureFacts DEF TypeOK
  <2> QED  BY <1>1, <2>1, <2>2 DEF Stays
<1>8. TypeOK' /\ OneUser' /\ OwnAuth' /\ Known' /\ Asks' /\ Tells'
  <2>1. \A i \in Slots : net'[i] # Nil /\ net'[i].from \in Forms /\ net'[i].sure =>
           forms'[net'[i].from].new = forms[net'[i].from].new
    BY <1>6, <1>7
  <2> QED  BY <2>1, <1>1, <1>2, <1>6, <1>7, Quiet DEF TypeOK
<1>9. LoggedUser'
  BY <1>1 DEF Inv, LoggedUser
<1>10. OnStack'
  BY <1>1, <1>7, ConstantFacts DEF Inv, OnStack, Stays
<1>11. Success'
  <2>1. ASSUME a # Nil, ~overlap, NEW i \in Slots, Sends(i)'
        PROVE  /\ net'[i].from = f /\ net'[i].for.password = a /\ new = a
               /\ net'[i].kind = "update" => /\ net'[i].password \in {a, Blank}
                                             /\ net'[i].answer = "ok" => passwords[userID] = a
    <3>1. Sends(i)
      BY <2>1, <1>7 DEF Sends, Stays
    <3>2. /\ net[i].from = f /\ net[i].for.password = a
          /\ net[i].kind = "update" => /\ net[i].password \in {a, Blank}
                                       /\ net[i].answer = "ok" => passwords[userID] = a
      BY <3>1, <2>1, <1>1, <1>5 DEF Inv, Success
    <3>3. new = a
      BY <3>1, <3>2, <2>1, <1>5
    <3> QED  BY <3>2, <3>3, <2>1, <1>7 DEF Stays, Sends
  <2>2. forms'[f].lblError # "Successful!"
    BY <1>6
  <2> QED  BY <2>1, <2>2, <1>1, <1>6 DEF Success
<1> QED  BY <1>8, <1>9, <1>10, <1>11 DEF Inv

(* Send with valid fields: whoever is taken for the user signs in again.   *)
LEMMA ValidSend ==
  ASSUME Inv, NEW current \in Passwords \cup {Blank}, NEW new \in Passwords \cup {Blank},
         NEW retype \in Passwords \cup {Blank},
         Send(current, new, retype), ValidateFields(current, new, retype)
  PROVE  Inv'
<1> DEFINE f == top
<1>1. /\ f \in Forms
      /\ forms' = [forms EXCEPT ![f].new = new, ![f].waits = TRUE, ![f].asked = Asked(f, new, TRUE)]
      /\ Overlaps(email)
      /\ UNCHANGED <<userID, email, top, buttons, ready, currentUser, passwords>>
  BY DEF Send
<1>2. TypeOK
  BY DEF Inv
<1>3. new = retype /\ new \in Passwords /\ new # Nil /\ IsPasswordValid(new)
  BY ConstantFacts DEF ValidateFields
<1>4. PICK for \in ForType : for.user = userID /\ for.password = new
                             /\ for = [user |-> userID, password |-> retype]
  BY <1>2, <1>3 DEF ForType, TypeOK
<1>5. PICK r \in RequestType :
        /\ r # Nil /\ r.kind = "reauth" /\ r.user = email /\ r.from = f
        /\ r.for = for /\ r.answer = "none"
        /\ r = Request("reauth", email, current, f, for)
  <2>1. /\ "reauth" \in SignIns \cup {"update"} /\ email \in Users \cup {Guest}
        /\ f \in Forms \cup {"login", "signup", Nil} /\ for \in ForType \cup {Nil}
    BY <1>1, <1>2, <1>4 DEF SignIns, TypeOK
  <2>2. PICK q : q = Request("reauth", email, current, f, for)
    OBVIOUS
  <2>3. /\ q \in RequestType /\ q # Nil /\ q.kind = "reauth" /\ q.user = email /\ q.from = f
        /\ q.for = for /\ q.answer = "none"
    BY <2>1, <2>2, <1>1, <1>4, ReauthTyped
  <2> QED  BY <2>2, <2>3
<1>6. PICK m : m = Unsure(f, new, net)
  OBVIOUS
<1>7. PICK i \in Slots : net[i] = Nil /\ net' = [m EXCEPT ![i] = r]
  BY <1>4, <1>5, <1>6 DEF Send, Unused
<1>8. /\ m \in [Slots -> RequestType \cup {Nil}]
      /\ \A j \in Slots :
           /\ m[j] = Nil <=> net[j] = Nil
           /\ m[j] # Nil =>
                /\ m[j].kind = net[j].kind /\ m[j].user = net[j].user
                /\ m[j].password = net[j].password /\ m[j].for = net[j].for
                /\ m[j].answer = net[j].answer /\ m[j].from = net[j].from
                /\ m[j].sure => net[j].sure
                /\ net[j].from = f /\ forms[f].new # new => ~m[j].sure
  BY <1>1, <1>2, <1>6, UnsureFacts DEF TypeOK
<1>9. /\ net' \in [Slots -> RequestType \cup {Nil}] /\ net'[i] = r
      /\ \A j \in Slots : j # i => net'[j] = m[j]
  BY <1>7, <1>8
<1>10. /\ \A j \in Slots : j # i => /\ Stays(j) /\ (net'[j] = Nil => net[j] = Nil)
                                    /\ net'[j] # Nil => net'[j].from = net[j].from
       /\ \A j \in Slots : j # i /\ net'[j] # Nil /\ net'[j].from = f /\ net'[j].sure =>
            forms[f].new = new
  BY <1>8, <1>9 DEF Stays
<1>11. PICK a \in Passwords \cup {Nil} : a = Asked(f, new, TRUE)
  BY <1>3 DEF Asked
<1>12. a # Nil => /\ a = new
                  /\ \A j \in Slots : Sends(j) => net[j].from = f /\ forms[f].asked = new
  BY <1>1, <1>11 DEF Asked, Sends
<1>13. /\ forms' \in [Forms -> FormType] /\ forms'[f].asked = a /\ forms'[f].new = new
       /\ forms'[f].lblError = forms[f].lblError
       /\ \A g \in Forms \ {f} : forms'[g] = forms[g]
  <2>1. forms' = [forms EXCEPT ![f].new = new, ![f].waits = TRUE, ![f].asked = a]
    BY <1>1, <1>11
  <2>2. PICK e : e = [forms[f] EXCEPT !.new = new, !.waits = TRUE, !.asked = a]
    OBVIOUS
  <2>3. forms \in [Forms -> FormType] /\ forms[f] \in FormType
    BY <1>1, <1>2 DEF TypeOK
  <2>4. e \in FormType /\ e.new = new /\ e.asked = a /\ e.lblError = forms[f].lblError
    BY <2>2, <2>3, <1>3 DEF FormType
  <2>5. forms' = [forms EXCEPT ![f] = e]
    BY <2>1, <2>2, <2>3
  <2> QED  BY <2>3, <2>4, <2>5, <1>1
<1>14. Complete(r)
  BY <1>1, <1>5 DEF Complete
<1>15. /\ TypeOK' /\ OneUser' /\ OwnAuth' /\ Known' /\ Tells'
       /\ ~overlap' => ~overlap /\ userID \in {Nil, email}
  BY <1>1, <1>5, <1>7, <1>9, <1>10, <1>13, <1>14, Sending
<1>16. LoggedUser' /\ userID # Nil
  BY <1>1 DEF Inv, LoggedUser
<1>17. OnStack'
  BY <1>1, <1>5, <1>9, <1>10, ConstantFacts DEF Inv, OnStack, Stays
<1>18. Asks'
  <2>1. ASSUME NEW j \in Slots, net'[j] # Nil, net'[j].kind \in {"reauth", "update"}
        PROVE  /\ IsPasswordValid(net'[j].for.password)
               /\ ~overlap' => net'[j].for.user = net'[j].user
               /\ net'[j].kind = "reauth" /\ net'[j].sure =>
                    forms'[net'[j].from].new = net'[j].for.password
               /\ net'[j].kind = "update" /\ net'[j].sure =>
                    net'[j].password = net'[j].for.password
    <3>1. CASE j = i
      BY <3>1, <1>3, <1>4, <1>5, <1>9, <1>13, <1>15, <1>16
    <3>2. CASE j # i
      <4>1. /\ net[j] # Nil /\ net'[j].kind = net[j].kind /\ net'[j].user = net[j].user
            /\ net'[j].password = net[j].password /\ net'[j].for = net[j].for
            /\ net'[j].from = net[j].from /\ (net'[j].sure => net[j].sure)
        BY <3>2, <2>1, <1>10 DEF Stays
      <4>2. net'[j].from \in Forms
        BY <4>1, <2>1, <1>15 DEF TypeOK, Complete
      <4>3. net'[j].sure => forms'[net'[j].from].new = forms[net'[j].from].new
        BY <4>1, <4>2, <3>2, <2>1, <1>10, <1>13
      <4>4. /\ IsPasswordValid(net[j].for.password)
            /\ ~overlap => net[j].for.user = net[j].user
            /\ net[j].kind = "reauth" /\ net[j].sure =>
                 forms[net[j].from].new = net[j].for.password
            /\ net[j].kind = "update" /\ net[j].sure => net[j].password = net[j].for.password
        BY <4>1, <2>1 DEF Inv, Asks
      <4> QED  BY <4>1, <4>3, <4>4, <1>15
    <3> QED  BY <3>1, <3>2
  <2> QED  BY <2>1 DEF Asks
<1>19. Success'
  <2>1. ASSUME a # Nil, ~overlap', NEW j \in Slots, Sends(j)'
        PROVE  /\ net'[j].from = f /\ net'[j].for.password = a
               /\ net'[j].kind = "update" => /\ net'[j].password \in {a, Blank}
                                             /\ net'[j].answer = "ok" => passwords[userID] = a
    <3>1. CASE j = i
      BY <3>1, <2>1, <1>4, <1>5, <1>9, <1>12
    <3>2. CASE j # i
      <4>1. Sends(j)
        BY <3>2, <2>1, <1>10 DEF Sends, Stays
      <4>2. forms[f].asked = a
        BY <4>1, <2>1, <1>12
      <4>3. /\ net[j].from = f /\ net[j].for.password = a
            /\ net[j].kind = "update" => /\ net[j].password \in {a, Blank}
                                         /\ net[j].answer = "ok" => passwords[userID] = a
        BY <4>1, <4>2, <2>1, <1>1, <1>15 DEF Inv, Success
      <4> QED  BY <4>3, <3>2, <2>1, <1>10 DEF Stays, Sends
    <3> QED  BY <3>1, <3>2
  <2>2. Sends(i)'
    BY <1>1, <1>5, <1>9 DEF Sends
  <2> QED  BY <2>1, <2>2, <1>1, <1>12, <1>13 DEF Success
<1> QED  BY <1>15, <1>16, <1>17, <1>18, <1>19 DEF Inv

-----------------------------------------------------------------------------
(* What the server answers *)

LEMMA Answering ==
  ASSUME Inv, NEW i \in Slots, NEW a \in {"ok", "error"}, Answered(i, a),
         currentUser' \in Users \cup {Nil}, passwords' \in [Users -> Passwords \cup {Nil}]
  PROVE  /\ net[i] # Nil /\ net[i] \in RequestType /\ net'[i] # Nil
         /\ net'[i].kind = net[i].kind /\ net'[i].user = net[i].user /\ net'[i].from = net[i].from
         /\ net'[i].password = net[i].password /\ net'[i].for = net[i].for
         /\ net'[i].answer = a
         /\ \A j \in Slots : j # i => net'[j] = net[j]
         /\ TypeOK' /\ OneUser' /\ LoggedUser' /\ OnStack' /\ Asks'
         /\ \A j \in Slots : SignedIn(j)' => (j # i /\ SignedIn(j)) \/ (j = i /\ a = "ok" /\ net[i].kind \in SignIns)
         /\ \A j \in ToSet(ready) : net'[j].kind = net[j].kind /\ net'[j].answer = net[j].answer
<1>1. /\ net[i] # Nil /\ net[i].answer = "none"
      /\ net' = [net EXCEPT ![i].answer = a] /\ ready' = Append(ready, i)
      /\ UNCHANGED <<userID, email, top, buttons, forms, overlap>>
  BY DEF Answered
<1>2. TypeOK
  BY DEF Inv
<1>3. net[i] \in RequestType /\ net \in [Slots -> RequestType \cup {Nil}]
  BY <1>1, <1>2 DEF TypeOK
<1>4. PICK q : q = [net[i] EXCEPT !.answer = a]
  OBVIOUS
<1>5. /\ q \in RequestType /\ q # Nil
      /\ q.kind = net[i].kind /\ q.user = net[i].user /\ q.password = net[i].password
      /\ q.from = net[i].from /\ q.for = net[i].for /\ q.answer = a
      /\ q.sure = net[i].sure
  BY <1>3, <1>4, AnswerTyped
<1>6. /\ net' \in [Slots -> RequestType \cup {Nil}] /\ net'[i] = q
      /\ \A j \in Slots : j # i => net'[j] = net[j]
  <2>1. net' = [net EXCEPT ![i] = q]
    BY <1>1, <1>4
  <2> QED  BY <2>1, <1>3, <1>5
<1>7. i \notin ToSet(ready)
  BY <1>1, <1>2 DEF TypeOK
<1>8. ready' \in Seq(Slots) /\ IsInjective(ready') /\ ToSet(ready') = ToSet(ready) \cup {i}
  BY <1>1, <1>2, <1>7, AppendFacts DEF TypeOK
<1>9. ToSet(ready') = {j \in Slots : net'[j] # Nil /\ net'[j].answer # "none"}
  BY <1>2, <1>5, <1>6, <1>8 DEF TypeOK
<1>10. \A j \in Slots : net'[j] # Nil => Complete(net'[j])
  <2>1. Complete(net[i])
    BY <1>1, <1>2 DEF TypeOK
  <2>2. Complete(q)
    BY <2>1, <1>5 DEF Complete
  <2> QED  BY <2>2, <1>2, <1>6 DEF TypeOK
<1>11. TypeOK'
  BY <1>1, <1>2, <1>6, <1>8, <1>9, <1>10 DEF TypeOK
<1>12. OneUser'
  BY <1>1, <1>5, <1>6 DEF Inv, OneUser
<1>13. LoggedUser'
  BY <1>1 DEF Inv, LoggedUser
<1>14. OnStack'
  BY <1>1, <1>5, <1>6 DEF Inv, OnStack
<1>15. Asks'
  BY <1>1, <1>5, <1>6 DEF Inv, Asks
<1>16. \A j \in Slots : SignedIn(j)' =>
         (j # i /\ SignedIn(j)) \/ (j = i /\ a = "ok" /\ net[i].kind \in SignIns)
  BY <1>5, <1>6 DEF SignedIn
<1>17. \A j \in ToSet(ready) : net'[j].kind = net[j].kind /\ net'[j].answer = net[j].answer
  BY <1>2, <1>6, <1>7 DEF TypeOK
<1> QED  BY <1>1, <1>3, <1>5, <1>6, <1>11, <1>12, <1>13, <1>14, <1>15, <1>16, <1>17

(* What the form on the screen waits for, when its user's password stays,  *)
(* or becomes what was asked for.                                          *)
LEMMA SuccessAnswered ==
  ASSUME Inv, NEW i \in Slots, NEW a \in {"ok", "error"}, net[i] # Nil, net'[i] # Nil,
         net'[i].kind = net[i].kind, net'[i].user = net[i].user, net'[i].from = net[i].from,
         net'[i].password = net[i].password, net'[i].for = net[i].for,
         net'[i].answer = a, \A j \in Slots : j # i => net'[j] = net[j],
         UNCHANGED <<userID, top, forms, overlap>>,
         top \in Forms /\ forms[top].asked # Nil /\ ~overlap =>
           /\ passwords'[userID] = passwords[userID] \/ passwords'[userID] = forms[top].asked
           /\ net[i].kind = "update" /\ a = "ok" => passwords'[userID] = forms[top].asked
  PROVE  Success'
<1> SUFFICES ASSUME top \in Forms, forms[top].asked # Nil, ~overlap
             PROVE  Success'
  BY DEF Success
<1>1. \A j \in Slots : Sends(j)' <=> Sends(j)
  BY DEF Sends
<1>2. /\ \A j \in Slots : Sends(j) =>
           /\ net[j].from = top /\ net[j].for.password = forms[top].asked
           /\ forms[top].new \in {forms[top].asked, Blank}
           /\ net[j].kind = "update" =>
                /\ net[j].password \in {forms[top].asked, Blank}
                /\ net[j].answer = "ok" => passwords[userID] = forms[top].asked
      /\ forms[top].lblError = "Successful!" =>
           \/ passwords[userID] = forms[top].asked /\ forms[top].new = Blank
           \/ \E j \in Slots : Sends(j)
  BY DEF Inv, Success
<1>3. \A j \in Slots : Sends(j)' =>
        /\ net'[j].from = top /\ net'[j].for.password = forms[top].asked
        /\ forms[top].new \in {forms[top].asked, Blank}
        /\ net'[j].kind = "update" =>
             /\ net'[j].password \in {forms[top].asked, Blank}
             /\ net'[j].answer = "ok" => passwords'[userID] = forms[top].asked
  <2>1. ASSUME NEW j \in Slots, Sends(j)'
        PROVE  /\ net'[j].from = top /\ net'[j].for.password = forms[top].asked
               /\ forms[top].new \in {forms[top].asked, Blank}
               /\ net'[j].kind = "update" =>
                    /\ net'[j].password \in {forms[top].asked, Blank}
                    /\ net'[j].answer = "ok" => passwords'[userID] = forms[top].asked
    <3>1. Sends(j)
      BY <2>1, <1>1
    <3>2. CASE j = i
      BY <3>1, <3>2, <1>2
    <3>3. CASE j # i
      BY <3>1, <3>3, <1>2
    <3> QED  BY <3>2, <3>3
  <2> QED  BY <2>1
<1>4. forms[top].lblError = "Successful!" =>
        \/ passwords'[userID] = forms[top].asked /\ forms[top].new = Blank
        \/ \E j \in Slots : Sends(j)'
  BY <1>1, <1>2
<1> QED  BY <1>3, <1>4 DEF Success

(* Passwords of those who signed up do not go away. *)
LEMMA SignedUp ==
  ASSUME Inv, NEW i \in Slots, net[i] # Nil, net[i].kind = "createUser",
         passwords[net[i].user] = Nil, passwords' = [passwords EXCEPT ![net[i].user] = net[i].password]
  PROVE  /\ passwords' \in [Users -> Passwords \cup {Nil}]
         /\ net[i].user \in Users /\ passwords'[net[i].user] # Nil
         /\ \A u \in Users : passwords[u] # Nil => passwords'[u] = passwords[u]
<1>1. /\ net[i].user \in Users /\ net[i].password \in Passwords
      /\ passwords \in [Users -> Passwords \cup {Nil}]
  <2>1. Complete(net[i]) /\ net[i] \in RequestType /\ TypeOK
    BY DEF Inv, TypeOK
  <2>2. net[i].password \in Passwords \cup {Blank}
    BY <2>1, FieldsTyped
  <2> QED  BY <2>1, <2>2 DEF Complete, TypeOK
<1> QED  BY <1>1, ConstantFacts

LEMMA SignsInStep == ASSUME Inv, NEW i \in Slots, SignsIn(i) PROVE Inv'
<1>1. /\ Answered(i, "ok") /\ currentUser' = net[i].user
      /\ \/ /\ net[i].kind \in {"signIn", "reauth"} /\ net[i].user \in Users
            /\ passwords[net[i].user] = net[i].password /\ passwords' = passwords
         \/ /\ net[i].kind = "createUser" /\ passwords[net[i].user] = Nil
            /\ passwords' = [passwords EXCEPT ![net[i].user] = net[i].password]
  BY DEF SignsIn
<1>2. TypeOK /\ net[i] # Nil
  BY <1>1 DEF Inv, Answered
<1>3. /\ net[i].kind \in SignIns /\ net[i].user \in Users
      /\ passwords' \in [Users -> Passwords \cup {Nil}]
      /\ passwords'[net[i].user] # Nil
      /\ \A u \in Users : passwords[u] # Nil => passwords'[u] = passwords[u]
  <2>1. CASE /\ net[i].kind \in {"signIn", "reauth"} /\ net[i].user \in Users
             /\ passwords[net[i].user] = net[i].password /\ passwords' = passwords
    <3>1. net[i].password \in Passwords \cup {Blank}
      BY <1>2, FieldsTyped DEF TypeOK
    <3> QED  BY <2>1, <3>1, <1>2, ConstantFacts DEF TypeOK, SignIns
  <2>2. CASE /\ net[i].kind = "createUser" /\ passwords[net[i].user] = Nil
             /\ passwords' = [passwords EXCEPT ![net[i].user] = net[i].password]
    BY <2>2, <1>2, SignedUp DEF SignIns
  <2> QED  BY <1>1, <2>1, <2>2
<1>4. currentUser' \in Users
  BY <1>1, <1>3
<1>5. PICK a \in {"ok", "error"} : a = "ok"
  OBVIOUS
<1>6. /\ net'[i] # Nil
      /\ net'[i].kind = net[i].kind /\ net'[i].user = net[i].user /\ net'[i].from = net[i].from
      /\ net'[i].password = net[i].password /\ net'[i].for = net[i].for
      /\ net'[i].answer = a
      /\ \A j \in Slots : j # i => net'[j] = net[j]
      /\ TypeOK' /\ OneUser' /\ LoggedUser' /\ OnStack' /\ Asks'
      /\ \A j \in Slots : SignedIn(j)' => (j # i /\ SignedIn(j)) \/ j = i
      /\ \A j \in ToSet(ready) : net'[j].kind = net[j].kind /\ net'[j].answer = net[j].answer
  BY <1>1, <1>3, <1>4, <1>5, Answering
<1>7. UNCHANGED <<userID, top, forms, overlap>> /\ ready' = Append(ready, i)
  BY <1>1 DEF Answered
<1>8. OwnAuth'
  BY <1>1, <1>2, <1>6, <1>7 DEF Inv, OneUser, OwnAuth, SignedIn
<1>9. Known'
  <2>1. userID \in Users \cup {Nil}
    BY <1>2 DEF TypeOK
  <2> QED  BY <2>1, <1>3, <1>6, <1>7 DEF Inv, Known, SignedIn
<1>10. Tells'
  BY <1>2, <1>4, <1>6, <1>7, TellsMore, ConstantFacts DEF Inv
<1>11. Success'
  <2>1. top \in Forms => userID # Nil
    BY DEF Inv, LoggedUser
  <2>2. userID # Nil => passwords'[userID] = passwords[userID]
    BY <1>2, <1>3 DEF Inv, Known, TypeOK
  <2>3. net[i].kind # "update"
    BY <1>3 DEF SignIns
  <2> QED  BY <2>1, <2>2, <2>3, <1>2, <1>6, <1>7, SuccessAnswered
<1> QED  BY <1>6, <1>8, <1>9, <1>10, <1>11 DEF Inv

(* The password of a form's user becomes what the form asked for. *)
LEMMA UpdatesStep == ASSUME Inv, NEW i \in Slots, Updates(i) PROVE Inv'
<1>1. PICK a \in {"ok", "error"} :
        /\ Answered(i, a) /\ currentUser' = currentUser
        /\ net[i].kind = "update" /\ Accepted(net[i].password)
        /\ passwords' = [passwords EXCEPT ![net[i].user] = net[i].password]
  BY DEF Updates
<1>2. TypeOK /\ net[i] # Nil
  BY <1>1 DEF Inv, Answered
<1>3. net[i].user \in Users /\ net[i].from \in Forms /\ net[i].password \in Passwords
  <2>1. Complete(net[i]) /\ net[i].password \in Passwords \cup {Blank}
    BY <1>2, FieldsTyped DEF TypeOK
  <2>2. net[i].password # Blank
    BY <1>1 DEF Accepted, Blank
  <2> QED  BY <2>1, <2>2, <1>1 DEF Complete
<1>4. /\ passwords' \in [Users -> Passwords \cup {Nil}]
      /\ passwords'[net[i].user] = net[i].password /\ net[i].password # Nil
      /\ \A u \in Users : u # net[i].user => passwords'[u] = passwords[u]
  BY <1>1, <1>2, <1>3, ConstantFacts DEF TypeOK
<1>5. currentUser' \in Users \cup {Nil}
  BY <1>1, <1>2 DEF TypeOK
<1>6. /\ net'[i] # Nil
      /\ net'[i].kind = net[i].kind /\ net'[i].user = net[i].user /\ net'[i].from = net[i].from
      /\ net'[i].password = net[i].password /\ net'[i].for = net[i].for
      /\ net'[i].answer = a
      /\ \A j \in Slots : j # i => net'[j] = net[j]
      /\ TypeOK' /\ OneUser' /\ LoggedUser' /\ OnStack' /\ Asks'
      /\ \A j \in Slots : SignedIn(j)' => (j # i /\ SignedIn(j)) \/ (j = i /\ a = "ok" /\ net[i].kind \in SignIns)
      /\ \A j \in ToSet(ready) : net'[j].kind = net[j].kind /\ net'[j].answer = net[j].answer
  BY <1>1, <1>4, <1>5, Answering
<1>7. UNCHANGED <<userID, top, forms, overlap>> /\ ready' = Append(ready, i)
  BY <1>1 DEF Answered
<1>8. \A j \in Slots : SignedIn(j)' => SignedIn(j) /\ net'[j] = net[j]
  BY <1>1, <1>6 DEF SignIns
<1>9. OwnAuth'
  BY <1>1, <1>7, <1>8 DEF Inv, OwnAuth
<1>10. Known'
  <2>1. userID \in Users \cup {Nil} /\ \A j \in Slots : SignedIn(j) => net[j].user \in Users
    BY <1>2 DEF Inv, Known, TypeOK
  <2> QED  BY <2>1, <1>4, <1>7, <1>8 DEF Inv, Known
<1>11. Tells'
  BY <1>1, <1>2, <1>6, <1>7, TellsMore DEF Inv, SignIns
<1>12. Success'
  <2>1. ASSUME top \in Forms, forms[top].asked # Nil, ~overlap
        PROVE  passwords'[userID] = forms[top].asked
    <3>1. userID # Nil /\ net[i].user = userID
      BY <2>1, <1>2 DEF Inv, LoggedUser, OneUser
    <3>2. net[i].password \in {forms[top].asked, Blank}
      BY <2>1, <1>1, <1>2, <1>3 DEF Inv, Success, Sends
    <3> QED  BY <3>1, <3>2, <1>3, <1>4, ConstantFacts
  <2> QED  BY <2>1, <1>2, <1>6, <1>7, SuccessAnswered
<1> QED  BY <1>6, <1>9, <1>10, <1>11, <1>12 DEF Inv

LEMMA FailsStep == ASSUME Inv, NEW i \in Slots, Fails(i) PROVE Inv'
<1>1. /\ Answered(i, "error")
      /\ \/ currentUser' = currentUser /\ passwords' = passwords
         \/ /\ net[i].kind = "update" /\ currentUser' = Nil /\ passwords' = passwords
         \/ /\ net[i].kind = "createUser" /\ passwords[net[i].user] = Nil
            /\ passwords' = [passwords EXCEPT ![net[i].user] = net[i].password]
            /\ currentUser' = currentUser
  BY DEF Fails
<1>2. TypeOK /\ net[i] # Nil
  BY <1>1 DEF Inv, Answered
<1>3. /\ passwords' \in [Users -> Passwords \cup {Nil}]
      /\ \A u \in Users : passwords[u] # Nil => passwords'[u] = passwords[u]
  <2>1. CASE passwords' = passwords
    BY <2>1, <1>2 DEF TypeOK
  <2>2. CASE /\ net[i].kind = "createUser" /\ passwords[net[i].user] = Nil
             /\ passwords' = [passwords EXCEPT ![net[i].user] = net[i].password]
    BY <2>2, <1>2, SignedUp
  <2> QED  BY <1>1, <2>1, <2>2
<1>4. currentUser' \in Users \cup {Nil}
  BY <1>1, <1>2 DEF TypeOK
<1>5. PICK a \in {"ok", "error"} : a = "error"
  OBVIOUS
<1>6. /\ net'[i] # Nil
      /\ net'[i].kind = net[i].kind /\ net'[i].user = net[i].user /\ net'[i].from = net[i].from
      /\ net'[i].password = net[i].password /\ net'[i].for = net[i].for
      /\ net'[i].answer = a
      /\ \A j \in Slots : j # i => net'[j] = net[j]
      /\ TypeOK' /\ OneUser' /\ LoggedUser' /\ OnStack' /\ Asks'
      /\ \A j \in Slots : SignedIn(j)' => (j # i /\ SignedIn(j)) \/ (j = i /\ a = "ok" /\ net[i].kind \in SignIns)
      /\ \A j \in ToSet(ready) : net'[j].kind = net[j].kind /\ net'[j].answer = net[j].answer
  BY <1>1, <1>3, <1>4, <1>5, Answering
<1>7. UNCHANGED <<userID, top, forms, overlap>> /\ ready' = Append(ready, i)
  BY <1>1 DEF Answered
<1>8. \A j \in Slots : SignedIn(j)' => SignedIn(j) /\ net'[j] = net[j]
  BY <1>5, <1>6
<1>9. OwnAuth'
  BY <1>1, <1>7, <1>8 DEF Inv, OwnAuth
<1>10. Known'
  <2>1. userID \in Users \cup {Nil} /\ \A j \in Slots : SignedIn(j) => net[j].user \in Users
    BY <1>2 DEF Inv, Known, TypeOK
  <2> QED  BY <2>1, <1>3, <1>7, <1>8 DEF Inv, Known
<1>11. Tells'
  <2>1. ~(net'[i].kind \in SignIns /\ net'[i].answer = "ok")
    BY <1>5, <1>6
  <2>2. currentUser' = Nil =>
          currentUser = Nil \/ (net'[i].kind = "update" /\ net'[i].answer = "error")
    BY <1>1, <1>5, <1>6
  <2> QED  BY <2>1, <2>2, <1>2, <1>6, <1>7, TellsMore DEF Inv
<1>12. Success'
  <2>1. top \in Forms => userID # Nil
    BY DEF Inv, LoggedUser
  <2>2. userID # Nil => passwords'[userID] = passwords[userID]
    BY <1>2, <1>3 DEF Inv, Known, TypeOK
  <2> QED  BY <2>1, <2>2, <1>2, <1>5, <1>6, <1>7, SuccessAnswered
<1> QED  BY <1>6, <1>9, <1>10, <1>11, <1>12 DEF Inv

-----------------------------------------------------------------------------
(* What the callbacks do *)

LEMMA SaysFacts ==
  ASSUME TypeOK, NEW f \in Forms, NEW text \in {"error", "Successful!"}, NEW m, m = Says(f, text)
  PROVE  /\ m \in [Forms -> FormType]
         /\ \A g \in Forms :
              /\ m[g].new = forms[g].new /\ m[g].asked = forms[g].asked
              /\ m[g].lblError = IF g = f /\ top = f THEN text ELSE forms[g].lblError
<1>1. forms \in [Forms -> FormType] /\ forms[f] \in FormType
  BY DEF TypeOK
<1>2. CASE top = f
  <2>1. PICK e : e = [forms[f] EXCEPT !.lblError = text, !.waits = FALSE]
    OBVIOUS
  <2>2. e \in FormType /\ e.new = forms[f].new /\ e.asked = forms[f].asked /\ e.lblError = text
    BY <2>1, <1>1 DEF FormType
  <2>3. m = [forms EXCEPT ![f] = e]
    BY <1>2, <1>1, <2>1 DEF Says
  <2> QED  BY <2>2, <2>3, <1>1, <1>2
<1>3. CASE top # f
  BY <1>1, <1>3 DEF Says
<1> QED  BY <1>2, <1>3

(* A callback after which its request is done. *)
LEMMA Popped ==
  ASSUME Inv, NEW i \in Slots, ready # <<>>, i = Head(ready), ready' = Tail(ready),
         net' \in [Slots -> RequestType \cup {Nil}], net'[i] = Nil,
         \A j \in Slots : Stays(j) /\ (j # i /\ net'[j] = Nil => net[j] = Nil),
         UNCHANGED <<currentUser, passwords, overlap, email, buttons>>,
         userID' = userID \/ (SignedIn(i) /\ userID' = net[i].user),
         top' \in {"account", "login", "signup"} \cup Forms,
         forms' \in [Forms -> FormType],
         \A j \in Slots : net'[j] # Nil /\ net'[j].from \in Forms /\ net'[j].sure =>
           forms'[net'[j].from].new = forms[net'[j].from].new
  PROVE  TypeOK' /\ OneUser' /\ OwnAuth' /\ Known' /\ Asks' /\ Tells'
<1>1. TypeOK /\ OneUser /\ OwnAuth /\ Known /\ Asks /\ Tells
  BY DEF Inv
<1>2. \A j \in Slots : net'[j] # Nil => Complete(net'[j])
  BY <1>1, CompleteKept
<1>3. /\ Tail(ready) \in Seq(Slots) /\ IsInjective(Tail(ready))
      /\ ToSet(Tail(ready)) = ToSet(ready) \ {i} /\ net[i] # Nil
  BY <1>1, HeadFacts
<1>4. \A j \in Slots : j # i =>
        /\ net'[j] = Nil <=> net[j] = Nil
        /\ net'[j] # Nil => net'[j].kind = net[j].kind /\ net'[j].answer = net[j].answer
  BY DEF Stays
<1>5. ToSet(ready') = {j \in Slots : net'[j] # Nil /\ net'[j].answer # "none"}
  BY <1>1, <1>3, <1>4 DEF TypeOK
<1>6. userID' \in Users \cup {Nil}
  BY <1>1 DEF Known, TypeOK
<1>7. TypeOK'
  BY <1>1, <1>2, <1>3, <1>5, <1>6 DEF TypeOK
<1>8. Tells'
  <2>1. \A j \in ToSet(ready) \ {i} : j \in Slots /\ j # i /\ net[j] # Nil
    BY <1>1 DEF TypeOK
  <2>2. \A j \in ToSet(ready) \ {i} : net'[j].kind = net[j].kind /\ net'[j].answer = net[j].answer
    BY <2>1, <1>4
  <2> QED  BY <2>2, <1>1, TellsPopped
<1>9. OneUser' /\ OwnAuth' /\ Known'
  <2>1. CASE userID' = userID
    BY <2>1, <1>1, OwnersKept
  <2>2. CASE SignedIn(i) /\ userID' = net[i].user
    <3>1. OneUser'
      BY <2>2, <1>1, <1>3 DEF OneUser, Stays
    <3>2. OwnAuth'
      BY <2>2, <1>1 DEF OwnAuth, Stays, SignedIn
    <3>3. Known'
      BY <2>2, <1>1 DEF Known, Stays, SignedIn
    <3> QED  BY <3>1, <3>2, <3>3
  <2> QED  BY <2>1, <2>2
<1> QED  BY <1>1, <1>7, <1>8, <1>9, AsksKept

LEMMA LoginFailsStep == ASSUME Inv, NEW i \in Slots, LoginFails(i) PROVE Inv'
<1>1. /\ ready # <<>> /\ i = Head(ready) /\ ready' = Tail(ready)
      /\ net[i].kind \in {"signIn", "createUser"}
      /\ net' = [net EXCEPT ![i] = Nil]
      /\ UNCHANGED <<userID, email, top, buttons, forms, currentUser, passwords, overlap>>
  BY DEF LoginFails, Runs
<1>2. TypeOK /\ net[i] # Nil
  BY <1>1, HeadFacts DEF Inv
<1>3. /\ net' \in [Slots -> RequestType \cup {Nil}] /\ net'[i] = Nil
      /\ \A j \in Slots : j # i => net'[j] = net[j]
  BY <1>1, <1>2 DEF TypeOK
<1>4. \A j \in Slots : Stays(j)
  BY <1>3 DEF Stays
<1>5. TypeOK' /\ OneUser' /\ OwnAuth' /\ Known' /\ Asks' /\ Tells'
  BY <1>1, <1>2, <1>3, <1>4, Popped DEF TypeOK
<1>6. LoggedUser' /\ OnStack'
  BY <1>1, <1>3 DEF Inv, LoggedUser, OnStack
<1>7. Success'
  <2>1. net[i].from \notin Forms
    BY <1>1, <1>2 DEF TypeOK, Complete
  <2>2. \A j \in Slots : (Sends(j)' <=> Sends(j)) /\ (Sends(j) => net'[j] = net[j])
    BY <2>1, <1>3 DEF Sends
  <2> QED  BY <2>2, <1>1 DEF Inv, Success
<1> QED  BY <1>5, <1>6, <1>7 DEF Inv

LEMMA LoggedInStep == ASSUME Inv, NEW i \in Slots, LoggedIn(i) PROVE Inv'
<1>1. /\ ready # <<>> /\ i = Head(ready) /\ ready' = Tail(ready)
      /\ net[i].kind \in {"signIn", "createUser"} /\ net[i].answer = "ok"
      /\ userID' = net[i].user
      /\ top' = IF net[i].from # Nil THEN "account" ELSE top
      /\ net' = [(IF net[i].from # Nil THEN Left({"login", "signup"}) ELSE net) EXCEPT ![i] = Nil]
      /\ UNCHANGED <<email, buttons, forms, currentUser, passwords, overlap>>
  BY DEF LoggedIn, Runs
<1>2. TypeOK /\ net[i] # Nil
  BY <1>1, HeadFacts DEF Inv
<1>3. PICK m : m = IF net[i].from # Nil THEN Left({"login", "signup"}) ELSE net
  OBVIOUS
<1>4. /\ m \in [Slots -> RequestType \cup {Nil}]
      /\ \A j \in Slots :
           /\ m[j] = Nil <=> net[j] = Nil
           /\ m[j] # Nil =>
                /\ m[j].kind = net[j].kind /\ m[j].user = net[j].user
                /\ m[j].password = net[j].password /\ m[j].for = net[j].for
                /\ m[j].answer = net[j].answer /\ m[j].sure = net[j].sure
                /\ m[j].from = IF net[i].from # Nil /\ net[j].from \in {"login", "signup"}
                               THEN Nil ELSE net[j].from
  <2>1. CASE net[i].from # Nil
    <3>1. Nil \notin {"login", "signup"}
      BY ConstantFacts
    <3>2. m = Left({"login", "signup"})
      BY <2>1, <1>3
    <3>3. PICK view : view = {"login", "signup"}
      OBVIOUS
    <3> QED  BY <3>1, <3>2, <3>3, <2>1, <1>2, LeftFacts
  <2>2. CASE net[i].from = Nil
    BY <2>2, <1>2, <1>3 DEF TypeOK
  <2> QED  BY <2>1, <2>2
<1>5. /\ net' \in [Slots -> RequestType \cup {Nil}] /\ net'[i] = Nil
      /\ \A j \in Slots : j # i => net'[j] = m[j]
  <2>1. net' = [m EXCEPT ![i] = Nil]
    BY <1>1, <1>3
  <2> QED  BY <2>1, <1>4
<1>6. \A j \in Slots : Stays(j) /\ (j # i /\ net'[j] = Nil => net[j] = Nil)
  BY <1>4, <1>5, ConstantFacts DEF Stays
<1>7. SignedIn(i) /\ userID' # Nil
  <2>1. SignedIn(i)
    BY <1>1, <1>2 DEF SignedIn, SignIns
  <2> QED  BY <2>1, <1>1, ConstantFacts DEF Inv, Known
<1>8. TypeOK' /\ OneUser' /\ OwnAuth' /\ Known' /\ Asks' /\ Tells'
  <2>1. top' \in {"account", "login", "signup"} \cup Forms /\ forms' \in [Forms -> FormType]
    BY <1>1, <1>2 DEF TypeOK
  <2> QED  BY <2>1, <1>1, <1>5, <1>6, <1>7, Popped
<1>9. LoggedUser'
  BY <1>7 DEF LoggedUser
<1>10. OnStack'
  <2>1. ASSUME NEW j \in Slots, net'[j] # Nil
        PROVE  /\ net'[j].from = "login" => top' \in {"login", "signup"}
               /\ net'[j].from = "signup" => top' = "signup"
    <3>1. /\ j # i /\ net[j] # Nil
          /\ net'[j].from = IF net[i].from # Nil /\ net[j].from \in {"login", "signup"}
                            THEN Nil ELSE net[j].from
      BY <2>1, <1>4, <1>5
    <3>2. /\ net[j].from = "login" => top \in {"login", "signup"}
          /\ net[j].from = "signup" => top = "signup"
      BY <3>1 DEF Inv, OnStack
    <3> QED  BY <3>1, <3>2, <1>1, ConstantFacts
  <2> QED  BY <2>1 DEF OnStack
<1>11. Success'
  <2>1. SUFFICES ASSUME top' \in Forms, forms[top'].asked # Nil, ~overlap PROVE Success'
    BY <1>1 DEF Success
  <2>2. net[i].from = Nil /\ top' = top
    BY <2>1, <1>1, ConstantFacts
  <2>3. userID' = userID
    BY <2>1, <2>2, <1>1, <1>2 DEF Inv, LoggedUser, OneUser
  <2>4. \A j \in Slots : /\ Sends(j)' <=> Sends(j)
                         /\ Sends(j) => j # i /\ net'[j] = net[j]
    <3>1. net[i].from \notin Forms
      BY <2>2, ConstantFacts
    <3>2. \A j \in Slots : j # i => net'[j] = net[j]
      BY <2>2, <1>3, <1>5
    <3> QED  BY <3>1, <3>2, <1>5 DEF Sends
  <2> QED  BY <2>2, <2>3, <2>4, <1>1 DEF Inv, Success
<1> QED  BY <1>8, <1>9, <1>10, <1>11 DEF Inv

(* A form is told of an error. *)
LEMMA ErrorTold ==
  ASSUME Inv, NEW i \in Slots, ready # <<>>, i = Head(ready), ready' = Tail(ready),
         net[i].kind \in {"reauth", "update"}, forms' = Says(net[i].from, "error"),
         net' = [net EXCEPT ![i] = Nil],
         UNCHANGED <<userID, email, top, buttons, currentUser, passwords, overlap>>
  PROVE  Inv'
<1>1. TypeOK /\ net[i] # Nil
  BY HeadFacts DEF Inv
<1>2. PICK f \in Forms : f = net[i].from
  BY <1>1 DEF TypeOK, Complete
<1>3. PICK text \in {"error", "Successful!"} : text = "error"
  OBVIOUS
<1>4. /\ forms' \in [Forms -> FormType]
      /\ \A g \in Forms :
           /\ forms'[g].new = forms[g].new /\ forms'[g].asked = forms[g].asked
           /\ forms'[g].lblError = IF g = f /\ top = f THEN text ELSE forms[g].lblError
  <2>1. forms' = Says(f, text)
    BY <1>2, <1>3
  <2> QED  BY <2>1, <1>1, SaysFacts
<1>5. /\ net' \in [Slots -> RequestType \cup {Nil}] /\ net'[i] = Nil
      /\ \A j \in Slots : j # i => net'[j] = net[j]
  BY <1>1 DEF TypeOK
<1>6. \A j \in Slots : Stays(j)
  BY <1>5 DEF Stays
<1>7. TypeOK' /\ OneUser' /\ OwnAuth' /\ Known' /\ Asks' /\ Tells'
  BY <1>1, <1>4, <1>5, <1>6, Popped DEF TypeOK
<1>8. LoggedUser' /\ OnStack'
  BY <1>5 DEF Inv, LoggedUser, OnStack
<1>9. Success'
  <2>1. SUFFICES ASSUME top \in Forms, forms[top].asked # Nil, ~overlap PROVE Success'
    BY <1>4 DEF Success
  <2>2. forms'[top].lblError # "Successful!"
    BY <2>1, <1>1, <1>2, <1>3, <1>4 DEF Inv, Success, Sends
  <2>3. \A j \in Slots : Sends(j)' => Sends(j) /\ net'[j] = net[j]
    BY <1>5 DEF Sends
  <2> QED  BY <2>1, <2>2, <2>3, <1>4 DEF Inv, Success
<1> QED  BY <1>7, <1>8, <1>9 DEF Inv

LEMMA ReauthFailsStep == ASSUME Inv, NEW i \in Slots, ReauthFails(i) PROVE Inv'
BY ErrorTold DEF ReauthFails, Runs

LEMMA UpdateFailsStep == ASSUME Inv, NEW i \in Slots, UpdateFails(i) PROVE Inv'
BY ErrorTold DEF UpdateFails, Runs

LEMMA UpdatedStep == ASSUME Inv, NEW i \in Slots, Updated(i) PROVE Inv'
<1>1. /\ ready # <<>> /\ i = Head(ready) /\ ready' = Tail(ready)
      /\ net[i].kind = "update" /\ net[i].answer = "ok"
      /\ forms' = [Says(net[i].from, "Successful!") EXCEPT ![net[i].from].new = Blank]
      /\ net' = Unsure(net[i].from, Blank, [net EXCEPT ![i] = Nil])
      /\ UNCHANGED <<userID, email, top, buttons, currentUser, passwords, overlap>>
  BY DEF Updated, Runs
<1>2. TypeOK /\ net[i] # Nil
  BY <1>1, HeadFacts DEF Inv
<1>3. PICK f \in Forms : f = net[i].from
  BY <1>1, <1>2 DEF TypeOK, Complete
<1>4. PICK text \in {"error", "Successful!"} : text = "Successful!"
  OBVIOUS
<1>5. PICK m : m = Says(f, text)
  OBVIOUS
<1>6. /\ m \in [Forms -> FormType]
      /\ \A g \in Forms :
           /\ m[g].new = forms[g].new /\ m[g].asked = forms[g].asked
           /\ m[g].lblError = IF g = f /\ top = f THEN text ELSE forms[g].lblError
  BY <1>2, <1>5, SaysFacts
<1>7. /\ forms' \in [Forms -> FormType] /\ forms'[f].new = Blank
      /\ \A g \in Forms :
           /\ g # f => forms'[g].new = forms[g].new
           /\ forms'[g].asked = forms[g].asked
           /\ forms'[g].lblError = IF g = f /\ top = f THEN text ELSE forms[g].lblError
  <2>1. forms' = [m EXCEPT ![f].new = Blank]
    BY <1>1, <1>3, <1>4, <1>5
  <2>2. PICK e : e = [m[f] EXCEPT !.new = Blank]
    OBVIOUS
  <2>3. e \in FormType /\ e.new = Blank /\ e.asked = m[f].asked /\ e.lblError = m[f].lblError
    BY <2>2, <1>6 DEF FormType
  <2>4. forms' = [m EXCEPT ![f] = e]
    BY <2>1, <2>2, <1>6
  <2> QED  BY <2>3, <2>4, <1>6
<1>8. PICK n : n = [net EXCEPT ![i] = Nil]
  OBVIOUS
<1>9. /\ n \in [Slots -> RequestType \cup {Nil}] /\ n[i] = Nil
      /\ \A j \in Slots : j # i => n[j] = net[j]
  BY <1>2, <1>8 DEF TypeOK
<1>10. PICK p \in Passwords \cup {Blank} : p = Blank
  OBVIOUS
<1>11. net' = Unsure(f, p, n)
  BY <1>1, <1>3, <1>8, <1>10
<1>12. /\ net' \in [Slots -> RequestType \cup {Nil}]
       /\ \A j \in Slots :
            /\ net'[j] = Nil <=> n[j] = Nil
            /\ net'[j] # Nil =>
                 /\ net'[j].kind = n[j].kind /\ net'[j].user = n[j].user
                 /\ net'[j].password = n[j].password /\ net'[j].for = n[j].for
                 /\ net'[j].answer = n[j].answer /\ net'[j].from = n[j].from
                 /\ net'[j].sure => n[j].sure
                 /\ n[j].from = f /\ forms[f].new # p => ~net'[j].sure
  <2>1. PICK q : q = Unsure(f, p, n)
    OBVIOUS
  <2>2. /\ q \in [Slots -> RequestType \cup {Nil}]
        /\ \A j \in Slots :
             /\ q[j] = Nil <=> n[j] = Nil
             /\ q[j] # Nil =>
                  /\ q[j].kind = n[j].kind /\ q[j].user = n[j].user
                  /\ q[j].password = n[j].password /\ q[j].for = n[j].for
                  /\ q[j].answer = n[j].answer /\ q[j].from = n[j].from
                  /\ q[j].sure => n[j].sure
                  /\ n[j].from = f /\ forms[f].new # p => ~q[j].sure
    BY <1>9, <2>1, UnsureFacts
  <2> QED  BY <2>1, <2>2, <1>11
<1>13. /\ net'[i] = Nil
       /\ \A j \in Slots : Stays(j) /\ (j # i /\ net'[j] = Nil => net[j] = Nil)
  BY <1>9, <1>12 DEF Stays
<1>14. \A j \in Slots : net'[j] # Nil /\ net'[j].from \in Forms /\ net'[j].sure =>
         forms'[net'[j].from].new = forms[net'[j].from].new
  BY <1>7, <1>9, <1>10, <1>12
<1>15. TypeOK' /\ OneUser' /\ OwnAuth' /\ Known' /\ Asks' /\ Tells'
  BY <1>1, <1>2, <1>7, <1>12, <1>13, <1>14, Popped DEF TypeOK
<1>16. LoggedUser'
  BY <1>1 DEF Inv, LoggedUser
<1>17. OnStack'
  <2>1. top' = top
    BY <1>1
  <2>2. \A j \in Slots : net'[j] # Nil =>
          net[j] # Nil /\ (net'[j].from = net[j].from \/ net'[j].from = Nil)
    BY <1>13 DEF Stays
  <2>3. OnStack
    BY DEF Inv
  <2> QED  BY <2>1, <2>2, <2>3, ConstantFacts DEF OnStack
<1>18. Success'
  <2>1. SUFFICES ASSUME top \in Forms, forms[top].asked # Nil, ~overlap PROVE Success'
    BY <1>1, <1>7 DEF Success
  <2>2. f = top /\ passwords[userID] = forms[top].asked
    BY <2>1, <1>1, <1>2, <1>3 DEF Inv, Success, Sends
  <2>3. ASSUME NEW j \in Slots, Sends(j)'
        PROVE  /\ net'[j].from = top /\ net'[j].for.password = forms[top].asked
               /\ net'[j].kind = "update" => net'[j].password \in {forms[top].asked, Blank}
    <3>1. /\ Sends(j) /\ net'[j].from = net[j].from /\ net'[j].for = net[j].for
          /\ net'[j].kind = net[j].kind /\ net'[j].password = net[j].password
      BY <2>3, <1>9, <1>12 DEF Sends
    <3> QED  BY <3>1, <2>1 DEF Inv, Success
  <2> QED  BY <2>1, <2>2, <2>3, <1>1, <1>7 DEF Success
<1> QED  BY <1>15, <1>16, <1>17, <1>18 DEF Inv

(* Auth has no user any more: the update is dropped in silence, but the    *)
(* update whose failure signed the user out is still to be told.           *)
LEMMA Dropped ==
  ASSUME Inv, NEW i \in Slots, Reauthenticated(i), currentUser = Nil
  PROVE  Inv'
<1>1. /\ ready # <<>> /\ i = Head(ready) /\ ready' = Tail(ready)
      /\ net[i].kind = "reauth" /\ net[i].answer = "ok"
      /\ net' = [net EXCEPT ![i] = Nil]
      /\ UNCHANGED <<userID, email, top, buttons, forms, currentUser, passwords, overlap>>
  BY DEF Reauthenticated, Runs
<1>2. TypeOK /\ net[i] # Nil
  BY <1>1, HeadFacts DEF Inv
<1>3. /\ net' \in [Slots -> RequestType \cup {Nil}] /\ net'[i] = Nil
      /\ \A j \in Slots : j # i => net'[j] = net[j]
  BY <1>1, <1>2 DEF TypeOK
<1>4. \A j \in Slots : Stays(j)
  BY <1>3 DEF Stays
<1>5. TypeOK' /\ OneUser' /\ OwnAuth' /\ Known' /\ Asks' /\ Tells'
  BY <1>1, <1>2, <1>3, <1>4, Popped DEF TypeOK
<1>6. LoggedUser' /\ OnStack'
  BY <1>1, <1>3 DEF Inv, LoggedUser, OnStack
<1>7. PICK j \in Slots : j # i /\ Sends(j)
  <2>1. 1 \in DOMAIN ready /\ ready[1] = i
    BY <1>1, <1>2, HeadFacts
  <2>2. FailedBehind(1)
    BY <2>1, <1>1 DEF Inv, Tells, SignIns
  <2>3. PICK m \in DOMAIN ready : net[ready[m]].kind = "update"
    BY <2>2 DEF FailedBehind
  <2>4. ready[m] \in Slots /\ net[ready[m]] # Nil
    BY <1>2 DEF TypeOK, ToSet
  <2>5. net[ready[m]].from \in Forms
    BY <2>3, <2>4, <1>2 DEF TypeOK, Complete
  <2> QED  BY <2>3, <2>4, <2>5, <1>1 DEF Sends
<1>8. Success'
  <2>1. Sends(j)'
    BY <1>3, <1>7 DEF Sends
  <2>2. \A k \in Slots : Sends(k)' => Sends(k) /\ net'[k] = net[k]
    BY <1>3 DEF Sends
  <2> QED  BY <2>1, <2>2, <1>1 DEF Inv, Success
<1> QED  BY <1>5, <1>6, <1>8 DEF Inv

(* The password of the current user is updated to what the field holds.    *)
LEMMA Updating ==
  ASSUME Inv, NEW i \in Slots, Reauthenticated(i), currentUser # Nil
  PROVE  Inv'
<1>1. /\ ready # <<>> /\ i = Head(ready) /\ ready' = Tail(ready)
      /\ net[i].kind = "reauth" /\ net[i].answer = "ok"
      /\ net' = [net EXCEPT ![i] =
                   [Request("update", currentUser, forms[net[i].from].new, net[i].from, net[i].for)
                      EXCEPT !.sure = net[i].sure]]
      /\ UNCHANGED <<userID, email, top, buttons, forms, currentUser, passwords, overlap>>
  BY DEF Reauthenticated, Runs
<1>2. TypeOK /\ net[i] # Nil /\ net[i] \in RequestType
  BY <1>1, HeadFacts DEF Inv
<1>3. /\ net[i].from \in Forms /\ net[i].for \in ForType /\ net[i].sure \in BOOLEAN
      /\ currentUser \in Users /\ forms[net[i].from].new \in Passwords \cup {Blank}
  <2>1. net[i].from \in Forms /\ net[i].for \in ForType
    BY <1>1, <1>2 DEF TypeOK, Complete
  <2>2. forms[net[i].from] \in FormType
    BY <2>1, <1>2 DEF TypeOK
  <2> QED  BY <2>1, <2>2, <1>2, FieldsTyped, FormTyped DEF TypeOK
<1>4. PICK r : r = [Request("update", currentUser, forms[net[i].from].new, net[i].from, net[i].for)
                      EXCEPT !.sure = net[i].sure]
  OBVIOUS
<1>5. /\ r \in RequestType /\ r # Nil /\ r.kind = "update" /\ r.user = currentUser
      /\ r.password = forms[net[i].from].new /\ r.from = net[i].from /\ r.for = net[i].for
      /\ r.answer = "none" /\ r.sure = net[i].sure
  <2>1. PICK u \in Users, p \in Passwords \cup {Blank}, f \in Forms, for \in ForType, b \in BOOLEAN :
          /\ u = currentUser /\ p = forms[net[i].from].new /\ f = net[i].from
          /\ for = net[i].for /\ b = net[i].sure
    BY <1>3
  <2>2. r = [Request("update", u, p, f, for) EXCEPT !.sure = b]
    BY <2>1, <1>4
  <2>3. r = [kind |-> "update", user |-> u, password |-> p, from |-> f, answer |-> "none",
             for |-> for, sure |-> b]
    BY <2>2 DEF Request
  <2>4. r \in RequestType
    BY <2>3 DEF RequestType
  <2> QED  BY <2>1, <2>3, <2>4, ConstantFacts
<1>6. /\ net' \in [Slots -> RequestType \cup {Nil}] /\ net'[i] = r
      /\ \A j \in Slots : j # i => net'[j] = net[j]
  <2>1. net' = [net EXCEPT ![i] = r]
    BY <1>1, <1>4
  <2> QED  BY <2>1, <1>2, <1>5 DEF TypeOK
<1>7. \A j \in Slots : net'[j] # Nil => Complete(net'[j])
  <2>1. Complete(r)
    BY <1>3, <1>5 DEF Complete
  <2> QED  BY <2>1, <1>2, <1>6 DEF TypeOK
<1>8. /\ Tail(ready) \in Seq(Slots) /\ IsInjective(Tail(ready))
      /\ ToSet(Tail(ready)) = ToSet(ready) \ {i}
  BY <1>1, <1>2, HeadFacts
<1>9. ToSet(ready') = {j \in Slots : net'[j] # Nil /\ net'[j].answer # "none"}
  BY <1>1, <1>2, <1>5, <1>6, <1>8 DEF TypeOK
<1>10. TypeOK'
  BY <1>1, <1>2, <1>6, <1>7, <1>8, <1>9 DEF TypeOK
<1>11. SignedIn(i)
  BY <1>1, <1>2 DEF SignedIn, SignIns
<1>12. ~overlap => r.user = net[i].user
  BY <1>3, <1>5, <1>11, ConstantFacts DEF Inv, OwnAuth
<1>13. OneUser'
  <2>1. UNCHANGED <<userID, overlap>> /\ OneUser
    BY <1>1 DEF Inv
  <2>2. ~overlap => \A j \in Slots : net'[j] # Nil => net[j] # Nil /\ net'[j].user = net[j].user
    BY <1>2, <1>5, <1>6, <1>12
  <2> QED  BY <2>1, <2>2 DEF OneUser
<1>14. \A j \in Slots : SignedIn(j)' => SignedIn(j) /\ net'[j] = net[j]
  BY <1>5, <1>6 DEF SignedIn, SignIns
<1>15. OwnAuth' /\ Known'
  BY <1>1, <1>14 DEF Inv, OwnAuth, Known
<1>16. LoggedUser'
  BY <1>1 DEF Inv, LoggedUser
<1>17. OnStack'
  <2>1. top' = top /\ OnStack
    BY <1>1 DEF Inv
  <2>2. \A j \in Slots : net'[j] # Nil => net[j] # Nil /\ net'[j].from = net[j].from
    BY <1>2, <1>5, <1>6
  <2> QED  BY <2>1, <2>2 DEF OnStack
<1>18. Asks'
  <2>1. /\ IsPasswordValid(r.for.password) /\ (~overlap => r.for.user = r.user)
        /\ r.sure => r.password = r.for.password
    BY <1>1, <1>2, <1>5, <1>12 DEF Inv, Asks
  <2>2. UNCHANGED <<forms, overlap>> /\ Asks
    BY <1>1 DEF Inv
  <2>3. net'[i] = r /\ r.kind = "update" /\ \A j \in Slots : j # i => net'[j] = net[j]
    BY <1>5, <1>6
  <2> QED  BY <2>1, <2>2, <2>3 DEF Asks
<1>19. Tells'
  <2>1. \A j \in ToSet(ready) \ {i} : net'[j].kind = net[j].kind /\ net'[j].answer = net[j].answer
    BY <1>2, <1>6 DEF TypeOK
  <2> QED  BY <2>1, <1>1, <1>2, TellsPopped DEF Inv
<1>20. Success'
  <2>1. SUFFICES ASSUME top \in Forms, forms[top].asked # Nil, ~overlap PROVE Success'
    BY <1>1 DEF Success
  <2>2. /\ Sends(i) /\ net[i].from = top /\ net[i].for.password = forms[top].asked
        /\ forms[top].new \in {forms[top].asked, Blank}
    BY <2>1, <1>2, <1>3 DEF Inv, Success, Sends
  <2>3. Sends(i)' /\ \A j \in Slots : j # i /\ Sends(j)' => Sends(j)
    BY <1>3, <1>5, <1>6 DEF Sends
  <2>4. ASSUME NEW j \in Slots, Sends(j)'
        PROVE  /\ net'[j].from = top /\ net'[j].for.password = forms[top].asked
               /\ net'[j].kind = "update" =>
                    /\ net'[j].password \in {forms[top].asked, Blank}
                    /\ net'[j].answer = "ok" => passwords[userID] = forms[top].asked
    <3>1. CASE j = i
      BY <3>1, <2>2, <1>5, <1>6
    <3>2. CASE j # i
      <4>1. Sends(j) /\ net'[j] = net[j]
        BY <3>2, <2>3, <2>4, <1>6
      <4> QED  BY <4>1, <2>1 DEF Inv, Success
    <3> QED  BY <3>1, <3>2
  <2> QED  BY <2>2, <2>3, <2>4, <1>1 DEF Success
<1> QED  BY <1>10, <1>13, <1>15, <1>16, <1>17, <1>18, <1>19, <1>20 DEF Inv

-----------------------------------------------------------------------------
(* The invariant *)

LEMMA InvInit == Init => Inv
<1> SUFFICES ASSUME Init PROVE Inv
  OBVIOUS
<1>1. /\ userID = Nil /\ email = Guest /\ top = "account" /\ buttons = FALSE
      /\ forms = [f \in Forms |-> Fresh]
      /\ ready = <<>> /\ currentUser = Nil /\ passwords = First /\ overlap = FALSE
      /\ net \in [Slots -> RequestType \cup {Nil}] /\ \A i \in Slots : net[i] = Nil
  BY DEF Init
<1>2. TypeOK
  <2>1. forms \in [Forms -> FormType]
    BY <1>1, FormTyped
  <2>2. ready \in Seq(Slots) /\ IsInjective(ready) /\ ToSet(ready) = {}
    BY <1>1, EmptySeq DEF IsInjective, ToSet
  <2>3. ToSet(ready) = {i \in Slots : net[i] # Nil /\ net[i].answer # "none"}
    BY <2>2, <1>1
  <2>4. passwords \in [Users -> Passwords \cup {Nil}] /\ buttons \in BOOLEAN /\ overlap \in BOOLEAN
    BY <1>1, ConstantsAssumption
  <2> QED  BY <1>1, <2>1, <2>2, <2>3, <2>4 DEF TypeOK
<1>3. OneUser /\ OwnAuth /\ Known
  BY <1>1 DEF OneUser, OwnAuth, Known, SignedIn
<1>4. LoggedUser /\ Success
  BY <1>1, ConstantFacts DEF LoggedUser, Success
<1>5. OnStack /\ Asks
  BY <1>1 DEF OnStack, Asks
<1>6. Tells
  BY <1>1, EmptySeq DEF Tells
<1> QED  BY <1>2, <1>3, <1>4, <1>5, <1>6 DEF Inv

LEMMA InvStep == Inv /\ [Next]_vars => Inv'
<1> SUFFICES ASSUME Inv, [Next]_vars PROVE Inv'
  OBVIOUS
<1>1. CASE Launch
  BY <1>1, LaunchStep
<1>2. CASE AccountArrives \/ OpenLogin \/ OpenSignUp \/ Back
  BY <1>2, AccountStep, OpenLoginStep, OpenSignUpStep, BackStep
<1>3. ASSUME NEW u \in Users, NEW p \in Passwords, LoginTapped(u, p) \/ SignUpTapped(u, p)
      PROVE  Inv'
  BY <1>3, LoginTappedStep, SignUpTappedStep
<1>4. ASSUME NEW f \in Forms, OpenChange(f) PROVE Inv'
  BY <1>4, OpenChangeStep
<1>5. ASSUME NEW current \in Passwords \cup {Blank}, NEW new \in Passwords \cup {Blank},
             NEW retype \in Passwords \cup {Blank}, Send(current, new, retype)
      PROVE  Inv'
  BY <1>5, InvalidSend, ValidSend
<1>6. ASSUME NEW p \in Passwords \cup {Blank}, Edit(p) PROVE Inv'
  BY <1>6, EditStep
<1>7. ASSUME NEW i \in Slots, Reply(i) PROVE Inv'
  BY <1>7, SignsInStep, UpdatesStep, FailsStep DEF Reply
<1>8. ASSUME NEW i \in Slots, Callback(i) PROVE Inv'
  <2>1. Reauthenticated(i) => Inv'
    BY Dropped, Updating
  <2> QED  BY <1>8, <2>1, LoggedInStep, LoginFailsStep, ReauthFailsStep, UpdatedStep, UpdateFailsStep
           DEF Callback
<1>9. CASE UNCHANGED vars
  BY <1>9 DEF vars, Inv, TypeOK, OneUser, OwnAuth, SignedIn, Known, LoggedUser, OnStack, Asks,
              Tells, FailedBehind, Success, Sends
<1> QED  BY <1>1, <1>2, <1>3, <1>4, <1>5, <1>6, <1>7, <1>8, <1>9 DEF Next

LEMMA InvHolds == Spec => []Inv
BY InvInit, InvStep, PTL DEF Spec

-----------------------------------------------------------------------------
(* The properties *)

(* Every variable keeps its shape, and the main queue holds the callbacks  *)
(* of the requests that are answered, each once.                           *)
THEOREM AuthenticationTypeCorrect == Spec => []TypeOK
<1>1. Inv => TypeOK
  BY DEF Inv
<1> QED  BY <1>1, InvHolds, PTL

(* While a user is logged in Firebase Auth acts for that user or for       *)
(* nobody, unless sign-ins of two people overlapped.                       *)
THEOREM AuthActsForItsUser == Spec => []AuthIsOwn
<1>1. Inv => AuthIsOwn
  BY DEF Inv, OwnAuth, AuthIsOwn
<1> QED  BY <1>1, InvHolds, PTL

(* When all is answered, a form on the screen that says so has changed the *)
(* password of its user to the one asked for.                              *)
THEOREM SuccessesAreTrue == Spec => []SuccessIsTrue
<1>1. Inv => SuccessIsTrue
  <2>1. ASSUME Success, \A i \in Slots : net[i] = Nil
        PROVE  \A i \in Slots : ~Sends(i)
    BY <2>1 DEF Sends
  <2> QED  BY <2>1 DEF Inv, Success, SuccessIsTrue
<1> QED  BY <1>1, InvHolds, PTL

(* A password is only changed for the user who asked, to what that user    *)
(* typed twice and the rule admits.                                        *)
THEOREM PasswordsChangedAsAsked == Spec => ChangedAsAsked
<1> DEFINE AsAsked ==
      \A i \in Slots :
        Updates(i) /\ net[i].sure /\ ~overlap =>
          /\ net[i].user = net[i].for.user
          /\ net[i].password = net[i].for.password
          /\ IsPasswordValid(net[i].password)
<1>1. ASSUME Inv PROVE AsAsked
  BY <1>1 DEF Inv, Asks, Updates, Answered
<1>2. Inv /\ [Next]_vars => [AsAsked]_vars
  BY <1>1
<1> QED  BY <1>2, InvHolds, PTL DEF Spec, ChangedAsAsked
=============================================================================
