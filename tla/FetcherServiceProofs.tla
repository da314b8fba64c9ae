------------------------- MODULE FetcherServiceProofs -------------------------
(***************************************************************************)
(* Proofs about FetcherService, for every set of requests and every number *)
(* of places, and about HomeScreen, whose requests go through it.          *)
(*                                                                         *)
(* The inductive invariant is ServiceInv.  That the limit holds and that   *)
(* no place stays free needs to know who may stand in the queue: only      *)
(* fetchers in the phase "queued", each of them once, and none of those    *)
(* that hold a place (Placed).  That a place is lost, or held without a    *)
(* host, for the known reasons only needs to know what each thread is in   *)
(* the midst of, and in which phase its fetcher is then (JobsRight).  That *)
(* an owner hears of one end needs to know that no end is due while a      *)
(* fetch is still on its way, and nothing said while one is due            *)
(* (AnswersRight).                                                         *)
(*                                                                         *)
(* That a screen ends complete needs to know that every listing begun has  *)
(* a page on its way until its last page is heard of (Frontier) and that   *)
(* what a page names is asked for (ListInv).                               *)
(***************************************************************************)
EXTENDS HomeScreen, FiniteSetTheorems, FunctionTheorems, TLAPS

-----------------------------------------------------------------------------
(* The inductive invariant *)

Listed == running \union {delayed[i] : i \in 1..Len(delayed)}

Within == Cardinality(running) <= Limit

Placed ==
  /\ \A i \in 1..Len(delayed) : phase[delayed[i]] = "queued" /\ delayed[i] \notin running
  /\ \A i, j \in 1..Len(delayed) : delayed[i] = delayed[j] => i = j

HoldsPlace ==
  \A f \in Fetchers : f \notin userStopped /\ phase[f] \in UnderWay => f \in running

PlacesRight == Within /\ NoIdleSlot /\ Placed /\ HoldsPlace

OneJobEach == \A i, j \in jobs : i.thread = j.thread => i = j

\* What a thread does when it stops a fetcher, and why it does.
StopRight(j) ==
  \/ j.thread = "main" /\ phase[j.of] = "stopped"
  \/ j.thread = "delegate" /\ phase[j.of] \in {"stopped", "refetch"}
  \/ j.thread = StorageOf[j.of] /\ j.of \in userStopped

JobRight(j) ==
  /\ j.step \in {"stop", "hand", "clear"} => StopRight(j)
  /\ j.step = "clear" /\ j.thread # StorageOf[j.of] => j.of \notin Listed
  /\ j.step = "begin" => j.thread = "delegate" /\ phase[j.of] = "refetch"
  /\ j.step = "tell" => j.of \in userStopped
  /\ j.step = "fire" => j.thread = "main" /\ answer[j.of] \in {"ok", "error"}
  /\ j.step = "unobserve" => j.thread = "main" /\ answer[j.of] = "fired"

JobsRight == OneJobEach /\ \A j \in jobs : JobRight(j)

AnswerRight(f) ==
  /\ f \notin userStopped /\ phase[f] # "stopped" => answer[f] = "none"
  /\ answer[f] \in {"none", "ok", "error"} =>
       /\ \A i \in 1..Len(said[f]) : said[f][i] # "ok"
       /\ f \notin userStopped => said[f] = <<>>
  /\ f \notin userStopped => Len(said[f]) <= 1
  /\ \A i, j \in 1..Len(said[f]) : said[f][i] = "ok" /\ said[f][j] = "ok" => i = j
  /\ heard[f] <= Len(said[f])

AnswersRight == \A f \in Fetchers : AnswerRight(f)

CancelledRight ==
  \A f \in Fetchers :
    f \in userStopped \/ reports[f] > 0 => f \in Oversize /\ phase[f] \notin {"new", "enqueued"}

ServiceInv == TypeOK /\ PlacesRight /\ JobsRight /\ AnswersRight /\ CancelledRight

-----------------------------------------------------------------------------
(* Facts about the queue *)

\* The first n of a queue without repetitions are n elements.
LEMMA FirstOnes ==
  ASSUME NEW S, NEW q \in Seq(S), NEW n \in 0..Len(q),
         \A i, j \in 1..Len(q) : q[i] = q[j] => i = j,
         NEW start, \A x : x \in start <=> \E i \in 1..n : x = q[i]
  PROVE  start \subseteq S /\ IsFiniteSet(start) /\ Cardinality(start) = n
<1> DEFINE pick == [i \in 1..n |-> q[i]]
<1>1. 1..n \subseteq 1..Len(q) /\ Len(q) \in Nat /\ n \in Int
  OBVIOUS
<1>2. start \subseteq S
  BY <1>1
<1>3. pick \in Surjection(1..n, start)
  BY DEF Surjection
<1>4. pick \in Injection(1..n, start)
  BY <1>1 DEF Injection, IsInjective
<1>5. IsFiniteSet(1..n) /\ Cardinality(1..n) = n
  BY <1>1, FS_Interval
<1>6. IsFiniteSet(start) /\ Cardinality(start) = n
  BY <1>3, <1>4, <1>5, FS_Surjection
<1> QED
  BY <1>2, <1>6

\* The queue without a fetcher: it has every other element, once and in order.
LEMMA WithoutIs ==
  ASSUME NEW queue \in Seq(Fetchers), NEW f,
         \A i, j \in 1..Len(queue) : queue[i] = queue[j] => i = j
  PROVE  /\ Without(queue, f) \in Seq(Fetchers)
         /\ \A i \in 1..Len(Without(queue, f)) :
              Without(queue, f)[i] # f /\ \E k \in 1..Len(queue) : Without(queue, f)[i] = queue[k]
         /\ \A i, j \in 1..Len(Without(queue, f)) : Without(queue, f)[i] = Without(queue, f)[j] => i = j
         /\ queue = <<>> => Without(queue, f) = <<>>
<1>1. CASE ~\E i \in 1..Len(queue) : queue[i] = f
  BY <1>1 DEF Without
<1>2. CASE \E i \in 1..Len(queue) : queue[i] = f
  <2> DEFINE at == CHOOSE i \in 1..Len(queue) : queue[i] = f
  <2>1. at \in 1..Len(queue) /\ queue[at] = f
    BY <1>2
  <2> HIDE DEF at
  <2> DEFINE before == SubSeq(queue, 1, at - 1)
             after  == SubSeq(queue, at + 1, Len(queue))
             rest   == before \o after
  <2>2. Without(queue, f) = rest
    BY <1>2 DEF Without, at
  <2>3. /\ before \in Seq(Fetchers) /\ Len(before) = at - 1
        /\ \A i \in 1..(at - 1) : before[i] = queue[i]
    BY <2>1
  <2>4. /\ after \in Seq(Fetchers) /\ Len(after) = Len(queue) - at
        /\ \A i \in 1..(Len(queue) - at) : after[i] = queue[at + i]
    BY <2>1
  <2> HIDE DEF before, after
  <2>5. /\ rest \in Seq(Fetchers) /\ Len(rest) = Len(queue) - 1
        /\ \A i \in 1..Len(rest) : rest[i] = IF i < at THEN queue[i] ELSE queue[i + 1]
    BY <2>1, <2>3, <2>4
  <2> DEFINE from(i) == IF i < at THEN i ELSE i + 1
  <2> HIDE DEF rest
  <2>6. \A i \in 1..Len(rest) : from(i) \in 1..Len(queue) /\ from(i) # at /\ rest[i] = queue[from(i)]
    BY <2>1, <2>5
  <2>7. \A i, j \in 1..Len(rest) : from(i) = from(j) => i = j
    BY <2>1, <2>5
  <2> HIDE DEF from
  <2>8. \A i \in 1..Len(rest) : rest[i] # f /\ \E k \in 1..Len(queue) : rest[i] = queue[k]
    BY <2>1, <2>6
  <2>9. \A i, j \in 1..Len(rest) : rest[i] = rest[j] => i = j
    BY <2>6, <2>7
  <2> QED
    BY <2>1, <2>2, <2>5, <2>8, <2>9
<1> QED
  BY <1>1, <1>2

\* What is left of a queue without repetitions when its first n are gone.
LEMMA LaterOnes ==
  ASSUME NEW S, NEW q \in Seq(S), NEW n \in 0..Len(q),
         \A i, j \in 1..Len(q) : q[i] = q[j] => i = j,
         NEW rest, rest = SubSeq(q, n + 1, Len(q))
  PROVE  /\ rest \in Seq(S) /\ Len(rest) = Len(q) - n
         /\ \A i \in 1..Len(rest) : i + n \in 1..Len(q) /\ rest[i] = q[i + n]
         /\ \A i \in 1..Len(rest), j \in 1..n : rest[i] # q[j]
         /\ \A i, j \in 1..Len(rest) : rest[i] = rest[j] => i = j
<1>1. n \in Nat /\ Len(q) \in Nat /\ n <= Len(q)
  OBVIOUS
<1>2. /\ rest \in Seq(S) /\ Len(rest) = Len(q) - n
      /\ \A i \in 1..Len(rest) : i + n \in 1..Len(q) /\ rest[i] = q[i + n]
  BY <1>1
<1>3. \A i \in 1..Len(rest), j \in 1..n : rest[i] # q[j]
  <2> SUFFICES ASSUME NEW i \in 1..Len(rest), NEW j \in 1..n, rest[i] = q[j] PROVE FALSE
    OBVIOUS
  <2>1. i + n = j
    BY <1>1, <1>2
  <2> QED
    BY <1>1, <1>2, <2>1
<1>4. \A i, j \in 1..Len(rest) : rest[i] = rest[j] => i = j
  <2> SUFFICES ASSUME NEW i \in 1..Len(rest), NEW j \in 1..Len(rest), rest[i] = rest[j] PROVE i = j
    OBVIOUS
  <2>1. i + n = j + n
    BY <1>2
  <2> QED
    BY <1>1, <1>2, <2>1
<1> QED
  BY <1>2, <1>3, <1>4

-----------------------------------------------------------------------------
(* How places change hands *)

LEMMA RunningFinite ==
  ASSUME ServiceInv
  PROVE  IsFiniteSet(running) /\ Cardinality(running) \in Nat /\ Limit \in Nat \ {0}
BY ServiceAssumption, FS_Subset, FS_CardinalityType
DEF ServiceInv, TypeOK, ConstantsAssumption

\* A fetcher asks for a place.
LEMMA PlaceAsked ==
  ASSUME ServiceInv, NEW f \in Fetchers, phase[f] \in {"enqueued", "refetch"},
         NEW t, NEW done, ShouldBegin(f, t, done), userStopped' = userStopped
  PROVE  /\ running' \in SUBSET Fetchers /\ delayed' \in Seq(Fetchers)
         /\ phase' \in [Fetchers -> Phases]
         /\ phase'[f] \in {"begun", "queued", "authorizing"}
         /\ \A g \in Fetchers \ {f} : phase'[g] = phase[g]
         /\ PlacesRight'
         /\ Listed \subseteq Listed' /\ Listed' \subseteq Listed \union {f}
         /\ jobs' = jobs \ done \/ jobs' = (jobs \ done) \union {Job(t, "save", f)}
         /\ Listed' = Listed \/ Job(t, "save", f) \in jobs'
<1> USE DEF ServiceInv, TypeOK, Phases, UnderWay, PlacesRight
<1>0. IsFiniteSet(running) /\ Cardinality(running) \in Nat /\ Limit \in Nat \ {0}
  BY RunningFinite
<1>1. \A i \in 1..Len(delayed) : delayed[i] # f /\ delayed[i] \in Fetchers
  BY DEF Placed
<1>2. CASE f \in running
  <2>1. /\ phase' = [phase EXCEPT ![f] = "authorizing"] /\ jobs' = jobs \ done
        /\ UNCHANGED <<running, delayed>>
    BY <1>2 DEF ShouldBegin
  <2>2. Within' /\ NoIdleSlot' /\ Listed' = Listed
    BY <2>1 DEF Within, NoIdleSlot, Listed
  <2>3. Placed'
    <3>1. \A i \in 1..Len(delayed) : phase'[delayed[i]] = phase[delayed[i]]
      BY <1>1, <2>1
    <3> QED
      BY ONLY <2>1, <3>1, Placed DEF Placed
  <2>4. HoldsPlace'
    BY <1>2, <2>1 DEF HoldsPlace
  <2> QED
    BY <2>1, <2>2, <2>3, <2>4
<1>3. CASE f \notin running /\ Cardinality(running) < Limit
  <2>1. /\ running' = running \union {f} /\ delayed' = delayed
        /\ phase' = [phase EXCEPT ![f] = "begun"]
        /\ jobs' = (jobs \ done) \union {Job(t, "save", f)}
    BY <1>0, <1>3 DEF ShouldBegin
  <2>2. Cardinality(running') = Cardinality(running) + 1
    BY <1>0, <1>3, <2>1, FS_AddElement
  <2>3. delayed = <<>>
    BY <1>0, <1>3 DEF NoIdleSlot
  <2>4. Within' /\ NoIdleSlot'
    BY <1>0, <1>3, <2>1, <2>2, <2>3 DEF Within, NoIdleSlot
  <2>5. Placed'
    BY <2>1, <2>3 DEF Placed
  <2>6. HoldsPlace'
    BY <2>1 DEF HoldsPlace
  <2>7. Listed \subseteq Listed' /\ Listed' \subseteq Listed \union {f}
    BY <2>1 DEF Listed
  <2> QED
    BY <2>1, <2>4, <2>5, <2>6, <2>7
<1>4. CASE f \notin running /\ Cardinality(running) >= Limit
  <2>1. /\ delayed' = Append(delayed, f) /\ running' = running
        /\ phase' = [phase EXCEPT ![f] = "queued"]
        /\ jobs' = (jobs \ done) \union {Job(t, "save", f)}
    BY <1>0, <1>4 DEF ShouldBegin
  <2>2. Within' /\ NoIdleSlot'
    BY <1>4, <2>1 DEF Within, NoIdleSlot
  <2>3. /\ Len(delayed') = Len(delayed) + 1 /\ Len(delayed) \in Nat
        /\ \A i \in 1..Len(delayed) : delayed'[i] = delayed[i]
        /\ delayed'[Len(delayed) + 1] = f
    BY <2>1
  <2> DEFINE len == Len(delayed)
  <2> HIDE DEF len
  <2>8. /\ Len(delayed') = len + 1 /\ len \in Nat
        /\ \A i \in 1..len : delayed'[i] = delayed[i] /\ phase'[delayed[i]] = phase[delayed[i]]
        /\ delayed'[len + 1] = f /\ phase'[f] = "queued"
        /\ \A i \in 1..(len + 1) : i \in 1..len \/ i = len + 1
        /\ 1..len \subseteq 1..(len + 1)
    <3>1. len \in Nat /\ Len(delayed') = len + 1 /\ delayed'[len + 1] = f
      BY <2>3 DEF len
    <3>2. \A i \in 1..len : delayed'[i] = delayed[i] /\ phase'[delayed[i]] = phase[delayed[i]]
      BY <1>1, <2>1, <2>3 DEF len
    <3>3. phase'[f] = "queued"
      BY <2>1
    <3>4. (\A i \in 1..(len + 1) : i \in 1..len \/ i = len + 1) /\ 1..len \subseteq 1..(len + 1)
      BY ONLY <3>1
    <3> QED
      BY ONLY <3>1, <3>2, <3>3, <3>4
  <2>9. /\ \A i \in 1..len : phase[delayed[i]] = "queued" /\ delayed[i] \notin running /\ delayed[i] # f
        /\ \A i, j \in 1..len : delayed[i] = delayed[j] => i = j
    BY <1>1 DEF Placed, len
  <2>4. Placed'
    <3>1. \A i \in 1..(len + 1) : phase'[delayed'[i]] = "queued" /\ delayed'[i] \notin running'
      BY ONLY <1>4, <2>1, <2>8, <2>9
    <3>2. \A i, j \in 1..(len + 1) : delayed'[i] = delayed'[j] => i = j
      BY ONLY <2>8, <2>9
    <3> QED
      BY <2>8, <3>1, <3>2 DEF Placed
  <2>5. HoldsPlace'
    BY <2>1 DEF HoldsPlace
  <2>6. Listed \subseteq Listed' /\ Listed' \subseteq Listed \union {f}
    <3>1. {delayed'[i] : i \in 1..(len + 1)} = {delayed[i] : i \in 1..len} \union {f}
      BY ONLY <2>8
    <3> QED
      BY <2>1, <2>8, <3>1 DEF Listed, len
  <2> QED
    BY <2>1, <2>2, <2>4, <2>5, <2>6
<1> QED
  BY <1>0, <1>2, <1>3, <1>4

\* A fetcher is taken off the lists, and its place is handed on.
LEMMA PlaceGiven ==
  ASSUME ServiceInv, NEW j \in jobs, HandOn(j)
  PROVE  /\ running' \in SUBSET Fetchers /\ delayed' \in Seq(Fetchers)
         /\ phase' \in [Fetchers -> Phases]
         /\ PlacesRight'
         /\ Listed' \subseteq Listed \ {j.of}
         /\ phase'[j.of] = IF phase[j.of] = "queued" THEN "stopped" ELSE phase[j.of]
         /\ \A g \in Fetchers \ {j.of} :
               \/ phase'[g] = phase[g]
               \/ phase[g] = "queued" /\ phase'[g] = "authorizing"
         /\ \A g \in running' : g \in running \/ phase'[g] = "authorizing"
<1> DEFINE f     == j.of
           queue == Without(delayed, f)
           run   == running \ {f}
           n     == Startable(run, queue)
           start == {queue[i] : i \in 1..n}
<1>0. /\ IsFiniteSet(running) /\ Cardinality(running) \in Nat /\ Limit \in Nat \ {0}
      /\ running \in SUBSET Fetchers /\ delayed \in Seq(Fetchers)
      /\ phase \in [Fetchers -> Phases] /\ f \in Fetchers
      /\ Within /\ NoIdleSlot /\ Placed /\ HoldsPlace
  BY RunningFinite DEF ServiceInv, TypeOK, PlacesRight
<1>1. /\ queue \in Seq(Fetchers)
      /\ \A i \in 1..Len(queue) : queue[i] # f /\ \E k \in 1..Len(delayed) : queue[i] = delayed[k]
      /\ \A i, k \in 1..Len(queue) : queue[i] = queue[k] => i = k
      /\ delayed = <<>> => queue = <<>>
  BY <1>0, WithoutIs DEF Placed
<1>2. /\ running' = run \union start
      /\ delayed' = SubSeq(queue, n + 1, Len(queue))
      /\ phase' = [g \in Fetchers |->
                      IF g \in start THEN "authorizing"
                      ELSE IF g = f /\ phase[g] = "queued" THEN "stopped" ELSE phase[g]]
      /\ userStopped' = userStopped /\ j.step = "hand"
  BY Zenon DEF HandOn
<1>3. /\ IsFiniteSet(run) /\ Cardinality(run) \in Nat
      /\ Cardinality(run) <= Cardinality(running)
  BY <1>0, FS_Subset, FS_CardinalityType
<1> HIDE DEF queue, run
<1>4. /\ n \in 0..Len(queue)
      /\ n < Len(queue) => n = Limit - Cardinality(run)
      /\ Cardinality(run) + n <= Limit
  BY <1>0, <1>1, <1>3 DEF Startable, Within
<1> HIDE DEF n
<1>5. start \subseteq Fetchers /\ IsFiniteSet(start) /\ Cardinality(start) = n
  <2>1. \A x : x \in start <=> \E i \in 1..n : x = queue[i]
    OBVIOUS
  <2> HIDE DEF start
  <2> QED
    BY <1>1, <1>4, <2>1, FirstOnes
<1>6. \A g \in start : phase[g] = "queued" /\ g # f /\ g \notin running /\ g \in Listed
  <2>1. 1..n \subseteq 1..Len(queue)
    BY <1>1, <1>4
  <2> QED
    BY <1>0, <1>1, <2>1 DEF Placed, Listed
<1>7. /\ delayed' \in Seq(Fetchers) /\ Len(delayed') = Len(queue) - n
      /\ \A i \in 1..Len(delayed') : i + n \in 1..Len(queue) /\ delayed'[i] = queue[i + n]
      /\ \A i \in 1..Len(delayed'), k \in 1..n : delayed'[i] # queue[k]
      /\ \A i, k \in 1..Len(delayed') : delayed'[i] = delayed'[k] => i = k
  <2>1. /\ queue \in Seq(Fetchers) /\ n \in 0..Len(queue)
        /\ \A i, k \in 1..Len(queue) : queue[i] = queue[k] => i = k
        /\ delayed' = SubSeq(queue, n + 1, Len(queue))
    BY <1>1, <1>2, <1>4
  <2> QED
    <3> DEFINE rest == delayed'
    <3>1. rest = SubSeq(queue, n + 1, Len(queue))
      BY <2>1
    <3> HIDE DEF rest
    <3>2. /\ rest \in Seq(Fetchers) /\ Len(rest) = Len(queue) - n
          /\ \A i \in 1..Len(rest) : i + n \in 1..Len(queue) /\ rest[i] = queue[i + n]
          /\ \A i \in 1..Len(rest), k \in 1..n : rest[i] # queue[k]
          /\ \A i, k \in 1..Len(rest) : rest[i] = rest[k] => i = k
      BY <2>1, <3>1, LaterOnes
    <3> QED
      BY <3>2 DEF rest
<1>8. \A i \in 1..Len(delayed') :
        /\ delayed'[i] \notin start /\ delayed'[i] # f /\ phase[delayed'[i]] = "queued"
        /\ delayed'[i] \notin running /\ delayed'[i] \in Listed /\ delayed'[i] \in Fetchers
  <2> SUFFICES ASSUME NEW i \in 1..Len(delayed')
               PROVE  /\ delayed'[i] \notin start /\ delayed'[i] # f /\ phase[delayed'[i]] = "queued"
                      /\ delayed'[i] \notin running /\ delayed'[i] \in Listed /\ delayed'[i] \in Fetchers
    OBVIOUS
  <2>1. delayed'[i] \notin start
    BY <1>7
  <2>2. delayed'[i] # f /\ \E k \in 1..Len(delayed) : delayed'[i] = delayed[k]
    BY <1>1, <1>7
  <2>3. delayed'[i] \in Fetchers
    BY <1>0, <2>2
  <2> HIDE DEF start
  <2> QED
    BY <1>0, <2>1, <2>2, <2>3 DEF Placed, Listed
<1> HIDE DEF start
<1>9. Cardinality(running') = Cardinality(run) + n
  <2>1. run \intersect start = {} /\ Cardinality({}) = 0
    BY <1>6, FS_EmptySet DEF run
  <2>2. Cardinality(run \union start)
          = Cardinality(run) + Cardinality(start) - Cardinality(run \intersect start)
    BY <1>3, <1>5, FS_Union, Zenon
  <2>3. Cardinality(run \union start) = Cardinality(run) + n - 0
    BY <1>5, <2>1, <2>2, Zenon
  <2>4. Cardinality(run) + n - 0 = Cardinality(run) + n
    BY <1>3, <1>4
  <2> QED
    BY <1>2, <2>3, <2>4, Zenon
<1>10. Within' /\ NoIdleSlot'
  BY <1>0, <1>3, <1>4, <1>7, <1>9 DEF Within, NoIdleSlot
<1>11. /\ phase' \in [Fetchers -> Phases]
       /\ phase'[f] = IF phase[f] = "queued" THEN "stopped" ELSE phase[f]
       /\ \A g \in Fetchers \ {f} :
            /\ g \in start => phase'[g] = "authorizing" /\ phase[g] = "queued"
            /\ g \notin start => phase'[g] = phase[g]
  BY <1>0, <1>2, <1>6 DEF Phases
<1>12. Placed'
  <2>1. \A i \in 1..Len(delayed') : phase'[delayed'[i]] = "queued" /\ delayed'[i] \notin running'
    BY <1>2, <1>8, <1>11 DEF run
  <2> QED
    BY <1>7, <2>1 DEF Placed
<1>13. HoldsPlace'
  <2> SUFFICES ASSUME NEW g \in Fetchers, g \notin userStopped, phase'[g] \in UnderWay
               PROVE  g \in running'
    BY <1>2 DEF HoldsPlace
  <2>1. CASE g \in start
    BY <1>2, <2>1
  <2>2. CASE g # f /\ g \notin start
    BY <1>0, <1>2, <1>11, <2>2 DEF HoldsPlace, run
  <2>3. CASE g = f
    <3>1. phase[f] \in UnderWay
      BY <1>11, <2>3 DEF UnderWay
    <3>2. StopRight(j)
      BY <1>2 DEF ServiceInv, JobsRight, JobRight
    <3> QED
      BY <2>3, <3>1, <3>2 DEF StopRight, UnderWay
  <2> QED
    BY <2>1, <2>2, <2>3
<1>14. Listed' \subseteq Listed \ {f}
  <2>1. running' \subseteq Listed \ {f}
    BY <1>2, <1>6 DEF run, Listed
  <2>2. {delayed'[i] : i \in 1..Len(delayed')} \subseteq Listed \ {f}
    BY <1>8
  <2> QED
    BY <2>1, <2>2 DEF Listed
<1>15. \A g \in running' : g \in running \/ phase'[g] = "authorizing"
  BY <1>2, <1>5, <1>6, <1>11 DEF run
<1> QED
  BY <1>2, <1>0, <1>5, <1>7, <1>10, <1>11, <1>12, <1>13, <1>14, <1>15 DEF PlacesRight, run, f

-----------------------------------------------------------------------------
(* What a step leaves as it is *)

LEMMA ServiceInitInv == ServiceInit => ServiceInv
<1> SUFFICES ASSUME ServiceInit PROVE ServiceInv
  OBVIOUS
<1>1. IsFiniteSet(Fetchers) /\ Limit \in Nat \ {0}
  BY ServiceAssumption DEF ConstantsAssumption
<1>2. TypeOK
  BY DEF ServiceInit, TypeOK, Phases, Answers
<1>3. Within /\ NoIdleSlot
  BY <1>1, FS_EmptySet DEF ServiceInit, Within, NoIdleSlot
<1>4. Placed /\ HoldsPlace /\ JobsRight /\ CancelledRight
  BY DEF ServiceInit, Placed, HoldsPlace, UnderWay, JobsRight, OneJobEach, CancelledRight
<1>5. AnswersRight
  BY DEF ServiceInit, AnswersRight, AnswerRight
<1> QED
  BY <1>2, <1>3, <1>4, <1>5 DEF ServiceInv, PlacesRight

LEMMA PlacesKept ==
  ASSUME ServiceInv, running' = running, delayed' = delayed, userStopped \subseteq userStopped',
         \A g \in Fetchers : /\ phase[g] = "queued" => phase'[g] = "queued"
                             /\ phase'[g] \in UnderWay => phase[g] \in UnderWay \/ g \in running
  PROVE  PlacesRight' /\ Listed' = Listed
<1>1. Within' /\ NoIdleSlot' /\ Listed' = Listed
  BY DEF ServiceInv, PlacesRight, Within, NoIdleSlot, Listed
<1>2. Placed'
  <2>1. \A i \in 1..Len(delayed) : delayed[i] \in Fetchers
    BY DEF ServiceInv, TypeOK
  <2> QED
    BY <2>1 DEF ServiceInv, PlacesRight, Placed
<1>3. HoldsPlace'
  BY DEF ServiceInv, PlacesRight, HoldsPlace
<1> QED
  BY <1>1, <1>2, <1>3 DEF PlacesRight

\* What a thread is in the midst of stays right while others act, and so does
\* what it does next.
LEMMA JobsKept ==
  ASSUME ServiceInv, NEW rest \in SUBSET jobs, NEW new \in [thread : Threads, step : Steps, of : Fetchers],
         \/ jobs' = rest
         \/ /\ jobs' = rest \union {new} /\ JobRight(new)'
            /\ \A j \in rest : j.thread # new.thread,
         userStopped \subseteq userStopped',
         \A j \in rest :
           /\ phase[j.of] = "stopped" => phase'[j.of] = "stopped"
           /\ phase[j.of] = "refetch" /\ j.thread = "delegate" => phase'[j.of] = "refetch"
           /\ j.step = "clear" /\ j.thread # StorageOf[j.of] /\ j.of \notin Listed =>
                j.of \notin Listed'
           /\ answer'[j.of] = answer[j.of] \/ j.step \notin {"fire", "unobserve"}
  PROVE  JobsRight' /\ jobs' \subseteq [thread : Threads, step : Steps, of : Fetchers]
<1>1. OneJobEach /\ \A j \in jobs : JobRight(j)
  BY DEF ServiceInv, JobsRight
<1>2. OneJobEach'
  BY <1>1 DEF OneJobEach
<1>3. ASSUME NEW j \in rest PROVE JobRight(j)'
  <2>1. JobRight(j)
    BY <1>1
  <2>2. StopRight(j) => StopRight(j)'
    BY <1>3 DEF StopRight
  <2> QED
    BY <1>3, <2>1, <2>2 DEF JobRight, StopRight
<1>4. jobs' \subseteq [thread : Threads, step : Steps, of : Fetchers]
  BY DEF ServiceInv, TypeOK
<1> QED
  BY <1>2, <1>3, <1>4 DEF JobsRight

LEMMA AnswersKept ==
  ASSUME ServiceInv, UNCHANGED <<answer, said, heard>>, userStopped \subseteq userStopped',
         \A g \in Fetchers : phase[g] = "stopped" => phase'[g] = "stopped"
  PROVE  AnswersRight'
BY DEF ServiceInv, AnswersRight, AnswerRight

LEMMA CancelledKept ==
  ASSUME ServiceInv, UNCHANGED <<userStopped, reports>>,
         \A g \in Fetchers : phase[g] \notin {"new", "enqueued"} => phase'[g] \notin {"new", "enqueued"}
  PROVE  CancelledRight'
BY DEF ServiceInv, CancelledRight

LEMMA JobIs ==
  ASSUME ServiceInv
  PROVE  /\ \A j \in jobs : /\ j.of \in Fetchers /\ j.thread \in Threads /\ j.step \in Steps
                            /\ JobRight(j)
                            /\ \A i \in jobs \ {j} : i.thread # j.thread
         /\ \A f \in Fetchers, s \in Steps :
              /\ StorageOf[f] \notin {"main", "delegate"}
              /\ \A t \in {"main", "delegate", StorageOf[f]} :
                    Job(t, s, f) \in [thread : Threads, step : Steps, of : Fetchers]
         /\ \A f, s, t : Job(t, s, f).of = f /\ Job(t, s, f).step = s /\ Job(t, s, f).thread = t
         /\ \A j \in jobs, s \in Steps :
              [j EXCEPT !.step = s] = Job(j.thread, s, j.of)
<1>1. jobs \subseteq [thread : Threads, step : Steps, of : Fetchers] /\ OneJobEach
  BY DEF ServiceInv, TypeOK, JobsRight
<1>2. \A j \in jobs : /\ j.of \in Fetchers /\ j.thread \in Threads /\ j.step \in Steps
                      /\ JobRight(j)
  BY <1>1 DEF ServiceInv, JobsRight
<1>3. \A j \in jobs : \A i \in jobs \ {j} : i.thread # j.thread
  BY <1>1 DEF OneJobEach
<1>4. ASSUME NEW f \in Fetchers, NEW s \in Steps
      PROVE  /\ StorageOf[f] \notin {"main", "delegate"}
             /\ \A t \in {"main", "delegate", StorageOf[f]} :
                   Job(t, s, f) \in [thread : Threads, step : Steps, of : Fetchers]
  <2>1. StorageOf[f] \notin {"main", "delegate"} /\ StorageOf[f] \in Threads
    BY ServiceAssumption DEF ConstantsAssumption, Threads
  <2>2. {"main", "delegate"} \subseteq Threads
    BY DEF Threads
  <2> QED
    BY <2>1, <2>2 DEF Job
<1>5. \A f, s, t : Job(t, s, f).of = f /\ Job(t, s, f).step = s /\ Job(t, s, f).thread = t
  BY DEF Job
<1>6. \A j \in jobs, s \in Steps : [j EXCEPT !.step = s] = Job(j.thread, s, j.of)
  BY <1>1 DEF Job
<1> QED
  BY <1>2, <1>3, <1>4, <1>5, <1>6

-----------------------------------------------------------------------------
(* Each step keeps the invariant *)

\* Steps that begin, fail and put off an attempt.
LEMMA PhaseStepInv ==
  ASSUME ServiceInv, NEW f \in Fetchers, NEW next \in {"fetching", "deciding", "waiting", "refetch"},
         phase[f] \in {"authorizing", "fetching", "deciding", "waiting"},
         phase' = [phase EXCEPT ![f] = next], lastInterval' \in [Fetchers -> Nat],
         UNCHANGED <<placeVars, jobs, userStopped, answerVars>>
  PROVE  ServiceInv'
<1>1. /\ phase \in [Fetchers -> Phases] /\ phase'[f] = next
      /\ \A g \in Fetchers \ {f} : phase'[g] = phase[g]
      /\ UNCHANGED <<running, delayed, serviceHost, jobs, userStopped, reports, answer, said, heard>>
  BY DEF ServiceInv, TypeOK, placeVars, answerVars
<1>2. TypeOK'
  BY <1>1 DEF ServiceInv, TypeOK, Phases
<1>3. PlacesRight' /\ Listed' = Listed
  <2>1. phase[f] \in UnderWay
    BY DEF UnderWay
  <2> QED
    BY <1>1, <2>1, PlacesKept
<1>4. JobsRight'
  <2>1. PICK new : new \in [thread : Threads, step : Steps, of : Fetchers]
    BY JobIs DEF Steps
  <2>2. \A j \in jobs : /\ phase[j.of] = "stopped" => phase'[j.of] = "stopped"
                        /\ phase[j.of] = "refetch" => phase'[j.of] = "refetch"
    BY <1>1, JobIs
  <2> QED
    BY <1>1, <1>3, <2>1, <2>2, JobsKept
<1>5. AnswersRight' /\ CancelledRight'
  BY <1>1, AnswersKept, CancelledKept
<1> QED
  BY <1>2, <1>3, <1>4, <1>5 DEF ServiceInv

\* A thread is to stop a fetcher, or to tell of its end; nothing else changes.
LEMMA JobStepInv ==
  ASSUME ServiceInv, NEW f \in Fetchers, NEW t \in {"main", "delegate"}, NEW s \in {"stop", "fire"},
         Idle(t), JobRight(Job(t, s, f)), jobs' = jobs \union {Job(t, s, f)},
         UNCHANGED <<placeVars, phase, lastInterval, userStopped, answerVars>>
  PROVE  ServiceInv'
<1>1. UNCHANGED <<running, delayed, serviceHost, phase, lastInterval, userStopped,
                  reports, answer, said, heard>>
  BY DEF placeVars, answerVars
<1>2. PlacesRight' /\ Listed' = Listed
  BY <1>1, PlacesKept
<1>3. JobsRight' /\ jobs' \subseteq [thread : Threads, step : Steps, of : Fetchers]
  <2>1. JobRight(Job(t, s, f))'
    BY <1>1, <1>2 DEF JobRight, StopRight
  <2>2. Job(t, s, f) \in [thread : Threads, step : Steps, of : Fetchers]
    BY JobIs DEF Steps
  <2>3. \A j \in jobs : j.thread # Job(t, s, f).thread
    BY JobIs DEF Idle
  <2> QED
    BY <1>1, <1>2, <2>1, <2>2, <2>3, JobsKept
<1>4. TypeOK'
  BY <1>1, <1>3 DEF ServiceInv, TypeOK
<1>5. AnswersRight' /\ CancelledRight'
  BY <1>1, AnswersKept, CancelledKept
<1> QED
  BY <1>2, <1>3, <1>4, <1>5 DEF ServiceInv

\* The end of a fetch.
LEMMA EndInv ==
  ASSUME ServiceInv, NEW f \in Fetchers, NEW t \in {"main", "delegate"}, NEW result \in {"ok", "error"},
         Idle(t), phase[f] \in {"authorizing", "fetching", "aborted", "deciding"}, End(f, t, result)
  PROVE  ServiceInv'
<1>1. /\ phase' = [phase EXCEPT ![f] = "stopped"]
      /\ answer' = [answer EXCEPT ![f] = IF f \in userStopped THEN @ ELSE result]
      /\ jobs' = jobs \union {Job(t, "stop", f)}
      /\ UNCHANGED <<running, delayed, serviceHost, lastInterval, userStopped, reports, said, heard>>
      /\ phase \in [Fetchers -> Phases] /\ answer \in [Fetchers -> Answers]
  BY DEF End, Tell, placeVars, ServiceInv, TypeOK
<1>2. /\ phase'[f] = "stopped" /\ \A g \in Fetchers \ {f} : phase'[g] = phase[g]
      /\ answer'[f] = IF f \in userStopped THEN answer[f] ELSE result
      /\ \A g \in Fetchers \ {f} : answer'[g] = answer[g]
      /\ phase' \in [Fetchers -> Phases] /\ answer' \in [Fetchers -> Answers]
  BY <1>1 DEF Phases, Answers
<1>3. PlacesRight' /\ Listed' = Listed
  BY <1>1, <1>2, PlacesKept DEF UnderWay
<1>4. f \notin userStopped => answer[f] = "none" /\ said[f] = <<>>
  BY DEF ServiceInv, AnswersRight, AnswerRight
<1>5. JobsRight' /\ jobs' \subseteq [thread : Threads, step : Steps, of : Fetchers]
  <2>1. JobRight(Job(t, "stop", f))'
    BY <1>2, JobIs DEF JobRight, StopRight
  <2>2. Job(t, "stop", f) \in [thread : Threads, step : Steps, of : Fetchers]
    BY JobIs DEF Steps
  <2>3. \A j \in jobs : j.thread # Job(t, "stop", f).thread
    BY JobIs DEF Idle
  <2>4. ASSUME NEW j \in jobs
        PROVE  /\ phase[j.of] = "stopped" => phase'[j.of] = "stopped"
               /\ phase[j.of] = "refetch" => phase'[j.of] = "refetch"
               /\ answer'[j.of] = answer[j.of] \/ j.step \notin {"fire", "unobserve"}
    <3>1. j.of \in Fetchers /\ JobRight(j)
      BY JobIs
    <3>2. CASE j.of = f
      BY <1>2, <1>4, <3>1, <3>2 DEF JobRight
    <3>3. CASE j.of # f
      BY <1>2, <3>1, <3>3
    <3> QED
      BY <3>2, <3>3
  <2> QED
    BY <1>1, <1>3, <2>1, <2>2, <2>3, <2>4, JobsKept
<1>6. TypeOK'
  BY <1>1, <1>2, <1>5 DEF ServiceInv, TypeOK
<1>7. AnswersRight'
  <2> SUFFICES ASSUME NEW g \in Fetchers PROVE AnswerRight(g)'
    BY DEF AnswersRight
  <2>1. AnswerRight(g)
    BY DEF ServiceInv, AnswersRight
  <2>2. CASE g = f
    <3>1. CASE f \in userStopped
      BY <1>1, <1>2, <2>1, <2>2, <3>1 DEF AnswerRight
    <3>2. CASE f \notin userStopped
      <4>1. said'[f] = <<>> /\ Len(said'[f]) = 0 /\ heard'[f] <= Len(said'[f])
        BY <1>1, <1>4, <2>1, <2>2, <3>2 DEF AnswerRight
      <4> QED
        BY <1>1, <1>2, <2>2, <3>2, <4>1 DEF AnswerRight
    <3> QED
      BY <3>1, <3>2
  <2>3. CASE g # f
    BY <1>1, <1>2, <2>1, <2>3 DEF AnswerRight
  <2> QED
    BY <2>2, <2>3
<1>8. CancelledRight'
  BY <1>1, <1>2, CancelledKept
<1> QED
  BY <1>3, <1>5, <1>6, <1>7, <1>8 DEF ServiceInv

\* A request, or its retry, asks for a place.
LEMMA AskedInv ==
  ASSUME ServiceInv, NEW f \in Fetchers, NEW t \in {"delegate", StorageOf[f]}, NEW done \in SUBSET jobs,
         ShouldBegin(f, t, done),
         \A j \in jobs \ done : j.thread # t,
         \/ phase[f] = "enqueued"
         \/ phase[f] = "refetch" /\ t = "delegate",
         UNCHANGED <<serviceHost, lastInterval, userStopped, answerVars>>
  PROVE  ServiceInv'
<1>1. UNCHANGED <<serviceHost, lastInterval, userStopped, reports, answer, said, heard>>
  BY DEF answerVars
<1>2. /\ running' \in SUBSET Fetchers /\ delayed' \in Seq(Fetchers)
      /\ phase' \in [Fetchers -> Phases]
      /\ phase'[f] \in {"begun", "queued", "authorizing"}
      /\ \A g \in Fetchers \ {f} : phase'[g] = phase[g]
      /\ PlacesRight'
      /\ Listed' \subseteq Listed \union {f}
      /\ jobs' = jobs \ done \/ jobs' = (jobs \ done) \union {Job(t, "save", f)}
  BY <1>1, PlaceAsked
<1>3. JobsRight' /\ jobs' \subseteq [thread : Threads, step : Steps, of : Fetchers]
  <2>1. JobRight(Job(t, "save", f))'
    BY JobIs DEF JobRight
  <2>2. Job(t, "save", f) \in [thread : Threads, step : Steps, of : Fetchers]
    BY JobIs DEF Steps
  <2>3. \A j \in jobs \ done : j.thread # Job(t, "save", f).thread
    BY JobIs
  <2>4. ASSUME NEW j \in jobs \ done
        PROVE  /\ phase[j.of] = "stopped" => phase'[j.of] = "stopped"
               /\ phase[j.of] = "refetch" /\ j.thread = "delegate" => phase'[j.of] = "refetch"
               /\ j.step = "clear" /\ j.thread # StorageOf[j.of] /\ j.of \notin Listed =>
                    j.of \notin Listed'
               /\ answer'[j.of] = answer[j.of]
    <3>1. j.of \in Fetchers /\ JobRight(j)
      BY JobIs
    <3>2. CASE j.of # f
      BY <1>1, <1>2, <3>1, <3>2
    <3>3. CASE j.of = f
      <4>1. phase[f] = "enqueued" => f \notin userStopped
        BY DEF ServiceInv, CancelledRight
      <4>2. phase[f] = "refetch" => j.thread # "delegate"
        BY JobIs
      <4>3. j.step = "clear" => j.thread = StorageOf[f]
        BY <3>1, <3>3, <4>1, <4>2, JobIs DEF JobRight, StopRight
      <4> QED
        BY <1>1, <3>1, <3>3, <4>2, <4>3
    <3> QED
      BY <3>2, <3>3
  <2> QED
    BY <1>1, <1>2, <2>1, <2>2, <2>3, <2>4, JobsKept
<1>4. TypeOK'
  BY <1>1, <1>2, <1>3 DEF ServiceInv, TypeOK
<1>5. AnswersRight' /\ CancelledRight'
  BY <1>1, <1>2, AnswersKept, CancelledKept
<1> QED
  BY <1>2, <1>3, <1>4, <1>5 DEF ServiceInv

\* The host is saved.
LEMMA SaveInv ==
  ASSUME ServiceInv, NEW j \in jobs, SaveHost(j)
  PROVE  ServiceInv'
<1>1. /\ j.of \in Fetchers /\ jobs' = jobs \ {j} /\ serviceHost' = serviceHost \union {j.of}
      /\ phase' = [phase EXCEPT ![j.of] = IF @ = "begun" THEN "authorizing" ELSE @]
      /\ UNCHANGED <<running, delayed, lastInterval, userStopped, reports, answer, said, heard>>
      /\ phase \in [Fetchers -> Phases]
  BY JobIs DEF SaveHost, Goes, answerVars, ServiceInv, TypeOK
<1>2. /\ phase' \in [Fetchers -> Phases]
      /\ \A g \in Fetchers : phase'[g] = phase[g] \/ (phase[g] = "begun" /\ phase'[g] = "authorizing")
  BY <1>1 DEF Phases
<1>3. PlacesRight' /\ Listed' = Listed
  BY <1>1, <1>2, PlacesKept DEF UnderWay
<1>4. JobsRight' /\ jobs' \subseteq [thread : Threads, step : Steps, of : Fetchers]
  <2>1. PICK new : new \in [thread : Threads, step : Steps, of : Fetchers]
    BY <1>1, JobIs DEF Steps
  <2>2. \A i \in jobs : /\ phase[i.of] = "stopped" => phase'[i.of] = "stopped"
                        /\ phase[i.of] = "refetch" => phase'[i.of] = "refetch"
    BY <1>2, JobIs
  <2> QED
    BY <1>1, <1>3, <2>1, <2>2, JobsKept
<1>5. TypeOK'
  BY <1>1, <1>2, <1>4 DEF ServiceInv, TypeOK
<1>6. AnswersRight' /\ CancelledRight'
  BY <1>1, <1>2, AnswersKept, CancelledKept
<1> QED
  BY <1>3, <1>4, <1>5, <1>6 DEF ServiceInv

\* What a thread goes on with when the fetcher has been stopped is right.
LEMMA AfterStopRight ==
  ASSUME ServiceInv, NEW j \in jobs, j.step \in {"stop", "clear"},
         phase'[j.of] = phase[j.of], userStopped' = userStopped
  PROVE  \/ AfterStop(j) = {}
         \/ \E new \in [thread : Threads, step : Steps, of : Fetchers] :
              AfterStop(j) = {new} /\ new.thread = j.thread /\ JobRight(new)'
<1>1. j.of \in Fetchers /\ StopRight(j)
  BY JobIs DEF JobRight
<1>2. CASE j.thread = StorageOf[j.of]
  <2>1. AfterStop(j) = {Job(j.thread, "tell", j.of)} /\ j.of \in userStopped
    <3>1. StorageOf[j.of] \notin {"main", "delegate"}
      BY <1>1, ServiceAssumption DEF ConstantsAssumption
    <3> QED
      BY <1>1, <1>2, <3>1 DEF AfterStop, StopRight
  <2>2. Job(j.thread, "tell", j.of) \in [thread : Threads, step : Steps, of : Fetchers]
    BY <1>1, <1>2, JobIs DEF Steps
  <2> QED
    BY <2>1, <2>2, JobIs DEF JobRight
<1>3. CASE j.thread # StorageOf[j.of] /\ j.thread = "delegate" /\ phase[j.of] = "refetch"
  <2>1. AfterStop(j) = {Job("delegate", "begin", j.of)}
    BY <1>3 DEF AfterStop
  <2>2. Job("delegate", "begin", j.of) \in [thread : Threads, step : Steps, of : Fetchers]
    BY <1>1, JobIs DEF Steps
  <2> QED
    BY <1>3, <2>1, <2>2, JobIs DEF JobRight
<1>4. CASE j.thread # StorageOf[j.of] /\ ~(j.thread = "delegate" /\ phase[j.of] = "refetch")
  BY <1>4 DEF AfterStop
<1> QED
  BY <1>2, <1>3, <1>4

\* A stop looks whether there is a host.
LEMMA ReadInv ==
  ASSUME ServiceInv, NEW j \in jobs, ReadHost(j)
  PROVE  ServiceInv'
<1>1. /\ j.of \in Fetchers /\ j.step = "stop" /\ JobRight(j)
      /\ UNCHANGED <<running, delayed, serviceHost, lastInterval, userStopped, reports, answer, said, heard>>
      /\ phase \in [Fetchers -> Phases]
  BY JobIs DEF ReadHost, placeVars, answerVars, ServiceInv, TypeOK
<1>2. \/ jobs' = (jobs \ {j}) \union AfterStop(j) /\ phase' = phase
      \/ /\ jobs' = (jobs \ {j}) \union {Job(j.thread, "hand", j.of)}
         /\ phase' = [phase EXCEPT ![j.of] = IF @ \in {"fetching", "aborted"} THEN "stopped" ELSE @]
  BY JobIs DEF ReadHost, Goes, Steps
<1>3. /\ phase' \in [Fetchers -> Phases]
      /\ \A g \in Fetchers : phase'[g] = phase[g]
                             \/ (phase[g] \in {"fetching", "aborted"} /\ phase'[g] = "stopped")
  BY <1>1, <1>2 DEF Phases
<1>4. PlacesRight' /\ Listed' = Listed
  BY <1>1, <1>3, PlacesKept DEF UnderWay
<1>5. JobsRight' /\ jobs' \subseteq [thread : Threads, step : Steps, of : Fetchers]
  <2>1. PICK new \in [thread : Threads, step : Steps, of : Fetchers] :
          /\ jobs' = jobs \ {j} \/ jobs' = (jobs \ {j}) \union {new}
          /\ new.thread = j.thread
          /\ jobs' # jobs \ {j} => JobRight(new)'
    <3>0. /\ \A s \in Steps : /\ Job(j.thread, s, j.of) \in [thread : Threads, step : Steps, of : Fetchers]
                              /\ Job(j.thread, s, j.of).thread = j.thread
      BY <1>1, JobIs DEF Job
    <3>1. CASE jobs' = (jobs \ {j}) \union AfterStop(j) /\ phase' = phase
      <4>1. \/ AfterStop(j) = {}
            \/ \E new \in [thread : Threads, step : Steps, of : Fetchers] :
                 AfterStop(j) = {new} /\ new.thread = j.thread /\ JobRight(new)'
        BY <1>1, <3>1, AfterStopRight
      <4>2. CASE AfterStop(j) = {}
        <5>1. jobs' = jobs \ {j}
          BY <3>1, <4>2
        <5> QED
          BY <3>0, <5>1 DEF Steps
      <4> QED
        BY <3>1, <4>1, <4>2
    <3>2. CASE jobs' = (jobs \ {j}) \union {Job(j.thread, "hand", j.of)}
      <4>1. StopRight(j) /\ Job(j.thread, "hand", j.of).of = j.of /\ Job(j.thread, "hand", j.of).step = "hand"
        BY <1>1 DEF JobRight, Job
      <4>2. JobRight(Job(j.thread, "hand", j.of))'
        BY <1>1, <1>3, <3>0, <4>1 DEF JobRight, StopRight, Steps
      <4> QED
        BY <3>0, <3>2, <4>2 DEF Steps
    <3> QED
      BY <1>2, <3>1, <3>2
  <2>2. \A i \in jobs : /\ phase[i.of] = "stopped" => phase'[i.of] = "stopped"
                        /\ phase[i.of] = "refetch" => phase'[i.of] = "refetch"
    BY <1>3, JobIs
  <2>3. \A i \in jobs \ {j} : i.thread # new.thread
    BY <2>1, JobIs
  <2> QED
    BY <1>1, <1>4, <2>1, <2>2, <2>3, JobsKept
<1>6. TypeOK'
  BY <1>1, <1>3, <1>5 DEF ServiceInv, TypeOK
<1>7. AnswersRight' /\ CancelledRight'
  BY <1>1, <1>3, AnswersKept, CancelledKept
<1> QED
  BY <1>4, <1>5, <1>6, <1>7 DEF ServiceInv

\* The place is handed on.
LEMMA HandInv ==
  ASSUME ServiceInv, NEW j \in jobs, HandOn(j)
  PROVE  ServiceInv'
<1>1. /\ j.of \in Fetchers /\ j.step = "hand" /\ JobRight(j)
      /\ jobs' = (jobs \ {j}) \union {Job(j.thread, "clear", j.of)}
      /\ UNCHANGED <<serviceHost, lastInterval, userStopped, reports, answer, said, heard>>
  BY JobIs DEF HandOn, Goes, answerVars, Steps
<1>2. /\ running' \in SUBSET Fetchers /\ delayed' \in Seq(Fetchers)
      /\ phase' \in [Fetchers -> Phases] /\ PlacesRight'
      /\ Listed' \subseteq Listed \ {j.of}
      /\ \A g \in Fetchers : phase'[g] = phase[g]
                             \/ (phase[g] = "queued" /\ phase'[g] \in {"stopped", "authorizing"})
  BY PlaceGiven
<1>3. JobsRight' /\ jobs' \subseteq [thread : Threads, step : Steps, of : Fetchers]
  <2> DEFINE new == Job(j.thread, "clear", j.of)
  <2>1. /\ new \in [thread : Threads, step : Steps, of : Fetchers]
        /\ new.thread = j.thread /\ new.of = j.of /\ new.step = "clear"
    BY <1>1, JobIs DEF Job, Steps
  <2> HIDE DEF new
  <2>2. JobRight(new)'
    BY <1>1, <1>2, <2>1 DEF JobRight, StopRight
  <2>3. \A i \in jobs \ {j} : /\ phase[i.of] = "stopped" => phase'[i.of] = "stopped"
                              /\ phase[i.of] = "refetch" => phase'[i.of] = "refetch"
                              /\ i.thread # new.thread
    BY <1>2, <2>1, JobIs
  <2> QED
    BY <1>1, <1>2, <2>1, <2>2, <2>3, JobsKept DEF new
<1>4. TypeOK'
  BY <1>1, <1>2, <1>3 DEF ServiceInv, TypeOK
<1>5. AnswersRight' /\ CancelledRight'
  BY <1>1, <1>2, AnswersKept, CancelledKept
<1> QED
  BY <1>2, <1>3, <1>4, <1>5 DEF ServiceInv

\* The host is set to nil.
LEMMA ClearInv ==
  ASSUME ServiceInv, NEW j \in jobs, ClearHost(j)
  PROVE  ServiceInv'
<1>1. /\ j.of \in Fetchers /\ j.step = "clear"
      /\ jobs' = (jobs \ {j}) \union AfterStop(j) /\ serviceHost' = serviceHost \ {j.of}
      /\ UNCHANGED <<running, delayed, phase, lastInterval, userStopped, reports, answer, said, heard>>
  BY JobIs DEF ClearHost, Goes, answerVars
<1>2. PlacesRight' /\ Listed' = Listed
  BY <1>1, PlacesKept
<1>3. JobsRight' /\ jobs' \subseteq [thread : Threads, step : Steps, of : Fetchers]
  <2>1. \/ AfterStop(j) = {}
        \/ \E new \in [thread : Threads, step : Steps, of : Fetchers] :
             AfterStop(j) = {new} /\ new.thread = j.thread /\ JobRight(new)'
    BY <1>1, AfterStopRight
  <2>2. CASE AfterStop(j) = {}
    <3>1. jobs' = jobs \ {j}
      BY <1>1, <2>2
    <3>2. PICK new : new \in [thread : Threads, step : Steps, of : Fetchers]
      BY <1>1, JobIs DEF Steps
    <3> QED
      BY <1>1, <1>2, <3>1, <3>2, JobsKept
  <2>3. CASE AfterStop(j) # {}
    <3>1. PICK new \in [thread : Threads, step : Steps, of : Fetchers] :
            AfterStop(j) = {new} /\ new.thread = j.thread /\ JobRight(new)'
      BY <2>1, <2>3
    <3>2. \A i \in jobs \ {j} : i.thread # new.thread
      BY <3>1, JobIs
    <3> QED
      BY <1>1, <1>2, <3>1, <3>2, JobsKept
  <2> QED
    BY <2>2, <2>3
<1>4. TypeOK'
  BY <1>1, <1>3 DEF ServiceInv, TypeOK
<1>5. AnswersRight' /\ CancelledRight'
  BY <1>1, AnswersKept, CancelledKept
<1> QED
  BY <1>2, <1>3, <1>4, <1>5 DEF ServiceInv

\* An owner is told by the observers of a request; f is the request of the job.
LEMMA ToldInv ==
  ASSUME ServiceInv, NEW j \in jobs, TellCancelled(j) \/ Fire(j) \/ Unobserve(j)
  PROVE  ServiceInv'
<1> DEFINE f == j.of
<1>1. /\ f \in Fetchers /\ j.thread \in Threads /\ JobRight(j) /\ j.step \in {"tell", "fire", "unobserve"}
      /\ UNCHANGED <<running, delayed, serviceHost, phase, lastInterval, userStopped, heard>>
      /\ answer \in [Fetchers -> Answers] /\ said \in [Fetchers -> Seq({"ok", "error"})]
      /\ reports \in [Fetchers -> Nat] /\ heard \in [Fetchers -> Nat]
  BY JobIs DEF TellCancelled, Fire, Unobserve, placeVars, ServiceInv, TypeOK
<1>2. \/ /\ j.step = "tell" /\ jobs' = jobs \ {j} /\ UNCHANGED <<answer, reports>>
         /\ said' = said \/ said' = [said EXCEPT ![f] = Append(@, "error")]
      \/ /\ j.step = "fire" /\ jobs' = (jobs \ {j}) \union {Job(j.thread, "unobserve", f)}
         /\ said' = [said EXCEPT ![f] = Append(@, answer[f])]
         /\ answer' = [answer EXCEPT ![f] = "fired"] /\ reports' = reports
      \/ /\ j.step = "unobserve" /\ jobs' = jobs \ {j} /\ said' = said
         /\ answer' = [answer EXCEPT ![f] = "over"]
         /\ \E more \in {0, 1} : /\ more = 1 => f \in Oversize
                                 /\ reports' = [reports EXCEPT ![f] = @ + more]
  <2>1. CASE TellCancelled(j)
    <3>1. /\ j.step = "tell" /\ jobs' = jobs \ {j} /\ UNCHANGED <<answer, reports>>
          /\ said' = [said EXCEPT ![f] = IF answer[f] = "over" THEN @ ELSE Append(@, "error")]
      BY <2>1 DEF TellCancelled, Goes
    <3> QED
      BY <1>1, <3>1
  <2>2. CASE Fire(j)
    BY <2>2, JobIs DEF Fire, Goes, Steps
  <2>3. CASE Unobserve(j)
    <3>1. /\ j.step = "unobserve" /\ jobs' = jobs \ {j} /\ said' = said
          /\ answer' = [answer EXCEPT ![f] = "over"]
      BY <2>3 DEF Unobserve, Goes
    <3>2. PICK more \in IF f \in Oversize THEN {0, 1} ELSE {0} :
            reports' = [reports EXCEPT ![f] = @ + more]
      BY <2>3 DEF Unobserve
    <3>3. more \in {0, 1} /\ (more = 1 => f \in Oversize)
      BY <3>2
    <3> QED
      BY <3>1, <3>2, <3>3
  <2> QED
    BY <2>1, <2>2, <2>3
<1> HIDE DEF f
<1>3. PlacesRight' /\ Listed' = Listed
  BY <1>1, PlacesKept
<1>4. /\ answer' \in [Fetchers -> Answers] /\ said' \in [Fetchers -> Seq({"ok", "error"})]
      /\ reports' \in [Fetchers -> Nat]
      /\ \A g \in Fetchers \ {f} : answer'[g] = answer[g] /\ said'[g] = said[g] /\ reports'[g] = reports[g]
      /\ answer'[f] = answer[f] \/ answer[f] \in {"ok", "error", "fired"}
  <2>1. answer[f] \in Answers /\ (j.step = "fire" => answer[f] \in {"ok", "error"})
        /\ (j.step = "unobserve" => answer[f] = "fired")
    BY <1>1 DEF JobRight, f
  <2>2. said' \in [Fetchers -> Seq({"ok", "error"})] /\ \A g \in Fetchers \ {f} : said'[g] = said[g]
    <3>1. \/ said' = said
          \/ \E r \in {"ok", "error"} : said' = [said EXCEPT ![f] = Append(said[f], r)]
      BY <1>2, <2>1
    <3>2. \A r \in {"ok", "error"} : Append(said[f], r) \in Seq({"ok", "error"})
      BY <1>1
    <3> QED
      BY <1>1, <3>1, <3>2
  <2>3. answer' \in [Fetchers -> Answers] /\ \A g \in Fetchers \ {f} : answer'[g] = answer[g]
    BY <1>1, <1>2 DEF Answers
  <2>4. reports' \in [Fetchers -> Nat] /\ \A g \in Fetchers \ {f} : reports'[g] = reports[g]
    BY <1>1, <1>2
  <2> QED
    BY <1>2, <2>1, <2>2, <2>3, <2>4
<1>5. JobsRight' /\ jobs' \subseteq [thread : Threads, step : Steps, of : Fetchers]
  <2> DEFINE new == Job(j.thread, "unobserve", f)
  <2>1. /\ new \in [thread : Threads, step : Steps, of : Fetchers]
        /\ new.thread = j.thread /\ new.of = f /\ new.step = "unobserve"
    BY <1>1 DEF Job, Steps
  <2>2. \/ jobs' = jobs \ {j}
        \/ j.step = "fire" /\ answer'[f] = "fired" /\ jobs' = (jobs \ {j}) \union {new}
    BY <1>1, <1>2
  <2> HIDE DEF new
  <2>3. jobs' # jobs \ {j} => JobRight(new)'
    BY <1>1, <2>1, <2>2 DEF JobRight
  <2>4. ASSUME NEW i \in jobs \ {j}
        PROVE  i.thread # new.thread /\ (answer'[i.of] = answer[i.of] \/ i.step \notin {"fire", "unobserve"})
    <3>1. i.of \in Fetchers /\ JobRight(i) /\ i.thread # j.thread
      BY JobIs
    <3>2. CASE i.of = f /\ i.step \in {"fire", "unobserve"}
      <4>1. i.thread = "main" /\ j.thread # "main" /\ j.step = "tell"
        BY <1>1, <3>1, <3>2 DEF JobRight
      <4> QED
        BY <1>2, <2>1, <3>1, <4>1
    <3>3. CASE i.of # f \/ i.step \notin {"fire", "unobserve"}
      BY <1>4, <2>1, <3>1, <3>3
    <3> QED
      BY <3>2, <3>3
  <2> QED
    BY <1>1, <1>3, <2>1, <2>2, <2>3, <2>4, JobsKept
<1>6. TypeOK'
  BY <1>1, <1>4, <1>5 DEF ServiceInv, TypeOK
<1>7. AnswersRight'
  <2> SUFFICES ASSUME NEW g \in Fetchers PROVE AnswerRight(g)'
    BY DEF AnswersRight
  <2>1. AnswerRight(g)
    BY DEF ServiceInv, AnswersRight
  <2>2. CASE g # f
    BY <1>1, <1>4, <2>1, <2>2 DEF AnswerRight
  <2>3. CASE g = f
    <3> DEFINE told == said[f]
    <3>0. /\ told \in Seq({"ok", "error"}) /\ Len(told) \in Nat /\ heard[f] \in Nat
          /\ userStopped' = userStopped /\ heard' = heard /\ phase' = phase
      BY <1>1
    <3>1. CASE j.step = "tell"
      <4>1. f \in userStopped /\ answer' = answer
        BY <1>1, <1>2, <3>1 DEF JobRight, f
      <4>2. CASE said'[f] = told
        BY <2>1, <2>3, <3>0, <4>1, <4>2 DEF AnswerRight
      <4>3. CASE said'[f] = Append(told, "error")
        <5>1. /\ Len(said'[f]) = Len(told) + 1
              /\ \A i \in 1..Len(said'[f]) : said'[f][i] = IF i \in 1..Len(told) THEN told[i] ELSE "error"
          BY <3>0, <4>3
        <5>2. \A i \in 1..Len(said'[f]) : said'[f][i] = "ok" => i \in 1..Len(told) /\ told[i] = "ok"
          BY <5>1
        <5>3. heard'[f] <= Len(said'[f])
          BY <2>1, <2>3, <3>0, <5>1 DEF AnswerRight
        <5> QED
          BY <2>1, <2>3, <3>0, <4>1, <5>2, <5>3 DEF AnswerRight
      <4> QED
        BY <1>1, <1>2, <3>1, <4>2, <4>3
    <3>2. CASE j.step = "fire"
      <4>1. /\ answer[f] \in {"ok", "error"} /\ answer'[f] = "fired"
            /\ said'[f] = Append(told, answer[f])
        BY <1>1, <1>2, <3>2 DEF JobRight, f
      <4>2. /\ Len(said'[f]) = Len(told) + 1
            /\ \A i \in 1..Len(said'[f]) : i \in 1..Len(told) \/ i = Len(told) + 1
            /\ \A i \in 1..Len(told) : said'[f][i] = told[i]
        BY <3>0, <4>1
      <4>3. /\ \A i \in 1..Len(told) : told[i] # "ok"
            /\ f \notin userStopped => told = <<>> /\ phase[f] = "stopped"
        BY <2>1, <2>3, <4>1 DEF AnswerRight
      <4>4. f \notin userStopped => Len(said'[f]) <= 1
        BY <4>2, <4>3
      <4>5. heard'[f] <= Len(said'[f])
        BY <2>1, <2>3, <3>0, <4>2 DEF AnswerRight
      <4>6. \A i, k \in 1..Len(said'[f]) : said'[f][i] = "ok" /\ said'[f][k] = "ok" => i = k
        BY <4>2, <4>3
      <4> QED
        BY <2>3, <3>0, <4>1, <4>3, <4>4, <4>5, <4>6 DEF AnswerRight
    <3>3. CASE j.step = "unobserve"
      <4>1. answer[f] = "fired" /\ answer'[f] = "over" /\ said' = said
        BY <1>1, <1>2, <3>3 DEF JobRight, f
      <4> QED
        BY <2>1, <2>3, <3>0, <4>1 DEF AnswerRight
    <3> QED
      BY <1>1, <3>1, <3>2, <3>3
  <2> QED
    BY <2>2, <2>3
<1>8. CancelledRight'
  <2> SUFFICES ASSUME NEW g \in Fetchers, g \in userStopped \/ reports'[g] > 0
               PROVE  g \in Oversize /\ phase[g] \notin {"new", "enqueued"}
    BY <1>1 DEF CancelledRight
  <2>1. CASE reports'[g] = reports[g] \/ g \in userStopped
    BY <2>1 DEF ServiceInv, CancelledRight
  <2>2. CASE reports'[g] # reports[g] /\ g \notin userStopped
    <3>1. g = f /\ f \in Oversize /\ answer[f] = "fired"
      BY <1>1, <1>2, <1>4, <2>2 DEF JobRight, f
    <3>2. phase[f] = "stopped"
      BY <1>1, <2>2, <3>1 DEF ServiceInv, AnswersRight, AnswerRight
    <3> QED
      BY <3>1, <3>2
  <2> QED
    BY <2>1, <2>2
<1> QED
  BY <1>3, <1>5, <1>6, <1>7, <1>8 DEF ServiceInv

\* A cancellation begins.
LEMMA CancelInv ==
  ASSUME ServiceInv, NEW f \in Fetchers, Cancel(f)
  PROVE  ServiceInv'
<1>1. /\ Idle(StorageOf[f]) /\ reports[f] > 0
      /\ reports' = [reports EXCEPT ![f] = @ - 1] /\ userStopped' = userStopped \union {f}
      /\ phase' = [phase EXCEPT ![f] =
                      IF @ = "fetching" THEN "aborted"
                      ELSE IF @ = "waiting" \/ (@ = "deciding" /\ f \notin userStopped)
                      THEN "stopped" ELSE @]
      /\ jobs' = jobs \union {Job(StorageOf[f], "stop", f)}
      /\ UNCHANGED <<running, delayed, serviceHost, lastInterval, answer, said, heard>>
      /\ phase \in [Fetchers -> Phases] /\ reports \in [Fetchers -> Nat]
  BY DEF Cancel, placeVars, ServiceInv, TypeOK
<1>2. /\ phase' \in [Fetchers -> Phases] /\ reports' \in [Fetchers -> Nat]
      /\ \A g \in Fetchers :
           \/ phase'[g] = phase[g]
           \/ g = f /\ phase[g] \in {"fetching", "deciding", "waiting"} /\ phase'[g] \in {"aborted", "stopped"}
      /\ \A g \in Fetchers \ {f} : reports'[g] = reports[g]
      /\ f \in userStopped' /\ userStopped \subseteq userStopped'
  BY <1>1 DEF Phases
<1>3. PlacesRight' /\ Listed' = Listed
  BY <1>1, <1>2, PlacesKept DEF UnderWay
<1>4. JobsRight' /\ jobs' \subseteq [thread : Threads, step : Steps, of : Fetchers]
  <2> DEFINE new == Job(StorageOf[f], "stop", f)
  <2>1. /\ new \in [thread : Threads, step : Steps, of : Fetchers]
        /\ new.thread = StorageOf[f] /\ new.of = f /\ new.step = "stop"
    BY JobIs DEF Job, Steps
  <2> HIDE DEF new
  <2>2. JobRight(new)'
    BY <1>2, <2>1 DEF JobRight, StopRight
  <2>3. \A i \in jobs : i.thread # new.thread
    BY <1>1, <2>1 DEF Idle
  <2>4. \A i \in jobs : /\ phase[i.of] = "stopped" => phase'[i.of] = "stopped"
                        /\ phase[i.of] = "refetch" => phase'[i.of] = "refetch"
    BY <1>2, JobIs
  <2>5. jobs' = jobs \union {new}
    BY <1>1 DEF new
  <2> QED
    BY <1>1, <1>2, <1>3, <2>1, <2>2, <2>3, <2>4, <2>5, JobsKept
<1>5. TypeOK'
  BY <1>1, <1>2, <1>4 DEF ServiceInv, TypeOK
<1>6. AnswersRight'
  BY <1>1, <1>2, AnswersKept
<1>7. CancelledRight'
  <2> SUFFICES ASSUME NEW g \in Fetchers, g \in userStopped' \/ reports'[g] > 0
               PROVE  g \in Oversize /\ phase'[g] \notin {"new", "enqueued"}
    BY DEF CancelledRight
  <2>1. g \in userStopped \/ reports[g] > 0
    BY <1>1, <1>2
  <2>2. g \in Oversize /\ phase[g] \notin {"new", "enqueued"}
    BY <2>1 DEF ServiceInv, CancelledRight
  <2> QED
    BY <1>2, <2>2
<1> QED
  BY <1>3, <1>4, <1>5, <1>6, <1>7 DEF ServiceInv

\* Progress reports come and go.
LEMMA ReportInv ==
  ASSUME ServiceInv, NEW f \in Fetchers, Report(f) \/ DropReport(f)
  PROVE  ServiceInv'
<1>1. /\ UNCHANGED <<running, delayed, serviceHost, jobs, phase, lastInterval, userStopped, answer, said, heard>>
      /\ reports' \in [Fetchers -> Nat] /\ \A g \in Fetchers \ {f} : reports'[g] = reports[g]
      /\ f \in Oversize /\ phase[f] \notin {"new", "enqueued"}
  <2>1. /\ UNCHANGED <<running, delayed, serviceHost, jobs, phase, lastInterval, userStopped, answer, said, heard>>
        /\ \/ reports' = [reports EXCEPT ![f] = @ + 1]
           \/ reports' = [reports EXCEPT ![f] = @ - 1] /\ reports[f] > 0
        /\ reports \in [Fetchers -> Nat]
    BY DEF Report, DropReport, placeVars, ServiceInv, TypeOK
  <2>2. f \in Oversize /\ phase[f] \notin {"new", "enqueued"}
    BY DEF Report, DropReport, ServiceInv, CancelledRight
  <2> QED
    BY <2>1, <2>2
<1>2. PlacesRight'
  BY <1>1, PlacesKept
<1>3. TypeOK'
  BY <1>1 DEF ServiceInv, TypeOK
<1>4. AnswersRight'
  BY <1>1, AnswersKept
<1>5. JobsRight'
  BY <1>1 DEF ServiceInv, JobsRight, OneJobEach, JobRight, StopRight, Listed
<1>6. CancelledRight'
  BY <1>1 DEF ServiceInv, CancelledRight
<1> QED
  BY <1>2, <1>3, <1>4, <1>5, <1>6 DEF ServiceInv

\* New requests, made by a tap or when an end is heard of.
LEMMA RequestedInv ==
  ASSUME ServiceInv, NEW more \in SUBSET Fetchers, \A g \in more : phase[g] = "new",
         phase' = [g \in Fetchers |-> IF g \in more THEN "enqueued" ELSE phase[g]],
         UNCHANGED <<placeVars, jobs, lastInterval, userStopped, reports, answer, said>>,
         heard' \in [Fetchers -> Nat], \A g \in Fetchers : heard'[g] <= Len(said[g])
  PROVE  ServiceInv'
<1>1. /\ UNCHANGED <<running, delayed, serviceHost, jobs, lastInterval, userStopped, reports, answer, said>>
      /\ phase' \in [Fetchers -> Phases]
      /\ \A g \in Fetchers : phase'[g] = phase[g] \/ (phase[g] = "new" /\ phase'[g] = "enqueued")
  BY DEF placeVars, ServiceInv, TypeOK, Phases
<1>2. PlacesRight' /\ Listed' = Listed
  BY <1>1, PlacesKept DEF UnderWay
<1>3. TypeOK'
  BY <1>1 DEF ServiceInv, TypeOK
<1>4. AnswersRight'
  <2> SUFFICES ASSUME NEW g \in Fetchers PROVE AnswerRight(g)'
    BY DEF AnswersRight
  <2>1. AnswerRight(g)
    BY DEF ServiceInv, AnswersRight
  <2> QED
    BY <1>1, <2>1 DEF AnswerRight
<1>5. JobsRight'
  <2>1. OneJobEach' /\ \A j \in jobs : JobRight(j) /\ j.of \in Fetchers
    BY <1>1, JobIs DEF ServiceInv, JobsRight, OneJobEach
  <2>2. ASSUME NEW j \in jobs PROVE JobRight(j)'
    <3>1. StopRight(j) => StopRight(j)'
      BY <1>1, <2>1, <2>2 DEF StopRight
    <3> QED
      BY <1>1, <1>2, <2>1, <2>2, <3>1 DEF JobRight
  <2> QED
    BY <1>1, <2>1, <2>2 DEF JobsRight
<1>6. CancelledRight'
  BY <1>1 DEF ServiceInv, CancelledRight
<1> QED
  BY <1>2, <1>3, <1>4, <1>5, <1>6 DEF ServiceInv

\* The waits between two attempts are numbers.
LEMMA WaitType ==
  ASSUME ServiceInv, NEW f \in Fetchers, RetryLater(f) \/ RetryAfter(f)
  PROVE  /\ phase[f] = "deciding" /\ phase' = [phase EXCEPT ![f] = "waiting"]
         /\ lastInterval' \in [Fetchers -> Nat]
         /\ UNCHANGED <<placeVars, jobs, userStopped, answerVars>>
<1>1. NextInterval(f) \in Nat /\ MaxInterval \in Nat
  BY ServiceAssumption DEF ServiceInv, TypeOK, ConstantsAssumption, NextInterval
<1>2. PICK interval \in Nat : Wait(f, interval)
  BY <1>1 DEF RetryLater, RetryAfter
<1> QED
  BY <1>2 DEF Wait, ServiceInv, TypeOK

LEMMA ContinuesInv ==
  ASSUME ServiceInv, NEW j \in jobs, Continues(j)
  PROVE  ServiceInv'
<1>1. CASE RetryBegin(j)
  <2>1. /\ j.of \in Fetchers /\ j.thread = "delegate" /\ phase[j.of] = "refetch"
        /\ \A i \in jobs \ {j} : i.thread # "delegate"
    BY <1>1, JobIs DEF RetryBegin, JobRight
  <2>2. ShouldBegin(j.of, "delegate", {j}) /\ UNCHANGED <<serviceHost, lastInterval, userStopped, answerVars>>
    BY <1>1, <2>1 DEF RetryBegin
  <2>3. {j} \in SUBSET jobs /\ \A i \in jobs \ {j} : i.thread # "delegate"
    BY <2>1
  <2> QED
    BY <2>1, <2>2, <2>3, AskedInv
<1> QED
  BY <1>1, SaveInv, ReadInv, HandInv, ClearInv, ToldInv DEF Continues

LEMMA ServiceStepInv ==
  ASSUME ServiceInv, NEW f \in Fetchers, ServiceStep(f)
  PROVE  ServiceInv'
<1>1. CASE \E j \in jobs : j.of = f /\ Continues(j)
  BY <1>1, ContinuesInv
<1>2. CASE Begin(f)
  <2>1. \A j \in jobs \ {} : j.thread # StorageOf[f]
    BY <1>2 DEF Begin, Idle
  <2> QED
    BY <1>2, <2>1, AskedInv DEF Begin
<1>3. CASE Authorized(f) \/ AttemptFails(f) \/ TimerFires(f)
  <2>1. lastInterval \in [Fetchers -> Nat]
    BY DEF ServiceInv, TypeOK
  <2> QED
    BY <1>3, <2>1, PhaseStepInv DEF Authorized, AttemptFails, TimerFires
<1>4. CASE RetryLater(f) \/ RetryAfter(f)
  BY <1>4, WaitType, PhaseStepInv
<1>5. CASE AuthorizationFails(f)
  BY <1>5, EndInv DEF AuthorizationFails
<1>6. CASE \E result \in {"ok", "error"} : Finish(f, result)
  BY <1>6, EndInv DEF Finish
<1>7. CASE GiveUp(f)
  BY <1>7, EndInv DEF GiveUp, Decides
<1>8. CASE RetryStop(f)
  <2>1. JobRight(Job("delegate", "stop", f))
    BY <1>8 DEF RetryStop, JobRight, StopRight, Job
  <2> QED
    BY <1>8, <2>1, JobStepInv DEF RetryStop
<1>9. CASE Complete(f)
  <2>1. JobRight(Job("main", "fire", f))
    BY <1>9 DEF Complete, JobRight, Job
  <2> QED
    BY <1>9, <2>1, JobStepInv DEF Complete
<1>10. CASE Report(f) \/ DropReport(f)
  BY <1>10, ReportInv
<1>11. CASE Cancel(f)
  BY <1>11, CancelInv
<1> QED
  BY <1>1, <1>2, <1>3, <1>4, <1>5, <1>6, <1>7, <1>8, <1>9, <1>10, <1>11 DEF ServiceStep, Proceeds

LEMMA ServiceNextInv == ServiceInv /\ [ServiceNext]_serviceVars => ServiceInv'
<1> SUFFICES ASSUME ServiceInv, [ServiceNext]_serviceVars PROVE ServiceInv'
  OBVIOUS
<1>0. \A g \in Fetchers : heard[g] \in Nat /\ Len(said[g]) \in Nat /\ heard[g] <= Len(said[g])
  BY DEF ServiceInv, TypeOK, AnswersRight, AnswerRight
<1>1. ASSUME NEW f \in Fetchers, ServiceStep(f) PROVE ServiceInv'
  BY <1>1, ServiceStepInv
<1>2. ASSUME NEW more \in SUBSET Fetchers, Enqueue(more) PROVE ServiceInv'
  <2>1. heard' = heard /\ heard \in [Fetchers -> Nat] /\ UNCHANGED <<reports, answer, said>>
    BY <1>2 DEF Enqueue, answerVars, ServiceInv, TypeOK
  <2> QED
    BY <1>0, <1>2, <2>1, RequestedInv DEF Enqueue
<1>3. ASSUME NEW f \in Fetchers, NEW result \in {"ok", "error"}, NEW more \in SUBSET Fetchers,
             Hear(f, result, more)
      PROVE  ServiceInv'
  <2>1. heard' = [heard EXCEPT ![f] = @ + 1] /\ heard[f] < Len(said[f]) /\ heard \in [Fetchers -> Nat]
    BY <1>3 DEF Hear, ServiceInv, TypeOK
  <2>2. heard' \in [Fetchers -> Nat] /\ \A g \in Fetchers : heard'[g] <= Len(said[g])
    BY <1>0, <2>1
  <2> QED
    BY <1>3, <2>2, RequestedInv DEF Hear
<1>4. CASE UNCHANGED serviceVars
  <2>1. UNCHANGED <<running, delayed, serviceHost, jobs, phase, lastInterval, userStopped, reports, answer, said, heard>>
    BY <1>4 DEF serviceVars, placeVars, answerVars
  <2>2. PlacesRight' /\ AnswersRight' /\ CancelledRight'
    BY <2>1, PlacesKept, AnswersKept, CancelledKept
  <2>3. TypeOK' /\ JobsRight'
    BY <2>1 DEF ServiceInv, TypeOK, JobsRight, OneJobEach, JobRight, StopRight, Listed
  <2> QED
    BY <2>2, <2>3 DEF ServiceInv
<1> QED
  BY <1>1, <1>2, <1>3, <1>4 DEF ServiceNext

-----------------------------------------------------------------------------
(* The theorems about the service *)

LEMMA ServiceInvariance == ServiceSpec => []ServiceInv
BY ServiceInitInv, ServiceNextInv, PTL DEF ServiceSpec

\* The variables of the service keep their types.
THEOREM ServiceTypeCorrect == ServiceSpec => []TypeOK
<1>1. ServiceInv => TypeOK
  BY DEF ServiceInv
<1> QED
  BY <1>1, ServiceInvariance, PTL

\* However many requests there are and however they fail, are retried and are
\* cancelled, and wherever one thread comes between the steps of another, no
\* more of them are under way than the limit of the service, but for those that
\* have been cancelled.
THEOREM SlotLimitHolds == ServiceSpec => []SlotLimit
<1>1. ServiceInv => SlotLimit
  <2> SUFFICES ASSUME ServiceInv PROVE SlotLimit
    OBVIOUS
  <2>1. running \union {f \in Fetchers \ userStopped : phase[f] \in UnderWay} = running
    BY DEF ServiceInv, PlacesRight, HoldsPlace
  <2> QED
    BY <2>1 DEF ServiceInv, PlacesRight, Within, SlotLimit
<1> QED
  BY <1>1, ServiceInvariance, PTL

\* Nobody waits while there is a free place, though the place is handed on by
\* one thread while others ask for one.
THEOREM NoSlotIdles == ServiceSpec => []NoIdleSlot
<1>1. ServiceInv => NoIdleSlot
  BY DEF ServiceInv, PlacesRight
<1> QED
  BY <1>1, ServiceInvariance, PTL

\* The owner of a request hears of one end, unless it was cancelled, and of one
\* success at most even then: the fetch that ends, the cancellations and the
\* handlers of both run on three threads.
THEOREM OneAnswerOnly == ServiceSpec => []OneAnswer
<1>1. ServiceInv => OneAnswer
  BY DEF ServiceInv, AnswersRight, AnswerRight, OneAnswer
<1> QED
  BY <1>1, ServiceInvariance, PTL

\* A step of a fetcher loses a place only when that fetcher ends without a host.
LEMMA LostKnown ==
  ASSUME ServiceInv, NEW f \in Fetchers, f \in LostSlots', f \notin LostSlots,
         NEW g \in Fetchers, ServiceStep(g)
  PROVE  f \notin serviceHost
<1> USE DEF LostSlots
<1>0. /\ f \in running' /\ phase'[f] = "stopped"
      /\ \A j \in jobs' : j.of = f => j.step \notin {"stop", "hand"}
      /\ f \in running /\ phase[f] = "stopped" => \E j \in jobs : j.of = f /\ j.step \in {"stop", "hand"}
      /\ phase \in [Fetchers -> Phases]
  BY DEF ServiceInv, TypeOK
<1>1. ASSUME running' = running, phase'[f] = phase[f], jobs \subseteq jobs' PROVE FALSE
  BY <1>0, <1>1
<1>2. ASSUME NEW j \in jobs, j.step \notin {"stop", "hand"}, jobs \ {j} \subseteq jobs',
             running' = running, phase'[f] = "stopped" => phase[f] = "stopped"
      PROVE  FALSE
  BY <1>0, <1>2
<1>3. ASSUME NEW h \in Fetchers, NEW t, t \in {"delegate", StorageOf[h]}, NEW done,
             ShouldBegin(h, t, done), phase[h] \in {"enqueued", "refetch"}, UNCHANGED userStopped,
             \A j \in done : j.step = "begin"
      PROVE  FALSE
  <2>1. /\ phase'[h] \in {"begun", "queued", "authorizing"}
        /\ \A i \in Fetchers \ {h} : phase'[i] = phase[i]
        /\ jobs \ done \subseteq jobs'
    BY <1>3, PlaceAsked
  <2>2. running' \subseteq running \union {h}
    BY <1>3 DEF ShouldBegin
  <2>3. f # h /\ f \in running /\ phase[f] = "stopped"
    BY <1>0, <2>1, <2>2
  <2> QED
    BY <1>0, <1>3, <2>1, <2>3
<1>4. ASSUME NEW t, NEW result, End(g, t, result) PROVE FALSE
  <2>1. /\ Job(t, "stop", g) \in jobs' /\ jobs \subseteq jobs' /\ running' = running
        /\ phase' = [phase EXCEPT ![g] = "stopped"]
    BY <1>4 DEF End, placeVars
  <2>2. f # g
    BY <1>0, <2>1 DEF Job
  <2> QED
    BY <1>0, <1>1, <2>1, <2>2
<1>5. CASE \E j \in jobs : j.of = g /\ Continues(j)
  <2>1. PICK j \in jobs : j.of = g /\ Continues(j)
    BY <1>5
  <2>2. j.of \in Fetchers /\ JobRight(j)
    BY JobIs
  <2>3. CASE ReadHost(j)
    <3>1. CASE j.of = f
      <4>1. CASE f \in serviceHost
        <5>1. Job(j.thread, "hand", f) \in jobs'
          BY <2>3, <3>1, <4>1, JobIs DEF ReadHost, Goes, Steps
        <5> QED
          BY <1>0, <5>1 DEF Job
      <4> QED
        BY <4>1
    <3>2. CASE j.of # f
      <4>1. jobs \ {j} \subseteq jobs' /\ running' = running /\ phase'[f] = phase[f]
        BY <1>0, <2>3, <3>2 DEF ReadHost, Goes, placeVars
      <4> QED
        BY <1>0, <3>2, <4>1
    <3> QED
      BY <3>1, <3>2
  <2>4. CASE HandOn(j)
    <3>1. /\ Listed' \subseteq Listed \ {j.of}
          /\ \A i \in Fetchers \ {j.of} : phase'[i] = phase[i]
                                          \/ (phase[i] = "queued" /\ phase'[i] = "authorizing")
          /\ \A i \in running' : i \in running \/ phase'[i] = "authorizing"
      BY <2>4, PlaceGiven
    <3>2. f # j.of
      BY <1>0, <3>1 DEF Listed
    <3>3. f \in running /\ phase[f] = "stopped" /\ jobs \ {j} \subseteq jobs'
      BY <1>0, <2>4, <3>1, <3>2 DEF HandOn, Goes
    <3> QED
      BY <1>0, <3>2, <3>3
  <2>5. CASE SaveHost(j)
    <3>1. /\ j.step = "save" /\ jobs' = jobs \ {j} /\ running' = running
          /\ phase'[f] = "stopped" => phase[f] = "stopped"
      BY <1>0, <2>5 DEF SaveHost, Goes
    <3> QED
      BY <1>2, <3>1
  <2>6. CASE ClearHost(j) \/ TellCancelled(j) \/ Fire(j) \/ Unobserve(j)
    <3>1. j.step \notin {"stop", "hand"} /\ jobs \ {j} \subseteq jobs' /\ running' = running /\ phase' = phase
      BY <2>6 DEF ClearHost, TellCancelled, Fire, Unobserve, Goes, placeVars
    <3> QED
      BY <1>2, <3>1
  <2>7. CASE RetryBegin(j)
    <3>1. /\ j.step = "begin" /\ j.thread = "delegate" /\ phase[j.of] = "refetch"
          /\ ShouldBegin(j.of, j.thread, {j}) /\ UNCHANGED userStopped
      BY <2>2, <2>7 DEF RetryBegin, JobRight
    <3> QED
      BY <1>3, <2>2, <3>1
  <2> QED
    BY <2>1, <2>3, <2>4, <2>5, <2>6, <2>7 DEF Continues
<1>6. CASE Begin(g)
  BY <1>3, <1>6 DEF Begin
<1>7. CASE AuthorizationFails(g) \/ GiveUp(g) \/ \E result \in {"ok", "error"} : Finish(g, result)
  BY <1>4, <1>7 DEF AuthorizationFails, GiveUp, Finish
<1>8. CASE Cancel(g)
  <2>1. /\ Job(StorageOf[g], "stop", g) \in jobs' /\ jobs \subseteq jobs' /\ running' = running
        /\ g # f => phase'[f] = phase[f]
    BY <1>0, <1>8 DEF Cancel, placeVars
  <2>2. f # g
    BY <1>0, <2>1 DEF Job
  <2> QED
    BY <1>1, <2>1, <2>2
<1>9. CASE Authorized(g) \/ AttemptFails(g) \/ TimerFires(g)
  BY <1>0, <1>9 DEF Authorized, AttemptFails, TimerFires, placeVars
<1>10. CASE RetryLater(g) \/ RetryAfter(g)
  <2>1. phase' = [phase EXCEPT ![g] = "waiting"] /\ UNCHANGED <<placeVars, jobs>>
    BY <1>10, WaitType
  <2> QED
    BY <1>0, <2>1 DEF placeVars
<1>11. CASE RetryStop(g) \/ Complete(g) \/ Report(g) \/ DropReport(g)
  BY <1>1, <1>11 DEF RetryStop, Complete, Report, DropReport, placeVars
<1> QED
  BY <1>5, <1>6, <1>7, <1>8, <1>9, <1>10, <1>11 DEF ServiceStep, Proceeds

\* And leaves one on a list without a host only when a late cancellation clears it.
LEMMA HostlessKnown ==
  ASSUME ServiceInv, NEW f \in Fetchers, f \in Hostless', f \notin Hostless,
         NEW g \in Fetchers, ServiceStep(g)
  PROVE  f \in userStopped /\ Job(StorageOf[f], "clear", f) \in jobs
<1>0. /\ f \in Listed' /\ f \notin serviceHost' /\ \A j \in jobs' : j.of = f => j.step # "save"
      /\ f \in Listed /\ f \notin serviceHost => \E j \in jobs : j.of = f /\ j.step = "save"
  BY DEF Hostless, Listed
<1>1. ASSUME Listed' \subseteq Listed, serviceHost \subseteq serviceHost',
             \A j \in jobs : j.step = "save" => j \in jobs'
      PROVE  FALSE
  BY <1>0, <1>1
<1>2. ASSUME NEW h \in Fetchers, NEW t, t \in {"delegate", StorageOf[h]}, NEW done,
             ShouldBegin(h, t, done), phase[h] \in {"enqueued", "refetch"},
             UNCHANGED <<userStopped, serviceHost>>,
             \A j \in done : j.step = "begin"
      PROVE  FALSE
  <2>1. /\ jobs \ done \subseteq jobs' /\ Listed' \subseteq Listed \union {h}
        /\ Listed' = Listed \/ Job(t, "save", h) \in jobs'
    BY <1>2, PlaceAsked
  <2>2. f \notin Listed
    BY <1>0, <1>2, <2>1
  <2>3. f = h /\ Job(t, "save", f) \in jobs'
    BY <1>0, <2>1, <2>2
  <2> QED
    BY <1>0, <2>3 DEF Job
<1>3. CASE \E j \in jobs : j.of = g /\ Continues(j)
  <2>1. PICK j \in jobs : j.of = g /\ Continues(j)
    BY <1>3
  <2>2. j.of \in Fetchers /\ JobRight(j) /\ j \in [thread : Threads, step : Steps, of : Fetchers]
    BY JobIs DEF ServiceInv, TypeOK
  <2>3. CASE ClearHost(j)
    <3>1. /\ j.step = "clear" /\ serviceHost' = serviceHost \ {j.of} /\ Listed' = Listed
          /\ jobs \ {j} \subseteq jobs'
      BY <2>3 DEF ClearHost, Goes, Listed
    <3>2. j.of = f
      BY <1>0, <3>1
    <3>3. j.thread = StorageOf[f] /\ StopRight(j)
      BY <1>0, <2>2, <3>1, <3>2 DEF JobRight
    <3>4. StorageOf[f] \notin {"main", "delegate"}
      BY ServiceAssumption DEF ConstantsAssumption
    <3>5. f \in userStopped
      BY <3>2, <3>3, <3>4 DEF StopRight
    <3>6. j = Job(StorageOf[f], "clear", f)
      BY <2>2, <3>1, <3>2, <3>3 DEF Job
    <3> QED
      BY <3>5, <3>6
  <2>4. CASE SaveHost(j)
    <3>1. /\ jobs' = jobs \ {j} /\ serviceHost' = serviceHost \union {j.of} /\ Listed' = Listed
      BY <2>4 DEF SaveHost, Goes, Listed
    <3> QED
      BY <1>0, <3>1
  <2>5. CASE HandOn(j)
    <3>1. Listed' \subseteq Listed /\ serviceHost' = serviceHost /\ j.step = "hand" /\ jobs \ {j} \subseteq jobs'
      BY <2>5, PlaceGiven DEF HandOn, Goes
    <3> QED
      BY <1>1, <3>1
  <2>6. CASE ReadHost(j) \/ TellCancelled(j) \/ Fire(j) \/ Unobserve(j)
    <3>1. /\ Listed' = Listed /\ serviceHost' = serviceHost /\ jobs \ {j} \subseteq jobs'
          /\ j.step # "save"
      BY <2>6 DEF ReadHost, TellCancelled, Fire, Unobserve, Goes, placeVars, Listed
    <3> QED
      BY <1>1, <3>1
  <2>7. CASE RetryBegin(j)
    <3>1. /\ j.step = "begin" /\ j.thread = "delegate" /\ phase[j.of] = "refetch"
          /\ ShouldBegin(j.of, j.thread, {j}) /\ UNCHANGED <<userStopped, serviceHost>>
      BY <2>2, <2>7 DEF RetryBegin, JobRight
    <3> QED
      BY <1>2, <2>2, <3>1
  <2> QED
    BY <2>1, <2>3, <2>4, <2>5, <2>6, <2>7 DEF Continues
<1>4. CASE Begin(g)
  BY <1>2, <1>4 DEF Begin
<1>5. CASE /\ ~Begin(g) /\ ~\E j \in jobs : j.of = g /\ Continues(j)
  <2>1. UNCHANGED placeVars /\ jobs \subseteq jobs'
    <3>1. CASE RetryLater(g) \/ RetryAfter(g)
      BY <3>1, WaitType
    <3>2. CASE ~RetryLater(g) /\ ~RetryAfter(g)
      BY <1>5, <3>2 DEF ServiceStep, Proceeds, Authorized, AuthorizationFails, Finish, AttemptFails,
         GiveUp, End, TimerFires, RetryStop, DropReport, Cancel, Complete, Report
    <3> QED
      BY <3>1, <3>2
  <2>2. UNCHANGED <<running, delayed, serviceHost>>
    BY <2>1 DEF placeVars
  <2> QED
    BY <1>1, <2>1, <2>2 DEF Listed
<1> QED
  BY <1>3, <1>4, <1>5

\* Whenever a place comes to be lost its fetcher has no host; and whenever a
\* fetcher on a list is left without one, which no thread is about to save, it
\* was cancelled and the cancellation has just cleared it, whatever steps of the
\* three kinds of threads come between each other.
THEOREM SlotsAreReturned == ServiceSpec => SlotsReturned
<1> DEFINE Known ==
      /\ \A f \in LostSlots' \ LostSlots : f \notin serviceHost
      /\ \A f \in Hostless' \ Hostless : f \in userStopped /\ Job(StorageOf[f], "clear", f) \in jobs
<1>1. ServiceInv /\ [ServiceNext]_serviceVars => [Known]_serviceVars
  <2> SUFFICES ASSUME ServiceInv, ServiceNext PROVE Known
    OBVIOUS
  <2>1. LostSlots' \subseteq Fetchers /\ Hostless' \subseteq Fetchers
    <3>1. running' \subseteq Fetchers /\ delayed' \in Seq(Fetchers)
      BY ServiceNextInv DEF ServiceInv, TypeOK
    <3>2. \A i \in 1..Len(delayed') : delayed'[i] \in Fetchers
      BY <3>1
    <3>3. LostSlots' \subseteq Fetchers
      BY <3>1 DEF LostSlots
    <3>4. Hostless' \subseteq Fetchers
      BY <3>1, <3>2 DEF Hostless
    <3> QED
      BY <3>3, <3>4
  <2>2. CASE \E g \in Fetchers : ServiceStep(g)
    BY <2>1, <2>2, LostKnown, HostlessKnown
  <2>3. CASE \/ \E more \in SUBSET Fetchers : Enqueue(more)
             \/ \E f \in Fetchers, result \in {"ok", "error"}, more \in SUBSET Fetchers : Hear(f, result, more)
    <3>1. /\ UNCHANGED <<running, delayed, serviceHost, jobs>>
          /\ \A f \in Fetchers : phase'[f] = phase[f] \/ phase'[f] = "enqueued"
      BY <2>3 DEF Enqueue, Hear, placeVars
    <3>2. LostSlots' \subseteq LostSlots
      BY <3>1 DEF LostSlots, ServiceInv, TypeOK
    <3>3. Hostless' \subseteq Hostless
      BY <3>1 DEF Hostless
    <3> QED
      BY <3>2, <3>3
  <2> QED
    BY <2>2, <2>3 DEF ServiceNext
<1>2. [][ServiceNext]_serviceVars /\ []ServiceInv => [][Known]_serviceVars
  BY <1>1, PTL
<1> QED
  BY <1>2, ServiceInvariance, PTL DEF ServiceSpec, SlotsReturned

-----------------------------------------------------------------------------
(* The home screen uses the service as the service expects *)

LEMMA HomeRequestsAre ==
  ASSUME NEW v \in Views
  PROVE  /\ \A i \in DOMAIN Pages : FolderPage(v, i) \in Fetchers /\ Pages[i] \subseteq Comics
         /\ \A c \in Comics : ComicFolder(v, c) \in Fetchers /\ Poster(v, c) \in Fetchers
BY HomeAssumption DEF HomeRequests, RequestsOf, Comics

\* Requests of different kinds are different.
LEMMA KindsDiffer ==
  ASSUME NEW v, NEW w, NEW i, NEW c, NEW d
  PROVE  /\ FolderPage(v, i) # ComicFolder(w, c)
         /\ FolderPage(v, i) # Poster(w, c)
         /\ ComicFolder(v, c) # Poster(w, d)
         /\ ComicFolder(v, c) = ComicFolder(w, d) => v = w /\ c = d
         /\ Poster(v, c) = Poster(w, d) => v = w /\ c = d
<1>1. /\ DOMAIN FolderPage(v, i) = {"view", "page"}
      /\ DOMAIN ComicFolder(v, c) = {"view", "folder"} /\ DOMAIN ComicFolder(w, c) = {"view", "folder"}
      /\ DOMAIN Poster(w, c) = {"view", "poster"} /\ DOMAIN Poster(w, d) = {"view", "poster"}
  BY DEF FolderPage, ComicFolder, Poster
<1>2. "page" \notin {"view", "folder"} /\ "page" \notin {"view", "poster"}
      /\ "folder" \notin {"view", "poster"}
  OBVIOUS
<1>3. /\ FolderPage(v, i) # ComicFolder(w, c)
      /\ FolderPage(v, i) # Poster(w, c)
      /\ ComicFolder(v, c) # Poster(w, d)
  <2>1. "page" \in DOMAIN FolderPage(v, i) /\ "folder" \in DOMAIN ComicFolder(v, c)
    BY <1>1
  <2>2. "page" \notin DOMAIN ComicFolder(w, c) /\ "page" \notin DOMAIN Poster(w, c)
        /\ "folder" \notin DOMAIN Poster(w, d)
    BY <1>1, <1>2
  <2> QED
    BY <2>1, <2>2, Zenon
<1>4. ComicFolder(v, c) = ComicFolder(w, d) => v = w /\ c = d
  BY DEF ComicFolder
<1>5. Poster(v, c) = Poster(w, d) => v = w /\ c = d
  BY DEF Poster
<1> QED
  BY <1>3, <1>4, <1>5

\* What the listings and the lists of the view are made of.
HomeLists ==
  /\ opened \subseteq Views
  /\ listed \in [Views -> SUBSET Comics]
  /\ names \in [Views -> Seq(Comics)]
  /\ images \in [Views -> Seq(Comics)]
  /\ failed \subseteq Fetchers

LEMMA HomeConstants ==
  /\ Len(Pages) \in Nat \ {0} /\ DOMAIN Pages = 1..Len(Pages) /\ 1 \in DOMAIN Pages
  /\ \A i \in DOMAIN Pages : Pages[i] \subseteq Comics
BY HomeAssumption

\* An owner has heard of an end, and of which.
Taken(f) == heard[f] > 0
Told(f, result) == \E i \in 1..heard[f] : said[f][i] = result

\* A step of a fetcher makes no request, and takes back nothing that an owner
\* has heard.
LEMMA NoNewRequests ==
  ASSUME ServiceInv, NEW f \in Fetchers, ServiceStep(f), NEW g \in Fetchers
  PROVE  phase'[g] = "new" <=> phase[g] = "new"
<1> USE DEF ServiceInv, TypeOK
<1>1. CASE \E j \in jobs : j.of = f /\ Continues(j)
  <2> PICK j \in jobs : j.of = f /\ Continues(j)
    BY <1>1
  <2>1. CASE HandOn(j)
    <3>1. \/ phase'[g] = phase[g]
          \/ phase[g] = "queued" /\ phase'[g] \in {"stopped", "authorizing"}
      BY <2>1, PlaceGiven
    <3> QED
      BY <3>1
  <2>2. CASE RetryBegin(j)
    <3>1. phase[f] = "refetch" /\ ShouldBegin(f, j.thread, {j}) /\ userStopped' = userStopped
      BY <2>2, JobIs DEF RetryBegin, JobRight
    <3>2. /\ phase'[f] \in {"begun", "queued", "authorizing"}
          /\ \A h \in Fetchers \ {f} : phase'[h] = phase[h]
      BY <3>1, PlaceAsked
    <3> QED
      BY <3>1, <3>2
  <2>3. CASE SaveHost(j) \/ ReadHost(j)
    BY <2>3 DEF SaveHost, ReadHost
  <2>4. CASE ClearHost(j) \/ TellCancelled(j) \/ Fire(j) \/ Unobserve(j)
    BY <2>4 DEF ClearHost, TellCancelled, Fire, Unobserve
  <2> QED
    BY <2>1, <2>2, <2>3, <2>4 DEF Continues
<1>2. CASE Begin(f)
  <2>1. /\ phase[f] = "enqueued" /\ phase'[f] \in {"begun", "queued", "authorizing"}
        /\ \A h \in Fetchers \ {f} : phase'[h] = phase[h]
    BY <1>2, PlaceAsked DEF Begin
  <2> QED
    BY <2>1
<1>3. CASE Authorized(f) \/ AttemptFails(f) \/ TimerFires(f)
  BY <1>3 DEF Authorized, AttemptFails, TimerFires
<1>4. CASE RetryLater(f) \/ RetryAfter(f)
  BY <1>4 DEF RetryLater, RetryAfter, Wait
<1>5. CASE AuthorizationFails(f) \/ GiveUp(f) \/ \E result \in {"ok", "error"} : Finish(f, result)
  BY <1>5 DEF AuthorizationFails, GiveUp, Finish, End
<1>6. CASE RetryStop(f) \/ Complete(f) \/ Report(f) \/ DropReport(f) \/ Cancel(f)
  BY <1>6 DEF RetryStop, Complete, Report, DropReport, Cancel
<1> QED
  BY <1>1, <1>2, <1>3, <1>4, <1>5, <1>6 DEF ServiceStep, Proceeds

LEMMA NothingTakenBack ==
  ASSUME ServiceInv, NEW f \in Fetchers, ServiceStep(f), NEW g \in Fetchers
  PROVE  /\ Taken(g)' <=> Taken(g)
         /\ \A result : Told(g, result)' <=> Told(g, result)
<1>1. /\ heard' = heard
      /\ said' = said \/ \E h \in Fetchers, x \in {"ok", "error"} : said' = [said EXCEPT ![h] = Append(@, x)]
  <2>1. CASE \E j \in jobs : j.of = f /\ Continues(j)
    <3> PICK j \in jobs : j.of = f /\ Continues(j)
      BY <2>1
    <3>1. CASE TellCancelled(j)
      <4>1. /\ heard' = heard
            /\ said' = [said EXCEPT ![f] = IF answer[f] = "over" THEN @ ELSE Append(@, "error")]
        BY <3>1 DEF TellCancelled
      <4>2. said' = said \/ said' = [said EXCEPT ![f] = Append(@, "error")]
        BY <4>1 DEF ServiceInv, TypeOK
      <4> QED
        BY <4>1, <4>2
    <3>2. CASE Fire(j)
      <4>1. answer[f] \in {"ok", "error"}
        BY <3>2, JobIs DEF Fire, JobRight
      <4> QED
        BY <3>2, <4>1 DEF Fire
    <3>3. CASE SaveHost(j) \/ ReadHost(j) \/ HandOn(j) \/ ClearHost(j) \/ RetryBegin(j) \/ Unobserve(j)
      BY <3>3 DEF SaveHost, ReadHost, HandOn, ClearHost, RetryBegin, Unobserve, answerVars
    <3> QED
      BY <3>1, <3>2, <3>3 DEF Continues
  <2>2. CASE ~\E j \in jobs : j.of = f /\ Continues(j)
    BY <2>2 DEF ServiceStep, Proceeds, Begin, Authorized, AuthorizationFails, Finish, AttemptFails,
                RetryLater, RetryAfter, Wait, GiveUp, End, TimerFires, RetryStop, DropReport, Cancel,
                Complete, Report, answerVars
  <2> QED
    BY <2>1, <2>2
<1>2. /\ heard[g] \in Nat /\ said[g] \in Seq({"ok", "error"}) /\ heard[g] <= Len(said[g])
      /\ said \in [Fetchers -> Seq({"ok", "error"})]
  BY DEF ServiceInv, TypeOK, AnswersRight, AnswerRight
<1>3. \A i \in 1..heard[g] : said'[g][i] = said[g][i]
  <2> SUFFICES ASSUME NEW i \in 1..heard[g], NEW h \in Fetchers, NEW x \in {"ok", "error"},
                      said' = [said EXCEPT ![h] = Append(@, x)]
               PROVE  said'[g][i] = said[g][i]
    BY <1>1
  <2>1. CASE h # g
    BY <1>2, <2>1
  <2>2. CASE h = g
    <3>1. said'[g] = Append(said[g], x) /\ i \in 1..Len(said[g])
      BY <1>2, <2>2
    <3> QED
      BY <1>2, <3>1
  <2> QED
    BY <2>1, <2>2
<1> QED
  BY <1>1, <1>3 DEF Taken, Told

\* What the owner of a new request has heard is nothing; and of a success it
\* hears once.
LEMMA HeardIs ==
  ASSUME ServiceInv, NEW f \in Fetchers
  PROVE  /\ said[f] \in Seq({"ok", "error"}) /\ heard[f] \in Nat /\ heard[f] <= Len(said[f])
         /\ phase[f] = "new" => said[f] = <<>> /\ heard[f] = 0
         /\ f \notin userStopped => Len(said[f]) <= 1
         /\ \A i, j \in 1..Len(said[f]) : said[f][i] = "ok" /\ said[f][j] = "ok" => i = j
<1>1. /\ said[f] \in Seq({"ok", "error"}) /\ heard[f] \in Nat /\ AnswerRight(f)
      /\ answer[f] \in Answers /\ (f \in userStopped => phase[f] # "new")
  BY DEF ServiceInv, TypeOK, AnswersRight, CancelledRight
<1>2. phase[f] = "new" => said[f] = <<>>
  BY <1>1 DEF AnswerRight
<1> QED
  BY <1>1, <1>2 DEF AnswerRight

\* An owner hears of the next end.
LEMMA HearsNext ==
  ASSUME ServiceInv, NEW f \in Fetchers, NEW result \in {"ok", "error"}, NEW more \in SUBSET Fetchers,
         Hear(f, result, more)
  PROVE  /\ phase[f] # "new" /\ ~(result = "ok" /\ Told(f, "ok"))
         /\ f \notin userStopped => ~Taken(f)
         /\ \A g \in more : phase[g] = "new"
         /\ phase' = [g \in Fetchers |-> IF g \in more THEN "enqueued" ELSE phase[g]]
         /\ said' = said /\ userStopped' = userStopped
         /\ \A g \in Fetchers : /\ Taken(g)' <=> Taken(g) \/ g = f
                                /\ \A r : Told(g, r)' <=> Told(g, r) \/ (g = f /\ r = result)
<1>1. /\ heard[f] < Len(said[f]) /\ said[f][heard[f] + 1] = result
      /\ heard' = [heard EXCEPT ![f] = @ + 1] /\ UNCHANGED <<said, userStopped>>
      /\ \A g \in more : phase[g] = "new"
      /\ phase' = [g \in Fetchers |-> IF g \in more THEN "enqueued" ELSE phase[g]]
  BY DEF Hear
<1>2. /\ said[f] \in Seq({"ok", "error"}) /\ heard[f] \in Nat
      /\ phase[f] = "new" => said[f] = <<>>
      /\ f \notin userStopped => Len(said[f]) <= 1
      /\ \A i, j \in 1..Len(said[f]) : said[f][i] = "ok" /\ said[f][j] = "ok" => i = j
  BY HeardIs
<1>3. phase[f] # "new" /\ (f \notin userStopped => heard[f] = 0)
  BY <1>1, <1>2
<1>4. ~(result = "ok" /\ Told(f, "ok"))
  <2> SUFFICES ASSUME result = "ok", NEW i \in 1..heard[f], said[f][i] = "ok" PROVE FALSE
    BY DEF Told
  <2>1. i \in 1..Len(said[f]) /\ heard[f] + 1 \in 1..Len(said[f]) /\ i # heard[f] + 1
    BY <1>1, <1>2
  <2> QED
    BY <1>1, <1>2, <2>1
<1>5. heard \in [Fetchers -> Nat]
  BY DEF ServiceInv, TypeOK
<1>6. ASSUME NEW g \in Fetchers
      PROVE  /\ Taken(g)' <=> Taken(g) \/ g = f
             /\ \A r : Told(g, r)' <=> Told(g, r) \/ (g = f /\ r = result)
  <2>1. CASE g # f
    BY <1>1, <1>5, <2>1 DEF Taken, Told
  <2>2. CASE g = f
    <3>1. heard'[f] = heard[f] + 1 /\ heard[f] \in Nat
      BY <1>1, <1>5
    <3>2. \A i : i \in 1..(heard[f] + 1) <=> i \in 1..heard[f] \/ i = heard[f] + 1
      BY <3>1
    <3> QED
      BY <1>1, <2>2, <3>1, <3>2 DEF Taken, Told
  <2> QED
    BY <2>1, <2>2
<1> QED
  BY <1>1, <1>3, <1>4, <1>6 DEF Taken

-----------------------------------------------------------------------------
(* The invariant of the home screen *)

Wanted ==
  \A v \in Views, c \in Comics :
    phase[ComicFolder(v, c)] # "new" \/ phase[Poster(v, c)] # "new" => c \in Found[v]

Shown ==
  \A v \in Views :
    /\ images[v] = names[v]
    /\ \A c \in Comics, i \in 1..Len(names[v]) :
         names[v][i] = c => Told(Poster(v, c), "ok") /\ c \in Found[v]
    /\ \A i, j \in 1..Len(names[v]) : names[v][i] = names[v][j] => i = j

HomeInv == ServiceInv /\ HomeLists /\ Wanted /\ Shown

LEMMA HomeInitInv == Init => HomeInv
<1> SUFFICES ASSUME Init PROVE HomeInv
  OBVIOUS
<1>1. ServiceInv /\ HomeLists
  BY ServiceInitInv DEF Init, HomeLists
<1>2. Wanted
  BY HomeRequestsAre DEF Init, ServiceInit, Wanted
<1>3. Shown
  BY DEF Init, Shown
<1> QED
  BY <1>1, <1>2, <1>3 DEF HomeInv

\* New requests, of folders the query matches or of their posters only.
LEMMA HomeRequested ==
  ASSUME HomeInv, NEW more \in SUBSET Fetchers,
         phase' = [g \in Fetchers |-> IF g \in more THEN "enqueued" ELSE phase[g]],
         \A v \in Views, c \in Comics :
           ComicFolder(v, c) \in more \/ Poster(v, c) \in more => c \in Found[v]
  PROVE  Wanted'
BY HomeRequestsAre DEF HomeInv, Wanted

LEMMA ShownKept ==
  ASSUME HomeInv, UNCHANGED <<names, images>>,
         \A g \in Fetchers : Told(g, "ok") => Told(g, "ok")'
  PROVE  Shown'
BY HomeRequestsAre DEF HomeInv, Shown

\* An answer to the screen that shows nothing new.
LEMMA HeardInv ==
  ASSUME HomeInv, NEW f \in Fetchers, NEW result \in {"ok", "error"}, NEW more \in SUBSET Fetchers,
         Hear(f, result, more),
         \A v \in Views, c \in Comics :
           ComicFolder(v, c) \in more \/ Poster(v, c) \in more => c \in Found[v]
  PROVE  /\ ServiceNext /\ ServiceInv' /\ Wanted'
         /\ UNCHANGED <<names, images>> => Shown'
<1>1. ServiceNext
  BY DEF ServiceNext
<1>2. ServiceInv'
  BY <1>1, ServiceNextInv DEF HomeInv
<1>3. Wanted'
  BY HomeRequested DEF Hear
<1>4. \A g \in Fetchers : Told(g, "ok") => Told(g, "ok")'
  BY HearsNext DEF HomeInv
<1>5. UNCHANGED <<names, images>> => Shown'
  BY <1>4, ShownKept
<1> QED
  BY <1>1, <1>2, <1>3, <1>5

LEMMA HomeOpenInv ==
  ASSUME HomeInv, NEW v \in Views, Open(v)
  PROVE  ServiceNext /\ HomeInv'
<1> DEFINE more == {FolderPage(v, 1)}
<1>1. more \in SUBSET Fetchers
  BY HomeConstants, HomeRequestsAre
<1>2. Enqueue(more) /\ UNCHANGED <<listed, names, images, failed>> /\ opened' = opened \union {v}
  BY DEF Open
<1>3. ServiceNext /\ ServiceInv'
  BY <1>1, <1>2, ServiceNextInv DEF ServiceNext, HomeInv
<1>4. HomeLists'
  BY <1>2 DEF HomeInv, HomeLists
<1>5. \A w \in Views, c \in Comics : ComicFolder(w, c) \notin more /\ Poster(w, c) \notin more
  BY KindsDiffer
<1>6. /\ phase' = [g \in Fetchers |-> IF g \in more THEN "enqueued" ELSE phase[g]]
      /\ UNCHANGED <<heard, said>>
  BY <1>2 DEF Enqueue, answerVars
<1> HIDE DEF more
<1>7. Wanted'
  BY <1>1, <1>5, <1>6, HomeRequested
<1>8. Shown'
  BY <1>2, <1>6, ShownKept DEF Told
<1> QED
  BY <1>3, <1>4, <1>7, <1>8 DEF HomeInv

LEMMA HomePageInv ==
  ASSUME HomeInv, NEW v \in Views, NEW i \in DOMAIN Pages, PageArrives(v, i) \/ PageFails(v, i)
  PROVE  ServiceNext /\ HomeInv'
<1>1. PICK more :
        /\ \E result \in {"ok", "error"} : Hear(FolderPage(v, i), result, more)
        /\ \/ more = {FolderPage(v, i + 1)} /\ i < Len(Pages)
           \/ more = FoldersWanted(v, listed[v] \union Pages[i])
           \/ more = FoldersWanted(v, listed[v])
        /\ UNCHANGED <<opened, names, images>>
        /\ listed' \in [Views -> SUBSET Comics] /\ failed' \subseteq Fetchers
  <2>1. FolderPage(v, i) \in Fetchers /\ Pages[i] \subseteq Comics /\ listed[v] \subseteq Comics
    BY HomeRequestsAre DEF HomeInv, HomeLists
  <2>2. CASE PageArrives(v, i)
    <3>1. /\ Hear(FolderPage(v, i), "ok", AfterPage(v, i, listed[v] \union Pages[i]))
          /\ UNCHANGED <<opened, names, images, failed>>
          /\ listed' = [listed EXCEPT ![v] = listed[v] \union Pages[i]]
      BY <2>2 DEF PageArrives
    <3>2. listed' \in [Views -> SUBSET Comics] /\ failed' \subseteq Fetchers
      BY <2>1, <3>1 DEF HomeInv, HomeLists
    <3> QED
      BY <3>1, <3>2 DEF AfterPage
  <2>3. CASE PageFails(v, i)
    BY <2>1, <2>3 DEF PageFails, HomeInv, HomeLists
  <2> QED
    BY <2>2, <2>3
<1>2. /\ more \in SUBSET Fetchers
      /\ \A w \in Views, c \in Comics :
           ComicFolder(w, c) \in more \/ Poster(w, c) \in more => c \in Found[w]
  <2>1. CASE more = {FolderPage(v, i + 1)} /\ i < Len(Pages)
    <3>1. i + 1 \in DOMAIN Pages
      BY <2>1, HomeConstants
    <3> QED
      BY <2>1, <3>1, HomeRequestsAre, KindsDiffer
  <2>2. ASSUME NEW prefixes \in SUBSET Comics, more = FoldersWanted(v, prefixes)
        PROVE  /\ more \in SUBSET Fetchers
               /\ \A w \in Views, c \in Comics :
                    ComicFolder(w, c) \in more \/ Poster(w, c) \in more => c \in Found[w]
    <3>1. \A f : f \in more <=> \E d \in prefixes \intersect Found[v] : f = ComicFolder(v, d)
      BY <2>2 DEF FoldersWanted
    <3> QED
      BY <3>1, HomeRequestsAre, KindsDiffer
  <2>3. Pages[i] \subseteq Comics /\ listed[v] \subseteq Comics
    BY HomeRequestsAre DEF HomeInv, HomeLists
  <2> QED
    BY <1>1, <2>1, <2>2, <2>3
<1>3. FolderPage(v, i) \in Fetchers
  BY HomeRequestsAre
<1>4. ServiceNext /\ ServiceInv' /\ Wanted' /\ Shown'
  BY <1>1, <1>2, <1>3, HeardInv
<1>5. HomeLists'
  BY <1>1 DEF HomeInv, HomeLists
<1> QED
  BY <1>4, <1>5 DEF HomeInv

LEMMA HomeFolderInv ==
  ASSUME HomeInv, NEW v \in Views, NEW c \in Comics,
         FolderArrives(v, c) \/ FolderFails(v, c) \/ PosterFails(v, c)
  PROVE  ServiceNext /\ HomeInv'
<1>1. ComicFolder(v, c) \in Fetchers /\ Poster(v, c) \in Fetchers
  BY HomeRequestsAre
<1>2. PICK f \in Fetchers, result \in {"ok", "error"}, more \in SUBSET {Poster(v, c)} :
        /\ Hear(f, result, more)
        /\ more # {} => f = ComicFolder(v, c)
        /\ UNCHANGED <<opened, listed, names, images>> /\ failed' \subseteq Fetchers
  BY <1>1 DEF FolderArrives, FolderFails, PosterFails, homeVars, HomeInv, HomeLists
<1>3. more \in SUBSET Fetchers
  BY <1>1, <1>2
<1>4. phase[f] # "new"
  BY <1>2, <1>3, HearsNext DEF HomeInv
<1>5. more # {} => c \in Found[v]
  BY <1>1, <1>2, <1>4 DEF HomeInv, Wanted
<1>6. \A w \in Views, d \in Comics : ComicFolder(w, d) \in more \/ Poster(w, d) \in more => d \in Found[w]
  BY <1>2, <1>5, KindsDiffer
<1>7. ServiceNext /\ ServiceInv' /\ Wanted' /\ Shown'
  BY <1>2, <1>3, <1>6, HeardInv
<1>8. HomeLists'
  BY <1>2 DEF HomeInv, HomeLists
<1> QED
  BY <1>7, <1>8 DEF HomeInv

LEMMA HomePosterInv ==
  ASSUME HomeInv, NEW v \in Views, NEW c \in Comics, PosterArrives(v, c)
  PROVE  ServiceNext /\ HomeInv'
<1>1. ComicFolder(v, c) \in Fetchers /\ Poster(v, c) \in Fetchers
  BY HomeRequestsAre
<1>2. /\ Hear(Poster(v, c), "ok", {})
      /\ images' = [images EXCEPT ![v] = Append(@, c)]
      /\ names' = [names EXCEPT ![v] = Append(@, c)]
      /\ UNCHANGED <<opened, listed, failed>>
  BY DEF PosterArrives
<1>3. ServiceNext /\ ServiceInv' /\ Wanted'
  BY <1>1, <1>2, HeardInv
<1>4. HomeLists'
  BY <1>2 DEF HomeInv, HomeLists
<1>5. /\ phase[Poster(v, c)] # "new" /\ ~Told(Poster(v, c), "ok") /\ Told(Poster(v, c), "ok")'
      /\ \A g \in Fetchers : Told(g, "ok") => Told(g, "ok")'
  BY <1>1, <1>2, HearsNext DEF HomeInv
<1>6. c \in Found[v]
  BY <1>5 DEF HomeInv, Wanted
<1>7. Shown'
  <2> SUFFICES ASSUME NEW w \in Views
               PROVE  /\ images'[w] = names'[w]
                      /\ \A d \in Comics, i \in 1..Len(names'[w]) :
                           names'[w][i] = d => Told(Poster(w, d), "ok")' /\ d \in Found[w]
                      /\ \A i, j \in 1..Len(names'[w]) : names'[w][i] = names'[w][j] => i = j
    BY DEF Shown
  <2>1. names[w] \in Seq(Comics) /\ images[w] = names[w]
    BY DEF HomeInv, HomeLists, Shown
  <2>2. \A d \in Comics, i \in 1..Len(names[w]) :
          names[w][i] = d => Told(Poster(w, d), "ok") /\ d \in Found[w]
    BY DEF HomeInv, Shown
  <2>3. \A d \in Comics, i \in 1..Len(names[w]) :
          names[w][i] = d => Told(Poster(w, d), "ok")'
    BY <1>5, <2>2, HomeRequestsAre
  <2>4. \A i, j \in 1..Len(names[w]) : names[w][i] = names[w][j] => i = j
    BY DEF HomeInv, Shown
  <2>5. CASE w # v
    <3>1. names'[w] = names[w] /\ images'[w] = images[w]
      BY <1>2, <2>5 DEF HomeInv, HomeLists
    <3> QED
      BY <2>1, <2>2, <2>3, <2>4, <3>1
  <2>6. CASE w = v
    <3>1. names'[w] = Append(names[w], c) /\ images'[w] = Append(names[w], c)
      BY <1>2, <2>1, <2>6 DEF HomeInv, HomeLists
    <3>2. /\ Len(names'[w]) = Len(names[w]) + 1 /\ Len(names[w]) \in Nat
          /\ \A i \in 1..Len(names[w]) : names'[w][i] = names[w][i]
          /\ names'[w][Len(names[w]) + 1] = c
      BY <2>1, <3>1
    <3>3. \A i \in 1..Len(names[w]) : names[w][i] # c
      BY <1>5, <2>2, <2>6
    <3>4. \A i \in 1..Len(names'[w]) : i \in 1..Len(names[w]) \/ i = Len(names[w]) + 1
      BY <3>2
    <3>5. \A d \in Comics, i \in 1..Len(names'[w]) :
            names'[w][i] = d => Told(Poster(w, d), "ok")' /\ d \in Found[w]
      BY <1>5, <1>6, <2>2, <2>3, <2>6, <3>2, <3>4
    <3>6. \A i, j \in 1..Len(names'[w]) : names'[w][i] = names'[w][j] => i = j
      BY <2>4, <3>2, <3>3, <3>4
    <3> QED
      BY <3>1, <3>5, <3>6
  <2> QED
    BY <2>5, <2>6
<1> QED
  BY <1>3, <1>4, <1>7 DEF HomeInv

LEMMA HomeServiceInv ==
  ASSUME HomeInv, NEW f \in Fetchers, Service(f)
  PROVE  ServiceNext /\ HomeInv'
<1>1. ServiceStep(f) /\ UNCHANGED <<opened, listed, names, images, failed>>
  BY DEF Service, homeVars
<1>2. ServiceNext /\ ServiceInv'
  BY <1>1, ServiceNextInv DEF ServiceNext, HomeInv
<1>3. Wanted'
  <2>1. ASSUME NEW v \in Views, NEW c \in Comics
        PROVE  /\ phase'[ComicFolder(v, c)] = "new" <=> phase[ComicFolder(v, c)] = "new"
               /\ phase'[Poster(v, c)] = "new" <=> phase[Poster(v, c)] = "new"
    BY <1>1, NoNewRequests, HomeRequestsAre DEF HomeInv
  <2> QED
    BY <2>1 DEF HomeInv, Wanted
<1>4. Shown'
  BY <1>1, NothingTakenBack, ShownKept DEF HomeInv
<1>5. HomeLists'
  BY <1>1 DEF HomeInv, HomeLists
<1> QED
  BY <1>2, <1>3, <1>4, <1>5 DEF HomeInv

LEMMA HomeNextInv == HomeInv /\ [Next]_vars => HomeInv' /\ [ServiceNext]_serviceVars
<1> SUFFICES ASSUME HomeInv, [Next]_vars PROVE HomeInv' /\ [ServiceNext]_serviceVars
  OBVIOUS
<1>1. CASE Next
  BY <1>1, HomeOpenInv, HomePageInv, HomeFolderInv, HomePosterInv, HomeServiceInv DEF Next, Answered
<1>2. CASE UNCHANGED vars
  <2>1. UNCHANGED serviceVars /\ ServiceInv'
    BY <1>2, ServiceNextInv DEF vars, HomeInv
  <2>2. UNCHANGED <<phase, said, heard, opened, listed, names, images, failed>>
    BY <1>2 DEF vars, homeVars, serviceVars
  <2>3. HomeLists'
    BY <2>2 DEF HomeInv, HomeLists
  <2>4. Shown'
    BY <2>2, ShownKept DEF Told
  <2>5. Wanted'
    BY <2>2 DEF HomeInv, Wanted
  <2> QED
    BY <2>1, <2>3, <2>4, <2>5 DEF HomeInv
<1> QED
  BY <1>1, <1>2

LEMMA HomeInvariance == Spec => []HomeInv
<1>1. HomeInv /\ [Next]_vars => HomeInv'
  BY HomeNextInv
<1> QED
  BY <1>1, HomeInitInv, PTL DEF Spec

-----------------------------------------------------------------------------
(* The theorems about the home screen *)

\* The home screen uses the service in none but the ways the service knows: all
\* that is proved of the service holds while the screen lists and downloads.
THEOREM HomeImplementsService == Spec => ServiceSpec
<1>1. Init => ServiceInit
  BY DEF Init
<1>2. HomeInv /\ [Next]_vars => [ServiceNext]_serviceVars
  BY HomeNextInv
<1> QED
  BY <1>1, <1>2, HomeInvariance, PTL DEF Spec, ServiceSpec

\* The variables of the screen and of the service under it keep their types.
THEOREM HomeTypeCorrect == Spec => []HomeTypeOK
<1>1. HomeInv => HomeTypeOK
  BY DEF HomeInv, ServiceInv, HomeLists, HomeTypeOK
<1> QED
  BY <1>1, HomeInvariance, PTL

\* Each poster is shown once, over its own title, and on no screen whose query
\* its name does not contain, for any number of screens, pages and comics and
\* however often listAll calls back.
THEOREM PostersAreRight == Spec => []PostersRight
<1>1. HomeInv => PostersRight
  <2> SUFFICES ASSUME HomeInv, NEW v \in Views
               PROVE  /\ images[v] = names[v]
                      /\ \A i, j \in DOMAIN names[v] : names[v][i] = names[v][j] => i = j
                      /\ ShownIn(v) \subseteq Found[v]
    BY DEF PostersRight
  <2>1. DOMAIN names[v] = 1..Len(names[v]) /\ \A i \in 1..Len(names[v]) : names[v][i] \in Comics
    BY DEF HomeInv, HomeLists
  <2> QED
    BY <2>1 DEF HomeInv, Shown, ShownIn
<1> QED
  BY <1>1, HomeInvariance, PTL

-----------------------------------------------------------------------------
(* What a screen has listed and shown *)

\* The pages of the folder "Comic" are asked for one after the other, the next
\* one only after all before have arrived; the last page asked for is the last
\* one there is, has failed, or is still awaited (Frontier).
Made(f) == phase[f] # "new"
LastPage(v, i) == i = Len(Pages) \/ FolderPage(v, i) \in failed

\* What has failed is what was heard of as an error.
FailedTold == failed \subseteq Fetchers /\ \A f \in Fetchers : f \in failed <=> Told(f, "error")

PagesInTurn ==
  \A v \in Views, i, j \in DOMAIN Pages :
    j < i /\ Made(FolderPage(v, i)) => Taken(FolderPage(v, j)) /\ FolderPage(v, j) \notin failed

PagesRead ==
  \A v \in Views, i \in DOMAIN Pages :
    Taken(FolderPage(v, i)) /\ FolderPage(v, i) \notin failed => Pages[i] \subseteq listed[v]

Frontier ==
  \A v \in opened : \E i \in DOMAIN Pages :
    Made(FolderPage(v, i)) /\ (Taken(FolderPage(v, i)) => LastPage(v, i))

\* The folders that the query matches are listed once the pages are, and a
\* poster is asked for once its folder is; it is shown unless it fails.
FoldersAsked ==
  \A v \in Views, i \in DOMAIN Pages :
    Taken(FolderPage(v, i)) /\ LastPage(v, i) =>
      \A c \in listed[v] \intersect Found[v] : Made(ComicFolder(v, c))

FoldersListed ==
  \A v \in Views, c \in Comics : Made(ComicFolder(v, c)) => c \in listed[v]

PostersAsked ==
  \A v \in Views, c \in Comics :
    Made(Poster(v, c)) <=>
      c \in WithPoster /\ Taken(ComicFolder(v, c)) /\ ComicFolder(v, c) \notin failed

PostersShown ==
  \A v \in Views, c \in Comics :
    c \in ShownIn(v) <=> Told(Poster(v, c), "ok")

PagesInv == PagesInTurn /\ PagesRead /\ Frontier /\ FoldersAsked /\ FoldersListed
ListInv == FailedTold /\ PagesInv /\ PostersAsked /\ PostersShown

LEMMA PagesDiffer ==
  ASSUME NEW v, NEW w, NEW i, NEW j
  PROVE  FolderPage(v, i) = FolderPage(w, j) => v = w /\ i = j
BY DEF FolderPage

LEMMA ListInit == Init => ListInv
<1> SUFFICES ASSUME Init PROVE ListInv
  OBVIOUS
<1>1. \A f \in Fetchers : ~Made(f) /\ ~Taken(f) /\ \A r : ~Told(f, r)
  BY DEF Init, ServiceInit, Made, Taken, Told
<1>2. \A v \in Views : ShownIn(v) = {}
  BY DEF Init, ShownIn
<1>3. PagesInTurn /\ PagesRead /\ Frontier /\ FoldersAsked /\ FoldersListed
  BY <1>1, HomeRequestsAre DEF Init, PagesInTurn, PagesRead, Frontier, FoldersAsked, FoldersListed
<1>4. PostersAsked /\ PostersShown
  BY <1>1, <1>2, HomeRequestsAre DEF PostersAsked, PostersShown
<1>5. FailedTold
  BY <1>1 DEF Init, FailedTold
<1> QED
  BY <1>3, <1>4, <1>5 DEF ListInv, PagesInv

\* What has been heard of has been asked for.
LEMMA TakenIsMade ==
  ASSUME HomeInv, NEW f \in Fetchers, Taken(f)
  PROVE  Made(f)
BY HeardIs DEF HomeInv, Taken, Made

\* No request of the screens is made or taken, and they stay as they are.
LEMMA ListKept ==
  ASSUME HomeInv, ListInv, UNCHANGED <<opened, listed, names, failed>>,
         \A f \in Fetchers : (phase'[f] = "new" <=> phase[f] = "new")
                             /\ (Taken(f)' <=> Taken(f))
                             /\ \A r : Told(f, r)' <=> Told(f, r)
  PROVE  ListInv'
<1>1. /\ \A v \in Views, i \in DOMAIN Pages :
           /\ Made(FolderPage(v, i))' <=> Made(FolderPage(v, i))
           /\ Taken(FolderPage(v, i))' <=> Taken(FolderPage(v, i))
           /\ LastPage(v, i)' <=> LastPage(v, i)
      /\ \A v \in Views, c \in Comics :
           /\ Made(ComicFolder(v, c))' <=> Made(ComicFolder(v, c))
           /\ Taken(ComicFolder(v, c))' <=> Taken(ComicFolder(v, c))
           /\ Made(Poster(v, c))' <=> Made(Poster(v, c))
           /\ Told(Poster(v, c), "ok")' <=> Told(Poster(v, c), "ok")
      /\ \A v \in Views : ShownIn(v)' = ShownIn(v)
  BY HomeRequestsAre DEF Made, LastPage, ShownIn
<1>2. FailedTold'
  BY DEF ListInv, FailedTold
<1>3. PagesInTurn' /\ PagesRead'
  BY <1>1 DEF ListInv, PagesInv, PagesInTurn, PagesRead
<1>4. Frontier'
  BY <1>1 DEF ListInv, PagesInv, Frontier, HomeInv, HomeLists
<1>5. FoldersAsked' /\ FoldersListed'
  BY <1>1, HomeConstants DEF ListInv, PagesInv, FoldersAsked, FoldersListed, HomeInv, HomeLists
<1>6. PostersAsked' /\ PostersShown'
  BY <1>1 DEF ListInv, PostersAsked, PostersShown
<1> QED
  BY <1>2, <1>3, <1>4, <1>5, <1>6 DEF ListInv, PagesInv

\* What an end that is heard of does to the requests.
LEMMA HeardRequests ==
  ASSUME HomeInv, ListInv, NEW f \in Fetchers, NEW result \in {"ok", "error"},
         NEW more \in SUBSET Fetchers, Hear(f, result, more)
  PROVE  /\ Made(f)
         /\ f \notin Oversize => ~Taken(f) /\ f \notin failed
         /\ \A g \in Fetchers : /\ Made(g)' <=> Made(g) \/ g \in more
                                /\ Taken(g)' <=> Taken(g) \/ g = f
                                /\ \A r : Told(g, r)' <=> Told(g, r) \/ (g = f /\ r = result)
                                /\ g \in more => ~Made(g) /\ ~Taken(g)
<1>1. /\ phase[f] # "new"
      /\ f \notin userStopped => ~Taken(f)
      /\ \A g \in more : phase[g] = "new"
      /\ phase' = [g \in Fetchers |-> IF g \in more THEN "enqueued" ELSE phase[g]]
      /\ \A g \in Fetchers : /\ Taken(g)' <=> Taken(g) \/ g = f
                             /\ \A r : Told(g, r)' <=> Told(g, r) \/ (g = f /\ r = result)
  BY HearsNext DEF HomeInv
<1>2. \A g \in Fetchers : Made(g)' <=> Made(g) \/ g \in more
  BY <1>1 DEF Made
<1>3. \A g \in more : ~Made(g) /\ ~Taken(g)
  BY <1>1, TakenIsMade DEF Made
<1>4. f \notin Oversize => ~Taken(f)
  BY <1>1 DEF HomeInv, ServiceInv, CancelledRight
<1>5. ~Taken(f) => f \notin failed
  <2>1. heard[f] \in Nat
    BY DEF HomeInv, ServiceInv, TypeOK
  <2>2. ~Taken(f) => ~Told(f, "error")
    BY <2>1 DEF Taken, Told
  <2> QED
    BY <2>2 DEF ListInv, FailedTold
<1> QED
  BY <1>1, <1>2, <1>3, <1>4, <1>5 DEF Made

\* What fails is remembered.
LEMMA FailedKept ==
  ASSUME HomeInv, ListInv, NEW f \in Fetchers, NEW result \in {"ok", "error"},
         NEW more \in SUBSET Fetchers, Hear(f, result, more), NEW new,
         failed' = failed \union new, new = IF result = "error" THEN {f} ELSE {}
  PROVE  FailedTold'
BY HeardRequests DEF ListInv, FailedTold

\* The listings are heard of once.
LEMMA ListingsInTime ==
  ASSUME NEW v \in Views
  PROVE  /\ \A i \in DOMAIN Pages : FolderPage(v, i) \notin Oversize
         /\ \A c \in Comics : ComicFolder(v, c) \notin Oversize
BY HomeAssumption, KindsDiffer

\* The page that is answered is the last one asked for.
LEMMA FrontierIs ==
  ASSUME HomeInv, ListInv, NEW v \in Views, NEW i \in DOMAIN Pages,
         Made(FolderPage(v, i)), ~Taken(FolderPage(v, i))
  PROVE  \A j \in DOMAIN Pages : j # i =>
           /\ Made(FolderPage(v, j)) => j < i /\ Taken(FolderPage(v, j)) /\ ~LastPage(v, j)
           /\ Taken(FolderPage(v, j)) => j < i /\ ~LastPage(v, j)
<1> SUFFICES ASSUME NEW j \in DOMAIN Pages, j # i, Made(FolderPage(v, j)) \/ Taken(FolderPage(v, j))
             PROVE  j < i /\ Taken(FolderPage(v, j)) /\ ~LastPage(v, j)
  OBVIOUS
<1>1. i \in 1..Len(Pages) /\ j \in 1..Len(Pages) /\ Len(Pages) \in Nat
  BY HomeConstants
<1>2. Made(FolderPage(v, j))
  BY HomeRequestsAre, TakenIsMade
<1>3. j < i
  BY <1>1, <1>2 DEF ListInv, PagesInv, PagesInTurn
<1>4. Taken(FolderPage(v, j)) /\ FolderPage(v, j) \notin failed
  BY <1>3 DEF ListInv, PagesInv, PagesInTurn
<1> QED
  BY <1>1, <1>3, <1>4 DEF LastPage

\* Nothing happens to the folders and posters but that folders are asked for.
LEMMA FoldersKept ==
  ASSUME HomeInv, ListInv, NEW new \in SUBSET failed',
         failed' = failed \union new, names' = names,
         \A w \in Views, c \in Comics :
           /\ ComicFolder(w, c) \notin new /\ Poster(w, c) \notin new
           /\ Taken(ComicFolder(w, c))' <=> Taken(ComicFolder(w, c))
           /\ Made(Poster(w, c))' <=> Made(Poster(w, c))
           /\ Told(Poster(w, c), "ok")' <=> Told(Poster(w, c), "ok")
  PROVE  PostersAsked' /\ PostersShown'
<1>1. \A w \in Views : ShownIn(w)' = ShownIn(w)
  BY DEF ShownIn
<1> QED
  BY <1>1 DEF ListInv, PostersAsked, PostersShown

LEMMA PageListed ==
  ASSUME HomeInv, ListInv, NEW v \in Views, NEW i \in DOMAIN Pages,
         PageArrives(v, i) \/ PageFails(v, i)
  PROVE  ListInv'
<1> DEFINE f == FolderPage(v, i)
           prefixes == listed[v] \union Pages[i]
           read == IF PageArrives(v, i) THEN prefixes ELSE listed[v]
           result == IF PageArrives(v, i) THEN "ok" ELSE "error"
           new == IF result = "error" THEN {f} ELSE {}
           done == i = Len(Pages) \/ new # {}
           more == IF done THEN FoldersWanted(v, read) ELSE {FolderPage(v, i + 1)}
<1>1. /\ i \in 1..Len(Pages) /\ Len(Pages) \in Nat /\ DOMAIN Pages = 1..Len(Pages)
      /\ f \in Fetchers /\ Pages[i] \subseteq Comics /\ listed[v] \subseteq Comics
      /\ listed \in [Views -> SUBSET Comics]
  BY HomeConstants, HomeRequestsAre DEF HomeInv, HomeLists
<1>2. /\ Hear(f, result, more) /\ result \in {"ok", "error"} /\ listed' = [listed EXCEPT ![v] = read]
      /\ failed' = failed \union new /\ opened' = opened /\ names' = names
  <2>1. CASE PageArrives(v, i)
    BY <1>1, <2>1 DEF PageArrives, AfterPage
  <2>2. CASE ~PageArrives(v, i)
    BY <1>1, <2>2 DEF PageFails
  <2> QED
    BY <2>1, <2>2
<1>3. /\ read \in SUBSET Comics /\ listed[v] \subseteq read
      /\ new = {} => Pages[i] \subseteq read
      /\ new \subseteq {f}
  BY <1>1
<1>4. /\ done => \A g : g \in more <=> \E c \in read \intersect Found[v] : g = ComicFolder(v, c)
      /\ ~done => i + 1 \in DOMAIN Pages /\ more = {FolderPage(v, i + 1)}
      /\ done <=> (i = Len(Pages) \/ new # {})
  BY <1>1 DEF FoldersWanted
<1> HIDE DEF f, prefixes, read, result, new, done, more
<1>5. more \in SUBSET Fetchers
  BY <1>3, <1>4, HomeRequestsAre
<1>6. /\ Made(f) /\ ~Taken(f) /\ f \notin failed
      /\ \A g \in Fetchers : /\ Made(g)' <=> Made(g) \/ g \in more
                             /\ Taken(g)' <=> Taken(g) \/ g = f
                             /\ \A r : g # f => (Told(g, r)' <=> Told(g, r))
                             /\ g \in more => ~Made(g) /\ ~Taken(g)
  BY <1>1, <1>2, <1>5, HeardRequests, ListingsInTime DEF f
<1>7. \A w \in Views, j \in DOMAIN Pages :
        /\ FolderPage(w, j) = f => w = v /\ j = i
        /\ Made(FolderPage(w, j))' <=>
             Made(FolderPage(w, j)) \/ (~done /\ w = v /\ j = i + 1)
        /\ Taken(FolderPage(w, j))' <=> Taken(FolderPage(w, j)) \/ (w = v /\ j = i)
        /\ LastPage(w, j)' <=> LastPage(w, j) \/ (w = v /\ j = i /\ new # {})
  BY <1>1, <1>2, <1>3, <1>4, <1>6, HomeRequestsAre, PagesDiffer, KindsDiffer DEF f, LastPage
<1>8. \A w \in Views, c \in Comics :
        /\ ComicFolder(w, c) # f /\ Poster(w, c) # f
        /\ Made(ComicFolder(w, c))' <=>
             Made(ComicFolder(w, c)) \/ (done /\ w = v /\ c \in read \intersect Found[v])
        /\ Taken(ComicFolder(w, c))' <=> Taken(ComicFolder(w, c))
        /\ Made(Poster(w, c))' <=> Made(Poster(w, c))
        /\ Told(Poster(w, c), "ok")' <=> Told(Poster(w, c), "ok")
  <2>1. \A w \in Views, c \in Comics :
          /\ ComicFolder(w, c) # f /\ Poster(w, c) # f /\ Poster(w, c) \notin more
          /\ ComicFolder(w, c) \in more <=> (done /\ w = v /\ c \in read \intersect Found[v])
    BY <1>3, <1>4, KindsDiffer DEF f
  <2> QED
    BY <1>6, <2>1, HomeRequestsAre
<1>9. /\ \A w \in Views : listed[w] \subseteq listed'[w] /\ (w # v => listed'[w] = listed[w])
      /\ listed'[v] = read
  BY <1>1, <1>2, <1>3
<1>10. \A j \in DOMAIN Pages : j # i =>
         /\ Made(FolderPage(v, j)) => j < i /\ Taken(FolderPage(v, j)) /\ ~LastPage(v, j)
         /\ Taken(FolderPage(v, j)) => j < i /\ ~LastPage(v, j)
  BY <1>6, FrontierIs DEF f
<1>11. FailedTold'
  BY <1>1, <1>2, <1>5, FailedKept DEF new
<1>12. PagesInTurn'
  <2> SUFFICES ASSUME NEW w \in Views, NEW k \in DOMAIN Pages, NEW j \in DOMAIN Pages,
                      j < k, Made(FolderPage(w, k))'
               PROVE  Taken(FolderPage(w, j))' /\ FolderPage(w, j) \notin failed'
    BY DEF PagesInTurn
  <2>1. CASE Made(FolderPage(w, k))
    <3>1. Taken(FolderPage(w, j)) /\ FolderPage(w, j) \notin failed
      BY <2>1 DEF ListInv, PagesInv, PagesInTurn
    <3>2. FolderPage(w, j) # f
      BY <1>6, <3>1
    <3> QED
      BY <1>2, <1>3, <1>7, <3>1, <3>2
  <2>2. CASE ~done /\ w = v /\ k = i + 1
    <3>1. new = {} /\ j \in 1..i /\ failed' = failed
      BY <1>1, <1>2, <1>4, <2>2
    <3>2. CASE j = i
      BY <1>6, <1>7, <2>2, <3>1, <3>2 DEF f
    <3>3. CASE j < i
      BY <1>6, <1>7, <2>2, <3>1, <3>3 DEF f, ListInv, PagesInv, PagesInTurn
    <3> QED
      BY <1>1, <3>1, <3>2, <3>3
  <2> QED
    BY <1>7, <2>1, <2>2
<1>13. PagesRead'
  <2> SUFFICES ASSUME NEW w \in Views, NEW j \in DOMAIN Pages,
                      Taken(FolderPage(w, j))', FolderPage(w, j) \notin failed'
               PROVE  Pages[j] \subseteq listed'[w]
    BY DEF PagesRead
  <2>1. CASE Taken(FolderPage(w, j))
    BY <1>2, <1>9, <2>1 DEF ListInv, PagesInv, PagesRead
  <2>2. CASE w = v /\ j = i
    BY <1>2, <1>3, <1>9, <2>2 DEF f
  <2> QED
    BY <1>7, <2>1, <2>2
<1>14. Frontier'
  <2> SUFFICES ASSUME NEW w \in opened
               PROVE  \E j \in DOMAIN Pages :
                        Made(FolderPage(w, j))' /\ (Taken(FolderPage(w, j))' => LastPage(w, j)')
    BY <1>2 DEF Frontier
  <2>1. w \in Views
    BY DEF HomeInv, HomeLists
  <2>2. CASE w # v
    BY <1>7, <2>1, <2>2 DEF ListInv, PagesInv, Frontier
  <2>3. CASE w = v /\ done
    <3>1. Made(FolderPage(v, i))' /\ LastPage(v, i)'
      BY <1>4, <1>6, <1>7, <2>3 DEF f, LastPage
    <3> QED
      BY <2>3, <3>1
  <2>4. CASE w = v /\ ~done
    <3>1. i + 1 \in DOMAIN Pages /\ Made(FolderPage(v, i + 1))'
      BY <1>4, <1>7, <2>4
    <3>2. ~Taken(FolderPage(v, i + 1))'
      BY <1>1, <1>4, <1>6, <1>7, <2>4, <3>1, HomeRequestsAre
    <3> QED
      BY <2>4, <3>1, <3>2
  <2> QED
    BY <2>2, <2>3, <2>4
<1>15. FoldersAsked'
  <2> SUFFICES ASSUME NEW w \in Views, NEW j \in DOMAIN Pages,
                      Taken(FolderPage(w, j))', LastPage(w, j)',
                      NEW c \in listed'[w] \intersect Found[w]
               PROVE  Made(ComicFolder(w, c))'
    BY DEF FoldersAsked
  <2>1. c \in Comics
    BY <1>1, <1>3, <1>9
  <2>2. CASE w # v
    BY <1>7, <1>8, <1>9, <2>1, <2>2 DEF ListInv, PagesInv, FoldersAsked
  <2>3. CASE w = v /\ j = i
    <3>1. done
      BY <1>4, <1>7, <2>3, <1>6 DEF LastPage, f
    <3> QED
      BY <1>8, <1>9, <2>1, <2>3, <3>1
  <2>4. CASE w = v /\ j # i
    BY <1>7, <1>10, <2>4
  <2> QED
    BY <2>2, <2>3, <2>4
<1>16. FoldersListed'
  BY <1>8, <1>9 DEF ListInv, PagesInv, FoldersListed
<1>17. PostersAsked' /\ PostersShown'
  <2>1. new \in SUBSET failed' /\ \A w \in Views, c \in Comics : ComicFolder(w, c) \notin new /\ Poster(w, c) \notin new
    BY <1>2, <1>3, <1>8
  <2> QED
    BY <1>2, <1>8, <2>1, FoldersKept
<1> QED
  BY <1>11, <1>12, <1>13, <1>14, <1>15, <1>16, <1>17 DEF ListInv, PagesInv

\* A step that leaves the pages alone, and makes no request for a folder.
LEMMA PagesKept ==
  ASSUME HomeInv, ListInv, UNCHANGED <<opened, listed>>,
         \A w \in Views, j \in DOMAIN Pages :
           /\ Made(FolderPage(w, j))' <=> Made(FolderPage(w, j))
           /\ Taken(FolderPage(w, j))' <=> Taken(FolderPage(w, j))
           /\ FolderPage(w, j) \in failed' <=> FolderPage(w, j) \in failed,
         \A w \in Views, c \in Comics : Made(ComicFolder(w, c))' <=> Made(ComicFolder(w, c))
  PROVE  PagesInv'
<1>1. \A w \in Views, j \in DOMAIN Pages : LastPage(w, j)' <=> LastPage(w, j)
  BY DEF LastPage
<1>2. PagesInTurn' /\ PagesRead'
  BY DEF ListInv, PagesInv, PagesInTurn, PagesRead
<1>3. Frontier'
  BY <1>1 DEF ListInv, PagesInv, Frontier, HomeInv, HomeLists
<1>4. FoldersAsked' /\ FoldersListed'
  BY <1>1 DEF ListInv, PagesInv, FoldersAsked, FoldersListed, HomeInv, HomeLists
<1> QED
  BY <1>2, <1>3, <1>4 DEF PagesInv

LEMMA FolderListed ==
  ASSUME HomeInv, ListInv, NEW v \in Views, NEW c \in Comics,
         FolderArrives(v, c) \/ FolderFails(v, c)
  PROVE  ListInv'
<1> DEFINE f == ComicFolder(v, c)
           ok == FolderArrives(v, c)
           more == IF ok /\ c \in WithPoster THEN {Poster(v, c)} ELSE {}
           result == IF ok THEN "ok" ELSE "error"
           new == IF result = "error" THEN {f} ELSE {}
<1>1. f \in Fetchers /\ more \in SUBSET Fetchers
  BY HomeRequestsAre
<1>2. /\ Hear(f, result, more) /\ result \in {"ok", "error"} /\ failed' = failed \union new
      /\ opened' = opened /\ listed' = listed /\ names' = names
  BY DEF FolderArrives, FolderFails, homeVars
<1>3. /\ new \subseteq {f} /\ (ok <=> new = {}) /\ (ok <=> result = "ok")
      /\ \A g : g \in more <=> ok /\ c \in WithPoster /\ g = Poster(v, c)
  OBVIOUS
<1> HIDE DEF f, ok, more, result, new
<1>4. /\ Made(f) /\ ~Taken(f) /\ f \notin failed
      /\ \A g \in Fetchers : /\ Made(g)' <=> Made(g) \/ g \in more
                             /\ Taken(g)' <=> Taken(g) \/ g = f
                             /\ \A r : g # f => (Told(g, r)' <=> Told(g, r))
  BY <1>1, <1>2, HeardRequests, ListingsInTime DEF f
<1>5. /\ \A w \in Views, j \in DOMAIN Pages : FolderPage(w, j) # f /\ FolderPage(w, j) \notin more
      /\ \A w \in Views, d \in Comics :
           /\ ComicFolder(w, d) = f <=> w = v /\ d = c
           /\ ComicFolder(w, d) \notin more
           /\ Poster(w, d) # f
           /\ Poster(w, d) \in more <=> ok /\ c \in WithPoster /\ w = v /\ d = c
  BY <1>3, KindsDiffer DEF f
<1>6. PagesInv'
  BY <1>2, <1>3, <1>4, <1>5, HomeRequestsAre, PagesKept
<1>7. FailedTold'
  BY <1>1, <1>2, FailedKept DEF new
<1>8. /\ \A w \in Views : ShownIn(w)' = ShownIn(w)
      /\ \A w \in Views, d \in Comics :
           Told(Poster(w, d), "ok")' <=> Told(Poster(w, d), "ok")
  BY <1>2, <1>3, <1>4, <1>5, HomeRequestsAre DEF ShownIn
<1>9. PostersShown'
  BY <1>8 DEF ListInv, PostersShown
<1>10. PostersAsked'
  <2> SUFFICES ASSUME NEW w \in Views, NEW d \in Comics
               PROVE  Made(Poster(w, d))' <=>
                        d \in WithPoster /\ Taken(ComicFolder(w, d))' /\ ComicFolder(w, d) \notin failed'
    BY DEF PostersAsked
  <2>1. Made(Poster(w, d)) <=> d \in WithPoster /\ Taken(ComicFolder(w, d)) /\ ComicFolder(w, d) \notin failed
    BY DEF ListInv, PostersAsked
  <2>2. ComicFolder(w, d) \in Fetchers /\ Poster(w, d) \in Fetchers
    BY HomeRequestsAre
  <2>3. CASE w = v /\ d = c
    BY <1>2, <1>3, <1>4, <1>5, <2>1, <2>2, <2>3 DEF f
  <2>4. CASE ~(w = v /\ d = c)
    BY <1>2, <1>3, <1>4, <1>5, <2>1, <2>2, <2>4
  <2> QED
    BY <2>3, <2>4
<1> QED
  BY <1>6, <1>7, <1>9, <1>10 DEF ListInv

LEMMA PosterListed ==
  ASSUME HomeInv, ListInv, NEW v \in Views, NEW c \in Comics,
         PosterArrives(v, c) \/ PosterFails(v, c)
  PROVE  ListInv'
<1> DEFINE f == Poster(v, c)
           ok == PosterArrives(v, c)
           result == IF ok THEN "ok" ELSE "error"
           new == IF result = "error" THEN {f} ELSE {}
<1>1. f \in Fetchers
  BY HomeRequestsAre
<1>2. /\ Hear(f, result, {}) /\ result \in {"ok", "error"} /\ failed' = failed \union new /\ opened' = opened /\ listed' = listed
      /\ IF ok THEN names' = [names EXCEPT ![v] = Append(@, c)] ELSE names' = names
  BY DEF PosterArrives, PosterFails
<1>3. new \subseteq {f} /\ (ok <=> result = "ok")
  OBVIOUS
<1>4. /\ \A w \in Views : w # v \/ ~ok => ShownIn(w)' = ShownIn(w)
      /\ ok => ShownIn(v)' = ShownIn(v) \union {c}
  <2>1. names \in [Views -> Seq(Comics)]
    BY DEF HomeInv, HomeLists
  <2>2. \A w \in Views : w # v \/ ~ok => names'[w] = names[w]
    BY <1>2, <2>1
  <2>3. ok => names'[v] = Append(names[v], c)
    BY <1>2, <2>1
  <2>4. \A q \in Seq(Comics) :
          {Append(q, c)[i] : i \in DOMAIN Append(q, c)} = {q[i] : i \in DOMAIN q} \union {c}
    <3> SUFFICES ASSUME NEW q \in Seq(Comics)
                 PROVE  {Append(q, c)[i] : i \in DOMAIN Append(q, c)} = {q[i] : i \in DOMAIN q} \union {c}
      OBVIOUS
    <3>1. /\ DOMAIN q = 1..Len(q) /\ Len(q) \in Nat /\ DOMAIN Append(q, c) = 1..(Len(q) + 1)
          /\ \A i \in 1..Len(q) : Append(q, c)[i] = q[i]
          /\ Append(q, c)[Len(q) + 1] = c
      OBVIOUS
    <3>2. \A i \in 1..(Len(q) + 1) : i \in 1..Len(q) \/ i = Len(q) + 1
      BY <3>1
    <3>3. 1..Len(q) \subseteq 1..(Len(q) + 1) /\ Len(q) + 1 \in 1..(Len(q) + 1)
      BY <3>1
    <3> HIDE <3>1
    <3>4. \A x : x \in {Append(q, c)[i] : i \in DOMAIN Append(q, c)} =>
                 x \in {q[i] : i \in DOMAIN q} \union {c}
      BY <3>1, <3>2
    <3>5. \A x : x \in {q[i] : i \in DOMAIN q} \union {c} =>
                 x \in {Append(q, c)[i] : i \in DOMAIN Append(q, c)}
      BY <3>1, <3>3
    <3> QED
      BY <3>4, <3>5
  <2>5. ASSUME NEW w \in Views, names'[w] = names[w] PROVE ShownIn(w)' = ShownIn(w)
    BY <2>5 DEF ShownIn
  <2>6. ASSUME ok PROVE ShownIn(v)' = ShownIn(v) \union {c}
    <3>1. names[v] \in Seq(Comics)
      BY <2>1
    <3>2. ShownIn(v)' = {Append(names[v], c)[i] : i \in DOMAIN Append(names[v], c)}
      BY <2>3, <2>6 DEF ShownIn
    <3> QED
      BY <2>4, <3>1, <3>2 DEF ShownIn
  <2> QED
    BY <2>2, <2>5, <2>6
<1> HIDE DEF f, ok, result, new
<1>5. \A g \in Fetchers :
        /\ Made(g)' <=> Made(g)
        /\ g # f => (Taken(g)' <=> Taken(g))
        /\ Told(g, "ok")' <=> Told(g, "ok") \/ (g = f /\ ok)
  BY <1>1, <1>2, <1>3, HeardRequests
<1>6. /\ \A w \in Views, j \in DOMAIN Pages : FolderPage(w, j) # f
      /\ \A w \in Views, d \in Comics :
           ComicFolder(w, d) # f /\ (Poster(w, d) = f <=> w = v /\ d = c)
  BY KindsDiffer DEF f
<1>7. PagesInv'
  BY <1>2, <1>3, <1>5, <1>6, HomeRequestsAre, PagesKept
<1>8. FailedTold'
  BY <1>1, <1>2, FailedKept DEF new
<1>9. PostersAsked'
  BY <1>2, <1>3, <1>5, <1>6, HomeRequestsAre DEF ListInv, PostersAsked
<1>10. PostersShown'
  <2> SUFFICES ASSUME NEW w \in Views, NEW d \in Comics
               PROVE  d \in ShownIn(w)' <=> Told(Poster(w, d), "ok")'
    BY DEF PostersShown
  <2>1. d \in ShownIn(w) <=> Told(Poster(w, d), "ok")
    BY DEF ListInv, PostersShown
  <2>2. Poster(w, d) \in Fetchers
    BY HomeRequestsAre
  <2>3. CASE w = v /\ d = c
    BY <1>2, <1>3, <1>4, <1>5, <1>6, <2>1, <2>2, <2>3 DEF f
  <2>4. CASE ~(w = v /\ d = c)
    BY <1>2, <1>3, <1>4, <1>5, <1>6, <2>1, <2>2, <2>4
  <2> QED
    BY <2>3, <2>4
<1> QED
  BY <1>7, <1>8, <1>9, <1>10 DEF ListInv

LEMMA OpenListed ==
  ASSUME HomeInv, ListInv, NEW v \in Views, Open(v)
  PROVE  ListInv'
<1> DEFINE f == FolderPage(v, 1)
<1>1. /\ 1 \in DOMAIN Pages /\ DOMAIN Pages = 1..Len(Pages) /\ Len(Pages) \in Nat /\ f \in Fetchers
  BY HomeConstants, HomeRequestsAre
<1>2. /\ Enqueue({f}) /\ UNCHANGED <<listed, names, failed>> /\ opened' = opened \union {v}
  BY DEF Open
<1> HIDE DEF f
<1>3. /\ ~Taken(f)
      /\ \A g \in Fetchers : /\ Made(g)' <=> Made(g) \/ g = f
                             /\ Taken(g)' <=> Taken(g)
                             /\ \A r : Told(g, r)' <=> Told(g, r)
  <2>1. /\ phase[f] = "new" /\ UNCHANGED <<heard, said>>
        /\ phase' = [g \in Fetchers |-> IF g \in {f} THEN "enqueued" ELSE phase[g]]
    BY <1>2 DEF Enqueue, answerVars
  <2> QED
    BY <1>1, <2>1, TakenIsMade DEF Made, Taken, Told
<1>4. /\ \A w \in Views, j \in DOMAIN Pages : FolderPage(w, j) = f <=> w = v /\ j = 1
      /\ \A w \in Views, d \in Comics : ComicFolder(w, d) # f /\ Poster(w, d) # f
  BY PagesDiffer, KindsDiffer DEF f
<1>5. /\ \A w \in Views, j \in DOMAIN Pages :
           /\ Made(FolderPage(w, j))' <=> Made(FolderPage(w, j)) \/ (w = v /\ j = 1)
           /\ Taken(FolderPage(w, j))' <=> Taken(FolderPage(w, j))
           /\ LastPage(w, j)' <=> LastPage(w, j)
      /\ \A w \in Views, d \in Comics :
           /\ Made(ComicFolder(w, d))' <=> Made(ComicFolder(w, d))
           /\ Taken(ComicFolder(w, d))' <=> Taken(ComicFolder(w, d))
           /\ Made(Poster(w, d))' <=> Made(Poster(w, d))
           /\ Told(Poster(w, d), "ok")' <=> Told(Poster(w, d), "ok")
      /\ \A w \in Views : ShownIn(w)' = ShownIn(w)
  BY <1>2, <1>3, <1>4, HomeRequestsAre DEF LastPage, ShownIn
<1>6. FailedTold'
  BY <1>2, <1>3 DEF ListInv, FailedTold
<1>7. PagesInTurn'
  BY <1>1, <1>2, <1>5 DEF ListInv, PagesInv, PagesInTurn
<1>8. PagesRead' /\ FoldersAsked' /\ FoldersListed'
  BY <1>2, <1>5 DEF ListInv, PagesInv, PagesRead, FoldersAsked, FoldersListed, HomeInv, HomeLists
<1>9. Frontier'
  <2> SUFFICES ASSUME NEW w \in opened \union {v}
               PROVE  \E j \in DOMAIN Pages :
                        Made(FolderPage(w, j))' /\ (Taken(FolderPage(w, j))' => LastPage(w, j)')
    BY <1>2 DEF Frontier
  <2>1. CASE w = v
    BY <1>1, <1>3, <1>5, <2>1 DEF f
  <2>2. CASE w \in opened
    BY <1>5, <2>2 DEF ListInv, PagesInv, Frontier, HomeInv, HomeLists
  <2> QED
    BY <2>1, <2>2
<1>10. PostersAsked' /\ PostersShown'
  BY <1>2, <1>5 DEF ListInv, PostersAsked, PostersShown
<1> QED
  BY <1>6, <1>7, <1>8, <1>9, <1>10 DEF ListInv, PagesInv

LEMMA ListNext == HomeInv /\ ListInv /\ [Next]_vars => ListInv'
<1> SUFFICES ASSUME HomeInv, ListInv, [Next]_vars PROVE ListInv'
  OBVIOUS
<1>1. ASSUME NEW f \in Fetchers, Service(f) PROVE ListInv'
  <2>1. ServiceStep(f) /\ UNCHANGED <<opened, listed, names, failed>>
    BY <1>1 DEF Service, homeVars
  <2>2. \A g \in Fetchers : /\ phase'[g] = "new" <=> phase[g] = "new"
                            /\ Taken(g)' <=> Taken(g)
                            /\ \A r : Told(g, r)' <=> Told(g, r)
    BY <2>1, NoNewRequests, NothingTakenBack DEF HomeInv
  <2> QED
    BY <2>1, <2>2, ListKept
<1>2. CASE UNCHANGED vars
  BY <1>2, ListKept DEF vars, homeVars, serviceVars, Taken, Told
<1> QED
  BY <1>1, <1>2, OpenListed, PageListed, FolderListed, PosterListed DEF Next, Answered

\* Who has heard of an end has been told which; of both kinds only if the
\* download was cancelled.
LEMMA WhatIsTold ==
  ASSUME ServiceInv, NEW f \in Fetchers
  PROVE  /\ Taken(f) => Told(f, "ok") \/ Told(f, "error")
         /\ Told(f, "ok") => Taken(f)
         /\ Told(f, "ok") /\ Told(f, "error") => f \in userStopped
<1>1. /\ said[f] \in Seq({"ok", "error"}) /\ heard[f] \in Nat /\ heard[f] <= Len(said[f])
      /\ f \notin userStopped => Len(said[f]) <= 1
  BY HeardIs
<1>2. Taken(f) => Told(f, "ok") \/ Told(f, "error")
  <2> SUFFICES ASSUME heard[f] > 0 PROVE Told(f, "ok") \/ Told(f, "error")
    BY DEF Taken
  <2>1. 1 \in 1..heard[f] /\ said[f][1] \in {"ok", "error"}
    BY <1>1
  <2> QED
    BY <2>1 DEF Told
<1>3. \A r : Told(f, r) => Taken(f)
  BY <1>1 DEF Told, Taken
<1>4. ASSUME Told(f, "ok"), Told(f, "error"), f \notin userStopped PROVE FALSE
  <2>1. PICK i \in 1..heard[f] : said[f][i] = "ok"
    BY <1>4 DEF Told
  <2>2. PICK j \in 1..heard[f] : said[f][j] = "error"
    BY <1>4 DEF Told
  <2>3. i = 1 /\ j = 1
    BY <1>1, <1>4
  <2> QED
    BY <2>1, <2>2, <2>3
<1> QED
  BY <1>2, <1>3, <1>4

\* A screen at rest shows all the posters of the comics it has found in the
\* pages before the one that failed, but for those that failed themselves (a
\* poster whose download was cancelled may be shown and failed), for
\* any number of pages, screens and comics; the last page asked for tells
\* whether these are all.
THEOREM ScreensAreComplete == Spec => []ScreenComplete
<1>1. HomeInv /\ ListInv => ScreenComplete
  <2> SUFFICES ASSUME HomeInv, ListInv, NEW v \in opened,
                      \A f \in RequestsOf(v) : ~InFlight(f)
               PROVE  LET wanted == listed[v] \intersect Found[v] \intersect WithPoster
                      IN
                      /\ {c \in wanted : {ComicFolder(v, c), Poster(v, c)} \intersect failed = {}}
                            \subseteq ShownIn(v)
                      /\ ShownIn(v) \subseteq
                            {c \in wanted : {ComicFolder(v, c), Poster(v, c)} \intersect failed
                                               \subseteq userStopped}
                      /\ \/ listed[v] = Comics
                         \/ \E i \in DOMAIN Pages : FolderPage(v, i) \in failed
    BY DEF ScreenComplete
  <2>1. v \in Views
    BY DEF HomeInv, HomeLists
  <2>2. /\ \A i \in DOMAIN Pages : Made(FolderPage(v, i)) => Taken(FolderPage(v, i))
        /\ \A c \in Comics : /\ Made(ComicFolder(v, c)) => Taken(ComicFolder(v, c))
                             /\ Made(Poster(v, c)) => Taken(Poster(v, c))
    <3>1. \A f \in RequestsOf(v) : f \in Fetchers
      BY <2>1, HomeAssumption DEF HomeRequests
    <3>2. \A f \in RequestsOf(v) : Made(f) => Taken(f)
      BY <3>1 DEF InFlight, Made, Taken, HomeInv, ServiceInv, TypeOK
    <3> QED
      BY <3>2 DEF RequestsOf
  <2>3. PICK i \in DOMAIN Pages : Made(FolderPage(v, i)) /\ LastPage(v, i)
    BY <2>2 DEF ListInv, PagesInv, Frontier
  <2>4. listed[v] \subseteq Comics
    BY <2>1 DEF HomeInv, HomeLists
  <2>5. \A c \in Comics : Taken(ComicFolder(v, c)) => Made(ComicFolder(v, c))
    BY <2>1, HomeRequestsAre, TakenIsMade
  <2>6. \A c \in Comics : Taken(Poster(v, c)) => Made(Poster(v, c))
    BY <2>1, HomeRequestsAre, TakenIsMade
  <2>7. \A c \in Comics : Made(ComicFolder(v, c)) <=> c \in listed[v] \intersect Found[v]
    <3>1. \A c \in listed[v] \intersect Found[v] : Made(ComicFolder(v, c))
      BY <2>1, <2>2, <2>3 DEF ListInv, PagesInv, FoldersAsked
    <3>2. \A c \in Comics : Made(ComicFolder(v, c)) => c \in listed[v] /\ c \in Found[v]
      BY <2>1 DEF ListInv, PagesInv, FoldersListed, HomeInv, Wanted, Made
    <3> QED
      BY <3>1, <3>2
  <2>8. \A c \in Comics :
          /\ /\ c \in listed[v] \intersect Found[v] \intersect WithPoster
             /\ ComicFolder(v, c) \notin failed /\ Poster(v, c) \notin failed
             => c \in ShownIn(v)
          /\ c \in ShownIn(v) =>
               /\ c \in listed[v] \intersect Found[v] \intersect WithPoster
               /\ ComicFolder(v, c) \notin failed
               /\ Poster(v, c) \in failed => Poster(v, c) \in userStopped
    <3> SUFFICES ASSUME NEW c \in Comics
                 PROVE  /\ /\ c \in listed[v] \intersect Found[v] \intersect WithPoster
                           /\ ComicFolder(v, c) \notin failed /\ Poster(v, c) \notin failed
                           => c \in ShownIn(v)
                        /\ c \in ShownIn(v) =>
                             /\ c \in listed[v] \intersect Found[v] \intersect WithPoster
                             /\ ComicFolder(v, c) \notin failed
                             /\ Poster(v, c) \in failed => Poster(v, c) \in userStopped
      OBVIOUS
    <3>1. Poster(v, c) \in Fetchers /\ ComicFolder(v, c) \in Fetchers
      BY <2>1, HomeRequestsAre
    <3>2. /\ Taken(Poster(v, c)) => Told(Poster(v, c), "ok") \/ Told(Poster(v, c), "error")
          /\ Told(Poster(v, c), "ok") => Taken(Poster(v, c))
          /\ Told(Poster(v, c), "ok") /\ Told(Poster(v, c), "error") => Poster(v, c) \in userStopped
      BY <3>1, WhatIsTold DEF HomeInv
    <3>3. /\ Poster(v, c) \in failed <=> Told(Poster(v, c), "error")
          /\ c \in ShownIn(v) <=> Told(Poster(v, c), "ok")
          /\ Made(Poster(v, c)) <=>
               c \in WithPoster /\ Taken(ComicFolder(v, c)) /\ ComicFolder(v, c) \notin failed
      BY <2>1, <3>1 DEF ListInv, PostersAsked, PostersShown, FailedTold
    <3> QED
      BY <2>2, <2>5, <2>6, <2>7, <3>2, <3>3
  <2>9. ShownIn(v) \subseteq Comics
    BY <2>1 DEF ShownIn, HomeInv, HomeLists
  <2>10. ASSUME \A j \in DOMAIN Pages : FolderPage(v, j) \notin failed
         PROVE  listed[v] = Comics
    <3>1. i = Len(Pages)
      BY <2>3, <2>10 DEF LastPage
    <3>2. \A j \in DOMAIN Pages : Taken(FolderPage(v, j))
      BY <2>1, <2>2, <2>3, <3>1, HomeConstants DEF ListInv, PagesInv, PagesInTurn
    <3>3. \A j \in DOMAIN Pages : Pages[j] \subseteq listed[v]
      BY <2>1, <2>10, <3>2 DEF ListInv, PagesInv, PagesRead
    <3> QED
      BY <2>4, <3>3 DEF Comics
  <2> QED
    BY <2>4, <2>8, <2>9, <2>10
<1>2. HomeInv /\ ListInv /\ [Next]_vars => ListInv'
  BY ListNext
<1>3. Spec => []ListInv
  BY <1>2, ListInit, HomeInvariance, PTL DEF Spec
<1> QED
  BY <1>1, <1>3, HomeInvariance, PTL

===============================================================================
