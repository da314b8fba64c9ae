---------------------------- MODULE FetcherService ----------------------------
(***************************************************************************)
(* The fetchers through which every request to Firebase Storage goes       *)
(* (Pods/GTMSessionFetcher/Source/GTMSessionFetcherService.m and           *)
(* GTMSessionFetcher.m, used by Pods/FirebaseStorage): at most             *)
(* _maxRunningFetchersPerHost of them run, the others wait in the order    *)
(* they came, and one that failed for a passing reason keeps its place     *)
(* while it waits for its next attempt.                                    *)
(*                                                                         *)
(* Three kinds of serial queues meet here: that of a Storage object, on    *)
(* which its requests begin and its downloads are cancelled; that of the   *)
(* URL session's delegate; and the main queue (authorization, retry        *)
(* timers, completions).  A step is what one of them does up to the next   *)
(* place where another may come between; what it has still to do then is   *)
(* its job.                                                                *)
(***************************************************************************)
EXTENDS Integers, Sequences, FiniteSets

CONSTANTS
    Fetchers,     \* the requests that are ever made, all to one host
    StorageOf,    \* StorageOf[f]: the Storage object of a request, a queue
    Limit,        \* _maxRunningFetchersPerHost, 10 in the code
    MinInterval,  \* _minRetryInterval, between 1 and 2 seconds in the code
    MaxInterval,  \* maxRetryInterval: 600 s for contents, 120 s for listings
    Flaky,        \* requests whose attempts may fail for a passing reason
    PutOff,       \* those of them whose server may answer with Retry-After
    Oversize,     \* downloads that turn out larger than their maxSize
    MaxReports    \* how many progress reports of one are under way at a time

Threads == {"main", "delegate"} \union {StorageOf[f] : f \in Fetchers}

ConstantsAssumption ==
    /\ IsFiniteSet(Fetchers) /\ Oversize \subseteq Fetchers
    /\ Flaky \subseteq Fetchers /\ PutOff \subseteq Flaky
    /\ \A f \in Fetchers : StorageOf[f] \notin {"main", "delegate"}
    /\ Limit \in Nat \ {0} /\ MaxReports \in Nat
    /\ MinInterval \in Nat \ {0} /\ MaxInterval \in Nat

ASSUME ServiceAssumption == ConstantsAssumption

VARIABLES
    running,       \* _runningFetchersByHost[host]
    delayed,       \* _delayedFetchersByHost[host], in order of arrival
    serviceHost,   \* the fetchers whose serviceHost is not nil
    jobs,          \* what the queues are in the midst of
    phase,         \* how far a fetcher has come
    lastInterval,  \* _lastRetryInterval
    userStopped,   \* _userStoppedFetching
    reports,       \* progress reports that say "too large", and their cancellations
    answer,        \* the completion handler's block on the main queue
    said,          \* what has been dispatched to the owner, in order
    heard          \* how much of it the owner has got

serviceVars == <<running, delayed, serviceHost, jobs, phase, lastInterval, userStopped,
                 reports, answer, said, heard>>

\* The variables of the places, and those of the answers.
placeVars == <<running, delayed, serviceHost>>
answerVars == <<reports, answer, said, heard>>

(***************************************************************************)
(* The phases of a fetcher:                                                *)
(*   new          not asked for yet                                        *)
(*   enqueued     its task waits on the queue of its Storage object        *)
(*   begun        may run; its serviceHost is still to be set              *)
(*   queued       in `delayed'                                             *)
(*   authorizing  waits for its token                                      *)
(*   fetching     on the network                                           *)
(*   aborted      its task is cancelled, the task's end still to come      *)
(*   deciding     an attempt failed; the retry block is to say what next   *)
(*   waiting      its retry timer runs                                     *)
(*   refetch      its retry waits on the delegate queue, or is under way   *)
(*   stopped                                                               *)
(***************************************************************************)
Phases == {"new", "enqueued", "begun", "queued", "authorizing", "fetching",
           "aborted", "deciding", "waiting", "refetch", "stopped"}

(***************************************************************************)
(* What a queue has still to do for a fetcher:                             *)
(*   save       set its serviceHost, the lock having been given up         *)
(*   stop       read its serviceHost: has it been stopped before?          *)
(*   hand       take the lock and hand its place on                        *)
(*   clear      set its serviceHost to nil                                 *)
(*   begin      begin it again                                             *)
(*   tell       tell its observers that it has been cancelled              *)
(*   fire       tell its observers how it ended                            *)
(*   unobserve  remove its observers                                       *)
(***************************************************************************)
Steps == {"save", "stop", "hand", "clear", "begin", "tell", "fire", "unobserve"}

Job(t, s, f) == [thread |-> t, step |-> s, of |-> f]

Idle(t) == \A j \in jobs : j.thread # t

\* A job is done, another one comes of it.
Goes(j, next) == jobs' = (jobs \ {j}) \union next

\* An answer is due (ok, error) until the observers have been told of it
\* (fired) and removed (over).
Answers == {"none", "ok", "error", "fired", "over"}

TypeOK ==
    /\ running \subseteq Fetchers
    /\ delayed \in Seq(Fetchers)
    /\ serviceHost \subseteq Fetchers
    /\ jobs \subseteq [thread : Threads, step : Steps, of : Fetchers]
    /\ phase \in [Fetchers -> Phases]
    /\ lastInterval \in [Fetchers -> Nat]
    /\ userStopped \subseteq Fetchers
    /\ reports \in [Fetchers -> Nat]
    /\ answer \in [Fetchers -> Answers]
    /\ said \in [Fetchers -> Seq({"ok", "error"})]
    /\ heard \in [Fetchers -> Nat]

ServiceInit ==
    /\ running = {} /\ delayed = <<>> /\ serviceHost = {} /\ jobs = {}
    /\ phase = [f \in Fetchers |-> "new"]
    /\ lastInterval = [f \in Fetchers |-> 0]
    /\ userStopped = {}
    /\ reports = [f \in Fetchers |-> 0]
    /\ answer = [f \in Fetchers |-> "none"]
    /\ said = [f \in Fetchers |-> <<>>]
    /\ heard = [f \in Fetchers |-> 0]

(***************************************************************************)
(* Places.                                                                 *)
(***************************************************************************)
\* A mistake: one fetcher too many.
MutantShouldBegin(f, t, done) ==
    /\ f \notin running /\ Cardinality(running) <= Limit
    /\ running' = running \union {f}
    /\ phase' = [phase EXCEPT ![f] = "begun"]
    /\ jobs' = (jobs \ done) \union {Job(t, "save", f)}
    /\ UNCHANGED delayed

\* The fetcher asks whether it may run, under the service's lock.  It learns
\* its serviceHost only after the lock has been given up.
ShouldBegin(f, t, done) ==
    \/ /\ f \in running
       /\ phase' = [phase EXCEPT ![f] = "authorizing"]
       /\ jobs' = jobs \ done
       /\ UNCHANGED <<running, delayed>>
    \/ /\ f \notin running
       /\ Cardinality(running) < Limit
       /\ running' = running \union {f}
       /\ phase' = [phase EXCEPT ![f] = "begun"]
       /\ jobs' = (jobs \ done) \union {Job(t, "save", f)}
       /\ UNCHANGED delayed
    \/ /\ f \notin running
       /\ Cardinality(running) >= Limit
       /\ delayed' = Append(delayed, f)
       /\ phase' = [phase EXCEPT ![f] = "queued"]
       /\ jobs' = (jobs \ done) \union {Job(t, "save", f)}
       /\ UNCHANGED running

\* The thread that asked goes on after the lock: the host is saved, and a
\* fetcher that may run goes for its token.  One that was put off may have been
\* started by another thread before.
SaveHost(j) ==
    /\ j.step = "save"
    /\ Goes(j, {})
    /\ serviceHost' = serviceHost \union {j.of}
    /\ phase' = [phase EXCEPT ![j.of] = IF @ = "begun" THEN "authorizing" ELSE @]
    /\ UNCHANGED <<running, delayed, lastInterval, userStopped, answerVars>>

\* The queue without one fetcher, which is in it once at most.
Without(queue, f) ==
    IF \E i \in 1..Len(queue) : queue[i] = f
    THEN LET i == CHOOSE i \in 1..Len(queue) : queue[i] = f
         IN  SubSeq(queue, 1, i - 1) \o SubSeq(queue, i + 1, Len(queue))
    ELSE queue

\* How many of those that wait can be started beside the running ones.
Startable(run, queue) ==
    LET free == Limit - Cardinality(run)
    IN  IF free < 0 THEN 0 ELSE IF free < Len(queue) THEN free ELSE Len(queue)

\* What the thread does when the fetcher has been stopped: a retry begins it
\* again, a cancellation tells the observers.
AfterStop(j) ==
    IF j.thread = StorageOf[j.of] THEN {Job(j.thread, "tell", j.of)}
    ELSE IF j.thread = "delegate" /\ phase[j.of] = "refetch" THEN {Job(j.thread, "begin", j.of)}
    ELSE {}

\* A stop first looks at the fetcher's serviceHost, without the lock.  One that
\* has none counts as stopped before.  Otherwise the end of its task, if it has
\* one, will not be reported any more.
ReadHost(j) ==
    /\ j.step = "stop"
    /\ \/ /\ j.of \notin serviceHost
          /\ Goes(j, AfterStop(j))
          /\ UNCHANGED phase
       \/ /\ j.of \in serviceHost
          /\ Goes(j, {[j EXCEPT !.step = "hand"]})
          /\ phase' = [phase EXCEPT ![j.of] =
                          IF @ \in {"fetching", "aborted"} THEN "stopped" ELSE @]
    /\ UNCHANGED <<placeVars, lastInterval, userStopped, answerVars>>

\* A mistake: a fetcher that stops hands its place to nobody.
MutantHandOn(j) ==
    /\ j.step = "hand"
    /\ Goes(j, {[j EXCEPT !.step = "clear"]})
    /\ running' = running \ {j.of}
    /\ delayed' = Without(delayed, j.of)
    /\ phase' = [phase EXCEPT ![j.of] = IF @ = "queued" THEN "stopped" ELSE @]
    /\ UNCHANGED <<serviceHost, lastInterval, userStopped, answerVars>>

\* Then, under the lock, it takes the fetcher off both lists, and those that
\* have waited longest take the places that are free.
HandOn(j) ==
    LET queue == Without(delayed, j.of)
        run   == running \ {j.of}
        n     == Startable(run, queue)
        start == {queue[i] : i \in 1..n}
    IN  /\ j.step = "hand"
        /\ Goes(j, {[j EXCEPT !.step = "clear"]})
        /\ running' = run \union start
        /\ delayed' = SubSeq(queue, n + 1, Len(queue))
        /\ phase' = [g \in Fetchers |->
                        IF g \in start THEN "authorizing"
                        ELSE IF g = j.of /\ phase[g] = "queued" THEN "stopped" ELSE phase[g]]
        /\ UNCHANGED <<serviceHost, lastInterval, userStopped, answerVars>>

\* And after the lock, when it has started those, it sets the host to nil.
ClearHost(j) ==
    /\ j.step = "clear"
    /\ Goes(j, AfterStop(j))
    /\ serviceHost' = serviceHost \ {j.of}
    /\ UNCHANGED <<running, delayed, phase, lastInterval, userStopped, answerVars>>

(***************************************************************************)
(* A request begins.                                                       *)
(***************************************************************************)
\* Its task reaches the head of the queue of its Storage object.
Begin(f) ==
    /\ Idle(StorageOf[f])
    /\ phase[f] = "enqueued"
    /\ ShouldBegin(f, StorageOf[f], {})
    /\ UNCHANGED <<serviceHost, lastInterval, userStopped, answerVars>>

\* The token is there (or needs none): the request goes out.
Authorized(f) ==
    /\ phase[f] = "authorizing"
    /\ phase' = [phase EXCEPT ![f] = "fetching"]
    /\ UNCHANGED <<placeVars, jobs, lastInterval, userStopped, answerVars>>

\* The completion handler is sent to the main queue, unless the callbacks have
\* been released by a cancellation.
Tell(f, result) ==
    answer' = [answer EXCEPT ![f] = IF f \in userStopped THEN @ ELSE result]

\* A thread has the fetcher end with a result, and is to stop it then.
End(f, t, result) ==
    /\ phase' = [phase EXCEPT ![f] = "stopped"]
    /\ Tell(f, result)
    /\ jobs' = jobs \union {Job(t, "stop", f)}
    /\ UNCHANGED <<placeVars, lastInterval, userStopped, reports, said, heard>>

\* A mistake: the fetch goes on without a token though it has been reported.
MutantAuthorizationFails(f) ==
    /\ Idle("main")
    /\ phase[f] = "authorizing"
    /\ phase' = [phase EXCEPT ![f] = "fetching"]
    /\ answer' = [answer EXCEPT ![f] = "error"]
    /\ UNCHANGED <<placeVars, jobs, lastInterval, userStopped, reports, said, heard>>

\* No token: the fetch fails before it began.
AuthorizationFails(f) ==
    /\ Idle("main")
    /\ phase[f] = "authorizing"
    /\ End(f, "main", "error")

(***************************************************************************)
(* The server answers, or the network fails.                               *)
(***************************************************************************)
\* For good: with the contents or with an error after which there can be no
\* other attempt.  The end of a cancelled task is an error.
Finish(f, result) ==
    /\ Idle("delegate")
    /\ phase[f] = "fetching" \/ (phase[f] = "aborted" /\ result = "error")
    /\ End(f, "delegate", result)

\* An attempt fails after which there can be another.
AttemptFails(f) ==
    /\ Idle("delegate")
    /\ phase[f] = "fetching" /\ f \in Flaky
    /\ phase' = [phase EXCEPT ![f] = "deciding"]
    /\ UNCHANGED <<placeVars, jobs, lastInterval, userStopped, answerVars>>

\* The retry block runs on the main queue; without callbacks there is none.
Decides(f) == IF f \in userStopped THEN "delegate" ELSE "main"

\* A mistake: the wait stays as it is.
MutantNextInterval(f) == MinInterval

\* The wait before the next attempt doubles, between the two bounds.
NextInterval(f) ==
    LET twice == 2 * lastInterval[f]
        below == IF twice < MaxInterval THEN twice ELSE MaxInterval
    IN  IF below < MinInterval THEN MinInterval ELSE below

\* The fetcher sets its timer, and keeps its place.
Wait(f, interval) ==
    /\ Idle(Decides(f))
    /\ phase[f] = "deciding"
    /\ lastInterval' = [lastInterval EXCEPT ![f] = interval]
    /\ phase' = [phase EXCEPT ![f] = "waiting"]
    /\ UNCHANGED <<placeVars, jobs, userStopped, answerVars>>

\* An error worth another attempt (or the device is offline), as long as the
\* wait has not grown to the maximum.
RetryLater(f) == NextInterval(f) < MaxInterval /\ Wait(f, NextInterval(f))

\* The same with an answer that has a Retry-After header: neither the wait nor
\* the time that has passed ends the attempts, and the wait is what the server
\* says, up to the maximum.
RetryAfter(f) == f \in PutOff /\ \E interval \in 0..MaxInterval : Wait(f, interval)

\* The error is not worth another attempt.
GiveUp(f) ==
    /\ Idle(Decides(f))
    /\ phase[f] = "deciding"
    /\ End(f, Decides(f), "error")

TimerFires(f) ==
    /\ Idle("main")
    /\ phase[f] = "waiting"
    /\ phase' = [phase EXCEPT ![f] = "refetch"]
    /\ UNCHANGED <<placeVars, jobs, lastInterval, userStopped, answerVars>>

\* The retry first stops the fetcher, which gives its place away ...
RetryStop(f) ==
    /\ Idle("delegate")
    /\ phase[f] = "refetch"
    /\ jobs' = jobs \union {Job("delegate", "stop", f)}
    /\ UNCHANGED <<placeVars, phase, lastInterval, userStopped, answerVars>>

\* ... and then asks for one again, behind those that wait.
RetryBegin(j) ==
    /\ j.step = "begin"
    /\ ShouldBegin(j.of, j.thread, {j})
    /\ UNCHANGED <<serviceHost, lastInterval, userStopped, answerVars>>

(***************************************************************************)
(* Downloads that are too large.                                           *)
(***************************************************************************)
\* The delegate reports progress, which says that the download is too large:
\* a cancellation is on its way, over the main queue to the Storage queue.
Report(f) ==
    /\ Idle("delegate")
    /\ phase[f] = "fetching" /\ f \in Oversize \ userStopped
    /\ reports[f] < MaxReports
    /\ reports' = [reports EXCEPT ![f] = @ + 1]
    /\ UNCHANGED <<placeVars, jobs, phase, lastInterval, userStopped, answer, said, heard>>

\* A report that comes to the main queue after the cancellation is dropped.
DropReport(f) ==
    /\ Idle("main")
    /\ f \in userStopped /\ reports[f] > 0
    /\ reports' = [reports EXCEPT ![f] = @ - 1]
    /\ UNCHANGED <<placeVars, jobs, phase, lastInterval, userStopped, answer, said, heard>>

\* A mistake: the place of a cancelled fetch is not given up.
MutantCancel(f) ==
    /\ Idle(StorageOf[f])
    /\ reports[f] > 0
    /\ reports' = [reports EXCEPT ![f] = @ - 1]
    /\ userStopped' = userStopped \union {f}
    /\ phase' = [phase EXCEPT ![f] = IF @ = "fetching" THEN "stopped" ELSE @]
    /\ jobs' = jobs \union {Job(StorageOf[f], "tell", f)}
    /\ UNCHANGED <<placeVars, lastInterval, answer, said, heard>>

\* A cancellation, as many as there were reports: the task and the retry timer
\* are taken back, and the fetcher is to be stopped.  A retry that waits on the
\* delegate queue, or a token that is asked for, is not taken back.
Cancel(f) ==
    /\ Idle(StorageOf[f])
    /\ reports[f] > 0
    /\ reports' = [reports EXCEPT ![f] = @ - 1]
    /\ userStopped' = userStopped \union {f}
    /\ phase' = [phase EXCEPT ![f] =
                    IF @ = "fetching" THEN "aborted"
                    ELSE IF @ = "waiting" \/ (@ = "deciding" /\ f \notin userStopped)
                    THEN "stopped" ELSE @]
    /\ jobs' = jobs \union {Job(StorageOf[f], "stop", f)}
    /\ UNCHANGED <<placeVars, lastInterval, answer, said, heard>>

\* When the fetcher has been stopped the observers are told of the failure, if
\* they are there still.
TellCancelled(j) ==
    /\ j.step = "tell"
    /\ Goes(j, {})
    /\ said' = [said EXCEPT ![j.of] = IF answer[j.of] = "over" THEN @ ELSE Append(@, "error")]
    /\ UNCHANGED <<placeVars, phase, lastInterval, userStopped, reports, answer, heard>>

(***************************************************************************)
(* The main queue and the owner.                                           *)
(***************************************************************************)
\* The completion handler runs, unless the fetch has been cancelled ...
Complete(f) ==
    /\ Idle("main")
    /\ answer[f] \in {"ok", "error"} /\ f \notin userStopped
    /\ jobs' = jobs \union {Job("main", "fire", f)}
    /\ UNCHANGED <<placeVars, phase, lastInterval, userStopped, answerVars>>

\* ... it tells the observers of the end ...
Fire(j) ==
    /\ j.step = "fire"
    /\ Goes(j, {[j EXCEPT !.step = "unobserve"]})
    /\ said' = [said EXCEPT ![j.of] = Append(@, answer[j.of])]
    /\ answer' = [answer EXCEPT ![j.of] = "fired"]
    /\ UNCHANGED <<placeVars, phase, lastInterval, userStopped, reports, heard>>

\* ... and removes them.  The last progress report it has fired before, which
\* the main queue comes to now, can cancel the download once more.
Unobserve(j) ==
    /\ j.step = "unobserve"
    /\ Goes(j, {})
    /\ answer' = [answer EXCEPT ![j.of] = "over"]
    /\ \E more \in IF j.of \in Oversize THEN {0, 1} ELSE {0} :
           reports' = [reports EXCEPT ![j.of] = @ + more]
    /\ UNCHANGED <<placeVars, phase, lastInterval, userStopped, said, heard>>

\* New requests, made on the main queue.
Enqueue(more) ==
    /\ Idle("main")
    /\ more # {} /\ \A f \in more : phase[f] = "new"
    /\ phase' = [f \in Fetchers |-> IF f \in more THEN "enqueued" ELSE phase[f]]
    /\ UNCHANGED <<placeVars, jobs, lastInterval, userStopped, answerVars>>

\* The owner hears of an end, on the main queue, and may make new requests.
Hear(f, result, more) ==
    /\ Idle("main")
    /\ heard[f] < Len(said[f]) /\ said[f][heard[f] + 1] = result
    /\ heard' = [heard EXCEPT ![f] = @ + 1]
    /\ \A g \in more : phase[g] = "new"
    /\ phase' = [g \in Fetchers |-> IF g \in more THEN "enqueued" ELSE phase[g]]
    /\ UNCHANGED <<placeVars, jobs, lastInterval, userStopped, reports, answer, said>>

-----------------------------------------------------------------------------
\* What a queue does next of what it is in the midst of.
Continues(j) ==
    \/ SaveHost(j) \/ ReadHost(j) \/ HandOn(j) \/ ClearHost(j) \/ RetryBegin(j)
    \/ TellCancelled(j) \/ Fire(j) \/ Unobserve(j)

\* What the service and the network do with a request on their own.
Proceeds(f) ==
    \/ \E j \in jobs : j.of = f /\ Continues(j)
    \/ Begin(f) \/ Authorized(f) \/ AuthorizationFails(f)
    \/ \E result \in {"ok", "error"} : Finish(f, result)
    \/ AttemptFails(f) \/ RetryLater(f) \/ RetryAfter(f) \/ GiveUp(f)
    \/ TimerFires(f) \/ RetryStop(f)
    \/ DropReport(f) \/ Cancel(f) \/ Complete(f)

ServiceStep(f) == Proceeds(f) \/ Report(f)

ServiceNext ==
    \/ \E f \in Fetchers : ServiceStep(f)
    \/ \E more \in SUBSET Fetchers : Enqueue(more)
    \/ \E f \in Fetchers, result \in {"ok", "error"}, more \in SUBSET Fetchers :
          Hear(f, result, more)

ServiceSpec == ServiceInit /\ [][ServiceNext]_serviceVars

-----------------------------------------------------------------------------
(***************************************************************************)
(* Properties.                                                             *)
(***************************************************************************)
\* A fetch is under way.
UnderWay == {"begun", "authorizing", "fetching", "deciding", "waiting"}

\* No more fetches are under way than may, however stops, retries and
\* cancellations of several threads fall together: the service's list is within
\* the limit, and only a fetch that has been cancelled can go on off that list
\* (as it does when a late stop takes away the place it has got for a retry).
SlotLimit ==
    Cardinality(running \union {f \in Fetchers \ userStopped : phase[f] \in UnderWay}) <= Limit

\* No fetcher waits while there is a free place: whoever gives one up, for
\* whatever reason, hands it on.
NoIdleSlot == delayed # <<>> => Cardinality(running) >= Limit

\* The places that nobody will give up: their fetchers have stopped, and no
\* thread is about to hand them on.
LostSlots ==
    {f \in running : /\ phase[f] = "stopped"
                     /\ \A j \in jobs : j.of = f => j.step \notin {"stop", "hand"}}

\* The fetchers that are on a list of the service and do not know it: they have
\* no host, and no thread is about to save it.
Hostless ==
    {f \in running \union {delayed[i] : i \in 1..Len(delayed)} :
        f \notin serviceHost /\ \A j \in jobs : j.of = f => j.step # "save"}

\* A place is lost only if its fetcher comes to its end without a host.  That it
\* has none while it is on a list has two reasons only: the thread that began it
\* has not saved it yet, or a cancellation that took it off the lists cleared it
\* late, when a retry had put it on one again.
SlotsReturned ==
    [][/\ \A f \in LostSlots' \ LostSlots : f \notin serviceHost
       /\ \A f \in Hostless' \ Hostless :
             f \in userStopped /\ Job(StorageOf[f], "clear", f) \in jobs]_serviceVars

\* The owner of a request hears of one end of it.  Only the owner of a download
\* that has been cancelled may hear more, of every cancellation and of the end
\* that ran beside one; but of a success once at most.
OneAnswer ==
    \A f \in Fetchers :
        /\ f \notin userStopped => Len(said[f]) <= 1
        /\ \A i, j \in 1..Len(said[f]) : said[f][i] = "ok" /\ said[f][j] = "ok" => i = j
===============================================================================
