------------------------------- MODULE DevPod -------------------------------
(***************************************************************************)
(* The life of one dev pod of `devspace dev`: it is started, its services  *)
(* run under a tomb, it is started again when its pod is gone, and it is   *)
(* stopped through the context that all of them share.                     *)
(*                                                                         *)
(* Every call of startWithRetry is an attempt with a tomb and a watcher    *)
(* goroutine of its own; the first is made by Start, the others by the     *)
(* restart loop in the watcher of an earlier attempt. Pods are numbered in *)
(* the order in which the cluster creates them: a deleted pod is replaced  *)
(* by the next number.                                                     *)
(***************************************************************************)
EXTENDS Tomb, FiniteSets

CONSTANTS
    Services,       \* what startServices and the terminal start: sync, ports, ssh, ...
    LostConnection, \* the error of a service whose pod is gone
    Failure,        \* any other error
    MaxAttempts,    \* bound: attempts
    MaxFaults       \* bound: pods that are deleted and restarts that fail

Attempts == 1 .. MaxAttempts
NoPod    == 0
LastPod  == MaxFaults + 1

ASSUME DevPodAssumption ==
    /\ Errors = {LostConnection, Failure}
    /\ IsFiniteSet(Services) /\ Services # {}
    /\ MaxAttempts \in Nat \ {0} /\ MaxFaults \in Nat

VARIABLES
    attempts,       \* number of calls of startWithRetry
    tomb,           \* the tomb of every attempt
    start,          \* where start is, in every attempt
    starting,       \* services whose start function runs, in every attempt
    running,        \* services that run, in every attempt
    podOf,          \* the pod the services of an attempt talk to, and later the
                    \* pod its watcher asks for
    watcher,        \* where the goroutine of startWithRetry is, in every attempt
    child,          \* the attempt a restart loop has made last
    retried,        \* history: attempts of restart loops that failed and are made again
    selectedPod,    \* devPod.selectedPod
    cancelled,      \* devPod.cancel was called or its parent context is done
    closes,         \* how often devPod.done was closed
    err,            \* devPod.err
    caller,         \* where devPodManager.Start is
    pod             \* the newest pod in the cluster

vars == <<attempts, tomb, start, starting, running, podOf, watcher, child, retried, selectedPod,
          cancelled, closes, err, caller, pod>>

startVars == <<start, starting, running, podOf>>

\* Type invariant: the attempts to start the dev pod and what their goroutines do.
TypeOK ==
    /\ attempts \in 0 .. MaxAttempts
    /\ tomb \in [Attempts -> TombState]
    /\ start \in [Attempts -> {"none", "replace", "select", "services", "returned"}]
    /\ starting \in [Attempts -> SUBSET Services] /\ running \in [Attempts -> SUBSET Services]
    /\ podOf \in [Attempts -> NoPod .. LastPod]
    /\ watcher \in [Attempts -> {"none", "select", "waitDead", "inspect", "poll", "finish",
                                 "restart", "awaiting", "backoff", "ended"}]
    /\ child \in [Attempts -> 0 .. MaxAttempts] /\ retried \in Nat
    /\ selectedPod \in NoPod .. LastPod
    /\ cancelled \in BOOLEAN /\ closes \in 0 .. 2 /\ err \in Reason
    /\ caller \in {"idle", "starting", "stopping", "started", "failed"}
    /\ pod \in 1 .. LastPod

Init ==
    /\ attempts = 0
    /\ tomb = [a \in Attempts |-> NewTomb]
    /\ start = [a \in Attempts |-> "none"]
    /\ starting = [a \in Attempts |-> {}] /\ running = [a \in Attempts |-> {}]
    /\ podOf = [a \in Attempts |-> NoPod]
    /\ watcher = [a \in Attempts |-> "none"] /\ child = [a \in Attempts |-> 0] /\ retried = 0
    /\ selectedPod = NoPod /\ cancelled = FALSE /\ closes = 0 /\ err = NoError
    /\ caller = "idle" /\ pod = 1

Gone(p) == p < pod

\* The context of the services: done when the tomb is dying or the parent is.
Done(a) == cancelled \/ ~Alive(tomb[a])

\* An attempt of the restart loop that has not been found to be up yet.
Launching(a) == a > 1 /\ (start[a] # "returned" \/ \E w \in Attempts : watcher[w] = "awaiting" /\ child[w] = a)

\* The bound: pods deleted so far, and restarts that have failed.
MoreFaults == (pod - 1) + retried < MaxFaults

\* Without more faults only a stopped dev pod fails in such an attempt.
MayFail(a) == Launching(a) /\ ~cancelled => MoreFaults

-----------------------------------------------------------------------------
(* startWithRetry, called by Start and by the restart loop.                *)

\* A new tomb, the watcher goroutine, and start as its first goroutine.
StartWithRetry(a) ==
    /\ a <= MaxAttempts
    /\ attempts' = a
    /\ tomb' = [tomb EXCEPT ![a] = Go(NewTomb, 1)]
    /\ start' = [start EXCEPT ![a] = "replace"]

\* What startWithRetry returns once start has.
Result(a) == IF Alive(tomb[a]) THEN NoError ELSE tomb[a].reason

Start ==
    /\ caller = "idle"
    /\ caller' = "starting"
    /\ StartWithRetry(1)
    /\ watcher' = [watcher EXCEPT ![1] = "select"]
    /\ UNCHANGED <<starting, running, podOf, child, retried, selectedPod, cancelled, closes, err, pod>>

\* Start returns; after an error it calls Stop, which cancels and waits.
StartReturns ==
    /\ caller = "starting" /\ start[1] = "returned"
    /\ caller' = IF Result(1) = NoError THEN "started" ELSE "stopping"
    /\ cancelled' = (cancelled \/ Result(1) # NoError)
    /\ UNCHANGED <<attempts, tomb, startVars, watcher, child, retried, selectedPod, closes, err, pod>>

StopReturns ==
    /\ caller = "stopping" /\ closes > 0
    /\ caller' = "failed"
    /\ UNCHANGED <<attempts, tomb, startVars, watcher, child, retried, selectedPod, cancelled, closes, err, pod>>

\* Manager.Stop, Manager.Close, or the end of the command.
Cancel ==
    /\ caller # "idle" /\ ~cancelled
    /\ cancelled' = TRUE
    /\ UNCHANGED <<attempts, tomb, startVars, watcher, child, retried, selectedPod, closes, err, caller, pod>>

\* The cluster: the pod is deleted and its successor comes up.
DeletePod ==
    /\ MoreFaults
    /\ pod' = pod + 1
    /\ UNCHANGED <<attempts, tomb, startVars, watcher, child, retried, selectedPod, cancelled, closes, err, caller>>

-----------------------------------------------------------------------------
(* start: replace the pod, select it, start the services.                  *)

\* start returns an error: the pod is not replaced, not found or the wrong
\* one, or the first hook fails when it is already noted.
StartFails(a) ==
    /\ start[a] \in {"replace", "select"} /\ MayFail(a)
    /\ tomb' = [tomb EXCEPT ![a] = Return(@, Failure)]
    /\ start' = [start EXCEPT ![a] = "returned"]
    /\ selectedPod' \in {selectedPod} \cup (IF start[a] = "select" THEN {pod} ELSE {})
    /\ UNCHANGED <<attempts, starting, running, podOf, watcher, child, retried, cancelled, closes, err, caller, pod>>

ReplacePod(a) ==
    /\ start[a] = "replace"
    /\ start' = [start EXCEPT ![a] = "select"]
    /\ UNCHANGED <<attempts, tomb, starting, running, podOf, watcher, child, retried, selectedPod, cancelled, closes, err, caller, pod>>

\* The newest running pod is selected and the services are started.
SelectPod(a) ==
    /\ start[a] = "select"
    /\ selectedPod' = pod
    /\ podOf' = [podOf EXCEPT ![a] = pod]
    /\ starting' = [starting EXCEPT ![a] = Services]
    /\ tomb' = [tomb EXCEPT ![a] = Go(@, Cardinality(Services))]
    /\ start' = [start EXCEPT ![a] = "services"]
    /\ UNCHANGED <<attempts, running, watcher, child, retried, cancelled, closes, err, caller, pod>>

\* The start function of a service leaves a goroutine behind and returns.
ServiceStarted(a, s) ==
    /\ s \in starting[a] /\ ~Done(a)
    /\ running' = [running EXCEPT ![a] = @ \cup {s}]
    /\ starting' = [starting EXCEPT ![a] = @ \ {s}]
    /\ tomb' = [tomb EXCEPT ![a] = Return(Go(@, 1), NoError)]
    /\ UNCHANGED <<attempts, start, podOf, watcher, child, retried, selectedPod, cancelled, closes, err, caller, pod>>

\* It returns an error: its pod is gone, or something else.
ServiceFails(a, s) ==
    /\ s \in starting[a] /\ MayFail(a)
    /\ \E e \in {Failure} \cup (IF Gone(podOf[a]) THEN {LostConnection} ELSE {}) :
         tomb' = [tomb EXCEPT ![a] = Return(@, e)]
    /\ starting' = [starting EXCEPT ![a] = @ \ {s}]
    /\ UNCHANGED <<attempts, start, running, podOf, watcher, child, retried, selectedPod, cancelled, closes, err, caller, pod>>

\* It finds the context done and returns nil.
ServiceSkipped(a, s) ==
    /\ s \in starting[a] /\ Done(a)
    /\ starting' = [starting EXCEPT ![a] = @ \ {s}]
    /\ tomb' = [tomb EXCEPT ![a] = Return(@, NoError)]
    /\ UNCHANGED <<attempts, start, running, podOf, watcher, child, retried, selectedPod, cancelled, closes, err, caller, pod>>

\* The services have been waited for; a hook may still fail.
ServicesReady(a) ==
    /\ start[a] = "services" /\ starting[a] = {}
    /\ \E e \in {NoError} \cup (IF MayFail(a) THEN {Failure} ELSE {}) :
         tomb' = [tomb EXCEPT ![a] = Return(@, e)]
    /\ start' = [start EXCEPT ![a] = "returned"]
    /\ UNCHANGED <<attempts, starting, running, podOf, watcher, child, retried, selectedPod, cancelled, closes, err, caller, pod>>

-----------------------------------------------------------------------------
(* The running services.                                                   *)

\* Mutant: a service only looks at its tomb, not at the context it derives from.
StopsWithTomb(a, s) ==
    /\ s \in running[a] /\ ~Alive(tomb[a])
    /\ running' = [running EXCEPT ![a] = @ \ {s}]
    /\ tomb' = [tomb EXCEPT ![a] = Return(Kill(@, NoError), NoError)]
    /\ UNCHANGED <<attempts, start, starting, podOf, watcher, child, retried, selectedPod, cancelled, closes, err, caller, pod>>

\* A service ends because its context is done; it kills the tomb with nil.
ServiceStops(a, s) ==
    /\ s \in running[a] /\ Done(a)
    /\ running' = [running EXCEPT ![a] = @ \ {s}]
    /\ tomb' = [tomb EXCEPT ![a] = Return(Kill(@, NoError), NoError)]
    /\ UNCHANGED <<attempts, start, starting, podOf, watcher, child, retried, selectedPod, cancelled, closes, err, caller, pod>>

\* A service loses its connection and finds that its pod is gone.
ServiceLosesPod(a, s) ==
    /\ s \in running[a] /\ ~Done(a) /\ Gone(podOf[a])
    /\ running' = [running EXCEPT ![a] = @ \ {s}]
    /\ \E reason \in {NoError, LostConnection} :
         tomb' = [tomb EXCEPT ![a] = Return(Kill(@, reason), NoError)]
    /\ UNCHANGED <<attempts, start, starting, podOf, watcher, child, retried, selectedPod, cancelled, closes, err, caller, pod>>

\* With the pod still there the terminal is left, which ends the dev pod or
\* all of DevSpace, or the log streaming fails.
ServiceEnds(a, s) ==
    /\ s \in running[a] /\ ~Done(a) /\ start[a] = "returned" /\ MayFail(a)
    /\ running' = [running EXCEPT ![a] = @ \ {s}]
    /\ \/ tomb' = [tomb EXCEPT ![a] = Return(Kill(@, NoError), NoError)] /\ UNCHANGED cancelled
       \/ tomb' = [tomb EXCEPT ![a] = Return(@, NoError)] /\ cancelled' = TRUE
       \/ tomb' = [tomb EXCEPT ![a] = Return(@, Failure)] /\ UNCHANGED cancelled
    /\ UNCHANGED <<attempts, start, starting, podOf, watcher, child, retried, selectedPod, closes, err, caller, pod>>

-----------------------------------------------------------------------------
(* The watcher goroutine of an attempt.                                    *)

WatcherWakes(a) ==
    /\ watcher[a] = "select"
    /\ cancelled \/ tomb[a].dead
    /\ watcher' = [watcher EXCEPT ![a] = IF cancelled THEN "waitDead" ELSE "inspect"]
    /\ UNCHANGED <<attempts, tomb, startVars, child, retried, selectedPod, cancelled, closes, err, caller, pod>>

\* Mutant: done is closed without waiting for the tomb.
StoppedAtOnce(a) ==
    /\ watcher[a] = "waitDead"
    /\ closes' = closes + 1
    /\ watcher' = [watcher EXCEPT ![a] = "ended"]
    /\ UNCHANGED <<attempts, tomb, startVars, child, retried, selectedPod, cancelled, err, caller, pod>>

\* Stopped from outside: wait for the tomb and close done.
WatcherStopped(a) ==
    /\ watcher[a] = "waitDead" /\ tomb[a].dead
    /\ closes' = closes + 1
    /\ watcher' = [watcher EXCEPT ![a] = "ended"]
    /\ UNCHANGED <<attempts, tomb, startVars, child, retried, selectedPod, cancelled, err, caller, pod>>

\* Mutant: selectedPod is cleared before it is read.
InspectsCleared(a) ==
    /\ watcher[a] = "inspect"
    /\ watcher' = [watcher EXCEPT ![a] = "finish"]
    /\ selectedPod' = NoPod
    /\ UNCHANGED <<attempts, tomb, startVars, child, retried, cancelled, closes, err, caller, pod>>

\* Died by itself: was a pod selected?
WatcherInspects(a) ==
    /\ watcher[a] = "inspect"
    /\ watcher' = [watcher EXCEPT ![a] = IF selectedPod = NoPod THEN "finish" ELSE "poll"]
    /\ podOf' = [podOf EXCEPT ![a] = IF selectedPod = NoPod THEN @ ELSE selectedPod]
    /\ selectedPod' = NoPod
    /\ UNCHANGED <<attempts, tomb, start, starting, running, child, retried, cancelled, closes, err, caller, pod>>

\* Is that pod still there? The poll is repeated until it is known, or
\* given up when the context is done.
WatcherPolls(a) ==
    /\ watcher[a] = "poll"
    /\ watcher' = [watcher EXCEPT ![a] = IF ~cancelled /\ Gone(podOf[a]) THEN "restart" ELSE "finish"]
    /\ UNCHANGED <<attempts, tomb, startVars, child, retried, selectedPod, cancelled, closes, err, caller, pod>>

WatcherFinishes(a) ==
    /\ watcher[a] = "finish"
    /\ err' = tomb[a].reason
    /\ closes' = closes + 1
    /\ watcher' = [watcher EXCEPT ![a] = "ended"]
    /\ UNCHANGED <<attempts, tomb, startVars, child, retried, selectedPod, cancelled, caller, pod>>

\* restart: another attempt is made, at once or ten seconds after a failed one ...
Restart(a) ==
    /\ watcher[a] \in {"restart", "backoff"}
    /\ StartWithRetry(attempts + 1)
    /\ child' = [child EXCEPT ![a] = attempts + 1]
    /\ watcher' = [watcher EXCEPT ![a] = "awaiting", ![attempts + 1] = "select"]
    /\ UNCHANGED <<starting, running, podOf, retried, selectedPod, cancelled, closes, err, caller, pod>>

\* ... until it succeeds or the context is done, during the ten seconds too.
RestartReturns(a) ==
    /\ watcher[a] \in {"awaiting", "backoff"} /\ start[child[a]] = "returned"
    /\ watcher[a] = "backoff" => cancelled
    /\ IF Result(child[a]) = NoError \/ cancelled
       THEN watcher' = [watcher EXCEPT ![a] = "ended"] /\ UNCHANGED retried
       ELSE watcher' = [watcher EXCEPT ![a] = "backoff"] /\ retried' = retried + 1
    /\ UNCHANGED <<attempts, tomb, startVars, child, selectedPod, cancelled, closes, err, caller, pod>>

-----------------------------------------------------------------------------
CallerStep == Start \/ StartReturns \/ StopReturns

StartStep(a) == ReplacePod(a) \/ SelectPod(a) \/ ServicesReady(a)

StartingStep(a, s) == ServiceStarted(a, s) \/ ServiceSkipped(a, s)

RunningStep(a, s) == ServiceStops(a, s) \/ ServiceLosesPod(a, s)

WatcherStep(a) ==
    \/ WatcherWakes(a) \/ WatcherStopped(a) \/ WatcherInspects(a) \/ WatcherPolls(a)
    \/ WatcherFinishes(a) \/ Restart(a) \/ RestartReturns(a)

\* Closing done a second time is a panic: nothing runs after it.
Panicked == closes > 1

\* Everything has ended.
Ended ==
    /\ \/ Panicked
       \/ caller \in {"started", "failed"} /\ \A a \in Attempts : watcher[a] \in {"none", "ended"}
    /\ UNCHANGED vars

Next ==
    \/ /\ ~Panicked
       /\ \/ CallerStep \/ Cancel \/ DeletePod
          \/ \E a \in Attempts :
               \/ StartStep(a) \/ StartFails(a) \/ WatcherStep(a)
               \/ \E s \in Services :
                    StartingStep(a, s) \/ ServiceFails(a, s) \/ RunningStep(a, s) \/ ServiceEnds(a, s)
    \/ Ended

Spec == Init /\ [][Next]_vars

\* Goroutines go on, and a connection to a deleted pod breaks. Nothing has
\* to fail, no pod has to be deleted and nobody has to stop the dev pod.
FairSpec ==
    /\ Spec
    /\ WF_vars(~Panicked /\ (StartReturns \/ StopReturns))
    /\ \A a \in Attempts :
         /\ WF_vars(~Panicked /\ StartStep(a)) /\ WF_vars(~Panicked /\ WatcherStep(a))
         /\ \A s \in Services :
              WF_vars(~Panicked /\ StartingStep(a, s)) /\ WF_vars(~Panicked /\ RunningStep(a, s))

-----------------------------------------------------------------------------
(* Properties.                                                             *)

\* A tomb is dead only when start and every service under it have returned;
\* start and the services call Go and NotifyGo while they run, so none of
\* these calls panics.
DeadMeansReturned ==
    \A a \in Attempts : tomb[a].dead => start[a] = "returned" /\ starting[a] = {} /\ running[a] = {}

\* An attempt whose goroutines run, or whose watcher will make another one.
Live(a) == ~tomb[a].dead \/ watcher[a] \in {"restart", "backoff"}

\* The attempts of a dev pod take turns (startWithRetry, restart): one at most is live, and
\* once done is closed, which happens once, none is or will be. But for what retries add: the
\* watcher of an attempt of the restart loop that fails while it starts ends the dev pod, or
\* restarts it, while that loop goes on, and so makes one live attempt or one closing more.
AttemptsInTurn == closes + Cardinality({a \in 1 .. attempts : Live(a)}) <= 1 + retried

\* The same without that exception; all three are violated by the retries. Once done is
\* closed, and with it Wait and Stop of the manager return, no goroutine of any attempt is
\* left and none of them will make another attempt.
DoneMeansStopped == closes > 0 => \A a \in 1 .. attempts : ~Live(a)

\* done is closed by one watcher only, however often the dev pod was restarted.
ClosedOnce == ~Panicked

\* Two attempts never have services at the same time.
OneAtATime == \A a, b \in Attempts : tomb[a].alive > 0 /\ tomb[b].alive > 0 => a = b

\* Something of an attempt runs, or its watcher may make another attempt.
Busy(a) == ~tomb[a].dead \/ watcher[a] \in {"select", "inspect", "poll", "restart", "backoff"}

\* What the manager sees of a dev pod.
Life ==
    [start     |-> IF caller = "idle" THEN "none" ELSE IF caller = "stopping" THEN "starting" ELSE caller,
     cancelled |-> cancelled,
     runs      |-> IF retried > 0 THEN "unknown" ELSE IF \E a \in 1 .. attempts : Busy(a) THEN "yes" ELSE "no",
     done      |-> closes > 0]

Promise == INSTANCE DevPodLife WITH life <- Life

\* The dev pod keeps what DevPodLife promises and DevPodManager relies on: done is
\* closed once nothing runs any more, nothing runs after it, and Stop returns; after a
\* retry no more than that a stopped dev pod closes done.
KeepsPromise == Promise!Spec

\* A dev pod whose pod was deleted is brought up on a new one, however many attempts fail
\* before, unless it is stopped or the second close of done is a panic.
Recovers ==
    \A a \in Attempts :
       (running[a] # {} /\ Gone(podOf[a])) ~> (cancelled \/ Panicked \/ \E b \in Attempts : b > a /\ running[b] # {})
=============================================================================
