--------------------------- MODULE SyncController ---------------------------
(***************************************************************************)
(* The sync paths of one container and the controllers that keep them      *)
(* running, under the tomb of the dev pod. A controller starts a sync      *)
(* client, waits for its initial sync, and then waits in a goroutine of    *)
(* its own for the client to fail or to end and for its context to be      *)
(* done. Clients talk to their controller through the channels onError     *)
(* (one place) and onDone (closed).                                        *)
(*                                                                         *)
(* What a client does is in SyncEngine and UploadLoop; here it finishes    *)
(* its initial sync or fails. Hooks are taken to succeed.                  *)
(***************************************************************************)
EXTENDS Tomb, FiniteSets

CONSTANTS
    Paths,          \* the sync paths of the container
    NoWatch,        \* those that end after the initial sync
    StartContainer, \* those whose initial sync the container waits for
    SyncError,      \* the error of a sync client
    LostConnection, \* the error of a selector that finds no pod
    MaxFailures     \* bound: failures of clients and of their start

ASSUME SyncControllerAssumption ==
    /\ Errors = {SyncError, LostConnection} /\ IsFiniteSet(Paths) /\ Paths # {}
    /\ NoWatch \subseteq Paths /\ StartContainer \subseteq Paths
    /\ MaxFailures \in Nat

VARIABLES
    control,        \* where the controller of every path is
    restarted,      \* is it the restart loop that runs startWithWait?
    client,         \* the sync client of every path
    initDone,       \* onInitUploadDone and onInitDownloadDone are closed
    onError, onDone,\* the channels of the client
    touched,        \* upstream.initialSyncTouchOnce of the client
    pathDone,       \* the context of a path with noWatch was cancelled
    amount,         \* delayedContainerStarter.amount
    container,      \* was the container started?
    synced,         \* paths that have finished an initial sync
    counted,        \* history: those whose clients have called the starter
    recounted,      \* history: calls by another client of such a path
    tomb,           \* the tomb of the dev pod
    other,          \* does another service run under it (port forwarding, terminal)?
    cancelled,      \* the context of the dev pod is done
    podGone,        \* the pod was deleted
    failures

vars == <<control, restarted, client, initDone, onError, onDone, touched, pathDone, amount, container,
          synced, counted, recounted, tomb, other, cancelled, podGone, failures>>

clientVars == <<client, initDone, onError, onDone, touched>>
startVars  == <<amount, container, synced, counted, recounted>>
worldVars  == <<other, cancelled, podGone>>

\* Type invariant: the controllers of the paths, their clients and the tomb.
TypeOK ==
    /\ control \in [Paths -> {"start", "waiting", "watching", "backoff", "returned"}]
    /\ restarted \in [Paths -> BOOLEAN]
    /\ client \in [Paths -> {"none", "initial", "synced", "stopping", "stopped"}]
    /\ initDone \in [Paths -> BOOLEAN] /\ onError \in [Paths -> BOOLEAN] /\ onDone \in [Paths -> BOOLEAN]
    /\ touched \in [Paths -> BOOLEAN] /\ pathDone \in [Paths -> BOOLEAN]
    /\ amount \in 0 .. Cardinality(StartContainer) /\ container \in BOOLEAN
    /\ synced \subseteq Paths /\ counted \subseteq StartContainer /\ recounted \in Nat
    /\ tomb \in TombState /\ other \in BOOLEAN /\ cancelled \in BOOLEAN /\ podGone \in BOOLEAN
    /\ failures \in 0 .. MaxFailures

\* StartSync has counted the paths the container waits for and started a
\* goroutine for every path; another service runs beside them.
Init ==
    /\ control = [p \in Paths |-> "start"] /\ restarted = [p \in Paths |-> FALSE]
    /\ client = [p \in Paths |-> "none"] /\ initDone = [p \in Paths |-> FALSE]
    /\ onError = [p \in Paths |-> FALSE] /\ onDone = [p \in Paths |-> FALSE]
    /\ touched = [p \in Paths |-> FALSE] /\ pathDone = [p \in Paths |-> FALSE]
    /\ amount = Cardinality(StartContainer) /\ container = FALSE /\ synced = {}
    /\ counted = {} /\ recounted = 0
    /\ tomb = Go(NewTomb, Cardinality(Paths) + 1)
    /\ other = TRUE /\ cancelled = FALSE /\ podGone = FALSE /\ failures = 0

DevDone == cancelled \/ ~Alive(tomb)

\* ctx.IsDone for the controller and the client of a path.
Done(p) == DevDone \/ pathDone[p]

MayFail == failures < MaxFailures

\* Sync.Stop(nil): the first call ends the client and closes onDone.
Stopped(p) ==
    /\ client' = [client EXCEPT ![p] = IF @ \in {"initial", "synced"} THEN "stopped" ELSE @]
    /\ onDone' = [onDone EXCEPT ![p] = @ \/ client[p] \in {"initial", "synced"}]
    /\ UNCHANGED <<initDone, onError, touched>>

-----------------------------------------------------------------------------
(* The sync client of a path.                                              *)

InitialSyncDone(p) ==
    /\ client[p] = "initial"
    /\ client' = [client EXCEPT ![p] = "synced"]
    /\ initDone' = [initDone EXCEPT ![p] = TRUE]
    /\ synced' = synced \cup {p}
    /\ UNCHANGED <<control, restarted, onError, onDone, touched, pathDone, amount, container, counted, recounted,
                   tomb, worldVars, failures>>

\* The starter counts calls, not paths: a client that was restarted calls again.
Counts(p) ==
    /\ counted' = counted \cup {p}
    /\ recounted' = IF p \in counted THEN recounted + 1 ELSE recounted

\* Mutant: the last but one starts the container.
TouchEarly(p) ==
    /\ client[p] = "synced" /\ p \in StartContainer /\ ~touched[p]
    /\ touched' = [touched EXCEPT ![p] = TRUE]
    /\ amount' = IF amount > 0 THEN amount - 1 ELSE 0
    /\ container' = (container \/ amount <= 2)
    /\ Counts(p)
    /\ UNCHANGED <<control, restarted, client, initDone, onError, onDone, pathDone, synced, tomb, worldVars, failures>>

\* Once per client: Starter.Done, and the last of them starts the container.
TouchContainer(p) ==
    /\ client[p] = "synced" /\ p \in StartContainer /\ ~touched[p]
    /\ touched' = [touched EXCEPT ![p] = TRUE]
    /\ amount' = IF amount > 0 THEN amount - 1 ELSE 0
    /\ container' = (container \/ amount = 1)
    /\ Counts(p)
    /\ UNCHANGED <<control, restarted, client, initDone, onError, onDone, pathDone, synced, tomb, worldVars, failures>>

\* Sync.Stop(err), because the connection, a command or an upload failed:
\* the error is sent first ...
ClientFails(p) ==
    /\ client[p] \in {"initial", "synced"} /\ (MayFail \/ podGone)
    /\ failures' = IF podGone THEN failures ELSE failures + 1
    /\ client' = [client EXCEPT ![p] = "stopping"]
    /\ onError' = [onError EXCEPT ![p] = TRUE]
    /\ UNCHANGED <<control, restarted, initDone, onDone, touched, pathDone, startVars, tomb, worldVars>>

\* ... and then onDone is closed.
ClientFailed(p) ==
    /\ client[p] = "stopping"
    /\ client' = [client EXCEPT ![p] = "stopped"]
    /\ onDone' = [onDone EXCEPT ![p] = TRUE]
    /\ UNCHANGED <<control, restarted, initDone, onError, touched, pathDone, startVars, tomb, worldVars, failures>>

\* The loops of a client return when their context is done.
ClientStops(p) ==
    /\ client[p] \in {"initial", "synced"} /\ Done(p)
    /\ Stopped(p)
    /\ UNCHANGED <<control, restarted, pathDone, startVars, tomb, worldVars, failures>>

-----------------------------------------------------------------------------
(* startWithWait, and what its caller does with the result.                *)

\* The goroutine returns nil.
ReturnNil(p, t) ==
    /\ control' = [control EXCEPT ![p] = "returned"]
    /\ tomb' = Return(t, NoError)

\* startWithWait returns an error: to Start, which returns it to the tomb, or
\* to the restart loop, which waits fifteen seconds.
ReturnError(p, t, error) ==
    /\ control' = [control EXCEPT ![p] = IF restarted[p] THEN "backoff" ELSE "returned"]
    /\ tomb' = IF restarted[p] THEN t ELSE Return(t, error)

\* The context is done before a client is made.
StartNothing(p) ==
    /\ control[p] = "start" /\ Done(p)
    /\ ReturnNil(p, tomb)
    /\ UNCHANGED <<restarted, clientVars, pathDone, startVars, worldVars, failures>>

\* The selector does not find the pod any more: it kills the tomb itself.
SelectFails(p) ==
    /\ control[p] = "start" /\ podGone
    /\ ReturnError(p, Kill(tomb, LostConnection), LostConnection)
    /\ UNCHANGED <<restarted, clientVars, pathDone, startVars, worldVars, failures>>

\* The helper cannot be injected or started, or the context is done.
StartSyncFails(p) ==
    /\ control[p] = "start" /\ (MayFail \/ Done(p))
    /\ failures' = IF MayFail THEN failures + 1 ELSE failures
    /\ ReturnError(p, tomb, SyncError)
    /\ UNCHANGED <<restarted, clientVars, pathDone, startVars, worldVars>>

\* A client with new channels.
StartSync(p) ==
    /\ control[p] = "start" /\ ~podGone
    /\ control' = [control EXCEPT ![p] = "waiting"]
    /\ client' = [client EXCEPT ![p] = "initial"]
    /\ initDone' = [initDone EXCEPT ![p] = FALSE] /\ touched' = [touched EXCEPT ![p] = FALSE]
    /\ onError' = [onError EXCEPT ![p] = FALSE] /\ onDone' = [onDone EXCEPT ![p] = FALSE]
    /\ UNCHANGED <<restarted, pathDone, startVars, tomb, worldVars, failures>>

\* The initial sync is over: the goroutine that watches the client is
\* started, and startWithWait returns. With noWatch the context of the path
\* is cancelled when the first call returns.
InitialSyncWaited(p) ==
    /\ control[p] = "waiting" /\ initDone[p]
    /\ control' = [control EXCEPT ![p] = "watching"]
    /\ tomb' = Return(Go(tomb, 1), NoError)
    /\ pathDone' = [pathDone EXCEPT ![p] = @ \/ (p \in NoWatch /\ ~restarted[p])]
    /\ UNCHANGED <<restarted, clientVars, startVars, worldVars, failures>>

WaitingGetsError(p) ==
    /\ control[p] = "waiting" /\ onError[p]
    /\ onError' = [onError EXCEPT ![p] = FALSE]
    /\ IF Done(p) THEN ReturnNil(p, tomb) ELSE ReturnError(p, tomb, SyncError)
    /\ UNCHANGED <<restarted, client, initDone, onDone, touched, pathDone, startVars, worldVars, failures>>

WaitingGetsDone(p) ==
    /\ control[p] = "waiting" /\ onDone[p]
    /\ ReturnNil(p, Kill(tomb, NoError))
    /\ UNCHANGED <<restarted, clientVars, pathDone, startVars, worldVars, failures>>

WaitingCancelled(p) ==
    /\ control[p] = "waiting" /\ Done(p)
    /\ Stopped(p)
    /\ ReturnNil(p, tomb)
    /\ UNCHANGED <<restarted, pathDone, startVars, worldVars, failures>>

-----------------------------------------------------------------------------
(* The goroutine that watches the client.                                  *)

\* The client failed: it is started again while its pod exists; otherwise,
\* and when the context is done, the tomb is killed (syncStop).
WatchGetsError(p) ==
    /\ control[p] = "watching" /\ onError[p]
    /\ onError' = [onError EXCEPT ![p] = FALSE]
    /\ IF Done(p) \/ podGone
       THEN ReturnNil(p, Kill(tomb, NoError)) /\ UNCHANGED restarted
       ELSE /\ control' = [control EXCEPT ![p] = "start"]
            /\ restarted' = [restarted EXCEPT ![p] = TRUE]
            /\ UNCHANGED tomb
    /\ UNCHANGED <<client, initDone, onDone, touched, pathDone, startVars, worldVars, failures>>

\* Mutant: syncDone does not kill the tomb.
DoneUnnoticed(p) ==
    /\ control[p] = "watching" /\ onDone[p]
    /\ ReturnNil(p, tomb)
    /\ UNCHANGED <<restarted, clientVars, pathDone, startVars, worldVars, failures>>

\* syncDone.
WatchGetsDone(p) ==
    /\ control[p] = "watching" /\ onDone[p]
    /\ ReturnNil(p, Kill(tomb, NoError))
    /\ UNCHANGED <<restarted, clientVars, pathDone, startVars, worldVars, failures>>

\* syncStop.
WatchCancelled(p) ==
    /\ control[p] = "watching" /\ Done(p)
    /\ Stopped(p)
    /\ ReturnNil(p, Kill(tomb, NoError))
    /\ UNCHANGED <<restarted, pathDone, startVars, worldVars, failures>>

\* Mutant: the restart loop does not look at the context.
BackoffRestarts(p) ==
    /\ control[p] = "backoff"
    /\ control' = [control EXCEPT ![p] = "start"]
    /\ UNCHANGED <<restarted, clientVars, pathDone, startVars, tomb, worldVars, failures>>

\* Fifteen seconds are over, or the context is done.
BackoffEnds(p) ==
    /\ control[p] = "backoff"
    /\ IF Done(p) THEN ReturnNil(p, Kill(tomb, NoError))
                  ELSE control' = [control EXCEPT ![p] = "start"] /\ UNCHANGED tomb
    /\ UNCHANGED <<restarted, clientVars, pathDone, startVars, worldVars, failures>>

-----------------------------------------------------------------------------
(* The other service, the user and the cluster.                            *)

OtherStops ==
    /\ other /\ DevDone
    /\ other' = FALSE
    /\ tomb' = Return(tomb, NoError)
    /\ UNCHANGED <<control, restarted, clientVars, pathDone, startVars, cancelled, podGone, failures>>

Cancel ==
    /\ ~cancelled
    /\ cancelled' = TRUE
    /\ UNCHANGED <<control, restarted, clientVars, pathDone, startVars, tomb, other, podGone, failures>>

DeletePod ==
    /\ ~podGone
    /\ podGone' = TRUE
    /\ UNCHANGED <<control, restarted, clientVars, pathDone, startVars, tomb, other, cancelled, failures>>

ClientStep(p) == ClientFailed(p) \/ ClientStops(p) \/ (podGone /\ ClientFails(p))
SyncStep(p)   == InitialSyncDone(p) \/ TouchContainer(p)

ControlStep(p) ==
    \/ StartNothing(p) \/ StartSync(p) \/ SelectFails(p)
    \/ InitialSyncWaited(p) \/ WaitingGetsError(p) \/ WaitingGetsDone(p) \/ WaitingCancelled(p)
    \/ WatchGetsError(p) \/ WatchGetsDone(p) \/ WatchCancelled(p) \/ BackoffEnds(p)

Ended == tomb.dead /\ UNCHANGED vars

Next ==
    \/ \E p \in Paths : ControlStep(p) \/ StartSyncFails(p) \/ ClientStep(p) \/ ClientFails(p) \/ SyncStep(p)
    \/ OtherStops \/ Cancel \/ DeletePod \/ Ended

Spec == Init /\ [][Next]_vars

\* Goroutines go on, an initial sync ends, the connection to a deleted pod
\* breaks. Nobody has to cancel and nothing else has to fail.
FairSpec ==
    /\ Spec /\ WF_vars(OtherStops)
    /\ \A p \in Paths : WF_vars(ControlStep(p)) /\ WF_vars(ClientStep(p)) /\ WF_vars(SyncStep(p))

-----------------------------------------------------------------------------
(* Properties.                                                             *)

\* The tomb is dead only when every controller has returned: the goroutines
\* started by startWithWait are counted before their creator returns.
DeadMeansReturned == tomb.dead => ~other /\ \A p \in Paths : control[p] = "returned"

\* The container is not started before the paths it waits for have finished an
\* initial sync, but for what clients add that are restarted after their path
\* was counted: each of their calls stands for one path that is not waited for.
ContainerWaits == container => Cardinality(StartContainer \ synced) <= recounted

\* Without that exception; violated by such a restart.
ContainerWaitsForAll == container => StartContainer \subseteq synced

\* A sync never ends unnoticed: when the client of a path has ended, it is
\* started again or the dev pod is taken down with it.
NoSilentEnd == \A p \in Paths : client[p] = "stopped" ~> (client[p] # "stopped" \/ DevDone)

\* The dev pod can be stopped: its tomb is dead in the end, wherever the
\* controllers, their clients and their restart loops are, and not before
\* all of them have returned.
TombDies == (cancelled ~> tomb.dead) /\ []DeadMeansReturned

\* The other services of a dev pod run until the dev pod is stopped or
\* something failed, also when a path with noWatch has ended.
NoWatchEndsAlone == ~Alive(tomb) => cancelled \/ podGone \/ failures > 0
=============================================================================
