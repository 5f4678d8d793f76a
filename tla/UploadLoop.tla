------------------------------ MODULE UploadLoop ------------------------------
(***************************************************************************)
(* How changes reach the upstream loop of a sync and how the initial       *)
(* upload is declared done. Four goroutines share one upstream:            *)
(*                                                                         *)
(*  - the watcher posts an event for every local edit, without blocking;   *)
(*  - the initial sync sends the files that have to be uploaded into the   *)
(*    same channel, blocking, and then runs UpstreamDone;                  *)
(*  - the events loop moves events from the channel into a buffer;         *)
(*  - the main loop takes the buffer, uploads, and runs the commands and   *)
(*    the container start that follow an upload.                           *)
(*                                                                         *)
(* What is transferred is in SyncEngine; here an attempt of applyCreates   *)
(* succeeds for all changes, or fails after it noted some of them in the   *)
(* index, which the next attempt then leaves out. An edit changes a file   *)
(* at most once, and a file has one version per edit.                      *)
(***************************************************************************)
EXTENDS Naturals, FiniteSets

CONSTANTS
    Initial,        \* files the initial sync finds to be uploaded
    Edits,          \* further files, edited once each while the sync runs
    Known,          \* those the index has with the same size: only they are compared by checksum
    ChannelSize,    \* capacity of upstream.events (1000)
    BatchSize       \* initialUpstreamBatchSize (5000)

QueuedFiles == Initial \cup Edits

\* An entry of the channel: sent by the initial sync or posted by the watcher.
Event == [name : QueuedFiles, initial : BOOLEAN]

ASSUME UploadLoopAssumption ==
    /\ Initial \cap Edits = {} /\ IsFiniteSet(QueuedFiles) /\ Known \subseteq QueuedFiles
    /\ ChannelSize \in Nat \ {0} /\ BatchSize \in Nat \ {0}

VARIABLES
    events, hand, eventBuffer,  \* the channel, the event the events loop holds, the buffer
    isBusy, busyMutex,          \* upstream.isBusy, and whether the initial sync holds its mutex
    sender, toSend, batch,      \* the initial sync: where it is and what it still sends
    main, changes, changeAmount,\* the main loop: where it is and what it gathered
    watching,                   \* has startUpstream installed the watcher?
    edited,                     \* files edited so far
    uploaded, same,             \* files brought to the container; those that were found the same
    dropped,                    \* files a failed attempt noted in the index and none uploaded after
    initialSyncCompleted, initialSyncChanges,
    executed,                   \* files some command or restart was run for
    started,                    \* initialSyncTouchOnce: has the container been started?
    stopped                     \* Sync.Stop has run

queueVars == <<events, hand, eventBuffer, isBusy, busyMutex, sender, toSend, batch, main, changes,
               changeAmount, watching, edited, uploaded, same, dropped, initialSyncCompleted, initialSyncChanges,
               executed, started, stopped>>

channelVars == <<events, hand, eventBuffer>>
senderVars  == <<busyMutex, sender, toSend, batch>>
mainVars    == <<main, changes, changeAmount>>
commandVars == <<initialSyncChanges, executed, started>>
fileVars    == <<watching, edited, uploaded, same, dropped>>

QueueTypeOK ==
    /\ events \subseteq Event /\ Cardinality(events) <= ChannelSize
    /\ hand \subseteq Event /\ eventBuffer \subseteq Event
    /\ isBusy \in BOOLEAN /\ busyMutex \in BOOLEAN
    /\ sender \in {"collect", "wait", "send", "busy", "executing", "done"}
    /\ toSend \subseteq QueuedFiles /\ batch \subseteq QueuedFiles
    /\ main \in {"off", "gather", "check", "lock", "exec", "apply", "command", "returned"}
    /\ changes \subseteq Event /\ changeAmount \in 0 .. Cardinality(Event)
    /\ watching \in BOOLEAN /\ edited \subseteq Edits
    /\ uploaded \subseteq QueuedFiles /\ same \subseteq Known /\ dropped \subseteq Known
    /\ initialSyncCompleted \in BOOLEAN /\ initialSyncChanges \subseteq QueuedFiles
    /\ executed \subseteq QueuedFiles /\ started \in BOOLEAN /\ stopped \in BOOLEAN

QueueInit ==
    /\ events = {} /\ hand = {} /\ eventBuffer = {}
    /\ isBusy = TRUE /\ busyMutex = FALSE
    /\ sender = "collect" /\ toSend = {} /\ batch = {}
    /\ main = "off" /\ changes = {} /\ changeAmount = 0
    /\ watching = FALSE /\ edited = {} /\ uploaded = {} /\ same = {} /\ dropped = {}
    /\ initialSyncCompleted = FALSE /\ initialSyncChanges = {} /\ executed = {}
    /\ started = FALSE /\ stopped = FALSE

Full == Cardinality(events) >= ChannelSize

Names(E) == {e.name : e \in E}

\* The files whose version the index describes.
Indexed == uploaded \cup dropped

-----------------------------------------------------------------------------
(* The local user, the watcher, and whoever stops the sync.                *)

\* An edit is posted when the watcher is installed, and dropped by it when
\* the channel is full. An edit that is not posted is only seen if the local
\* state is collected later.
Edit(f) ==
    /\ f \in Edits \ edited
    /\ edited' = edited \cup {f}
    /\ events' = IF watching /\ ~Full THEN events \cup {[name |-> f, initial |-> FALSE]} ELSE events
    /\ UNCHANGED <<hand, eventBuffer, isBusy, senderVars, mainVars, watching, uploaded, same, dropped,
                   initialSyncCompleted, commandVars, stopped>>

\* startUpstream installs the watcher, then enters the main loop, which
\* starts the events loop.
StartUpstream ==
    /\ main = "off"
    /\ watching' = TRUE
    /\ main' = "gather"
    /\ UNCHANGED <<channelVars, isBusy, senderVars, changes, changeAmount, edited, uploaded, same, dropped,
                   initialSyncCompleted, commandVars, stopped>>

\* The connection is lost or the session ends.
Stop ==
    /\ ~stopped
    /\ stopped' = TRUE
    /\ UNCHANGED <<channelVars, isBusy, senderVars, mainVars, fileVars, initialSyncCompleted, commandVars>>

-----------------------------------------------------------------------------
(* The initial sync: sendChangesToUpstream and UpstreamDone.               *)

\* The local state holds the edits made so far.
CollectLocalState ==
    /\ sender = "collect"
    /\ toSend' = Initial \cup edited
    /\ sender' = IF toSend' = {} THEN "busy" ELSE "wait"
    /\ UNCHANGED <<channelVars, isBusy, busyMutex, batch, mainVars, fileVars, initialSyncCompleted,
                   commandVars, stopped>>

\* The next batch is cut once the channel is empty; what the index already
\* describes is left out.
NextBatch ==
    /\ sender = "wait" /\ events = {}
    /\ \E part \in SUBSET toSend :
         /\ Cardinality(part) = BatchSize \/ (part = toSend /\ Cardinality(part) < BatchSize)
         /\ toSend' = toSend \ part
         /\ batch' = part \ Indexed
    /\ sender' = "send"
    /\ UNCHANGED <<channelVars, isBusy, busyMutex, mainVars, fileVars, initialSyncCompleted, commandVars, stopped>>

\* For every file: take the mutex and set isBusy ...
LockBusy ==
    /\ sender = "send" /\ batch # {} /\ ~busyMutex
    /\ busyMutex' = TRUE
    /\ isBusy' = TRUE
    /\ UNCHANGED <<channelVars, sender, toSend, batch, mainVars, fileVars, initialSyncCompleted, commandVars, stopped>>

\* ... send, which blocks while the channel is full, and release it.
SendChange ==
    /\ sender = "send" /\ busyMutex /\ ~Full
    /\ \E f \in batch :
         /\ events' = events \cup {[name |-> f, initial |-> TRUE]}
         /\ batch' = batch \ {f}
    /\ busyMutex' = FALSE
    /\ UNCHANGED <<hand, eventBuffer, isBusy, sender, toSend, mainVars, fileVars, initialSyncCompleted, commandVars, stopped>>

BatchSent ==
    /\ sender = "send" /\ batch = {} /\ ~busyMutex
    /\ sender' = IF toSend = {} THEN "busy" ELSE "wait"
    /\ UNCHANGED <<channelVars, isBusy, busyMutex, toSend, batch, mainVars, fileVars, initialSyncCompleted, commandVars, stopped>>

\* UpstreamDone polls IsBusy, then signals the main loop ...
IsBusy == events # {} \/ isBusy

SignalCompleted ==
    /\ sender = "busy" /\ ~IsBusy
    /\ initialSyncCompleted' = TRUE
    /\ sender' = "executing"
    /\ UNCHANGED <<channelVars, isBusy, busyMutex, toSend, batch, mainVars, fileVars, commandVars, stopped>>

IsInitialSyncing == initialSyncChanges # {} \/ ~initialSyncCompleted

\* ... polls IsInitialSyncing, and closes onInitUploadDone.
UploadDone ==
    /\ sender = "executing" /\ ~IsInitialSyncing
    /\ sender' = "done"
    /\ UNCHANGED <<channelVars, isBusy, busyMutex, toSend, batch, mainVars, fileVars, initialSyncCompleted, commandVars, stopped>>

SenderStep ==
    CollectLocalState \/ NextBatch \/ LockBusy \/ SendChange \/ BatchSent \/ SignalCompleted \/ UploadDone

-----------------------------------------------------------------------------
(* The events loop, which ends with the main loop.                         *)

LoopRuns == main \notin {"off", "returned"}

ReceiveEvent ==
    /\ LoopRuns /\ hand = {}
    /\ \E e \in events : hand' = {e} /\ events' = events \ {e}
    /\ UNCHANGED <<eventBuffer, isBusy, senderVars, mainVars, fileVars, initialSyncCompleted, commandVars, stopped>>

\* With the buffer's mutex held the loop drains the channel.
BufferEvents ==
    /\ LoopRuns /\ hand # {}
    /\ eventBuffer' = eventBuffer \cup hand \cup events
    /\ hand' = {} /\ events' = {}
    /\ UNCHANGED <<isBusy, senderVars, mainVars, fileVars, initialSyncCompleted, commandVars, stopped>>

EventsLoopStep == ReceiveEvent \/ BufferEvents

-----------------------------------------------------------------------------
(* The main loop.                                                          *)

\* Mutant: an edit is ignored as long as the initial sync runs.
EvaluatedInitial(E) == {e \in E : e.initial \/ (initialSyncCompleted /\ e.name \notin Indexed)}

\* An event of the watcher counts only while the file differs from the index.
Evaluated(E) == {e \in E : e.initial \/ e.name \notin Indexed}

\* Another round brought nothing new, or the minute is over.
GatheredAll(more, expired) == changeAmount > 0 /\ (expired \/ Cardinality(more) = changeAmount)

Gather ==
    /\ main = "gather" /\ ~stopped
    /\ eventBuffer' = {}
    /\ changes' = changes \cup Evaluated(eventBuffer)
    /\ \E expired \in BOOLEAN :
         IF GatheredAll(changes', expired)
         THEN main' = "apply" /\ changeAmount' = 0
         ELSE main' = "check" /\ changeAmount' = Cardinality(changes')
    /\ UNCHANGED <<events, hand, isBusy, senderVars, fileVars, initialSyncCompleted, commandVars, stopped>>

\* The channel is looked at once without the mutex ...
CheckIdle ==
    /\ main = "check"
    /\ main' = IF changeAmount = 0 /\ events = {} THEN "lock" ELSE "exec"
    /\ UNCHANGED <<channelVars, isBusy, senderVars, changes, changeAmount, fileVars, initialSyncCompleted, commandVars, stopped>>

\* ... and once with it.
ClearBusy ==
    /\ main = "lock" /\ ~busyMutex
    /\ isBusy' = (isBusy /\ events # {})
    /\ main' = "exec"
    /\ UNCHANGED <<channelVars, senderVars, changes, changeAmount, fileVars, initialSyncCompleted, commandVars, stopped>>

\* The commands for what was uploaded during the initial sync, once it is
\* over; the container is started after them, once.
ExecCommandsAfterInitialSync ==
    /\ main = "exec" /\ ~stopped
    /\ IF initialSyncCompleted
       THEN /\ executed' = executed \cup initialSyncChanges
            /\ initialSyncChanges' = {}
            /\ started' = TRUE
       ELSE UNCHANGED commandVars
    /\ main' = "gather"
    /\ UNCHANGED <<channelVars, isBusy, senderVars, changes, changeAmount, fileVars, initialSyncCompleted, stopped>>

Without(files) == {e \in changes : e.name \notin files}

\* The rest of the changes goes to the commands; if there is none, there are no commands.
GoOnWith(rest, next) == changes' = rest /\ main' = IF rest = {} THEN "gather" ELSE next

\* An attempt succeeds. Files with the checksum they have in the container are not written,
\* and only what was written is told to the commands.
ApplyChanges ==
    /\ main = "apply" /\ ~stopped
    /\ \E equal \in SUBSET (Known \cap Names(changes)) : same' = same \cup equal /\ GoOnWith(Without(equal), "command")
    /\ uploaded' = uploaded \cup Names(changes)
    /\ UNCHANGED <<channelVars, isBusy, senderVars, changeAmount, watching, edited, dropped, initialSyncCompleted,
                   commandVars, stopped>>

\* An attempt fails. What it sent to be compared by checksum is noted in the index, so
\* updateUploadChanges leaves it out; if nothing else is left the upload counts as done.
RetryUpload ==
    /\ main = "apply" /\ ~stopped
    /\ \E noted \in SUBSET (Known \cap Names(changes)) : dropped' = dropped \cup (noted \ uploaded) /\ GoOnWith(Without(noted), "apply")
    /\ UNCHANGED <<channelVars, isBusy, senderVars, changeAmount, watching, edited, uploaded, same,
                   initialSyncCompleted, commandVars, stopped>>

\* Mutant: the list of put off commands is replaced, not extended.
ExecReplacePutOff ==
    /\ main = "command" /\ ~stopped
    /\ IF initialSyncCompleted
       THEN executed' = executed \cup Names(changes) /\ UNCHANGED initialSyncChanges
       ELSE initialSyncChanges' = Names(changes) /\ UNCHANGED executed
    /\ changes' = {}
    /\ main' = "gather"
    /\ UNCHANGED <<channelVars, isBusy, senderVars, changeAmount, fileVars, initialSyncCompleted, started, stopped>>

\* Before the initial sync is over the commands are put off.
ExecCommandsAfterApply ==
    /\ main = "command" /\ ~stopped
    /\ IF initialSyncCompleted
       THEN executed' = executed \cup Names(changes) /\ UNCHANGED initialSyncChanges
       ELSE initialSyncChanges' = initialSyncChanges \cup Names(changes) /\ UNCHANGED executed
    /\ changes' = {}
    /\ main' = "gather"
    /\ UNCHANGED <<channelVars, isBusy, senderVars, changeAmount, fileVars, initialSyncCompleted, started, stopped>>

\* An upload, a command or the container start fails, or the sync was
\* stopped meanwhile: the loop returns and stops the sync. Commands that
\* were to be run are gone.
MainReturns ==
    /\ main \in {"gather", "exec", "apply", "command"}
    /\ main = "gather" => stopped
    /\ stopped' = TRUE
    /\ main' = "returned"
    /\ initialSyncChanges' = IF main = "exec" /\ initialSyncCompleted THEN {} ELSE initialSyncChanges
    /\ UNCHANGED <<channelVars, isBusy, senderVars, changes, changeAmount, fileVars, initialSyncCompleted, executed, started>>

MainStep ==
    Gather \/ CheckIdle \/ ClearBusy \/ ExecCommandsAfterInitialSync \/ ApplyChanges \/ ExecCommandsAfterApply

-----------------------------------------------------------------------------
\* Nothing is left to do once the loop has returned; the initial sync may
\* be left waiting for good.
Ended == main = "returned" /\ UNCHANGED queueVars

QueueNext ==
    \/ \E f \in Edits : Edit(f)
    \/ StartUpstream \/ Stop
    \/ SenderStep \/ EventsLoopStep \/ MainStep \/ RetryUpload \/ MainReturns \/ Ended

QueueSpec == QueueInit /\ [][QueueNext]_queueVars

\* The goroutines of the sync run on; edits, errors and stops may not come.
FairQueue ==
    /\ QueueSpec
    /\ WF_queueVars(StartUpstream) /\ WF_queueVars(SenderStep)
    /\ WF_queueVars(EventsLoopStep) /\ WF_queueVars(MainStep)

-----------------------------------------------------------------------------
(* Properties.                                                             *)

\* No upload is forgotten by the commands: a file that an attempt wrote to the container
\* has had its commands run, is on the list of the initial sync, or is about to be put on
\* either by execCommandsAfterApply, as long as the sync is up. What a retry leaves out
\* (dropped) has none, although the failed attempt may have brought it to the container.
NoCommandMissed ==
    ~stopped => uploaded \ same \subseteq executed \cup initialSyncChanges
                                         \cup (IF main = "command" THEN Names(changes) ELSE {})

\* When onInitUploadDone is closed, and when the container is started, no
\* command of the initial sync is waiting, and none is put off any more.
CommandsBeforeDone ==
    (sender = "done" \/ started) => initialSyncCompleted /\ initialSyncChanges = {}

\* The commands of every file run that an attempt of applyCreates returned as written, and
\* those of the initial sync before anybody is told that it is done
\* (execCommandsAfterInitialSync).
CommandsInTime == NoCommandMissed /\ CommandsBeforeDone

\* The initial upload ends: the goroutine that sends, the loop that drains a
\* full channel and the main loop never wait for each other for good.
InitialUploadEnds == <>(sender = "done" \/ stopped)

\* The container that waits for the initial sync is started, whether or not
\* the initial sync had anything to upload.
ContainerStarts == <>(started \/ stopped)

\* What got into the channel, from the watcher or from the initial sync, is
\* uploaded, or dropped by a retry: the hand of the events loop, the exchanged
\* buffer and the rounds of the main loop lose nothing while the others go on.
QueuedUploaded ==
    \A f \in QueuedFiles : f \in Names(events) ~> f \in uploaded \cup dropped \/ stopped

\* None of the three goroutines is stuck: the initial upload ends, the container starts and
\* whatever is queued is uploaded or dropped, at the limits of the channel and the batches, too.
UploadGoesOn == InitialUploadEnds /\ ContainerStarts /\ QueuedUploaded

\* onInitUploadDone is closed after the files of the initial sync were uploaded.
InitialUploadComplete == sender = "done" /\ ~stopped => Initial \subseteq uploaded

\* The commands run for every change that is not uploaded in vain (Options.Exec).
CommandsForAll ==
    ~stopped => Indexed \ same \subseteq executed \cup initialSyncChanges
                                        \cup (IF main = "command" THEN Names(changes) ELSE {})
=============================================================================
