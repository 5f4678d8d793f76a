----------------------------- MODULE SyncEngine -----------------------------
(***************************************************************************)
(* The running file synchronisation of DevSpace, after its initial sync:   *)
(* the upstream loop (local -> container), the downstream loop (container  *)
(* -> local), the file index they share, and the helper process in the     *)
(* container that serves both (package sync, helper/server).               *)
(*                                                                         *)
(* A file is Absent or a version [tick, data].  Time is counted in ticks,  *)
(* TicksPerSecond of them to the second: the helper compares ticks (nano-  *)
(* seconds), the client compares seconds, and every transfer truncates a   *)
(* modification time to its second.  Of directories only one is left: its  *)
(* deletion in the container, which takes local files with it.             *)
(***************************************************************************)
EXTENDS Integers, Sequences, FiniteSets

CONSTANTS
    Files,              \* relative paths that are not excluded from the sync
    Contents,           \* what a file may hold
    Size,               \* the size of each content
    Truncated,          \* what an interrupted copy leaves behind
    Absent,             \* no such file, no such entry
    SyncRetries,        \* tries of an upload or a download (syncRetries, 5)
    TicksPerSecond,     \* resolution of the clocks against the second
    Environments        \* the exclude lists a sync may have, and what users and network may do

Version == [tick : Nat, data : Contents]
Info    == [mtime : Nat, size : Nat]
Stat    == [tick : Nat, size : Nat]
Change  == [name : Files, mtime : Nat, size : Nat]

\* The file untarNext has open: what os.Stat said of it, and whether it is written.
Opened  == [name : Files, seen : Stat \cup {Absent}, copied : BOOLEAN]

\* The exclude lists of the sync; the files of a directory that may be deleted in the container
\* while some of them are being edited (users who wait for the sync delete none); whether one side may edit a file while the other's edit is
\* under way (concurrent), a file may be edited again while upstream gathers its change
\* (repeated) or be given the time 0 (epoch), and what is written; bounds: ticks, hence
\* edits, and failed calls of the two connections.
Environment ==
    [uploadExcluded : SUBSET Files, downloadExcluded : SUBSET Files, folder : SUBSET Files,
     concurrent : BOOLEAN, repeated : BOOLEAN, epoch : BOOLEAN, contents : SUBSET Contents,
     maxClock : Nat, maxUploadErrors : Nat, maxDownloadErrors : Nat]

ASSUME EnvironmentAssumption ==
    \A e \in Environments : e \in Environment /\ (e.concurrent \/ e.folder = {})
ASSUME ContentAssumption == Size \in [Contents -> Nat] /\ Truncated \in Contents
ASSUME AbsentAssumption  == Absent \notin Version \cup Info \cup Stat \cup Opened
ASSUME BoundAssumption   == SyncRetries \in Nat \ {0} /\ TicksPerSecond \in Nat \ {0}

VARIABLES
    local,      \* the local file system
    remote,     \* the file system of the container
    fileMap,    \* Sync.fileIndex.fileMap: what the client believes is in sync
    watched,    \* Downstream.watchedFiles: the state the helper last reported
    events,     \* upstream.eventBuffer: paths the local watcher reported
    upPhase,    \* where upstream.mainLoop is
    changes,    \* its changes; the time 0 marks a removal
    creates,    \* while they are applied: positions of those still to be uploaded
    uploads,    \* the files filterChanges left to be uploaded
    upTries,    \* failed tries of applyCreates
    downPhase,  \* where downstream.mainLoop is
    counted,    \* lastAmountChanges > 0
    deletes,    \* the DELETE changes being applied
    swept,      \* whether the directory of env.folder is among them
    downloads,  \* the CHANGE changes being applied
    todo,       \* files the helper still has to put into the archive
    tar,        \* archived files on their way to the client
    outFile,    \* the one of them untarNext is writing
    downTries,  \* failed tries of initDownload
    stopped,    \* Sync.Stop was called
    clock, upErrors, downErrors,
    writer,     \* the side whose user edited the file last
    env         \* the environment, chosen once

userVars == <<clock, writer, env>>
upVars   == <<upPhase, changes, creates, uploads, upTries, upErrors>>
downVars == <<downPhase, counted, deletes, swept, downloads, todo, tar, outFile, downTries, downErrors>>
vars == <<local, remote, fileMap, watched, events, upVars, downVars, stopped, userVars>>

-----------------------------------------------------------------------------
(* What the code looks at in a file.                                       *)

\* Options.UploadExcludePaths and DownloadExcludePaths.
UploadExcluded   == env.uploadExcluded
DownloadExcluded == env.downloadExcluded

Sec(t) == t \div TicksPerSecond

\* createFileInformationFromStat, parseFileInformation: seconds and size.
InfoOf(v) == IF v = Absent THEN Absent ELSE [mtime |-> Sec(v.tick), size |-> Size[v.data]]

\* An entry of the state the helper's walkDir collects: full time and size.
StatOf(v) == IF v = Absent THEN Absent ELSE [tick |-> v.tick, size |-> Size[v.data]]

\* Slip: one second too far.
ArchivedEarlier(v) == [v EXCEPT !.tick = (Sec(@) - 1) * TicksPerSecond]

\* tarFile and os.Chtimes: a transferred file keeps only the second of its time.
Archived(v) == [v EXCEPT !.tick = Sec(@) * TicksPerSecond]

ChangeOf(f, info) == [name |-> f, mtime |-> info.mtime, size |-> info.size]
InfoIn(c)         == [mtime |-> c.mtime, size |-> c.size]
RemoveChange(f)   == [name |-> f, mtime |-> 0, size |-> 0]

-----------------------------------------------------------------------------
(* The decisions of evaluater.go; the caller holds the lock of the index.  *)

\* The branch for the upload exclude list consults the general exclude list,
\* so the paths in UploadExcluded are not excluded here.
shouldRemoveRemote(f) == fileMap[f] # Absent

shouldUpload(c, index) ==
    index[c.name] = Absent \/ InfoIn(c) # index[c.name]

shouldDownload(c) ==
    \/ fileMap[c.name] = Absent
    \/ c.mtime > fileMap[c.name].mtime
    \/ c.mtime = fileMap[c.name].mtime /\ c.size # fileMap[c.name].size

\* Slip: only files the index describes as the report does are removed.
ShouldRemoveLocalStrict(c) ==
    /\ local[c.name] # Absent
    /\ InfoIn(c) = fileMap[c.name] /\ Sec(local[c.name].tick) <= c.mtime

shouldRemoveLocal(c) ==
    /\ local[c.name] # Absent
    /\ fileMap[c.name] # Absent
    /\ InfoIn(c) = fileMap[c.name] => Sec(local[c.name].tick) <= c.mtime

-----------------------------------------------------------------------------
Init ==
    /\ env \in Environments
    /\ \E v \in [Files -> [tick : {TicksPerSecond}, data : env.contents] \cup {Absent}] :
          /\ local = v /\ remote = v
          /\ fileMap = [f \in Files |-> InfoOf(v[f])]
          /\ watched = [f \in Files |-> StatOf(v[f])]
    /\ events = {}
    /\ upPhase = "gather" /\ changes = <<>> /\ creates = {} /\ uploads = {} /\ upTries = 0
    /\ downPhase = "idle" /\ counted = FALSE /\ deletes = {} /\ swept = FALSE /\ downloads = {}
    /\ todo = {} /\ tar = [f \in Files |-> Absent] /\ outFile = Absent /\ downTries = 0
    /\ stopped = FALSE
    /\ clock = TicksPerSecond /\ upErrors = 0 /\ downErrors = 0
    /\ writer = [f \in Files |-> "local"]

-----------------------------------------------------------------------------
(* The users of the two file systems.                                      *)

\* The changes of upstream that are gathered or still being applied.
Pending == IF upPhase = "gather" THEN DOMAIN changes ELSE creates
Names(positions) == {changes[i].name : i \in positions}

\* Nothing about f is queued, being applied or unreported.
Settled(f) ==
    /\ f \notin events
    /\ f \notin Names(Pending)
    /\ \A c \in deletes \cup downloads : c.name # f
    /\ watched[f] = StatOf(remote[f])

\* What the users are assumed to leave to the sync before they edit a file.
MayEdit(side, f) ==
    /\ env.concurrent \/ writer[f] = side \/ Settled(f)
    /\ env.repeated \/ upPhase # "gather" \/ f \notin Names(Pending)

\* The next moments anything can be written at: later in this second, or in the next.
Moments == {clock + 1, (Sec(clock) + 1) * TicksPerSecond} \cap 0 .. env.maxClock

Edit(side, f, t) ==
    /\ ~stopped /\ MayEdit(side, f)
    /\ clock' = t /\ writer' = [writer EXCEPT ![f] = side]
    /\ UNCHANGED <<fileMap, watched, upVars, downVars, stopped, env>>

NewVersions(t) == [tick : {t} \cup (IF env.epoch THEN {0} ELSE {}), data : env.contents]

LocalWrite(f) ==
    /\ \E t \in Moments : Edit("local", f, t) /\ \E v \in NewVersions(t) : local' = [local EXCEPT ![f] = v]
    /\ events' = events \cup {f}
    /\ UNCHANGED remote

LocalDelete(f) ==
    /\ local[f] # Absent
    /\ \E t \in Moments : Edit("local", f, t)
    /\ local' = [local EXCEPT ![f] = Absent]
    /\ events' = events \cup {f}
    /\ UNCHANGED remote

RemoteWrite(f) ==
    /\ \E t \in Moments : Edit("remote", f, t) /\ \E v \in NewVersions(t) : remote' = [remote EXCEPT ![f] = v]
    /\ UNCHANGED <<local, events>>

RemoteDelete(f) ==
    /\ remote[f] # Absent
    /\ \E t \in Moments : Edit("remote", f, t)
    /\ remote' = [remote EXCEPT ![f] = Absent]
    /\ UNCHANGED <<local, events>>

-----------------------------------------------------------------------------
(* Upstream.  From its first FilterChanges to the end of the upload it     *)
(* holds the lock of the index; the downstream holds it while a file is    *)
(* open in untarNext.  Every other locked section is a single action.      *)

IndexLocked == upPhase \in {"filter", "upload"}
NoneOpen    == outFile = Absent

Evaluate(f) ==
    /\ ~stopped /\ upPhase = "gather" /\ NoneOpen /\ f \in events
    /\ events' = events \ {f}
    /\ UNCHANGED <<local, remote, watched, upPhase, creates, uploads, upTries, upErrors, downVars, stopped, userVars>>

\* evaluateChange: the path is gone.
EvaluateMissing(f) ==
    /\ Evaluate(f) /\ local[f] = Absent
    /\ changes' = IF shouldRemoveRemote(f) THEN Append(changes, RemoveChange(f)) ELSE changes
    /\ UNCHANGED fileMap

\* evaluateChange: a path on the upload exclude list is only noted in the index.
EvaluateExcluded(f) ==
    /\ Evaluate(f) /\ local[f] # Absent /\ f \in UploadExcluded
    /\ fileMap' = IF fileMap[f] # Absent /\ fileMap[f].mtime < Sec(local[f].tick)
                  THEN [fileMap EXCEPT ![f] = InfoOf(local[f])] ELSE fileMap
    /\ UNCHANGED changes

\* Slip: the upload exclude list is not consulted.
EvaluatePresentAlways(f) ==
    /\ Evaluate(f) /\ local[f] # Absent
    /\ LET c == ChangeOf(f, InfoOf(local[f])) IN
       changes' = IF shouldUpload(c, fileMap) THEN Append(changes, c) ELSE changes
    /\ UNCHANGED fileMap

\* evaluateChange: the path exists.
EvaluatePresent(f) ==
    /\ Evaluate(f) /\ local[f] # Absent /\ f \notin UploadExcluded
    /\ LET c == ChangeOf(f, InfoOf(local[f])) IN
       changes' = IF shouldUpload(c, fileMap) THEN Append(changes, c) ELSE changes
    /\ UNCHANGED fileMap

\* Slip: the lock is kept.
KeepIndexLocked == UNCHANGED <<upPhase, changes, creates, uploads>>

\* applyChanges returns to gathering and releases the lock of the index.
ReleaseIndex == upPhase' = "gather" /\ changes' = <<>> /\ creates' = {} /\ uploads' = {}

\* applyChanges splits the changes by their time; applyRemoves deletes the removed files
\* and forgets them, under a lock of its own.  A failed call stops the sync.
ApplyRemoves ==
    /\ ~stopped /\ upPhase = "gather" /\ changes # <<>>
    /\ LET removes == Names({i \in DOMAIN changes : changes[i].mtime = 0})
           rest    == {i \in DOMAIN changes : changes[i].mtime > 0}
       IN
       /\ removes = {} \/ NoneOpen
       /\ fileMap' = [f \in Files |-> IF f \in removes THEN Absent ELSE fileMap[f]]
       /\ \/ /\ remote' = [f \in Files |-> IF f \in removes THEN Absent ELSE remote[f]]
             /\ \/ rest = {} /\ ReleaseIndex
                \/ rest # {} /\ upPhase' = "create" /\ creates' = rest /\ UNCHANGED <<changes, uploads>>
             /\ UNCHANGED <<stopped, upErrors>>
          \/ /\ removes # {} /\ upErrors < env.maxUploadErrors /\ upErrors' = upErrors + 1
             /\ \E done \in SUBSET removes :
                   remote' = [f \in Files |-> IF f \in done THEN Absent ELSE remote[f]]
             /\ stopped' = TRUE /\ UNCHANGED <<upPhase, changes, creates, uploads>>
    /\ upTries' = 0
    /\ UNCHANGED <<local, watched, events, downVars, userVars>>

\* filterChanges uses the first change of each file.
First(f) == changes[CHOOSE i \in creates : /\ changes[i].name = f
                                           /\ \A j \in creates : changes[j].name = f => i <= j]

SameSize(f) == fileMap[f] # Absent /\ fileMap[f].size = First(f).size
ToCheck     == {f \in Names(creates) : SameSize(f) /\ First(f).size > 0}

\* Before it compares the checksums the client notes the new time in its index ...
IndexTouched == [f \in Files |-> IF f \in ToCheck THEN [fileMap[f] EXCEPT !.mtime = First(f).mtime]
                                 ELSE fileMap[f]]

\* ... and the helper (Checksums) gives the remote files that time.
RemoteTouched(paths) ==
    [f \in Files |-> IF f \in paths /\ remote[f] # Absent
                     THEN [remote[f] EXCEPT !.tick = First(f).mtime * TicksPerSecond]
                     ELSE remote[f]]

\* The checksum of a missing or an empty file is 0, and 0 never counts as equal.
EqualChecksum(f) ==
    /\ local[f] # Absent /\ remote[f] # Absent
    /\ Size[remote[f].data] > 0 /\ local[f].data = remote[f].data

\* applyCreates begins when it has the lock; a retry still has it.
Filter ==
    /\ ~stopped
    /\ \/ upPhase = "filter"
       \/ upPhase = "create" /\ NoneOpen

FilterChanges ==
    /\ Filter
    /\ fileMap' = IndexTouched
    /\ remote' = RemoteTouched(ToCheck)
    /\ LET rest == {f \in Names(creates) : ~SameSize(f)} \cup {f \in ToCheck : ~EqualChecksum(f)} IN
       \/ rest = {} /\ ReleaseIndex
       \/ rest # {} /\ upPhase' = "upload" /\ uploads' = rest /\ UNCHANGED <<changes, creates>>
    /\ UNCHANGED <<local, watched, events, upTries, upErrors, downVars, stopped, userVars>>

\* The reaction of applyChanges to an error of applyCreates: what shouldUpload still
\* admits is tried again, until the tries are used up or the connection is closed.
RetryUpload ==
    /\ upErrors < env.maxUploadErrors /\ upErrors' = upErrors + 1
    /\ LET rest == {i \in creates : shouldUpload(changes[i], fileMap')} IN
       \/ /\ upTries + 1 < SyncRetries /\ upTries' = upTries + 1
          /\ \/ rest = {} /\ ReleaseIndex
             \/ rest # {} /\ upPhase' = "filter" /\ creates' = rest /\ uploads' = {} /\ UNCHANGED changes
          /\ UNCHANGED stopped
       \/ stopped' = TRUE /\ UNCHANGED <<upTries, upPhase, changes, creates, uploads>>

\* The call of Checksums fails; the helper may have touched some of the files.
FilterError ==
    /\ Filter /\ ToCheck # {}
    /\ fileMap' = IndexTouched
    /\ \E touched \in SUBSET ToCheck : remote' = RemoteTouched(touched)
    /\ RetryUpload
    /\ UNCHANGED <<local, watched, events, downVars, userVars>>

\* The helper unpacks the archive over whatever is there.
RemoteUntarred(files) ==
    [f \in Files |-> IF f \in files THEN Archived(local[f]) ELSE remote[f]]

\* AddToArchive takes the files as they are now and skips the ones that are gone,
\* or that the exclude lists for the upload name.
Archivable == {f \in uploads : local[f] # Absent /\ f \notin UploadExcluded}

\* applyCreates notes the files the archiver wrote.
IndexUploaded(files) == [f \in Files |-> IF f \in files THEN InfoOf(local[f]) ELSE fileMap[f]]

UploadArchive ==
    /\ ~stopped /\ upPhase = "upload"
    /\ remote' = RemoteUntarred(Archivable)
    /\ fileMap' = IndexUploaded(Archivable)
    /\ ReleaseIndex
    /\ UNCHANGED <<local, watched, events, upTries, upErrors, downVars, stopped, userVars>>

\* The upload fails after the helper unpacked some of the files.
UploadError ==
    /\ ~stopped /\ upPhase = "upload"
    /\ \E done \in SUBSET Archivable : remote' = RemoteUntarred(done)
    /\ UNCHANGED fileMap
    /\ RetryUpload
    /\ UNCHANGED <<local, watched, events, downVars, userVars>>

-----------------------------------------------------------------------------
(* Downstream and the helper that serves it.                               *)

\* streamChanges: the paths whose stat differs from the last reported state.
Differing == {f \in Files : watched[f] # StatOf(remote[f])}

\* A deleted file is reported with the time and the size it had when last reported.
Deletes  == {[name |-> f, mtime |-> Sec(watched[f].tick), size |-> watched[f].size] :
                f \in {g \in Differing : remote[g] = Absent}}
Modifies == {ChangeOf(f, InfoOf(remote[f])) : f \in {g \in Differing : remote[g] # Absent}}

\* mainLoop: the changes are only collected once they were counted before.
CountChanges ==
    /\ ~stopped /\ downPhase = "idle"
    /\ counted' = (Differing # {}) /\ counted' # counted
    /\ UNCHANGED <<local, remote, fileMap, watched, events, upVars, downPhase, deletes, swept,
                   downloads, todo, tar, outFile, downTries, downErrors, stopped, userVars>>

\* The filter of collectChanges on the path.
NotIgnored(c) == c.name \notin DownloadExcluded

\* Changes: the state that was streamed becomes the state to compare with.
Reported == [f \in Files |-> StatOf(remote[f])]

\* Whether the directory is reported as deleted too, and is one the index knows, is left open.
FolderDeleted == env.folder # {} /\ \A f \in env.folder : remote[f] = Absent

\* collectChanges and the helper's Changes: the helper now regards its state as reported.
CollectChanges ==
    /\ ~stopped /\ downPhase = "idle" /\ counted /\ ~IndexLocked
    /\ watched' = Reported
    /\ swept' \in {FALSE, FolderDeleted}
    /\ deletes'   = {c \in Deletes  : NotIgnored(c) /\ shouldRemoveLocal(c)}
    /\ downloads' = {c \in Modifies : NotIgnored(c) /\ shouldDownload(c)}
    /\ counted' = FALSE
    /\ downPhase' = IF deletes' \cup downloads' = {} /\ ~swept' THEN "idle" ELSE "remove"
    /\ UNCHANGED <<local, remote, fileMap, events, upVars, todo, tar, outFile, downTries, downErrors, stopped, userVars>>

Named(cs) == {c.name : c \in cs}

\* The helper is asked for the files to download.
RequestDownload(cs) == todo' = Named(cs) /\ downPhase' = (IF cs = {} THEN "idle" ELSE "download")

\* deleteSafeRecursive judges a file by its own entry in the index.
Sweepable(f) == local[f] # Absent /\ fileMap[f] # Absent /\ Sec(local[f].tick) <= fileMap[f].mtime

\* The files the deletion of the directory comes upon: all of them but those that were reported
\* before it, the order of the report being that of a Go map.  None if the directory is skipped.
Sweeps == {{}} \cup (IF swept THEN {met \in SUBSET env.folder : env.folder \ Named(deletes) \subseteq met} ELSE {})

Removed(met) == Named({c \in deletes : c.name \notin met /\ shouldRemoveLocal(c)}) \cup {f \in met : Sweepable(f)}

\* The paths are forgotten whether they are deleted or not.
Sweep(met) ==
    /\ local' = [f \in Files |-> IF f \in Removed(met) THEN Absent ELSE local[f]]
    /\ events' = events \cup Removed(met)
    /\ fileMap' = [f \in Files |-> IF f \in Named(deletes) \/ (f \in met /\ local[f] # Absent)
                                   THEN Absent ELSE fileMap[f]]

\* remove, with the directory somewhere among the changes.
RemoveLocal ==
    /\ ~stopped /\ downPhase = "remove" /\ ~IndexLocked
    /\ \E met \in Sweeps : Sweep(met)
    /\ deletes' = {} /\ swept' = FALSE
    /\ RequestDownload(downloads) /\ downTries' = 0
    /\ UNCHANGED <<remote, watched, upVars, counted, downloads, tar, outFile, downErrors, stopped, userVars>>

\* The helper archives a file as it is now and skips one that is gone.
TarRemote(f) ==
    /\ ~stopped /\ downPhase = "download" /\ f \in todo
    /\ todo' = todo \ {f}
    /\ tar' = IF remote[f] = Absent THEN tar ELSE [tar EXCEPT ![f] = Archived(remote[f])]
    /\ UNCHANGED <<local, remote, fileMap, watched, events, upVars, downPhase, counted, deletes, swept,
                   downloads, outFile, downTries, downErrors, stopped, userVars>>

\* untarNext holds the lock of the index from its look at the local file to its end, but no
\* lock keeps the user from the file.
UntarNext ==
    /\ ~stopped /\ downPhase = "download" /\ ~IndexLocked
    /\ UNCHANGED <<remote, watched, upVars, downPhase, counted, deletes, swept, downloads, todo,
                   downTries, downErrors, stopped, userVars>>

\* Slip: the local file is not looked at.
NeverNewer(f) == FALSE

NewerLocally(f) == local[f] # Absent /\ Sec(local[f].tick) > Sec(tar[f].tick)

KeepNewer(f) ==
    /\ UntarNext /\ NoneOpen /\ tar[f] # Absent /\ NewerLocally(f)
    /\ fileMap' = [fileMap EXCEPT ![f] = InfoOf(local[f])]
    /\ tar' = [tar EXCEPT ![f] = Absent]
    /\ UNCHANGED <<local, events, outFile>>

OpenLocal(f) ==
    /\ UntarNext /\ NoneOpen /\ tar[f] # Absent /\ ~NewerLocally(f)
    /\ outFile' = [name |-> f, seen |-> StatOf(local[f]), copied |-> FALSE]
    /\ UNCHANGED <<local, fileMap, events, tar>>

\* os.Create and io.Copy: whatever is there now is replaced, and the time is the present.
CopyLocal(f) ==
    /\ UntarNext /\ ~NoneOpen /\ outFile.name = f /\ ~outFile.copied
    /\ local' = [local EXCEPT ![f] = [tick |-> clock, data |-> tar[f].data]]
    /\ events' = events \cup {f}
    /\ outFile' = [outFile EXCEPT !.copied = TRUE]
    /\ UNCHANGED <<fileMap, tar>>

\* Slip: the downloaded file is not noted in the index.
IndexNotUntarred(f) == fileMap

\* "Update fileMap so that upstream does not upload the file"
IndexUntarred(f) == [fileMap EXCEPT ![f] = InfoOf(tar[f])]

\* os.Chtimes, on whatever is there now, and the index.
CloseLocal(f) ==
    /\ UntarNext /\ ~NoneOpen /\ outFile.name = f /\ outFile.copied
    /\ local' = IF local[f] = Absent THEN local ELSE [local EXCEPT ![f].tick = tar[f].tick]
    /\ fileMap' = IndexUntarred(f)
    /\ tar' = [tar EXCEPT ![f] = Absent] /\ outFile' = Absent
    /\ UNCHANGED events

FinishDownload ==
    /\ ~stopped /\ downPhase = "download" /\ todo = {} /\ \A f \in Files : tar[f] = Absent
    /\ downPhase' = "idle" /\ downloads' = {}
    /\ UNCHANGED <<local, remote, fileMap, watched, events, upVars, counted, deletes, swept, todo, tar,
                   outFile, downTries, downErrors, stopped, userVars>>

\* applyChanges after an error of initDownload; what was under way is lost.
RetryDownload ==
    /\ ~stopped /\ downPhase = "download" /\ ~IndexLocked
    /\ downErrors < env.maxDownloadErrors /\ downErrors' = downErrors + 1
    /\ tar' = [f \in Files |-> Absent] /\ outFile' = Absent
    /\ \/ /\ downTries + 1 < SyncRetries
          /\ downTries' = downTries + 1
          /\ downloads' = {c \in downloads : shouldDownload(c)}
          /\ RequestDownload(downloads')
          /\ UNCHANGED stopped
       \/ stopped' = TRUE /\ UNCHANGED <<downTries, downloads, todo, downPhase>>
    /\ UNCHANGED <<remote, fileMap, watched, upVars, counted, deletes, swept, writer, env>>

\* The stream breaks between two files, or os.Create or outFile.Close fails.
DownloadError == RetryDownload /\ UNCHANGED <<local, events, clock>>

\* The stream breaks while untarNext copies a file: os.Create has emptied it,
\* its time is now, and neither os.Chtimes nor the index is reached.
UntarError(f) ==
    /\ RetryDownload
    /\ ~NoneOpen /\ outFile.name = f /\ ~outFile.copied /\ Size[tar[f].data] > Size[Truncated]
    /\ \E t \in Moments : clock' = t /\ local' = [local EXCEPT ![f] = [tick |-> t, data |-> Truncated]]
    /\ events' = events \cup {f}

-----------------------------------------------------------------------------
UserNext == \E f \in Files : LocalWrite(f) \/ LocalDelete(f) \/ RemoteWrite(f) \/ RemoteDelete(f)

UpStep ==
    \/ \E f \in Files : EvaluateMissing(f) \/ EvaluateExcluded(f) \/ EvaluatePresent(f)
    \/ ApplyRemoves \/ FilterChanges \/ UploadArchive

DownStep ==
    \/ CountChanges \/ CollectChanges \/ RemoveLocal \/ FinishDownload
    \/ \E f \in Files : TarRemote(f) \/ KeepNewer(f) \/ OpenLocal(f) \/ CopyLocal(f) \/ CloseLocal(f)

UpNext   == UpStep \/ FilterError \/ UploadError
DownNext == DownStep \/ DownloadError \/ \E f \in Files : UntarError(f)

Next == UserNext \/ UpNext \/ DownNext

Spec == Init /\ [][Next]_vars

\* Both loops are driven by timers and never stop by themselves; the users owe nothing,
\* and no call has to fail.
FairSpec == Spec /\ WF_vars(UpStep) /\ WF_vars(DownStep)

-----------------------------------------------------------------------------
(* Properties.                                                             *)

\* A file that is open comes from the archive, and only one loop has the lock of the index.
OpenOK == NoneOpen \/ (downPhase = "download" /\ tar[outFile.name] # Absent /\ ~IndexLocked)

\* Type invariant: every variable holds what the code can store in it.
TypeOK ==
    /\ local \in [Files -> Version \cup {Absent}] /\ remote \in [Files -> Version \cup {Absent}]
    /\ tar \in [Files -> Version \cup {Absent}]
    /\ fileMap \in [Files -> Info \cup {Absent}]
    /\ watched \in [Files -> Stat \cup {Absent}]
    /\ events \subseteq Files /\ uploads \subseteq Files /\ todo \subseteq Files
    /\ changes \in Seq(Change) /\ creates \subseteq DOMAIN changes
    /\ deletes \subseteq Change /\ downloads \subseteq Change
    /\ swept \in BOOLEAN /\ outFile \in Opened \cup {Absent} /\ OpenOK
    /\ upPhase \in {"gather", "create", "filter", "upload"} /\ downPhase \in {"idle", "remove", "download"}
    /\ counted \in BOOLEAN /\ stopped \in BOOLEAN
    /\ upTries \in Nat /\ downTries \in Nat /\ clock \in Nat /\ upErrors \in Nat /\ downErrors \in Nat
    /\ writer \in [Files -> {"local", "remote"}] /\ env \in Environments

InSync(f) ==
    \/ local[f] = Absent /\ remote[f] = Absent
    \/ local[f] # Absent /\ remote[f] # Absent /\ local[f].data = remote[f].data

Synced == Files \ (UploadExcluded \cup DownloadExcluded)

\* While the sync runs, a file about which no event is queued, no change is being
\* applied and no change is unreported holds the same content on both sides:
\* no interleaving of mainLoop of upstream, mainLoop of downstream and the
\* users may leave the two copies apart with nothing under way to repair it.
SettledInSync == ~stopped => \A f \in Synced : Settled(f) => InSync(f)

\* The watcher also reports what the downstream writes and deletes (untarNext,
\* remove).  Such an event is never turned into an upload or a remote removal:
\* a file last edited in the container is not among the changes of upstream.
NoUploadEcho == ~env.concurrent => \A f \in Files : writer[f] = "remote" => f \notin Names(Pending)

\* The helper also reports what the upstream uploaded and removed.  Such a change
\* is never applied: a file last edited locally is neither deleted nor downloaded.
NoDownloadEcho ==
    ~env.concurrent => \A f \in Files : writer[f] = "local" => \A c \in deletes \cup downloads : c.name # f

\* Neither loop takes what the other one did for a change of the user's.
NoEcho == NoUploadEcho /\ NoDownloadEcho

\* Whatever fails or interleaves, the downstream loop never writes a local path on the download
\* exclude list.  It deletes one only along with its directory (deleteSafeRecursive does not ask
\* the list), and only if the local file is no newer than the index knows it.
DownloadExcludeHonoured ==
    [][\A f \in DownloadExcluded : local'[f] # local[f] /\ ~UserNext
          => local'[f] = Absent /\ f \in env.folder /\ Sweepable(f)]_vars

\* Whatever fails or interleaves, the upstream loop gives the remote file of a path on the upload
\* exclude list neither content nor time.  It only deletes it, after its local file is gone:
\* shouldRemoveRemote does not ask the list (see DeletionExcluded).
UploadExcludeHonoured ==
    [][\A f \in UploadExcluded : remote'[f] # remote[f] /\ ~UserNext => remote'[f] = Absent]_vars

\* What Options.UploadExcludePaths and DownloadExcludePaths still guarantee: no file they name
\* is written in that direction, and which deletions cross them.
ExcludesHonoured == UploadExcludeHonoured /\ DownloadExcludeHonoured

\* Steps that pass the clock on are the users' and a broken copy.  All others only write the
\* local file that untarNext looked at, and leave there nothing older than what it saw,
\* although the archive may have been made long before.  What a user writes while the file is
\* open is another matter (see EditsKept).
NeverOlder ==
    [][\A f \in Files : clock' = clock =>
          /\ local'[f] # local[f] /\ local'[f] # Absent => ~NoneOpen /\ outFile.name = f
          /\ CloseLocal(f) /\ local'[f] # Absent /\ outFile.seen # Absent
                => Sec(local'[f].tick) >= Sec(outFile.seen.tick)]_vars

\* applyCreates runs with the index locked, its retries included, and the downstream
\* waits for that lock: it is always given back, or the sync is stopped.
LockReleased == IndexLocked ~> ~IndexLocked \/ stopped

\* Once the users stop editing, the two file systems become and stay the same,
\* unless the sync was stopped by an error.
Converges == <>[](stopped \/ \A f \in Synced : InSync(f))

\* Neither loop (mainLoop of upstream and of downstream) ever waits for good for the other
\* or for a retry, and together they bring the two sides together.
LoopsGoOn == LockReleased /\ Converges

\* What untarNext's look at the local file is for ("Check if newer file is there and then don't
\* override?"): what a user writes or deletes while the file is open is neither overwritten nor
\* given the time of the archive.
EditsKept ==
    [][\A f \in Files :
          /\ CopyLocal(f) => StatOf(local[f]) = outFile.seen
          /\ CloseLocal(f) /\ local[f] # Absent => local[f].data = tar[f].data]_vars

\* What the comment on shouldRemoveLocal says: the downstream only deletes a local
\* file that did not change on the file system since it was noted in the index.
DeletesOnlyUnchanged ==
    [][\A f \in Files : DownNext /\ local[f] # Absent /\ local'[f] = Absent
          => InfoOf(local[f]) = fileMap[f]]_vars

\* What the comment in shouldRemoveRemote says: a change to a path on the upload
\* exclude list is excluded, so its local deletion does not delete the remote file.
DeletionExcluded ==
    [][\A f \in UploadExcluded : UpNext /\ remote[f] # Absent => remote'[f] # Absent]_vars

\* What the comment in shouldRemoveLocal says: an ignored path is never in the index, and so never
\* deleted.  A path that only the downloads exclude gets there by being uploaded.
IgnoredNotDeleted ==
    [][\A f \in DownloadExcluded : DownNext => local'[f] = local[f]]_vars
=============================================================================
