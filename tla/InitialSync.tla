----------------------------- MODULE InitialSync -----------------------------
(***************************************************************************)
(* The initial sync: the state of both sides is collected, the difference  *)
(* is decided file by file according to the strategy, and the two halves   *)
(* are applied side by side, the uploads by the upstream loop, the         *)
(* downloads by the goroutine of the initial sync itself.                  *)
(*                                                                         *)
(* A file is Absent or a version [mtime, data] with its time in seconds.   *)
(* The users do not edit while the initial sync runs (see SyncEngine for   *)
(* that), directories and permissions are left out, and failing uploads    *)
(* are treated in SyncEngine.                                              *)
(***************************************************************************)
EXTENDS Integers, FiniteSets

CONSTANTS
    Files,              \* relative paths that are not excluded from the sync
    ExcludeLists,       \* pairs [up, down]: which files the two exclude lists name
    Contents, Size,     \* what a file may hold and the size of it
    Absent,             \* no such file, no such entry
    Times,              \* modification times, in seconds
    Strategies,         \* the strategies to look at
    MaxDownloadErrors   \* bound: failed downloads

AllStrategies == {"mirrorLocal", "preferLocal", "mirrorRemote", "preferRemote",
                  "preferNewest", "keepAll", "disabled"}

Version == [mtime : Times, data : Contents]
Info    == [mtime : Nat, size : Nat]
Change  == [name : Files, mtime : Nat, size : Nat]

ASSUME SetAssumption ==
    /\ ExcludeLists \subseteq [up : SUBSET Files, down : SUBSET Files]
    /\ Strategies \subseteq AllStrategies
    /\ Size \in [Contents -> Nat] /\ Times \subseteq Nat \ {0}
    /\ \A a, b \in Contents : Size[a] = 0 /\ Size[b] = 0 => a = b
    /\ Absent \notin Version \cup Info /\ MaxDownloadErrors \in Nat

VARIABLES
    options,            \* Options of the sync that the initial sync reads
    local, remote,      \* the two file systems
    localBefore, remoteBefore,  \* ... when the initial sync started
    fileMap,            \* Sync.fileIndex.fileMap
    localState,         \* what CalculateLocalState found
    upload,             \* the changes CalculateDelta returns
    download,           \* what it leaves of the remote state
    fetch,              \* the changes still to be downloaded
    queue,              \* changes on their way to upstream.applyChanges
    upPhase, downPhase, \* where the two halves of Run are
    downErrors

vars == <<options, local, remote, localBefore, remoteBefore, fileMap, localState, upload, download,
          fetch, queue, upPhase, downPhase, downErrors>>

\* What only the initial sync reads once it is set, and the states it started from.
fixedVars == <<options, localBefore, remoteBefore>>

Nothing == [f \in Files |-> Absent]

InfoOf(v)       == IF v = Absent THEN Absent ELSE [mtime |-> v.mtime, size |-> Size[v.data]]
ChangeOf(f, i)  == [name |-> f, mtime |-> i.mtime, size |-> i.size]
NamesOf(cs)    == {c.name : c \in cs}

\* A change without a time is a removal (applyChanges).
RemoveChange(f) == [name |-> f, mtime |-> 0, size |-> 0]

\* Files of the same time and size hold the same.
Comparable(l, r) == l # Absent /\ r # Absent /\ InfoOf(l) = InfoOf(r) => l.data = r.data

Init ==
    /\ options \in [strategy : Strategies, compareBy : {"mtime", "size"},
                    upstreamDisabled : BOOLEAN, downstreamDisabled : BOOLEAN,
                    excludes : ExcludeLists]
    /\ local \in [Files -> Version \cup {Absent}] /\ remote \in [Files -> Version \cup {Absent}]
    /\ \A f \in Files : Comparable(local[f], remote[f])
    /\ localBefore = local /\ remoteBefore = remote
    /\ fileMap = Nothing /\ localState = Nothing
    /\ upload = {} /\ download = {} /\ fetch = {} /\ queue = {}
    /\ upPhase = "collect" /\ downPhase = "collect" /\ downErrors = 0

UploadExcluded   == options.excludes.up
DownloadExcluded == options.excludes.down

-----------------------------------------------------------------------------
(* Collecting the two states.                                              *)

\* CalculateLocalState leaves out what is on the upload exclude list.
LocalState == [f \in Files |-> IF f \in UploadExcluded THEN Absent ELSE InfoOf(local[f])]

\* populateFileMap puts every reported file into the index, the files on the download
\* exclude list too; initialSync waits for it and for CalculateLocalState.
CollectStates ==
    /\ downPhase = "collect"
    /\ fileMap' = [f \in Files |-> InfoOf(remote[f])]
    /\ localState' = LocalState
    /\ downPhase' = "delta"
    /\ UNCHANGED <<fixedVars, local, remote, upload, download, fetch, queue, upPhase, downErrors>>

-----------------------------------------------------------------------------
(* The decision for one file (decide), and the difference it leads to.     *)

\* The mirror strategies decide like the prefer strategies (CalculateDelta).
Preference ==
    CASE options.strategy = "mirrorRemote" -> "preferRemote"
      [] options.strategy = "mirrorLocal"  -> "preferLocal"
      [] OTHER -> options.strategy

\* File did not change: the same size and, if times count, the same time.
SameFile(i, j) == i.size = j.size /\ (i.mtime = j.mtime \/ options.compareBy = "size")

decide(f) ==
    LET stat == localState[f] known == fileMap[f] IN
    IF known = Absent THEN "upload"
    ELSE IF SameFile(stat, known) THEN "none"
    ELSE CASE Preference = "preferLocal"  -> "upload"
           [] Preference = "preferRemote" -> "download"
           [] Preference = "preferNewest" -> IF stat.mtime > known.mtime THEN "upload"
                                             ELSE IF stat.mtime = known.mtime THEN "none" ELSE "download"
           [] Preference = "keepAll"      -> "none"
           [] OTHER                       -> "upload"

Walked == {f \in Files : localState[f] # Absent}

\* deltaState: what is uploaded or left alone is not downloaded.
CalculateDelta ==
    /\ downPhase = "delta"
    /\ upload' = {ChangeOf(f, localState[f]) : f \in {g \in Walked : decide(g) = "upload"}}
    /\ download' = {ChangeOf(f, fileMap[f]) :
                      f \in {g \in Files \ DownloadExcluded :
                                fileMap[g] # Absent /\ (g \in Walked => decide(g) = "download")}}
    /\ upPhase' = "removes" /\ downPhase' = "removes"
    /\ UNCHANGED <<fixedVars, local, remote, fileMap, localState, fetch, queue, downErrors>>

-----------------------------------------------------------------------------
(* The upstream half of Run, a goroutine of its own.                       *)

UpEnabled == ~options.upstreamDisabled /\ options.strategy # "disabled"

\* mirrorLocal removes what only the container has, except uploads that are excluded.
RemoteOnly == {RemoveChange(c.name) : c \in {d \in download : d.name \notin UploadExcluded}}

SendRemoves ==
    /\ upPhase = "removes"
    /\ queue' = IF UpEnabled /\ options.strategy = "mirrorLocal" THEN RemoteOnly ELSE {}
    /\ upPhase' = "uploads"
    /\ UNCHANGED <<fixedVars, local, remote, fileMap, localState, upload, download, fetch, downPhase, downErrors>>

\* mirrorRemote only uploads what it must not delete locally.
Uploads == IF options.strategy = "mirrorRemote" THEN {c \in upload : c.name \in DownloadExcluded} ELSE upload

\* sendChangesToUpstream skips what the index describes already.
SendUploads ==
    /\ upPhase = "uploads"
    /\ queue' = queue \cup (IF UpEnabled
                            THEN {c \in Uploads : fileMap[c.name] # [mtime |-> c.mtime, size |-> c.size]} ELSE {})
    /\ upPhase' = "drain"
    /\ UNCHANGED <<fixedVars, local, remote, fileMap, localState, upload, download, fetch, downPhase, downErrors>>

Removal(c)  == c.mtime = 0
SameSize(c) == fileMap[c.name] # Absent /\ fileMap[c.name].size = c.size
Touched(c)  == ~Removal(c) /\ SameSize(c) /\ c.size > 0

\* filterChanges: empty files of the same size, and files with the same checksum, are not sent.
Sent(c) ==
    /\ ~Removal(c) /\ local[c.name] # Absent
    /\ SameSize(c) => /\ c.size > 0
                      /\ ~(remote[c.name] # Absent /\ remote[c.name].data = local[c.name].data)

\* Slip: what was written is not noted in the index.
IndexNotSent(c) ==
    IF Removal(c) THEN Absent
    ELSE IF Touched(c) THEN [fileMap[c.name] EXCEPT !.mtime = c.mtime]
    ELSE fileMap[c.name]

\* The entry of a file after its change was applied.
IndexAfter(c) ==
    IF Removal(c) THEN Absent
    ELSE IF Sent(c) THEN InfoOf(local[c.name])
    ELSE IF Touched(c) THEN [fileMap[c.name] EXCEPT !.mtime = c.mtime]
    ELSE fileMap[c.name]

\* The remote file after its change was applied.
RemoteAfter(c) ==
    IF Removal(c) THEN Absent
    ELSE IF Sent(c) THEN local[c.name]
    ELSE IF Touched(c) /\ remote[c.name] # Absent THEN [remote[c.name] EXCEPT !.mtime = c.mtime]
    ELSE remote[c.name]

\* upstream.applyChanges takes what it gathered so far.
ApplyUpstream ==
    \E cs \in SUBSET queue :
       /\ cs # {}
       /\ queue' = queue \ cs
       /\ LET change(f) == CHOOSE c \in cs : c.name = f IN
          /\ remote'  = [f \in Files |-> IF f \in NamesOf(cs) THEN RemoteAfter(change(f)) ELSE remote[f]]
          /\ fileMap' = [f \in Files |-> IF f \in NamesOf(cs) THEN IndexAfter(change(f)) ELSE fileMap[f]]
       /\ UNCHANGED <<fixedVars, local, localState, upload, download, fetch, upPhase, downPhase, downErrors>>

\* UpstreamDone waits until the upstream loop is no longer busy.
UpstreamDone ==
    /\ upPhase = "drain" /\ queue = {}
    /\ upPhase' = "done"
    /\ UNCHANGED <<fixedVars, local, remote, fileMap, localState, upload, download, fetch, queue, downPhase, downErrors>>

-----------------------------------------------------------------------------
(* The downstream half of Run.                                             *)

\* Slip: downloads cannot be disabled.
DownAlways == options.strategy # "disabled"

DownEnabled == ~options.downstreamDisabled /\ options.strategy # "disabled"

\* mirrorRemote deletes what only the local side has; the deletion is forced.
LocalOnly == {c.name : c \in {d \in upload : d.name \notin DownloadExcluded}}

\* mirrorLocal only downloads what it must not delete in the container.
Downloads == IF options.strategy = "mirrorLocal" THEN {c \in download : c.name \in UploadExcluded} ELSE download

RemoveLocal ==
    /\ downPhase = "removes"
    /\ LET removed == IF DownEnabled /\ options.strategy = "mirrorRemote" THEN LocalOnly ELSE {} IN
       /\ local'   = [f \in Files |-> IF f \in removed THEN Absent ELSE local[f]]
       /\ fileMap' = [f \in Files |-> IF f \in removed THEN Absent ELSE fileMap[f]]
    /\ fetch' = IF DownEnabled THEN Downloads ELSE {}
    /\ downPhase' = "downloads"
    /\ UNCHANGED <<fixedVars, remote, localState, upload, download, queue, upPhase, downErrors>>

\* untarNext keeps a local file that is newer and notes it, or else overwrites it.
Untarred(f) == IF local[f] # Absent /\ local[f].mtime > remote[f].mtime THEN local[f] ELSE remote[f]

Download(c) ==
    /\ downPhase = "downloads" /\ c \in fetch
    /\ fetch' = fetch \ {c}
    /\ IF remote[c.name] = Absent THEN UNCHANGED <<local, fileMap>>
       ELSE /\ local' = [local EXCEPT ![c.name] = Untarred(c.name)]
            /\ fileMap' = [fileMap EXCEPT ![c.name] = InfoOf(local'[c.name])]
    /\ UNCHANGED <<fixedVars, remote, localState, upload, download, queue, upPhase, downPhase, downErrors>>

\* After an error updateDownloadChanges keeps what shouldDownload admits, and it
\* compares the change with the entry populateFileMap made of it.
DownloadError ==
    /\ downPhase = "downloads" /\ fetch # {} /\ downErrors < MaxDownloadErrors
    /\ downErrors' = downErrors + 1
    /\ fetch' = {c \in fetch :
          \/ fileMap[c.name] = Absent
          \/ c.mtime > fileMap[c.name].mtime
          \/ c.mtime = fileMap[c.name].mtime /\ c.size # fileMap[c.name].size}
    /\ UNCHANGED <<fixedVars, local, remote, fileMap, localState, upload, download, queue, upPhase, downPhase>>

DownstreamDone ==
    /\ downPhase = "downloads" /\ fetch = {}
    /\ downPhase' = "done"
    /\ UNCHANGED <<fixedVars, local, remote, fileMap, localState, upload, download, fetch, queue, upPhase, downErrors>>

-----------------------------------------------------------------------------
Completed == upPhase = "done" /\ downPhase = "done"

Finished == Completed /\ UNCHANGED vars

Next ==
    \/ CollectStates \/ CalculateDelta
    \/ SendRemoves \/ SendUploads \/ ApplyUpstream \/ UpstreamDone
    \/ RemoveLocal \/ (\E c \in fetch : Download(c)) \/ DownloadError \/ DownstreamDone
    \/ Finished

Spec == Init /\ [][Next]_vars

-----------------------------------------------------------------------------
(* Properties.                                                             *)

\* Type invariant.
TypeOK ==
    /\ options \in [strategy : Strategies, compareBy : {"mtime", "size"},
                    upstreamDisabled : BOOLEAN, downstreamDisabled : BOOLEAN,
                    excludes : ExcludeLists]
    /\ localBefore \in [Files -> Version \cup {Absent}] /\ remoteBefore \in [Files -> Version \cup {Absent}]
    /\ local \in [Files -> Version \cup {Absent}] /\ remote \in [Files -> Version \cup {Absent}]
    /\ fileMap \in [Files -> Info \cup {Absent}] /\ localState \in [Files -> Info \cup {Absent}]
    /\ upload \subseteq Change /\ download \subseteq Change /\ fetch \subseteq Change /\ queue \subseteq Change
    /\ upPhase \in {"collect", "removes", "uploads", "drain", "done"}
    /\ downPhase \in {"collect", "delta", "removes", "downloads", "done"}
    /\ downErrors \in 0 .. MaxDownloadErrors

Excluded == UploadExcluded \cup DownloadExcluded

SameContent(v, w) == v = w \/ (v # Absent /\ w # Absent /\ v.data = w.data)

\* What the documentation of the strategies promises of a file that was l and r before.
Documented(l, r) ==
    IF options.strategy = "mirrorLocal" THEN l
    ELSE IF options.strategy = "mirrorRemote" THEN r
    ELSE IF l = Absent THEN r
    ELSE IF r = Absent THEN l
    ELSE CASE options.strategy = "preferLocal"  -> l
           [] options.strategy = "preferRemote" -> r
           [] OTHER -> IF l.mtime > r.mtime THEN l ELSE r

\* Conflicts that the strategy leaves alone: none noticed, or none to be resolved.
LeftAlone(l, r) ==
    \/ options.strategy = "disabled"
    \/ l # Absent /\ r # Absent /\ \/ SameFile(InfoOf(l), InfoOf(r))
                                   \/ options.strategy = "keepAll"
                                   \/ options.strategy = "preferNewest" /\ l.mtime = r.mtime

\* A newer local file that the strategy wants overwritten: untarNext keeps it and
\* notes its time and size in the index, although the container has another file.
Shielded(f) ==
    /\ options.strategy \in {"mirrorRemote", "preferRemote"}
    /\ localBefore[f] # Absent /\ remoteBefore[f] # Absent
    /\ localBefore[f].mtime > remoteBefore[f].mtime

\* With both directions enabled and no failed download, the two halves of Run together
\* do what the strategy is documented to do: every file that is neither excluded nor
\* Shielded ends up on both sides as the strategy says, although each half only sees
\* its part of the difference.
MergedAsDocumented ==
    Completed /\ ~options.upstreamDisabled /\ ~options.downstreamDisabled /\ downErrors = 0 =>
       \A f \in {g \in Files \ Excluded : ~Shielded(g)} :
          LET l == localBefore[f] r == remoteBefore[f] IN
          IF LeftAlone(l, r) THEN SameContent(local[f], l) /\ SameContent(remote[f], r)
          ELSE SameContent(local[f], Documented(l, r)) /\ SameContent(remote[f], Documented(l, r))

\* The sync loops start from an index that describes the container (SyncEngine
\* assumes it): whatever was moved in either direction, or failed to be, each entry
\* is right, except that of a Shielded file.
IndexDescribesRemote ==
    Completed => \A f \in Files \ Excluded : Shielded(f) \/ fileMap[f] = InfoOf(remote[f])

\* Run merges the two sides and leaves the index that describes the result.
SidesMerged == MergedAsDocumented /\ IndexDescribesRemote

\* A strategy that prefers or keeps the local files, and a disabled download, never
\* overwrites or deletes one (uploads that are excluded: see LocalPreferred).
LocalKept ==
    options.strategy \in {"mirrorLocal", "preferLocal", "keepAll", "disabled"} \/ options.downstreamDisabled
       => \A f \in Files \ UploadExcluded : localBefore[f] # Absent => local[f] = localBefore[f]

\* A strategy that prefers or keeps the remote files, and a disabled upload, never
\* overwrites or deletes the content of one.
RemoteKept ==
    options.strategy \in {"mirrorRemote", "preferRemote", "keepAll", "disabled"} \/ options.upstreamDisabled
       => \A f \in Files : remoteBefore[f] # Absent => SameContent(remote[f], remoteBefore[f])

\* Neither half touches what its exclude list names, the forced and the mirroring
\* deletions included.
ExcludesHonoured ==
    /\ \A f \in UploadExcluded : remote[f] = remoteBefore[f]
    /\ \A f \in DownloadExcluded : local[f] = localBefore[f]

\* Run never takes away what it has no right to: neither a file of the side that the
\* strategy prefers nor one that is excluded, although the halves delete concurrently.
NothingElseTouched == LocalKept /\ RemoteKept /\ ExcludesHonoured

\* What the documentation of mirrorLocal and preferLocal and the comment in deltaState
\* say: conflicts are resolved by preferring the local file, the download of an
\* older or conflicting remote file is prevented.
LocalPreferred ==
    options.strategy \in {"mirrorLocal", "preferLocal"} =>
       \A f \in Files : localBefore[f] # Absent => local[f] = localBefore[f]
=============================================================================
