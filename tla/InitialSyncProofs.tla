------------------------- MODULE InitialSyncProofs -------------------------
(***************************************************************************)
(* Proofs about InitialSync for any files, contents, times, exclude lists  *)
(* and strategies: the two halves of Run never touch what they must not,   *)
(* and together do what the strategy is documented to do.                  *)
(*                                                                         *)
(* Below them proofs about UploadLoop, the queue the initial upload goes   *)
(* through, for all files and for every capacity of the channel and of a   *)
(* batch: its type invariant with the capacity of the channel, that no     *)
(* command is missed, and that nothing gets lost between the goroutines.   *)
(***************************************************************************)
EXTENDS InitialSync, UploadLoop, FiniteSetTheorems, TLAPS

-----------------------------------------------------------------------------
(* The difference, as it was decided from the two sides.                   *)

Decided == downPhase \notin {"collect", "delta"}

\* Why a file that both sides have is uploaded, and why it is downloaded.
LocalWins(l, r) ==
    \/ Preference \in {"preferLocal", "disabled"}
    \/ Preference = "preferNewest" /\ l.mtime > r.mtime

RemoteWins(l, r) ==
    \/ Preference = "preferRemote"
    \/ Preference = "preferNewest" /\ l.mtime < r.mtime

Differ(l, r) == ~SameFile(InfoOf(l), InfoOf(r))

\* The changes to be uploaded are those of the local state ...
UploadDecided(f) ==
    LET l == localBefore[f] r == remoteBefore[f] IN
    f \notin UploadExcluded /\ l # Absent /\ (r # Absent => Differ(l, r) /\ LocalWins(l, r))

\* ... and those to be downloaded of the remote one.
DownloadDecided(f) ==
    LET l == localBefore[f] r == remoteBefore[f] IN
    /\ f \notin DownloadExcluded /\ r # Absent
    /\ f \notin UploadExcluded /\ l # Absent => Differ(l, r) /\ RemoteWins(l, r)

\* The difference holds a change for every file that was decided, and no other.
Difference ==
    /\ upload = {ChangeOf(f, InfoOf(localBefore[f])) : f \in {g \in Files : UploadDecided(g)}}
    /\ download = {ChangeOf(f, InfoOf(remoteBefore[f])) : f \in {g \in Files : DownloadDecided(g)}}

-----------------------------------------------------------------------------
(* What becomes of a file: one thing at most.                              *)

Uploaded(f)      == UpEnabled /\ UploadDecided(f) /\ (options.strategy = "mirrorRemote" => f \in DownloadExcluded)
RemoteRemoved(f) == UpEnabled /\ DownloadDecided(f) /\ options.strategy = "mirrorLocal" /\ f \notin UploadExcluded
LocalRemoved(f)  == DownEnabled /\ UploadDecided(f) /\ options.strategy = "mirrorRemote" /\ f \notin DownloadExcluded
Downloaded(f)    == DownEnabled /\ DownloadDecided(f) /\ (options.strategy = "mirrorLocal" => f \in UploadExcluded)

\* It is still to come, ...
Waits(f) ==
    \/ Uploaded(f) /\ (upPhase \in {"removes", "uploads"} \/ f \in NamesOf(queue))
    \/ RemoteRemoved(f) /\ (upPhase = "removes" \/ f \in NamesOf(queue))
    \/ LocalRemoved(f) /\ downPhase = "removes"
    \/ Downloaded(f) /\ (downPhase = "removes" \/ f \in NamesOf(fetch))

\* ... nothing has happened to the file yet, ...
Untouched(f) ==
    local[f] = localBefore[f] /\ remote[f] = remoteBefore[f] /\ fileMap[f] = InfoOf(remoteBefore[f])

\* ... or it has been uploaded, removed on one side, or downloaded.
UploadMade(f) ==
    /\ local[f] = localBefore[f] /\ SameContent(remote[f], localBefore[f]) /\ fileMap[f] = InfoOf(remote[f])

RemoteRemoveDone(f) == local[f] = localBefore[f] /\ remote[f] = Absent /\ fileMap[f] = Absent
LocalRemoveDone(f)  == remote[f] = remoteBefore[f] /\ local[f] = Absent /\ fileMap[f] = Absent

Newer(l, r) == l # Absent /\ l.mtime > r.mtime

DownloadDone(f) ==
    LET l == localBefore[f] r == remoteBefore[f] IN
    /\ remote[f] = r /\ local[f] = (IF Newer(l, r) THEN l ELSE r) /\ fileMap[f] = InfoOf(local[f])

FileOK(f) ==
    \/ Waits(f) /\ Untouched(f)
    \/ ~Waits(f) /\ \/ Uploaded(f) /\ UploadMade(f)
                    \/ RemoteRemoved(f) /\ RemoteRemoveDone(f)
                    \/ LocalRemoved(f) /\ LocalRemoveDone(f)
                    \/ Downloaded(f) /\ (DownloadDone(f) \/ (downErrors > 0 /\ Untouched(f)))
                    \/ Untouched(f) /\ ~Uploaded(f) /\ ~RemoteRemoved(f) /\ ~LocalRemoved(f) /\ ~Downloaded(f)

\* The queue holds the removals and uploads, each of them once.
QueueDecided ==
    \A c \in queue :
        \/ RemoteRemoved(c.name) /\ c = RemoveChange(c.name) /\ upPhase # "removes"
        \/ /\ Uploaded(c.name) /\ c = ChangeOf(c.name, InfoOf(localBefore[c.name]))
           /\ upPhase \notin {"removes", "uploads"}

FetchDecided == \A c \in fetch : Downloaded(c.name) /\ c = ChangeOf(c.name, InfoOf(remoteBefore[c.name]))

\* Before the difference is decided nothing has happened at all.
Undecided ==
    /\ upPhase = "collect" /\ upload = {} /\ download = {} /\ fetch = {} /\ queue = {} /\ downErrors = 0
    /\ local = localBefore /\ remote = remoteBefore
    /\ downPhase = "delta" => /\ \A f \in Files : fileMap[f] = InfoOf(remoteBefore[f])
                              /\ localState = LocalState

InDecision ==
    /\ upPhase # "collect" /\ Difference /\ QueueDecided /\ FetchDecided
    /\ \A f \in Files : FileOK(f)
    /\ upPhase = "done" => queue = {}
    /\ downPhase = "removes" => fetch = {} /\ downErrors = 0
    /\ downPhase = "done" => fetch = {}

IInv == TypeOK /\ IF Decided THEN InDecision ELSE Undecided
-----------------------------------------------------------------------------
(* Versions and what is known of them.                                     *)

\* What is known of a file tells whether there is one, and its time and size.
LEMMA InfoFacts ==
  ASSUME NEW v \in Version \cup {Absent}
  PROVE  /\ InfoOf(v) \in Info \cup {Absent} /\ (v = Absent <=> InfoOf(v) = Absent)
         /\ v # Absent => /\ v \in Version /\ v.mtime \in Times /\ v.mtime \in Nat /\ v.mtime > 0
                          /\ v.data \in Contents /\ Size[v.data] \in Nat
                          /\ InfoOf(v) = [mtime |-> v.mtime, size |-> Size[v.data]]
<1>1. CASE v = Absent
  BY <1>1 DEF InfoOf
<1>2. CASE v # Absent
  <2>1. v \in Version /\ v.mtime \in Times /\ v.data \in Contents
    BY <1>2 DEF Version
  <2>2. v.mtime \in Nat /\ v.mtime > 0 /\ Size[v.data] \in Nat
    <3>1. v.mtime \in Nat \ {0} /\ Size \in [Contents -> Nat]
      BY <2>1, SetAssumption
    <3> QED
      BY <2>1, <3>1
  <2>3. [mtime |-> v.mtime, size |-> Size[v.data]] \in Info
    BY <2>2 DEF Info
  <2>4. InfoOf(v) = [mtime |-> v.mtime, size |-> Size[v.data]] /\ InfoOf(v) # Absent
    BY <1>2, <2>3, SetAssumption DEF InfoOf
  <2> QED
    BY <1>2, <2>1, <2>2, <2>3, <2>4
<1> QED
  BY <1>1, <1>2

\* The preferences decide reads.
LEMMA Preferences ==
  ASSUME TypeOK
  PROVE  /\ Preference \in {"preferLocal", "preferRemote", "preferNewest", "keepAll", "disabled"}
         /\ Preference = "disabled" <=> options.strategy = "disabled"
         /\ Preference = "preferLocal" <=> options.strategy \in {"preferLocal", "mirrorLocal"}
         /\ Preference = "preferRemote" <=> options.strategy \in {"preferRemote", "mirrorRemote"}
         /\ Preference = "preferNewest" <=> options.strategy = "preferNewest"
         /\ Preference = "keepAll" <=> options.strategy = "keepAll"
<1>1. options.strategy \in AllStrategies
  BY SetAssumption DEF TypeOK
<1> QED
  BY <1>1 DEF Preference, AllStrategies

\* A file is not uploaded and downloaded.
LEMMA OneWay ==
  ASSUME TypeOK, NEW f \in Files, UploadDecided(f) PROVE ~DownloadDecided(f)
<1> SUFFICES ASSUME DownloadDecided(f) PROVE FALSE
  OBVIOUS
<1> DEFINE l == localBefore[f]
           r == remoteBefore[f]
<1>1. LocalWins(l, r) /\ RemoteWins(l, r) /\ l # Absent /\ r # Absent
  BY DEF UploadDecided, DownloadDecided
<1>2. l.mtime \in Nat /\ r.mtime \in Nat
  BY <1>1, InfoFacts DEF TypeOK
<1> HIDE DEF l, r
<1> QED
  BY <1>1, <1>2 DEF LocalWins, RemoteWins

\* One thing at most becomes of it.
LEMMA OneThing ==
  ASSUME TypeOK, NEW f \in Files
  PROVE  /\ Uploaded(f) => ~RemoteRemoved(f) /\ ~LocalRemoved(f) /\ ~Downloaded(f)
         /\ RemoteRemoved(f) => ~Uploaded(f) /\ ~LocalRemoved(f) /\ ~Downloaded(f)
         /\ LocalRemoved(f) => ~Uploaded(f) /\ ~RemoteRemoved(f) /\ ~Downloaded(f)
         /\ Downloaded(f) => ~Uploaded(f) /\ ~RemoteRemoved(f) /\ ~LocalRemoved(f)
  BY OneWay DEF Uploaded, RemoteRemoved, LocalRemoved, Downloaded

\* What is planned does not change.
LEMMA PlanKept ==
  ASSUME UNCHANGED fixedVars, NEW f
  PROVE  /\ Uploaded(f)' <=> Uploaded(f)
         /\ RemoteRemoved(f)' <=> RemoteRemoved(f)
         /\ LocalRemoved(f)' <=> LocalRemoved(f)
         /\ Downloaded(f)' <=> Downloaded(f)
<1>1. options' = options /\ localBefore' = localBefore /\ remoteBefore' = remoteBefore
  BY DEF fixedVars
<1>2. UploadDecided(f)' <=> UploadDecided(f)
  BY <1>1 DEF UploadDecided, UploadExcluded, Differ, SameFile, LocalWins, Preference
<1>3. DownloadDecided(f)' <=> DownloadDecided(f)
  BY <1>1 DEF DownloadDecided, UploadExcluded, DownloadExcluded, Differ, SameFile, RemoteWins, Preference
<1>4. (f \in UploadExcluded' <=> f \in UploadExcluded) /\ (f \in DownloadExcluded' <=> f \in DownloadExcluded)
      /\ (UpEnabled' <=> UpEnabled) /\ (DownEnabled' <=> DownEnabled)
  BY <1>1 DEF UploadExcluded, DownloadExcluded, UpEnabled, DownEnabled
<1> QED
  BY <1>1, <1>2, <1>3, <1>4 DEF Uploaded, RemoteRemoved, LocalRemoved, Downloaded
-----------------------------------------------------------------------------
(* The decision.                                                           *)

LEMMA InitUndecided == ASSUME Init PROVE IInv
  BY SetAssumption DEF Init, IInv, TypeOK, Undecided, Decided, Nothing

\* What decide says of a file of the local state.
LEMMA Decisions ==
  ASSUME TypeOK, Undecided, downPhase = "delta", NEW f \in Files, f \in Walked
  PROVE  /\ f \notin UploadExcluded /\ localBefore[f] # Absent
         /\ localState[f] = InfoOf(localBefore[f]) /\ fileMap[f] = InfoOf(remoteBefore[f])
         /\ decide(f) = "upload" <=> UploadDecided(f)
         /\ f \notin DownloadExcluded /\ remoteBefore[f] # Absent =>
               (decide(f) = "download" <=> DownloadDecided(f))
<1> DEFINE l == localBefore[f]
           r == remoteBefore[f]
<1>1. localState[f] = IF f \in UploadExcluded THEN Absent ELSE InfoOf(l)
  BY DEF Undecided, LocalState
<1>2. f \notin UploadExcluded /\ localState[f] = InfoOf(l) /\ l # Absent /\ fileMap[f] = InfoOf(r)
  BY <1>1 DEF Walked, InfoOf, Undecided
<1>3. l.mtime \in Nat /\ InfoOf(l).mtime = l.mtime
  BY <1>2, InfoFacts DEF TypeOK
<1>4. r # Absent => r.mtime \in Nat /\ InfoOf(r).mtime = r.mtime /\ InfoOf(r) # Absent
  BY InfoFacts DEF TypeOK
<1>5. CASE r = Absent
  <2>1. fileMap[f] = Absent
    BY <1>2, <1>5 DEF InfoOf
  <2>2. decide(f) = "upload"
    BY <2>1 DEF decide
  <2> QED
    BY <1>2, <1>5, <2>2 DEF UploadDecided
<1>6. CASE r # Absent
  <2> DEFINE i == localState[f]
             k == fileMap[f]
  <2>a. k # Absent /\ (SameFile(i, k) <=> ~Differ(l, r))
    BY <1>2, <1>4, <1>6 DEF Differ
  <2>b. i.mtime = l.mtime /\ k.mtime = r.mtime
    BY <1>2, <1>3, <1>4, <1>6
  <2> HIDE DEF l, r
  <2> DEFINE Goal == /\ decide(f) = "upload" <=> Differ(l, r) /\ LocalWins(l, r)
                     /\ decide(f) = "download" <=> Differ(l, r) /\ RemoteWins(l, r)
  <2>c. ASSUME ~Differ(l, r) PROVE Goal
    <3>1. decide(f) = "none"
      BY <2>a, <2>c DEF decide
    <3> QED
      BY <2>c, <3>1
  <2>d. ASSUME Differ(l, r) PROVE Goal
    <3> DEFINE d == decide(f)
    <3>1. /\ Preference = "preferLocal" => d = "upload"
          /\ Preference = "preferRemote" => d = "download"
          /\ Preference = "preferNewest" => d = (IF i.mtime > k.mtime THEN "upload"
                                                ELSE IF i.mtime = k.mtime THEN "none" ELSE "download")
          /\ Preference = "keepAll" => d = "none"
          /\ Preference = "disabled" => d = "upload"
      BY <2>a, <2>d DEF decide
    <3> HIDE DEF d
    <3>2. (d = "upload" <=> LocalWins(l, r)) /\ (d = "download" <=> RemoteWins(l, r))
      BY <1>3, <1>4, <1>6, <2>b, <3>1, Preferences DEF LocalWins, RemoteWins
    <3> QED
      BY <2>d, <3>2 DEF d
  <2>1. decide(f) = "upload" <=> Differ(l, r) /\ LocalWins(l, r)
    BY <2>c, <2>d
  <2>2. decide(f) = "download" <=> Differ(l, r) /\ RemoteWins(l, r)
    BY <2>c, <2>d
  <2> USE DEF l, r
  <2> QED
    BY <1>2, <1>6, <2>1, <2>2 DEF UploadDecided, DownloadDecided
<1> QED
  BY <1>2, <1>5, <1>6

LEMMA CollectStatesKeeps ==
  ASSUME IInv, CollectStates PROVE IInv'
<1>1. ~Decided /\ Undecided /\ downPhase' = "delta" /\ ~Decided'
  BY DEF IInv, CollectStates, Decided
<1>2. fileMap' \in [Files -> Info \cup {Absent}] /\ \A f \in Files : fileMap'[f] = InfoOf(remoteBefore[f])
  BY <1>1, InfoFacts DEF CollectStates, Undecided, IInv, TypeOK
<1>3. LocalState \in [Files -> Info \cup {Absent}]
  BY InfoFacts DEF IInv, TypeOK, LocalState
<1>4. LocalState' = LocalState
  BY DEF CollectStates, fixedVars, LocalState, UploadExcluded
<1>5. TypeOK'
  BY <1>2, <1>3 DEF IInv, TypeOK, CollectStates, fixedVars
<1>6. Undecided'
  BY <1>1, <1>2, <1>4 DEF Undecided, CollectStates, fixedVars
<1> QED
  BY <1>1, <1>5, <1>6 DEF IInv

LEMMA CalculateDeltaKeeps ==
  ASSUME IInv, CalculateDelta PROVE IInv'
<1>1. TypeOK /\ downPhase = "delta" /\ Undecided /\ Decided'
  BY DEF IInv, CalculateDelta, Decided
<1>2. \A f \in Files : local[f] = localBefore[f] /\ fileMap[f] = InfoOf(remoteBefore[f])
  BY <1>1 DEF Undecided
<1>3. {g \in Walked : decide(g) = "upload"} = {g \in Files : UploadDecided(g)}
  <2>1. ASSUME NEW g \in Files, UploadDecided(g) PROVE g \in Walked
    <3>1. localState[g] = InfoOf(localBefore[g]) /\ localBefore[g] # Absent
      BY <1>1, <2>1 DEF UploadDecided, Undecided, LocalState
    <3> QED
      BY <1>1, <3>1, InfoFacts DEF TypeOK, Walked
  <2> QED
    BY <1>1, <2>1, Decisions DEF Walked
<1>4. upload' = {ChangeOf(f, localState[f]) : f \in {g \in Files : UploadDecided(g)}}
  BY <1>3 DEF CalculateDelta
<1>5. ASSUME NEW f \in Files, UploadDecided(f) PROVE localState[f] = InfoOf(localBefore[f])
  BY <1>1, <1>5 DEF UploadDecided, Undecided, LocalState
<1>6. upload' = {ChangeOf(f, InfoOf(localBefore[f])) : f \in {g \in Files : UploadDecided(g)}}
  BY <1>4, <1>5
<1>7. {g \in Files \ DownloadExcluded : fileMap[g] # Absent /\ (g \in Walked => decide(g) = "download")}
        = {g \in Files : DownloadDecided(g)}
  <2>1. ASSUME NEW g \in Files
        PROVE  g \notin DownloadExcluded /\ fileMap[g] # Absent /\ (g \in Walked => decide(g) = "download")
                 <=> DownloadDecided(g)
    <3>1. fileMap[g] # Absent <=> remoteBefore[g] # Absent
      BY <1>1, <1>2, InfoFacts DEF TypeOK
    <3>2. CASE g \in Walked
      BY <1>1, <3>1, <3>2, Decisions DEF DownloadDecided
    <3>3. CASE g \notin Walked
      <4>1. localState[g] = Absent
        BY <3>3 DEF Walked
      <4>2. g \in UploadExcluded \/ localBefore[g] = Absent
        BY <1>1, <4>1, InfoFacts DEF Undecided, LocalState, TypeOK
      <4> QED
        BY <3>1, <3>3, <4>2 DEF DownloadDecided
    <3> QED
      BY <3>2, <3>3
  <2> QED
    BY <2>1
<1>8. download' = {ChangeOf(f, fileMap[f]) : f \in {g \in Files : DownloadDecided(g)}}
  BY <1>7 DEF CalculateDelta
<1>9. download' = {ChangeOf(f, InfoOf(remoteBefore[f])) : f \in {g \in Files : DownloadDecided(g)}}
  BY <1>2, <1>8
<1>10. UNCHANGED fixedVars /\ UNCHANGED <<local, remote, fileMap, localState, fetch, queue, downErrors>>
  BY DEF CalculateDelta
<1>11. \A f \in Files : (UploadDecided(f)' <=> UploadDecided(f)) /\ (DownloadDecided(f)' <=> DownloadDecided(f))
  BY <1>10 DEF fixedVars, UploadDecided, DownloadDecided, UploadExcluded, DownloadExcluded, Differ, SameFile,
               LocalWins, RemoteWins, Preference
<1>12. Difference'
  BY <1>6, <1>9, <1>10, <1>11 DEF Difference, fixedVars
<1>13. upload' \subseteq Change /\ download' \subseteq Change
  <2>1. ASSUME NEW f \in Files, NEW v \in Version PROVE ChangeOf(f, InfoOf(v)) \in Change
    <3>1. InfoOf(v) = [mtime |-> v.mtime, size |-> Size[v.data]] /\ v.mtime \in Nat /\ Size[v.data] \in Nat
      BY InfoFacts, SetAssumption
    <3> QED
      BY <3>1 DEF ChangeOf, Change
  <2>2. \A f \in Files : /\ UploadDecided(f) => localBefore[f] \in Version
                         /\ DownloadDecided(f) => remoteBefore[f] \in Version
    BY <1>1 DEF TypeOK, UploadDecided, DownloadDecided
  <2> QED
    BY <1>6, <1>9, <2>1, <2>2
<1>14. TypeOK'
  BY <1>1, <1>10, <1>13 DEF TypeOK, CalculateDelta, fixedVars
<1>15. upPhase' = "removes" /\ downPhase' = "removes"
  BY DEF CalculateDelta
<1>16. ASSUME NEW f \in Files PROVE FileOK(f)'
  <2>1. Untouched(f)'
    BY <1>1, <1>2, <1>10 DEF Untouched, Undecided, fixedVars
  <2>2. Waits(f)' \/ ~(Uploaded(f)' \/ RemoteRemoved(f)' \/ LocalRemoved(f)' \/ Downloaded(f)')
    BY <1>15 DEF Waits
  <2>3. Waits(f)' => Uploaded(f)' \/ RemoteRemoved(f)' \/ LocalRemoved(f)' \/ Downloaded(f)'
    BY DEF Waits
  <2> QED
    BY <2>1, <2>2, <2>3 DEF FileOK
<1>17. QueueDecided' /\ FetchDecided'
  BY <1>1, <1>10 DEF Undecided, QueueDecided, FetchDecided
<1>18. InDecision'
  BY <1>1, <1>10, <1>12, <1>15, <1>16, <1>17 DEF InDecision, Undecided
<1> QED
  BY <1>1, <1>14, <1>18 DEF IInv

-----------------------------------------------------------------------------
(* The rest of the steps, file by file.                                    *)

\* A file that is left alone and waits as before is in order as before.
LEMMA FileKept ==
  ASSUME UNCHANGED fixedVars, NEW f \in Files, FileOK(f), Waits(f)' <=> Waits(f),
         local'[f] = local[f], remote'[f] = remote[f], fileMap'[f] = fileMap[f],
         downErrors > 0 => downErrors' > 0
  PROVE  FileOK(f)'
<1>1. localBefore' = localBefore /\ remoteBefore' = remoteBefore
  BY DEF fixedVars
<1>2. /\ Untouched(f)' <=> Untouched(f)
      /\ UploadMade(f)' <=> UploadMade(f)
      /\ RemoteRemoveDone(f)' <=> RemoteRemoveDone(f)
      /\ LocalRemoveDone(f)' <=> LocalRemoveDone(f)
      /\ DownloadDone(f)' <=> DownloadDone(f)
  BY <1>1 DEF Untouched, UploadMade, RemoteRemoveDone, LocalRemoveDone, DownloadDone
<1> QED
  BY <1>2, PlanKept DEF FileOK

\* The difference stays what it was.
LEMMA DifferenceKept ==
  ASSUME UNCHANGED fixedVars, upload' = upload, download' = download, Difference PROVE Difference'
<1>1. options' = options /\ localBefore' = localBefore /\ remoteBefore' = remoteBefore
  BY DEF fixedVars
<1>2. \A f \in Files : (UploadDecided(f)' <=> UploadDecided(f)) /\ (DownloadDecided(f)' <=> DownloadDecided(f))
  BY <1>1 DEF UploadDecided, DownloadDecided, UploadExcluded, DownloadExcluded, Differ, SameFile,
               LocalWins, RemoteWins, Preference
<1> QED
  BY <1>1, <1>2 DEF Difference

\* What is fetched stays decided.
LEMMA FetchKept ==
  ASSUME UNCHANGED fixedVars, fetch' \subseteq fetch, FetchDecided PROVE FetchDecided'
<1>1. remoteBefore' = remoteBefore
  BY DEF fixedVars
<1> QED
  BY <1>1, PlanKept DEF FetchDecided

\* So does what is queued.
LEMMA QueueKept ==
  ASSUME UNCHANGED fixedVars, queue' \subseteq queue, QueueDecided,
         upPhase' = "removes" => upPhase = "removes",
         upPhase' \in {"removes", "uploads"} => upPhase \in {"removes", "uploads"}
  PROVE  QueueDecided'
<1>1. localBefore' = localBefore
  BY DEF fixedVars
<1> QED
  BY <1>1, PlanKept DEF QueueDecided

\* The changes of the difference and their files.
LEMMA DifferenceFacts ==
  ASSUME Difference, TypeOK
  PROVE  /\ \A f \in Files : UploadDecided(f) => ChangeOf(f, InfoOf(localBefore[f])) \in upload
         /\ \A f \in Files : DownloadDecided(f) => ChangeOf(f, InfoOf(remoteBefore[f])) \in download
         /\ \A c \in upload : c.name \in Files /\ UploadDecided(c.name)
                              /\ c = ChangeOf(c.name, InfoOf(localBefore[c.name]))
         /\ \A c \in download : c.name \in Files /\ DownloadDecided(c.name)
                                /\ c = ChangeOf(c.name, InfoOf(remoteBefore[c.name]))
<1>1. \A f : \A i : ChangeOf(f, i).name = f
  BY DEF ChangeOf
<1> QED
  BY <1>1 DEF Difference

\* What the queue and the fetched changes name are files.
LEMMA NamesAreFiles ==
  ASSUME TypeOK
  PROVE  /\ \A c \in queue : c.name \in Files
         /\ \A c \in fetch : c.name \in Files
         /\ \A f : f \in NamesOf(queue) <=> \E c \in queue : c.name = f
         /\ \A f : f \in NamesOf(fetch) <=> \E c \in fetch : c.name = f
  BY DEF TypeOK, Change, NamesOf

\* What the decided phase needs, to be shown part by part.
LEMMA DecisionKept ==
  ASSUME IInv, Decided, UNCHANGED fixedVars, upload' = upload, download' = download,
         Decided', upPhase' # "collect", TypeOK', QueueDecided', FetchDecided',
         \A f \in Files : FileOK(f)',
         upPhase' = "done" => queue' = {},
         downPhase' = "removes" => fetch' = {} /\ downErrors' = 0,
         downPhase' = "done" => fetch' = {}
  PROVE  IInv'
<1>1. Difference'
  BY DifferenceKept DEF IInv, InDecision
<1>2. InDecision'
  BY <1>1 DEF InDecision
<1> QED
  BY <1>2 DEF IInv

LEMMA SendRemovesKeeps ==
  ASSUME IInv, Decided, SendRemoves PROVE IInv'
<1>1. TypeOK /\ InDecision /\ UNCHANGED fixedVars /\ upPhase = "removes" /\ upPhase' = "uploads"
      /\ UNCHANGED <<local, remote, fileMap, localState, upload, download, fetch, downPhase, downErrors>>
  BY DEF IInv, SendRemoves
<1>2. queue = {}
  BY <1>1 DEF InDecision, QueueDecided
<1>3. ASSUME NEW c \in queue'
      PROVE  c.name \in Files /\ RemoteRemoved(c.name) /\ c = RemoveChange(c.name)
  <2>1. UpEnabled /\ options.strategy = "mirrorLocal" /\ c \in RemoteOnly
    BY <1>3 DEF SendRemoves
  <2>2. PICK d \in download : d.name \notin UploadExcluded /\ c = RemoveChange(d.name)
    BY <2>1 DEF RemoteOnly
  <2>3. d.name \in Files /\ DownloadDecided(d.name)
    BY <1>1, DifferenceFacts DEF InDecision
  <2>4. c.name = d.name
    BY <2>2 DEF RemoveChange
  <2> QED
    BY <2>1, <2>2, <2>3, <2>4 DEF RemoteRemoved
<1>4. ASSUME NEW f \in Files, RemoteRemoved(f) PROVE f \in NamesOf(queue')
  <2>1. DownloadDecided(f) /\ f \notin UploadExcluded /\ queue' = RemoteOnly
    BY <1>4 DEF RemoteRemoved, SendRemoves
  <2>2. ChangeOf(f, InfoOf(remoteBefore[f])) \in download
    BY <1>1, <2>1, DifferenceFacts DEF InDecision
  <2>3. ChangeOf(f, InfoOf(remoteBefore[f])).name = f
    BY DEF ChangeOf
  <2>4. RemoveChange(f) \in queue' /\ RemoveChange(f).name = f
    BY <2>1, <2>2, <2>3 DEF RemoteOnly, RemoveChange
  <2> QED
    BY <2>4 DEF NamesOf
<1>5. TypeOK'
  <2>1. queue' \subseteq Change
    BY <1>3 DEF RemoveChange, Change
  <2> QED
    BY <1>1, <2>1 DEF TypeOK, fixedVars
<1>6. QueueDecided'
  BY <1>1, <1>3, PlanKept DEF QueueDecided
<1>7. FetchDecided'
  BY <1>1, FetchKept DEF InDecision
<1>8. ASSUME NEW f \in Files PROVE FileOK(f)'
  <2>1. Waits(f)' <=> Waits(f)
    BY <1>1, <1>4, PlanKept DEF Waits, NamesOf
  <2> QED
    BY <1>1, <2>1, FileKept DEF InDecision
<1> QED
  BY <1>1, <1>5, <1>6, <1>7, <1>8, DecisionKept DEF InDecision, Decided

LEMMA SendUploadsKeeps ==
  ASSUME IInv, Decided, SendUploads PROVE IInv'
<1>1. TypeOK /\ InDecision /\ UNCHANGED fixedVars /\ upPhase = "uploads" /\ upPhase' = "drain"
      /\ UNCHANGED <<local, remote, fileMap, localState, upload, download, fetch, downPhase, downErrors>>
  BY DEF IInv, SendUploads
<1> DEFINE new == IF UpEnabled
                  THEN {c \in Uploads : fileMap[c.name] # [mtime |-> c.mtime, size |-> c.size]} ELSE {}
<1>2. queue' = queue \cup new
  BY DEF SendUploads
<1>3. ASSUME NEW c \in new
      PROVE  c \in Change /\ c.name \in Files /\ Uploaded(c.name) /\ c = ChangeOf(c.name, InfoOf(localBefore[c.name]))
  <2>1. UpEnabled /\ c \in upload /\ (options.strategy = "mirrorRemote" => c.name \in DownloadExcluded)
    BY <1>3 DEF Uploads
  <2>2. c.name \in Files /\ UploadDecided(c.name) /\ c = ChangeOf(c.name, InfoOf(localBefore[c.name]))
    BY <1>1, <2>1, DifferenceFacts DEF InDecision
  <2> QED
    BY <1>1, <2>1, <2>2 DEF Uploaded, TypeOK
<1>4. ASSUME NEW f \in Files, Uploaded(f) PROVE f \in NamesOf(new)
  <2> DEFINE l == localBefore[f]
             r == remoteBefore[f]
             c == ChangeOf(f, InfoOf(l))
  <2>1. UploadDecided(f) /\ UpEnabled /\ l # Absent
    BY <1>4 DEF Uploaded, UploadDecided
  <2>2. c \in upload /\ c.name = f
    BY <1>1, <2>1, DifferenceFacts DEF InDecision, ChangeOf
  <2>3. c \in Uploads
    BY <1>4, <2>2 DEF Uploads, Uploaded
  <2>4. Untouched(f)
    BY <1>1, <1>4 DEF InDecision, FileOK, Waits
  <2>5. fileMap[f] = InfoOf(r) /\ r \in Version \cup {Absent} /\ l \in Version \cup {Absent}
    BY <1>1, <2>4 DEF Untouched, TypeOK
  <2>6. InfoOf(l) = [mtime |-> l.mtime, size |-> Size[l.data]] /\ InfoOf(l) # Absent
    BY <2>1, <2>5, InfoFacts
  <2>7. InfoOf(r) # InfoOf(l)
    BY <2>1, <2>5, <2>6, InfoFacts DEF UploadDecided, Differ, SameFile
  <2>8. [mtime |-> c.mtime, size |-> c.size] = InfoOf(l)
    BY <2>6 DEF ChangeOf
  <2>9. c \in new
    BY <2>1, <2>2, <2>3, <2>5, <2>7, <2>8
  <2> QED
    BY <2>2, <2>9 DEF NamesOf
<1> HIDE DEF new
<1>5. TypeOK'
  BY <1>1, <1>2, <1>3 DEF TypeOK, fixedVars
<1>6. QueueDecided'
  <2>1. ASSUME NEW c \in queue
        PROVE  RemoteRemoved(c.name)' /\ c = RemoveChange(c.name)
    BY <1>1, <2>1, PlanKept DEF InDecision, QueueDecided
  <2>2. ASSUME NEW c \in new
        PROVE  Uploaded(c.name)' /\ c = ChangeOf(c.name, InfoOf(localBefore'[c.name]))
    BY <1>1, <1>3, <2>2, PlanKept DEF fixedVars
  <2> QED
    BY <1>1, <1>2, <2>1, <2>2 DEF QueueDecided
<1>7. FetchDecided'
  BY <1>1, FetchKept DEF InDecision
<1>8. ASSUME NEW f \in Files PROVE FileOK(f)'
  <2>1. f \in NamesOf(queue') <=> f \in NamesOf(queue) \/ f \in NamesOf(new)
    BY <1>2 DEF NamesOf
  <2>2. f \in NamesOf(new) => Uploaded(f)
    BY <1>3 DEF NamesOf
  <2>3. Uploaded(f) => Waits(f)
    BY <1>1 DEF Waits
  <2>4. Waits(f)' <=> Waits(f)
    <3>1. CASE Uploaded(f)
      BY <1>1, <1>4, <2>1, <2>3, <3>1, PlanKept DEF Waits, NamesOf
    <3>2. CASE ~Uploaded(f)
      <4>1. f \in NamesOf(queue') <=> f \in NamesOf(queue)
        BY <2>1, <2>2, <3>2
      <4> QED
        BY <1>1, <4>1, <3>2, PlanKept DEF Waits, NamesOf
    <3> QED
      BY <3>1, <3>2
  <2> QED
    BY <1>1, <2>4, FileKept DEF InDecision
<1> QED
  BY <1>1, <1>5, <1>6, <1>7, <1>8, DecisionKept DEF InDecision, Decided

\* A file whose upload or removal is queued has one change in the queue.
LEMMA QueuedFile ==
  ASSUME TypeOK, InDecision, NEW c \in queue
  PROVE  /\ c.name \in Files /\ Waits(c.name) /\ Untouched(c.name)
         /\ \/ RemoteRemoved(c.name) /\ ~Uploaded(c.name) /\ c = RemoveChange(c.name)
               /\ upPhase # "removes"
            \/ Uploaded(c.name) /\ ~RemoteRemoved(c.name)
               /\ c = ChangeOf(c.name, InfoOf(localBefore[c.name])) /\ upPhase \notin {"removes", "uploads"}
<1> DEFINE f == c.name
<1>1. f \in Files /\ f \in NamesOf(queue)
  BY NamesAreFiles
<1>2. \/ RemoteRemoved(f) /\ c = RemoveChange(f) /\ upPhase # "removes"
      \/ Uploaded(f) /\ c = ChangeOf(f, InfoOf(localBefore[f])) /\ upPhase \notin {"removes", "uploads"}
  BY DEF InDecision, QueueDecided
<1> HIDE DEF f
<1>3. Waits(f)
  BY <1>1, <1>2 DEF Waits
<1>4. Untouched(f)
  BY <1>1, <1>3 DEF InDecision, FileOK
<1>5. ~(RemoteRemoved(f) /\ Uploaded(f))
  BY <1>1, OneThing
<1> QED
  BY <1>1, <1>2, <1>3, <1>4, <1>5 DEF f

\* A removal that is applied removes the file from the container.
LEMMA RemovalApplied ==
  ASSUME NEW f \in Files
  PROVE  RemoteAfter(RemoveChange(f)) = Absent /\ IndexAfter(RemoveChange(f)) = Absent
  BY DEF RemoteAfter, IndexAfter, Removal, RemoveChange

\* An upload that is applied leaves the local content in the container, and the
\* index describes it, whether the file was sent or only given its time.
LEMMA UploadApplied ==
  ASSUME TypeOK, NEW f \in Files, Untouched(f), Uploaded(f), NEW c, c = ChangeOf(f, InfoOf(localBefore[f]))
  PROVE  /\ RemoteAfter(c) \in Version /\ SameContent(RemoteAfter(c), localBefore[f])
         /\ IndexAfter(c) = InfoOf(RemoteAfter(c))
<1> DEFINE l == localBefore[f]
           r == remoteBefore[f]
<1>1. l # Absent /\ l \in Version /\ r \in Version \cup {Absent}
  BY DEF Uploaded, UploadDecided, TypeOK
<1>2. local[f] = l /\ remote[f] = r /\ fileMap[f] = InfoOf(r)
  BY DEF Untouched
<1>3. InfoOf(l) = [mtime |-> l.mtime, size |-> Size[l.data]]
      /\ l.mtime \in Times /\ l.mtime \in Nat /\ l.mtime > 0 /\ l.data \in Contents /\ Size[l.data] \in Nat
  BY <1>1, InfoFacts
<1>4. c.name = f /\ c.mtime = l.mtime /\ c.size = Size[l.data] /\ ~Removal(c)
  BY <1>3 DEF ChangeOf, Removal
<1>5. CASE Sent(c)
  BY <1>1, <1>2, <1>4, <1>5 DEF RemoteAfter, IndexAfter, SameContent
<1>6. CASE ~Sent(c)
  <2>1. SameSize(c) /\ (c.size > 0 => r # Absent /\ r.data = l.data)
    BY <1>1, <1>2, <1>4, <1>6 DEF Sent
  <2>2. r # Absent
    BY <1>2, <1>4, <2>1 DEF SameSize, InfoOf
  <2>3. r \in Version /\ r.data \in Contents /\ r.mtime \in Times
        /\ fileMap[f] = [mtime |-> r.mtime, size |-> Size[r.data]] /\ InfoOf(r) = fileMap[f]
    BY <1>1, <1>2, <2>2, InfoFacts
  <2>4. Size[r.data] = Size[l.data]
    BY <1>4, <2>1, <2>3 DEF SameSize
  <2>5. r.data = l.data
    <3>1. CASE c.size > 0
      BY <2>1, <3>1
    <3>2. CASE c.size = 0
      BY <1>3, <1>4, <2>3, <2>4, <3>2, SetAssumption
    <3> QED
      BY <1>3, <1>4, <3>1, <3>2
  <2>6. CASE c.size > 0
    <3>1. Touched(c)
      BY <1>4, <2>1, <2>6 DEF Touched
    <3>2. RemoteAfter(c) = [remote[f] EXCEPT !.mtime = c.mtime] /\ IndexAfter(c) = [fileMap[f] EXCEPT !.mtime = c.mtime]
      BY <1>2, <1>4, <1>6, <2>2, <3>1 DEF RemoteAfter, IndexAfter
    <3>3. r = [mtime |-> r.mtime, data |-> r.data]
      BY <2>3 DEF Version
    <3>4. RemoteAfter(c) = [mtime |-> l.mtime, data |-> r.data]
      BY <1>2, <1>4, <3>2, <3>3
    <3>5. IndexAfter(c) = [mtime |-> l.mtime, size |-> Size[r.data]]
      BY <1>4, <2>3, <3>2
    <3>6. RemoteAfter(c) \in Version /\ RemoteAfter(c).data = r.data /\ RemoteAfter(c).mtime = l.mtime
      BY <1>3, <2>3, <3>4 DEF Version
    <3>7. RemoteAfter(c) # Absent
      BY <3>6, SetAssumption
    <3>8. InfoOf(RemoteAfter(c)) = [mtime |-> l.mtime, size |-> Size[r.data]]
      BY <3>6, <3>7 DEF InfoOf
    <3> QED
      BY <1>1, <2>5, <3>5, <3>6, <3>7, <3>8 DEF SameContent
  <2>7. CASE ~(c.size > 0)
    <3>1. RemoteAfter(c) = r /\ IndexAfter(c) = fileMap[f]
      BY <1>2, <1>4, <1>6, <2>7 DEF RemoteAfter, IndexAfter, Touched
    <3> QED
      BY <1>1, <1>2, <2>2, <2>3, <2>5, <3>1 DEF SameContent
  <2> QED
    BY <2>6, <2>7
<1> QED
  BY <1>5, <1>6

LEMMA ApplyUpstreamKeeps ==
  ASSUME IInv, Decided, ApplyUpstream PROVE IInv'
<1>1. TypeOK /\ InDecision
  BY DEF IInv
<1>2. PICK cs \in SUBSET queue :
        /\ queue' = queue \ cs
        /\ LET change(f) == CHOOSE c \in cs : c.name = f IN
           /\ remote'  = [f \in Files |-> IF f \in NamesOf(cs) THEN RemoteAfter(change(f)) ELSE remote[f]]
           /\ fileMap' = [f \in Files |-> IF f \in NamesOf(cs) THEN IndexAfter(change(f)) ELSE fileMap[f]]
        /\ UNCHANGED <<fixedVars, local, localState, upload, download, fetch, upPhase, downPhase, downErrors>>
  BY DEF ApplyUpstream
<1>3. UNCHANGED fixedVars
      /\ UNCHANGED <<local, localState, upload, download, fetch, upPhase, downPhase, downErrors>>
  BY <1>2
<1> DEFINE change(f) == CHOOSE c \in cs : c.name = f
<1>4. ASSUME NEW f \in Files, f \notin NamesOf(cs)
      PROVE  /\ remote'[f] = remote[f] /\ fileMap'[f] = fileMap[f]
             /\ f \in NamesOf(queue') <=> f \in NamesOf(queue)
  BY <1>2, <1>4 DEF NamesOf
<1>5. ASSUME NEW f \in Files, f \in NamesOf(cs)
      PROVE  /\ change(f) \in queue /\ change(f).name = f
             /\ remote'[f] = RemoteAfter(change(f)) /\ fileMap'[f] = IndexAfter(change(f))
  <2>1. \E c \in cs : c.name = f
    BY <1>5 DEF NamesOf
  <2>2. change(f) \in cs /\ change(f).name = f
    BY <2>1
  <2>3. remote'[f] = RemoteAfter(change(f)) /\ fileMap'[f] = IndexAfter(change(f))
    BY <1>2, <1>5
  <2> QED
    BY <2>2, <2>3
<1> HIDE DEF change
<1>6. ASSUME NEW f \in Files, f \in NamesOf(cs)
      PROVE  /\ remote'[f] \in Version \cup {Absent} /\ fileMap'[f] = InfoOf(remote'[f])
             /\ f \notin NamesOf(queue')
             /\ \/ RemoteRemoved(f) /\ upPhase # "removes" /\ ~Uploaded(f) /\ remote'[f] = Absent
                \/ Uploaded(f) /\ upPhase \notin {"removes", "uploads"} /\ ~RemoteRemoved(f)
                   /\ SameContent(remote'[f], localBefore[f])
             /\ Waits(f) /\ local[f] = localBefore[f]
  <2> DEFINE c == change(f)
  <2>1. c \in queue /\ c.name = f /\ remote'[f] = RemoteAfter(c) /\ fileMap'[f] = IndexAfter(c)
    BY <1>5, <1>6
  <2> HIDE DEF c
  <2>2. /\ Waits(f) /\ Untouched(f)
        /\ \/ RemoteRemoved(f) /\ ~Uploaded(f) /\ c = RemoveChange(f) /\ upPhase # "removes"
           \/ Uploaded(f) /\ ~RemoteRemoved(f) /\ c = ChangeOf(f, InfoOf(localBefore[f]))
              /\ upPhase \notin {"removes", "uploads"}
    BY <1>1, <2>1, QueuedFile
  <2>3. f \notin NamesOf(queue')
    <3>1. ASSUME NEW d \in queue', d.name = f PROVE FALSE
      <4>1. d \in queue /\ d \notin cs
        BY <1>2, <3>1
      <4>2. d = c
        BY <1>1, <2>2, <3>1, <4>1, QueuedFile
      <4>3. PICK e \in cs : e.name = f
        BY <1>6 DEF NamesOf
      <4>4. e = c
        BY <1>1, <1>2, <2>2, <4>3, QueuedFile
      <4> QED
        BY <4>1, <4>2, <4>3, <4>4
    <3> QED
      BY <3>1 DEF NamesOf
  <2>4. local[f] = localBefore[f]
    BY <2>2 DEF Untouched
  <2>5. CASE RemoteRemoved(f)
    <3>1. remote'[f] = Absent /\ fileMap'[f] = Absent
      BY <2>1, <2>2, <2>5, RemovalApplied
    <3>2. fileMap'[f] = InfoOf(remote'[f])
      BY <3>1 DEF InfoOf
    <3> QED
      BY <2>2, <2>3, <2>4, <2>5, <3>1, <3>2
  <2>6. CASE Uploaded(f)
    BY <1>1, <2>1, <2>2, <2>3, <2>4, <2>6, UploadApplied
  <2> QED
    BY <2>2, <2>5, <2>6
<1>7. TypeOK'
  <2>1. remote' \in [Files -> Version \cup {Absent}]
    <3>1. \A f \in Files : remote'[f] \in Version \cup {Absent}
      BY <1>1, <1>4, <1>6 DEF TypeOK
    <3> QED
      BY <1>2, <3>1
  <2>2. fileMap' \in [Files -> Info \cup {Absent}]
    <3>1. \A f \in Files : fileMap'[f] \in Info \cup {Absent}
      BY <1>1, <1>4, <1>6, InfoFacts DEF TypeOK
    <3> QED
      BY <1>2, <3>1
  <2>3. queue' \subseteq Change
    BY <1>1, <1>2 DEF TypeOK
  <2> QED
    BY <1>1, <1>3, <2>1, <2>2, <2>3 DEF TypeOK, fixedVars
<1>8. ASSUME NEW f \in Files PROVE FileOK(f)'
  <2>1. CASE f \notin NamesOf(cs)
    <3>1. Waits(f)' <=> Waits(f)
      BY <1>3, <1>4, <2>1, PlanKept DEF Waits, NamesOf
    <3> QED
      BY <1>1, <1>3, <1>4, <2>1, <3>1, FileKept DEF InDecision
  <2>2. CASE f \in NamesOf(cs)
    <3>1. Uploaded(f) \/ RemoteRemoved(f)
      BY <1>6, <2>2
    <3>2. ~LocalRemoved(f) /\ ~Downloaded(f)
      BY <1>1, <3>1, OneThing
    <3>3. f \notin NamesOf(queue')
      BY <1>6, <2>2
    <3>4. ~Waits(f)'
      BY <1>3, <1>6, <2>2, <3>2, <3>3, PlanKept DEF Waits, NamesOf
    <3>5. local'[f] = localBefore'[f] /\ localBefore' = localBefore
      BY <1>3, <1>6, <2>2 DEF fixedVars
    <3>6. fileMap'[f] = InfoOf(remote'[f])
      BY <1>6, <2>2
    <3>7. CASE RemoteRemoved(f)
      <4>1. remote'[f] = Absent
        BY <1>6, <2>2, <3>7, OneThing, <1>1
      <4>2. RemoteRemoveDone(f)'
        BY <3>5, <3>6, <4>1 DEF RemoteRemoveDone, InfoOf
      <4> QED
        BY <1>3, <3>4, <3>7, <4>2, PlanKept DEF FileOK
    <3>8. CASE Uploaded(f)
      <4>1. SameContent(remote'[f], localBefore[f])
        BY <1>6, <2>2, <3>8
      <4>2. UploadMade(f)'
        BY <3>5, <3>6, <4>1 DEF UploadMade, InfoOf, SameContent
      <4> QED
        BY <1>3, <3>4, <3>8, <4>2, PlanKept DEF FileOK
    <3> QED
      BY <3>1, <3>7, <3>8
  <2> QED
    BY <2>1, <2>2
<1>9. QueueDecided' /\ FetchDecided' /\ queue' \subseteq queue
  BY <1>1, <1>2, <1>3, QueueKept, FetchKept DEF InDecision
<1> QED
  BY <1>1, <1>3, <1>7, <1>8, <1>9, DecisionKept DEF InDecision, Decided

LEMMA UpstreamDoneKeeps ==
  ASSUME IInv, Decided, UpstreamDone PROVE IInv'
<1>1. TypeOK /\ InDecision /\ UNCHANGED fixedVars /\ upPhase = "drain" /\ upPhase' = "done" /\ queue = {}
      /\ UNCHANGED <<local, remote, fileMap, localState, upload, download, fetch, queue, downPhase, downErrors>>
  BY DEF IInv, UpstreamDone
<1>2. TypeOK'
  BY <1>1 DEF TypeOK, fixedVars
<1>3. QueueDecided' /\ FetchDecided'
  BY <1>1, QueueKept, FetchKept DEF InDecision
<1>4. ASSUME NEW f \in Files PROVE FileOK(f)'
  <2>1. Waits(f)' <=> Waits(f)
    BY <1>1, PlanKept DEF Waits, NamesOf
  <2> QED
    BY <1>1, <2>1, FileKept DEF InDecision
<1> QED
  BY <1>1, <1>2, <1>3, <1>4, DecisionKept DEF InDecision, Decided

LEMMA RemoveLocalKeeps ==
  ASSUME IInv, RemoveLocal PROVE IInv'
<1>1. TypeOK /\ Decided /\ InDecision /\ UNCHANGED fixedVars /\ downPhase = "removes" /\ downPhase' = "downloads"
      /\ UNCHANGED <<remote, localState, upload, download, queue, upPhase, downErrors>>
  BY DEF IInv, RemoveLocal, Decided
<1>2. ASSUME NEW f \in Files
      PROVE  /\ local'[f] = IF LocalRemoved(f) THEN Absent ELSE local[f]
             /\ fileMap'[f] = IF LocalRemoved(f) THEN Absent ELSE fileMap[f]
  <2> DEFINE removed == IF DownEnabled /\ options.strategy = "mirrorRemote" THEN LocalOnly ELSE {}
  <2>1. local'[f] = (IF f \in removed THEN Absent ELSE local[f])
        /\ fileMap'[f] = (IF f \in removed THEN Absent ELSE fileMap[f])
    BY DEF RemoveLocal
  <2>2. f \in LocalOnly <=> UploadDecided(f) /\ f \notin DownloadExcluded
    <3>1. ASSUME f \in LocalOnly PROVE UploadDecided(f) /\ f \notin DownloadExcluded
      <4>1. PICK d \in upload : d.name \notin DownloadExcluded /\ d.name = f
        BY <3>1 DEF LocalOnly
      <4> QED
        BY <1>1, <4>1, DifferenceFacts DEF InDecision
    <3>2. ASSUME UploadDecided(f), f \notin DownloadExcluded PROVE f \in LocalOnly
      <4> DEFINE c == ChangeOf(f, InfoOf(localBefore[f]))
      <4>1. c \in upload /\ c.name = f
        BY <1>1, <3>2, DifferenceFacts DEF InDecision, ChangeOf
      <4> HIDE DEF c
      <4> QED
        BY <3>2, <4>1 DEF LocalOnly
    <3> QED
      BY <3>1, <3>2
  <2>3. f \in removed <=> LocalRemoved(f)
    BY <2>2 DEF LocalRemoved
  <2> QED
    BY <2>1, <2>3
<1>3. ASSUME NEW c \in fetch'
      PROVE  /\ c \in Change /\ c.name \in Files /\ Downloaded(c.name)
             /\ c = ChangeOf(c.name, InfoOf(remoteBefore[c.name]))
  <2>1. DownEnabled /\ c \in download /\ (options.strategy = "mirrorLocal" => c.name \in UploadExcluded)
    BY <1>3 DEF RemoveLocal, Downloads
  <2>2. c.name \in Files /\ DownloadDecided(c.name) /\ c = ChangeOf(c.name, InfoOf(remoteBefore[c.name]))
    BY <1>1, <2>1, DifferenceFacts DEF InDecision
  <2> QED
    BY <1>1, <2>1, <2>2 DEF Downloaded, TypeOK
<1>4. ASSUME NEW f \in Files, Downloaded(f) PROVE f \in NamesOf(fetch')
  <2> DEFINE c == ChangeOf(f, InfoOf(remoteBefore[f]))
  <2>1. DownEnabled /\ DownloadDecided(f)
    BY <1>4 DEF Downloaded
  <2>2. c \in download /\ c.name = f
    BY <1>1, <2>1, DifferenceFacts DEF InDecision, ChangeOf
  <2> HIDE DEF c
  <2>3. c \in Downloads
    BY <1>4, <2>2 DEF Downloads, Downloaded
  <2>4. c \in fetch'
    BY <2>1, <2>3 DEF RemoveLocal
  <2> QED
    BY <2>2, <2>4 DEF NamesOf
<1>5. TypeOK'
  <2>1. local' \in [Files -> Version \cup {Absent}] /\ fileMap' \in [Files -> Info \cup {Absent}]
    BY <1>1 DEF TypeOK, RemoveLocal
  <2>2. fetch' \subseteq Change
    BY <1>3
  <2> QED
    BY <1>1, <2>1, <2>2 DEF TypeOK, fixedVars
<1>6. QueueDecided'
  BY <1>1, QueueKept DEF InDecision
<1>7. FetchDecided'
  BY <1>1, <1>3, PlanKept DEF FetchDecided, fixedVars
<1>8. ASSUME NEW f \in Files PROVE FileOK(f)'
  <2>1. CASE LocalRemoved(f)
    <3>1. Waits(f) /\ Untouched(f)
      BY <1>1, <2>1 DEF Waits, InDecision, FileOK
    <3>2. ~Uploaded(f) /\ ~RemoteRemoved(f) /\ ~Downloaded(f)
      BY <1>1, <2>1, OneThing
    <3>3. ~Waits(f)'
      BY <1>1, <3>2, PlanKept DEF Waits
    <3>4. LocalRemoveDone(f)'
      BY <1>1, <1>2, <2>1, <3>1 DEF LocalRemoveDone, Untouched, fixedVars
    <3> QED
      BY <1>1, <2>1, <3>3, <3>4, PlanKept DEF FileOK
  <2>2. CASE ~LocalRemoved(f)
    <3>1. Waits(f)' <=> Waits(f)
      BY <1>1, <1>4, <2>2, PlanKept DEF Waits, NamesOf
    <3> QED
      BY <1>1, <1>2, <2>2, <3>1, FileKept DEF InDecision
  <2> QED
    BY <2>1, <2>2
<1> QED
  BY <1>1, <1>5, <1>6, <1>7, <1>8, DecisionKept DEF InDecision, Decided

LEMMA DownloadKeeps ==
  ASSUME IInv, NEW c \in fetch, Download(c) PROVE IInv'
<1>1. TypeOK /\ Decided /\ InDecision /\ UNCHANGED fixedVars /\ downPhase = "downloads" /\ fetch' = fetch \ {c}
      /\ UNCHANGED <<remote, localState, upload, download, queue, upPhase, downPhase, downErrors>>
  BY DEF IInv, Download, Decided
<1> DEFINE g == c.name
<1>2. g \in Files /\ Downloaded(g) /\ c = ChangeOf(g, InfoOf(remoteBefore[g]))
  BY <1>1, NamesAreFiles DEF InDecision, FetchDecided
<1>3. Waits(g) /\ Untouched(g) /\ ~Uploaded(g) /\ ~RemoteRemoved(g) /\ ~LocalRemoved(g)
  <2>1. Waits(g)
    BY <1>2 DEF Waits, NamesOf
  <2> QED
    BY <1>1, <1>2, <2>1, OneThing DEF InDecision, FileOK
<1>4. remote[g] # Absent /\ remote[g] = remoteBefore[g] /\ local[g] = localBefore[g]
  BY <1>2, <1>3 DEF Untouched, Downloaded, DownloadDecided
<1>5. local' = [local EXCEPT ![g] = Untarred(g)] /\ fileMap' = [fileMap EXCEPT ![g] = InfoOf(local'[g])]
  BY <1>4 DEF Download
<1>6. Untarred(g) \in Version /\ local'[g] = Untarred(g) /\ fileMap'[g] = InfoOf(local'[g])
  BY <1>1, <1>2, <1>4, <1>5 DEF TypeOK, Untarred
<1>7. TypeOK'
  <2>1. local' \in [Files -> Version \cup {Absent}] /\ InfoOf(local'[g]) \in Info \cup {Absent}
    BY <1>1, <1>2, <1>5, <1>6, InfoFacts DEF TypeOK
  <2>2. fileMap' \in [Files -> Info \cup {Absent}]
    BY <1>1, <1>5, <2>1 DEF TypeOK
  <2> QED
    BY <1>1, <2>1, <2>2 DEF TypeOK, fixedVars
<1>8. QueueDecided' /\ FetchDecided'
  BY <1>1, QueueKept, FetchKept DEF InDecision
<1>9. ASSUME NEW f \in Files PROVE FileOK(f)'
  <2>1. CASE f = g
    <3>1. f \notin NamesOf(fetch')
      <4>1. ASSUME NEW d \in fetch', d.name = g PROVE FALSE
        <5>1. d \in fetch /\ d # c
          BY <1>1, <4>1
        <5> QED
          BY <1>1, <1>2, <4>1, <5>1 DEF InDecision, FetchDecided
      <4> QED
        BY <2>1, <4>1 DEF NamesOf
    <3>2. ~Waits(f)'
      BY <1>1, <1>3, <2>1, <3>1, PlanKept DEF Waits, NamesOf
    <3>3. DownloadDone(f)'
      BY <1>1, <1>4, <1>6, <2>1 DEF DownloadDone, Newer, Untarred, InfoOf, fixedVars
    <3> QED
      BY <1>1, <1>2, <2>1, <3>2, <3>3, PlanKept DEF FileOK
  <2>2. CASE f # g
    <3>1. f \in NamesOf(fetch') <=> f \in NamesOf(fetch)
      BY <1>1, <2>2 DEF NamesOf
    <3>2. Waits(f)' <=> Waits(f)
      BY <1>1, <3>1, PlanKept DEF Waits, NamesOf
    <3>3. local'[f] = local[f] /\ fileMap'[f] = fileMap[f]
      BY <1>1, <1>5, <2>2 DEF TypeOK
    <3> QED
      BY <1>1, <3>2, <3>3, FileKept DEF InDecision
  <2> QED
    BY <2>1, <2>2
<1> QED
  BY <1>1, <1>7, <1>8, <1>9, DecisionKept DEF InDecision, Decided

LEMMA DownloadErrorKeeps ==
  ASSUME IInv, DownloadError PROVE IInv'
<1>1. TypeOK /\ Decided /\ InDecision /\ UNCHANGED fixedVars /\ downPhase = "downloads" /\ fetch' \subseteq fetch
      /\ UNCHANGED <<local, remote, fileMap, localState, upload, download, queue, upPhase, downPhase>>
      /\ downErrors' = downErrors + 1 /\ downErrors < MaxDownloadErrors
  BY DEF IInv, DownloadError, Decided
<1>2. downErrors' \in 0 .. MaxDownloadErrors /\ downErrors' > 0
  BY <1>1, SetAssumption DEF TypeOK
<1>3. TypeOK'
  BY <1>1, <1>2 DEF TypeOK, fixedVars
<1>4. QueueDecided' /\ FetchDecided'
  BY <1>1, QueueKept, FetchKept DEF InDecision
<1>5. ASSUME NEW f \in Files PROVE FileOK(f)'
  <2>1. CASE Waits(f)' <=> Waits(f)
    BY <1>1, <1>2, <2>1, FileKept DEF InDecision
  <2>2. CASE ~(Waits(f)' <=> Waits(f))
    <3>1. f \in NamesOf(fetch') => f \in NamesOf(fetch)
      BY <1>1 DEF NamesOf
    <3>2. Downloaded(f) /\ Waits(f) /\ ~Waits(f)'
      BY <1>1, <2>2, <3>1, PlanKept DEF Waits, NamesOf
    <3>3. Untouched(f)
      BY <1>1, <3>2 DEF InDecision, FileOK
    <3>4. Untouched(f)'
      BY <1>1, <3>3 DEF Untouched, fixedVars
    <3> QED
      BY <1>1, <1>2, <3>2, <3>4, PlanKept DEF FileOK
  <2> QED
    BY <2>1, <2>2
<1> QED
  BY <1>1, <1>3, <1>4, <1>5, DecisionKept DEF InDecision, Decided

LEMMA DownstreamDoneKeeps ==
  ASSUME IInv, DownstreamDone PROVE IInv'
<1>1. TypeOK /\ Decided /\ InDecision /\ UNCHANGED fixedVars /\ downPhase = "downloads" /\ downPhase' = "done"
      /\ fetch = {}
      /\ UNCHANGED <<local, remote, fileMap, localState, upload, download, fetch, queue, upPhase, downErrors>>
  BY DEF IInv, DownstreamDone, Decided
<1>2. TypeOK'
  BY <1>1 DEF TypeOK, fixedVars
<1>3. QueueDecided' /\ FetchDecided'
  BY <1>1, QueueKept, FetchKept DEF InDecision
<1>4. ASSUME NEW f \in Files PROVE FileOK(f)'
  <2>1. Waits(f)' <=> Waits(f)
    BY <1>1, PlanKept DEF Waits, NamesOf
  <2> QED
    BY <1>1, <2>1, FileKept DEF InDecision
<1>5. Decided' /\ upPhase' # "collect"
  BY <1>1 DEF Decided, InDecision
<1>6. (upPhase' = "done" => queue' = {}) /\ fetch' = {} /\ downPhase' = "done"
  BY <1>1 DEF InDecision
<1> QED
  BY <1>1, <1>2, <1>3, <1>4, <1>5, <1>6, DecisionKept

LEMMA NothingKeeps ==
  ASSUME IInv, UNCHANGED vars PROVE IInv'
<1>1. /\ UNCHANGED fixedVars /\ TypeOK
      /\ UNCHANGED <<local, remote, localBefore, remoteBefore, fileMap, localState, upload, download, fetch, queue>>
      /\ upPhase' = upPhase /\ downPhase' = downPhase /\ downErrors' = downErrors /\ options' = options
  BY DEF vars, fixedVars, IInv
<1>2. TypeOK'
  BY <1>1 DEF TypeOK
<1>3. CASE Decided
  <2>1. InDecision /\ Decided' /\ upPhase' # "collect"
    BY <1>1, <1>3 DEF IInv, Decided, InDecision
  <2>2. QueueDecided' /\ FetchDecided'
    BY <1>1, <2>1, QueueKept, FetchKept DEF InDecision
  <2>3. ASSUME NEW f \in Files PROVE FileOK(f)'
    <3>1. Waits(f)' <=> Waits(f)
      BY <1>1, PlanKept DEF Waits, NamesOf
    <3> QED
      BY <1>1, <2>1, <3>1, FileKept DEF InDecision
  <2>4. /\ upPhase' = "done" => queue' = {}
        /\ downPhase' = "removes" => fetch' = {} /\ downErrors' = 0
        /\ downPhase' = "done" => fetch' = {}
    BY <1>1, <2>1 DEF InDecision
  <2> QED
    BY <1>1, <1>2, <1>3, <2>1, <2>2, <2>3, <2>4, DecisionKept
<1>4. CASE ~Decided
  <2>1. Undecided /\ ~Decided'
    BY <1>1, <1>4 DEF IInv, Decided
  <2>2. LocalState' = LocalState
    BY <1>1 DEF LocalState, UploadExcluded
  <2>3. Undecided'
    BY <1>1, <2>1, <2>2 DEF Undecided
  <2> QED
    BY <1>2, <2>1, <2>3 DEF IInv
<1> QED
  BY <1>3, <1>4

-----------------------------------------------------------------------------
(* The invariant of every state.                                           *)

LEMMA NextKeeps ==
  ASSUME IInv, [Next]_vars PROVE IInv'
<1>1. ASSUME ~Decided, upPhase # "collect" PROVE FALSE
  BY <1>1 DEF IInv, Undecided
<1>2. ASSUME ~Decided, ApplyUpstream PROVE FALSE
  BY <1>2 DEF IInv, Undecided, ApplyUpstream
<1>3. CASE CollectStates
  BY <1>3, CollectStatesKeeps
<1>4. CASE CalculateDelta
  BY <1>4, CalculateDeltaKeeps
<1>5. CASE SendRemoves
  <2>1. Decided
    BY <1>1, <1>5 DEF SendRemoves
  <2> QED
    BY <1>5, <2>1, SendRemovesKeeps
<1>6. CASE SendUploads
  <2>1. Decided
    BY <1>1, <1>6 DEF SendUploads
  <2> QED
    BY <1>6, <2>1, SendUploadsKeeps
<1>7. CASE ApplyUpstream
  <2>1. Decided
    BY <1>2, <1>7
  <2> QED
    BY <1>7, <2>1, ApplyUpstreamKeeps
<1>8. CASE UpstreamDone
  <2>1. Decided
    BY <1>1, <1>8 DEF UpstreamDone
  <2> QED
    BY <1>8, <2>1, UpstreamDoneKeeps
<1>9. CASE RemoveLocal
  BY <1>9, RemoveLocalKeeps
<1>10. CASE \E c \in fetch : Download(c)
  BY <1>10, DownloadKeeps
<1>11. CASE DownloadError
  BY <1>11, DownloadErrorKeeps
<1>12. CASE DownstreamDone
  BY <1>12, DownstreamDoneKeeps
<1>13. CASE Finished
  BY <1>13, NothingKeeps DEF Finished
<1>14. CASE UNCHANGED vars
  BY <1>14, NothingKeeps
<1> QED
  BY <1>3, <1>4, <1>5, <1>6, <1>7, <1>8, <1>9, <1>10, <1>11, <1>12, <1>13, <1>14 DEF Next

LEMMA InvariantHolds == Spec => []IInv
  BY InitUndecided, NextKeeps, PTL DEF Spec

\* Every state of the initial sync is well typed, and the bounds hold.
THEOREM InitialSyncTypeCorrect == Spec => []TypeOK
<1>1. IInv => TypeOK
  BY DEF IInv
<1> QED
  BY <1>1, InvariantHolds, PTL

-----------------------------------------------------------------------------
(* What the decision and the halves of Run amount to.                      *)

\* Why a file is uploaded, removed or downloaded, in terms of the strategy.
LEMMA Reasons ==
  ASSUME TypeOK, NEW f \in Files
  PROVE  LET l == localBefore[f] r == remoteBefore[f] IN
         /\ Uploaded(f) =>
               /\ ~options.upstreamDisabled /\ options.strategy # "disabled"
               /\ f \notin UploadExcluded /\ l # Absent
               /\ r # Absent => /\ Differ(l, r)
                                /\ \/ options.strategy \in {"mirrorLocal", "preferLocal"}
                                   \/ options.strategy = "preferNewest" /\ l.mtime > r.mtime
               /\ options.strategy = "mirrorRemote" => f \in DownloadExcluded
         /\ RemoteRemoved(f) =>
               /\ ~options.upstreamDisabled /\ options.strategy = "mirrorLocal"
               /\ f \notin Excluded /\ l = Absent /\ r # Absent
         /\ LocalRemoved(f) =>
               /\ ~options.downstreamDisabled /\ options.strategy = "mirrorRemote"
               /\ f \notin Excluded /\ r = Absent /\ l # Absent
         /\ Downloaded(f) =>
               /\ ~options.downstreamDisabled /\ options.strategy # "disabled"
               /\ f \notin DownloadExcluded /\ r # Absent
               /\ f \notin UploadExcluded /\ l # Absent =>
                     /\ Differ(l, r)
                     /\ \/ options.strategy \in {"mirrorRemote", "preferRemote"}
                        \/ options.strategy = "preferNewest" /\ l.mtime < r.mtime
               /\ options.strategy = "mirrorLocal" => f \in UploadExcluded
<1> DEFINE l == localBefore[f]
           r == remoteBefore[f]
<1>1. /\ LocalWins(l, r) <=> \/ options.strategy \in {"mirrorLocal", "preferLocal", "disabled"}
                             \/ options.strategy = "preferNewest" /\ l.mtime > r.mtime
      /\ RemoteWins(l, r) <=> \/ options.strategy \in {"mirrorRemote", "preferRemote"}
                              \/ options.strategy = "preferNewest" /\ l.mtime < r.mtime
  BY Preferences DEF LocalWins, RemoteWins
<1>2. UploadDecided(f) <=> f \notin UploadExcluded /\ l # Absent /\ (r # Absent => Differ(l, r) /\ LocalWins(l, r))
  BY DEF UploadDecided
<1>3. DownloadDecided(f) <=> /\ f \notin DownloadExcluded /\ r # Absent
                             /\ f \notin UploadExcluded /\ l # Absent => Differ(l, r) /\ RemoteWins(l, r)
  BY DEF DownloadDecided
<1> HIDE DEF l, r
<1>4. Uploaded(f) =>
        /\ ~options.upstreamDisabled /\ options.strategy # "disabled"
        /\ f \notin UploadExcluded /\ l # Absent
        /\ r # Absent => /\ Differ(l, r)
                         /\ \/ options.strategy \in {"mirrorLocal", "preferLocal"}
                            \/ options.strategy = "preferNewest" /\ l.mtime > r.mtime
        /\ options.strategy = "mirrorRemote" => f \in DownloadExcluded
  BY <1>1, <1>2 DEF Uploaded, UpEnabled
<1>5. RemoteRemoved(f) =>
        /\ ~options.upstreamDisabled /\ options.strategy = "mirrorLocal"
        /\ f \notin Excluded /\ l = Absent /\ r # Absent
  BY <1>1, <1>3 DEF RemoteRemoved, UpEnabled, Excluded
<1>6. LocalRemoved(f) =>
        /\ ~options.downstreamDisabled /\ options.strategy = "mirrorRemote"
        /\ f \notin Excluded /\ r = Absent /\ l # Absent
  BY <1>1, <1>2 DEF LocalRemoved, DownEnabled, Excluded
<1>7. Downloaded(f) =>
        /\ ~options.downstreamDisabled /\ options.strategy # "disabled"
        /\ f \notin DownloadExcluded /\ r # Absent
        /\ f \notin UploadExcluded /\ l # Absent =>
              /\ Differ(l, r)
              /\ \/ options.strategy \in {"mirrorRemote", "preferRemote"}
                 \/ options.strategy = "preferNewest" /\ l.mtime < r.mtime
        /\ options.strategy = "mirrorLocal" => f \in UploadExcluded
  BY <1>1, <1>3 DEF Downloaded, DownEnabled
<1> USE DEF l, r
<1> QED
  BY <1>4, <1>5, <1>6, <1>7

\* What is left alone although both directions are enabled: a file that neither side
\* has, or a conflict that the strategy leaves alone.
LEMMA LeftAsIs ==
  ASSUME TypeOK, NEW f \in Files \ Excluded, UpEnabled, DownEnabled,
         ~Uploaded(f), ~RemoteRemoved(f), ~LocalRemoved(f), ~Downloaded(f)
  PROVE  \/ localBefore[f] = Absent /\ remoteBefore[f] = Absent
         \/ LeftAlone(localBefore[f], remoteBefore[f])
<1> DEFINE l == localBefore[f]
           r == remoteBefore[f]
<1>1. ~UploadDecided(f) /\ ~DownloadDecided(f)
  BY DEF Uploaded, RemoteRemoved, LocalRemoved, Downloaded, Excluded
<1>2. (l # Absent => r # Absent /\ ~(Differ(l, r) /\ LocalWins(l, r)))
      /\ (r # Absent => l # Absent /\ ~(Differ(l, r) /\ RemoteWins(l, r)))
  BY <1>1 DEF UploadDecided, DownloadDecided, Excluded
<1>3. l # Absent => l.mtime \in Nat
  BY InfoFacts DEF TypeOK
<1>4. r # Absent => r.mtime \in Nat
  BY InfoFacts DEF TypeOK
<1> HIDE DEF l, r
<1>5. ASSUME l # Absent, r # Absent PROVE LeftAlone(l, r)
  <2>1. CASE ~Differ(l, r)
    BY <1>5, <2>1 DEF LeftAlone, Differ
  <2>2. CASE Differ(l, r)
    <3>1. ~LocalWins(l, r) /\ ~RemoteWins(l, r)
      BY <1>2, <1>5, <2>2
    <3>2. Preference = "keepAll" \/ (Preference = "preferNewest" /\ l.mtime = r.mtime)
      BY <1>3, <1>4, <1>5, <3>1, Preferences DEF LocalWins, RemoteWins
    <3> QED
      BY <1>5, <3>2, Preferences DEF LeftAlone
  <2> QED
    BY <2>1, <2>2
<1> QED
  BY <1>2, <1>5 DEF l, r

\* When Run is over nothing waits any more.
LEMMA NothingWaits ==
  ASSUME IInv, Completed, NEW f \in Files
  PROVE  TypeOK /\ InDecision /\ ~Waits(f) /\ FileOK(f)
<1>1. Decided /\ InDecision /\ TypeOK /\ queue = {} /\ fetch = {} /\ upPhase = "done" /\ downPhase = "done"
  BY DEF IInv, Completed, Decided, InDecision
<1>2. NamesOf(queue) = {} /\ NamesOf(fetch) = {}
  BY <1>1 DEF NamesOf
<1>3. ~Waits(f)
  BY <1>1, <1>2 DEF Waits
<1> QED
  BY <1>1, <1>3 DEF InDecision

-----------------------------------------------------------------------------
(* The two halves together do what the strategy is documented to do.       *)

LEMMA MergedSoFar == ASSUME IInv PROVE MergedAsDocumented
<1> SUFFICES ASSUME Completed, ~options.upstreamDisabled, ~options.downstreamDisabled, downErrors = 0,
                    NEW f \in Files \ Excluded, ~Shielded(f)
             PROVE  LET l == localBefore[f] r == remoteBefore[f] IN
                    IF LeftAlone(l, r) THEN SameContent(local[f], l) /\ SameContent(remote[f], r)
                    ELSE SameContent(local[f], Documented(l, r)) /\ SameContent(remote[f], Documented(l, r))
  BY DEF MergedAsDocumented
<1> DEFINE l == localBefore[f]
           r == remoteBefore[f]
           Goal == IF LeftAlone(l, r) THEN SameContent(local[f], l) /\ SameContent(remote[f], r)
                   ELSE SameContent(local[f], Documented(l, r)) /\ SameContent(remote[f], Documented(l, r))
<1>1. TypeOK /\ f \in Files /\ ~Waits(f) /\ FileOK(f)
  BY NothingWaits
<1>2. l # Absent => l.mtime \in Nat
  BY <1>1, InfoFacts DEF TypeOK
<1>3. r # Absent => r.mtime \in Nat
  BY <1>1, InfoFacts DEF TypeOK
<1>4. \A v, w : SameContent(v, v) /\ (SameContent(v, w) => SameContent(w, v))
  BY DEF SameContent
<1>5. f \notin UploadExcluded /\ f \notin DownloadExcluded
  BY DEF Excluded
<1>6. ASSUME Untouched(f), LeftAlone(l, r) PROVE Goal
  BY <1>4, <1>6 DEF Untouched
<1>7. CASE ~(UpEnabled /\ DownEnabled)
  <2>1. options.strategy = "disabled"
    BY <1>7 DEF UpEnabled, DownEnabled
  <2>2. Untouched(f)
    BY <1>1, <2>1 DEF FileOK, Uploaded, RemoteRemoved, LocalRemoved, Downloaded, UpEnabled, DownEnabled
  <2>3. LeftAlone(l, r)
    BY <2>1 DEF LeftAlone
  <2> QED
    BY <1>6, <2>2, <2>3
<1>8. CASE UpEnabled /\ DownEnabled
  <2>a. options.strategy # "disabled"
    BY <1>8 DEF UpEnabled
  <2>1. CASE Uploaded(f) /\ UploadMade(f)
    <3>1. /\ l # Absent /\ options.strategy # "mirrorRemote"
          /\ r # Absent => /\ Differ(l, r)
                           /\ \/ options.strategy \in {"mirrorLocal", "preferLocal"}
                              \/ options.strategy = "preferNewest" /\ l.mtime > r.mtime
      BY <1>1, <1>5, <2>1, Reasons
    <3>2. ~LeftAlone(l, r)
      BY <1>2, <1>3, <2>a, <3>1 DEF LeftAlone, Differ
    <3>3. Documented(l, r) = l
      BY <1>2, <1>3, <3>1 DEF Documented
    <3>4. local[f] = l /\ SameContent(remote[f], l)
      BY <2>1 DEF UploadMade
    <3> QED
      BY <1>4, <3>2, <3>3, <3>4
  <2>2. CASE RemoteRemoved(f) /\ RemoteRemoveDone(f)
    <3>1. options.strategy = "mirrorLocal" /\ l = Absent /\ r # Absent
      BY <1>1, <2>2, Reasons
    <3>2. ~LeftAlone(l, r) /\ Documented(l, r) = l
      BY <3>1 DEF LeftAlone, Documented
    <3> QED
      BY <1>4, <2>2, <3>1, <3>2 DEF RemoteRemoveDone
  <2>3. CASE LocalRemoved(f) /\ LocalRemoveDone(f)
    <3>1. options.strategy = "mirrorRemote" /\ r = Absent /\ l # Absent
      BY <1>1, <2>3, Reasons
    <3>2. ~LeftAlone(l, r) /\ Documented(l, r) = r
      BY <3>1 DEF LeftAlone, Documented
    <3> QED
      BY <1>4, <2>3, <3>1, <3>2 DEF LocalRemoveDone
  <2>4. CASE Downloaded(f) /\ DownloadDone(f)
    <3>1. /\ r # Absent /\ options.strategy # "mirrorLocal"
          /\ l # Absent => /\ Differ(l, r)
                           /\ \/ options.strategy \in {"mirrorRemote", "preferRemote"}
                              \/ options.strategy = "preferNewest" /\ l.mtime < r.mtime
      BY <1>1, <1>5, <2>4, Reasons
    <3>2. ~LeftAlone(l, r)
      BY <1>2, <1>3, <2>a, <3>1 DEF LeftAlone, Differ
    <3>3. ~Newer(l, r)
      BY <1>2, <1>3, <3>1 DEF Newer, Shielded
    <3>4. Documented(l, r) = r
      BY <1>2, <1>3, <3>1 DEF Documented
    <3>5. local[f] = r /\ remote[f] = r
      BY <2>4, <3>3 DEF DownloadDone
    <3> QED
      BY <1>4, <3>2, <3>4, <3>5
  <2>5. CASE Untouched(f) /\ ~Uploaded(f) /\ ~RemoteRemoved(f) /\ ~LocalRemoved(f) /\ ~Downloaded(f)
    <3>1. (l = Absent /\ r = Absent) \/ LeftAlone(l, r)
      BY <1>1, <1>8, <2>5, LeftAsIs
    <3>2. CASE LeftAlone(l, r)
      BY <1>6, <2>5, <3>2
    <3>3. CASE ~LeftAlone(l, r)
      <4>1. l = Absent /\ r = Absent
        BY <3>1, <3>3
      <4>2. Documented(l, r) = Absent
        BY <4>1 DEF Documented
      <4>3. local[f] = Absent /\ remote[f] = Absent
        BY <2>5, <4>1 DEF Untouched
      <4> QED
        BY <1>4, <3>3, <4>2, <4>3
    <3> QED
      BY <3>2, <3>3
  <2> QED
    BY <1>1, <2>1, <2>2, <2>3, <2>4, <2>5 DEF FileOK
<1> QED
  BY <1>7, <1>8

LEMMA IndexSoFar == ASSUME IInv PROVE IndexDescribesRemote
<1> SUFFICES ASSUME Completed, NEW f \in Files \ Excluded, ~Shielded(f) PROVE fileMap[f] = InfoOf(remote[f])
  BY DEF IndexDescribesRemote
<1> DEFINE l == localBefore[f]
           r == remoteBefore[f]
<1>1. TypeOK /\ f \in Files /\ ~Waits(f) /\ FileOK(f)
  BY NothingWaits
<1>2. CASE Untouched(f) \/ UploadMade(f)
  BY <1>2 DEF Untouched, UploadMade
<1>3. CASE RemoteRemoveDone(f)
  BY <1>3 DEF RemoteRemoveDone, InfoOf
<1>4. CASE LocalRemoved(f) /\ LocalRemoveDone(f)
  <2>1. r = Absent
    BY <1>1, <1>4, Reasons
  <2> QED
    BY <1>4, <2>1 DEF LocalRemoveDone, InfoOf
<1>5. CASE Downloaded(f) /\ DownloadDone(f)
  <2>1. r # Absent /\ f \notin UploadExcluded
        /\ (l # Absent => \/ options.strategy \in {"mirrorRemote", "preferRemote"}
                          \/ l.mtime < r.mtime)
    BY <1>1, <1>5, Reasons DEF Excluded
  <2>2. r.mtime \in Nat /\ (l # Absent => l.mtime \in Nat)
    BY <1>1, <2>1, InfoFacts DEF TypeOK
  <2>3. ~Newer(l, r)
    BY <2>1, <2>2 DEF Newer, Shielded
  <2>4. local[f] = r /\ remote[f] = r /\ fileMap[f] = InfoOf(local[f])
    BY <1>5, <2>3 DEF DownloadDone
  <2> HIDE DEF r
  <2> QED
    BY <2>4
<1> QED
  BY <1>1, <1>2, <1>3, <1>4, <1>5 DEF FileOK

\* Run merges the two sides as its strategy is documented to, and the index it hands
\* to the sync loops describes the container: Preference, decide, deltaState,
\* applyChanges, removeLocal and untarNext together, for any files and contents.
THEOREM SidesMergedTheorem == Spec => []SidesMerged
<1>1. IInv => SidesMerged
  BY MergedSoFar, IndexSoFar DEF SidesMerged
<1> QED
  BY <1>1, InvariantHolds, PTL

-----------------------------------------------------------------------------
(* Neither half takes away what it has no right to.                        *)

LEMMA NothingElseSoFar == ASSUME IInv PROVE NothingElseTouched
<1>1. TypeOK
  BY DEF IInv
<1>2. ASSUME NEW f \in Files
      PROVE  \/ local[f] = localBefore[f] /\ remote[f] = remoteBefore[f]
             \/ Uploaded(f) /\ local[f] = localBefore[f]
             \/ RemoteRemoved(f) /\ local[f] = localBefore[f]
             \/ LocalRemoved(f) /\ remote[f] = remoteBefore[f]
             \/ Downloaded(f) /\ remote[f] = remoteBefore[f]
  <2>1. CASE Decided
    <3>1. FileOK(f)
      BY <2>1 DEF IInv, InDecision
    <3> QED
      BY <3>1 DEF FileOK, Untouched, UploadMade, RemoteRemoveDone, LocalRemoveDone, DownloadDone
  <2>2. CASE ~Decided
    BY <2>2 DEF IInv, Undecided
  <2> QED
    BY <2>1, <2>2
<1>3. LocalKept
  <2>1. SUFFICES ASSUME \/ options.strategy \in {"mirrorLocal", "preferLocal", "keepAll", "disabled"}
                        \/ options.downstreamDisabled,
                        NEW f \in Files \ UploadExcluded, localBefore[f] # Absent
                 PROVE  local[f] = localBefore[f]
    BY DEF LocalKept
  <2>2. ~LocalRemoved(f)
    BY <1>1, <2>1, Reasons
  <2>3. ~Downloaded(f)
    BY <1>1, <2>1, Reasons
  <2> QED
    BY <1>2, <2>2, <2>3
<1>4. RemoteKept
  <2>1. SUFFICES ASSUME \/ options.strategy \in {"mirrorRemote", "preferRemote", "keepAll", "disabled"}
                        \/ options.upstreamDisabled,
                        NEW f \in Files, remoteBefore[f] # Absent
                 PROVE  remote[f] = remoteBefore[f]
    BY DEF RemoteKept, SameContent
  <2>2. ~Uploaded(f)
    BY <1>1, <2>1, Reasons
  <2>3. ~RemoteRemoved(f)
    BY <1>1, <2>1, Reasons
  <2> QED
    BY <1>2, <2>2, <2>3
<1>5. ExcludesHonoured
  <2>1. UploadExcluded \subseteq Files /\ DownloadExcluded \subseteq Files
    <3>1. options.excludes \in [up : SUBSET Files, down : SUBSET Files]
      BY <1>1, SetAssumption DEF TypeOK
    <3> QED
      BY <3>1 DEF UploadExcluded, DownloadExcluded
  <2>2. ASSUME NEW f \in UploadExcluded PROVE remote[f] = remoteBefore[f]
    <3>1. f \in Files /\ ~Uploaded(f) /\ ~RemoteRemoved(f)
      BY <1>1, <2>1, <2>2, Reasons DEF Excluded
    <3> QED
      BY <1>2, <3>1
  <2>3. ASSUME NEW f \in DownloadExcluded PROVE local[f] = localBefore[f]
    <3>1. f \in Files /\ ~LocalRemoved(f) /\ ~Downloaded(f)
      BY <1>1, <2>1, <2>3, Reasons DEF Excluded
    <3> QED
      BY <1>2, <3>1
  <2> QED
    BY <2>2, <2>3 DEF ExcludesHonoured
<1> QED
  BY <1>3, <1>4, <1>5 DEF NothingElseTouched

\* Run never takes away what it has no right to: neither a file of the side that the
\* strategy prefers, or whose direction is disabled, nor one that is excluded, at any
\* moment and however the two halves, that delete concurrently, interleave.
THEOREM NothingElseTouchedTheorem == Spec => []NothingElseTouched
<1>1. IInv => NothingElseTouched
  BY NothingElseSoFar
<1> QED
  BY <1>1, InvariantHolds, PTL

-----------------------------------------------------------------------------
(* UploadLoop: the channel and its entries.                                *)

\* There are finitely many entries: two for every file.
LEMMA EventFinite == IsFiniteSet(Event)
<1> DEFINE f == [x \in QueuedFiles \X BOOLEAN |-> [name |-> x[1], initial |-> x[2]]]
<1>1. IsFiniteSet(BOOLEAN)
  <2>1. IsFiniteSet({TRUE} \cup {FALSE})
    BY FS_Singleton, FS_AddElement
  <2> QED
    BY <2>1
<1>2. IsFiniteSet(QueuedFiles \X BOOLEAN)
  BY <1>1, FS_Product, UploadLoopAssumption
<1>3. f \in Surjection(QueuedFiles \X BOOLEAN, Event)
  <2>1. f \in [QueuedFiles \X BOOLEAN -> Event]
    BY DEF Event
  <2>2. ASSUME NEW e \in Event PROVE \E x \in QueuedFiles \X BOOLEAN : f[x] = e
    <3>1. <<e.name, e.initial>> \in QueuedFiles \X BOOLEAN /\ f[<<e.name, e.initial>>] = e
      BY DEF Event
    <3> QED
      BY <3>1
  <2> QED
    BY <2>1, <2>2 DEF Surjection
<1> QED
  BY <1>2, <1>3, FS_Surjection

\* So every set of entries is finite and has a size, at most that of Event.
LEMMA EventsFinite ==
  ASSUME NEW E \in SUBSET Event
  PROVE  IsFiniteSet(E) /\ Cardinality(E) \in Nat /\ Cardinality(E) \in 0 .. Cardinality(Event)
<1>1. IsFiniteSet(E) /\ Cardinality(E) <= Cardinality(Event)
  BY EventFinite, FS_Subset
<1>2. Cardinality(E) \in Nat /\ Cardinality(Event) \in Nat
  BY <1>1, EventFinite, FS_CardinalityType
<1> QED
  BY <1>1, <1>2

\* A send into a channel that is not full keeps within its capacity.
LEMMA SendFits ==
  ASSUME events \subseteq Event, ~Full, NEW e \in Event
  PROVE  events \cup {e} \subseteq Event /\ Cardinality(events \cup {e}) <= ChannelSize
<1>1. IsFiniteSet(events) /\ Cardinality(events) \in Nat
  BY EventsFinite
<1>2. Cardinality(events \cup {e}) <= Cardinality(events) + 1
  BY <1>1, FS_AddElement
<1> QED
  BY <1>1, <1>2, UploadLoopAssumption, EventsFinite DEF Full

\* A receive keeps within it too.
LEMMA ReceiveFits ==
  ASSUME events \subseteq Event, Cardinality(events) <= ChannelSize, NEW e
  PROVE  events \ {e} \subseteq Event /\ Cardinality(events \ {e}) <= ChannelSize
<1>1. Cardinality(events \ {e}) <= Cardinality(events)
  BY EventsFinite, FS_Subset
<1> QED
  BY <1>1, UploadLoopAssumption, EventsFinite

\* The files of a set of entries.
LEMMA NamesType == \A E \in SUBSET Event : Names(E) \subseteq QueuedFiles
  BY DEF Names, Event

-----------------------------------------------------------------------------
(* Type correctness.                                                       *)

\* Nothing has been sent, gathered or uploaded at first.
LEMMA InitType == QueueInit => QueueTypeOK
<1>1. Cardinality({}) = 0 /\ Cardinality(Event) \in Nat
  BY EventFinite, FS_EmptySet, FS_CardinalityType
<1>2. QueueInit => events \subseteq Event /\ Cardinality(events) <= ChannelSize
  BY <1>1, UploadLoopAssumption DEF QueueInit
<1>3. QueueInit => changes \subseteq Event /\ changeAmount \in 0 .. Cardinality(Event)
  BY <1>1 DEF QueueInit
<1>4. QueueInit => /\ sender = "collect" /\ main = "off" /\ hand = {} /\ eventBuffer = {}
              /\ isBusy = TRUE /\ busyMutex = FALSE /\ watching = FALSE /\ started = FALSE /\ stopped = FALSE
              /\ initialSyncCompleted = FALSE
  BY DEF QueueInit
<1>5. QueueInit => /\ toSend = {} /\ batch = {} /\ edited = {} /\ uploaded = {} /\ same = {} /\ dropped = {}
              /\ initialSyncChanges = {} /\ executed = {}
  BY DEF QueueInit
<1> QED
  BY <1>2, <1>3, <1>4, <1>5 DEF QueueTypeOK

\* The steps of the user and of the process around the sync.
LEMMA OutsideType ==
  ASSUME QueueTypeOK, StartUpstream \/ Stop \/ \E f \in Edits : Edit(f)
  PROVE  QueueTypeOK'
<1>1. CASE StartUpstream
  BY <1>1 DEF StartUpstream, QueueTypeOK, channelVars, senderVars, mainVars, commandVars, fileVars
<1>3. CASE Stop
  BY <1>3 DEF Stop, QueueTypeOK, channelVars, senderVars, mainVars, commandVars, fileVars
<1>2. ASSUME NEW f \in Edits, Edit(f) PROVE QueueTypeOK'
  <2>1. [name |-> f, initial |-> FALSE] \in Event
    BY DEF Event, QueuedFiles
  <2>2. events' \subseteq Event /\ Cardinality(events') <= ChannelSize
    BY <1>2, <2>1, SendFits DEF Edit, QueueTypeOK
  <2> QED
    BY <1>2, <2>2 DEF Edit, QueueTypeOK, senderVars, mainVars, commandVars
<1> QED
  BY <1>1, <1>2, <1>3

\* The initial sync.
LEMMA SenderType == ASSUME QueueTypeOK, SenderStep PROVE QueueTypeOK'
<1>1. CASE SendChange
  <2>1. PICK f \in batch : /\ events' = events \cup {[name |-> f, initial |-> TRUE]}
                           /\ batch' = batch \ {f}
    BY <1>1 DEF SendChange
  <2>2. [name |-> f, initial |-> TRUE] \in Event
    BY DEF Event, QueueTypeOK
  <2>3. events' \subseteq Event /\ Cardinality(events') <= ChannelSize
    BY <1>1, <2>1, <2>2, SendFits DEF SendChange, QueueTypeOK
  <2> QED
    BY <1>1, <2>1, <2>3 DEF SendChange, QueueTypeOK, mainVars, fileVars, commandVars
<1>2. CASE CollectLocalState
  BY <1>2 DEF CollectLocalState, QueueTypeOK, QueuedFiles, channelVars, mainVars, fileVars, commandVars
<1>3. CASE NextBatch
  BY <1>3 DEF NextBatch, QueueTypeOK, channelVars, mainVars, fileVars, commandVars
<1>4. CASE LockBusy
  BY <1>4 DEF LockBusy, QueueTypeOK, channelVars, mainVars, fileVars, commandVars
<1>5. CASE BatchSent
  BY <1>5 DEF BatchSent, QueueTypeOK, channelVars, mainVars, fileVars, commandVars
<1>6. CASE SignalCompleted
  BY <1>6 DEF SignalCompleted, QueueTypeOK, channelVars, mainVars, fileVars, commandVars
<1>7. CASE UploadDone
  BY <1>7 DEF UploadDone, QueueTypeOK, channelVars, mainVars, fileVars, commandVars
<1> QED
  BY <1>1, <1>2, <1>3, <1>4, <1>5, <1>6, <1>7 DEF SenderStep

\* The events loop.
LEMMA EventsLoopType == ASSUME QueueTypeOK, EventsLoopStep PROVE QueueTypeOK'
<1>1. CASE ReceiveEvent
  <2>1. PICK e \in events : hand' = {e} /\ events' = events \ {e}
    BY <1>1 DEF ReceiveEvent
  <2>2. events' \subseteq Event /\ Cardinality(events') <= ChannelSize
    BY <2>1, ReceiveFits DEF QueueTypeOK
  <2> QED
    BY <1>1, <2>1, <2>2 DEF ReceiveEvent, QueueTypeOK, senderVars, mainVars, fileVars, commandVars
<1>2. CASE BufferEvents
  <2>1. Cardinality({}) <= ChannelSize
    BY FS_EmptySet, UploadLoopAssumption
  <2> QED
    BY <1>2, <2>1 DEF BufferEvents, QueueTypeOK, senderVars, mainVars, fileVars, commandVars
<1> QED
  BY <1>1, <1>2 DEF EventsLoopStep

\* The main loop.
LEMMA MainType == ASSUME QueueTypeOK, MainStep \/ RetryUpload \/ MainReturns PROVE QueueTypeOK'
<1>1. CASE Gather
  <2>1. changes' \subseteq Event
    BY <1>1 DEF Gather, QueueTypeOK, Evaluated
  <2>2. changeAmount' \in 0 .. Cardinality(Event)
    BY <1>1, <2>1, EventFinite, EventsFinite, FS_CardinalityType DEF Gather
  <2>3. main' \in {"apply", "check"}
    BY <1>1 DEF Gather
  <2> QED
    BY <1>1, <2>1, <2>2, <2>3 DEF Gather, QueueTypeOK, senderVars, fileVars, commandVars
<1>2. CASE CheckIdle \/ ClearBusy
  BY <1>2 DEF CheckIdle, ClearBusy, QueueTypeOK, channelVars, senderVars, fileVars, commandVars
<1>3. CASE ExecCommandsAfterInitialSync
  BY <1>3 DEF ExecCommandsAfterInitialSync, QueueTypeOK, channelVars, senderVars, fileVars, commandVars
<1>4. CASE ApplyChanges \/ RetryUpload
  <2>1. PICK left \in SUBSET (Known \cap Names(changes)), next \in {"apply", "command"} : GoOnWith(Without(left), next)
    BY <1>4 DEF ApplyChanges, RetryUpload
  <2>2. changes' \subseteq Event /\ main' \in {"gather", "apply", "command"}
    BY <2>1 DEF GoOnWith, Without, QueueTypeOK
  <2>3. /\ UNCHANGED <<channelVars, isBusy, senderVars, changeAmount, watching, edited, initialSyncCompleted,
                      commandVars, stopped>>
        /\ uploaded' \subseteq QueuedFiles /\ same' \subseteq Known /\ dropped' \subseteq Known
    BY <1>4, NamesType DEF ApplyChanges, RetryUpload, QueueTypeOK
  <2> QED
    BY <2>2, <2>3 DEF QueueTypeOK, channelVars, senderVars, commandVars
<1>5. CASE ExecCommandsAfterApply
  BY <1>5, NamesType DEF ExecCommandsAfterApply, QueueTypeOK, channelVars, senderVars, fileVars
<1>6. CASE MainReturns
  BY <1>6 DEF MainReturns, QueueTypeOK, channelVars, senderVars, fileVars
<1> QED
  BY <1>1, <1>2, <1>3, <1>4, <1>5, <1>6 DEF MainStep

\* Every step of the four goroutines and around them keeps the types.
LEMMA NextType == QueueTypeOK /\ [QueueNext]_queueVars => QueueTypeOK'
<1>1. ASSUME QueueTypeOK, UNCHANGED queueVars PROVE QueueTypeOK'
  BY <1>1 DEF QueueTypeOK, queueVars
<1> QED
  BY <1>1, OutsideType, SenderType, EventsLoopType, MainType DEF QueueNext, Ended

\* Type correctness of the upload queue: the channel never holds more than its
\* capacity, whatever its size and that of a batch (upstream.events).
THEOREM UploadLoopTypeCorrect == QueueSpec => []QueueTypeOK
<1>1. QueueInit => QueueTypeOK
  BY InitType
<1>2. QueueTypeOK /\ [QueueNext]_queueVars => QueueTypeOK'
  BY NextType
<1> QED
  BY <1>1, <1>2, PTL DEF QueueSpec

-----------------------------------------------------------------------------
(* No command is missed.                                                   *)

\* Only the main loop puts files on the lists of commands, and nobody takes one off
\* but by running its commands.
LEMMA CommandsKept ==
  ASSUME QueueTypeOK, CommandsInTime, [QueueNext]_queueVars PROVE CommandsInTime'
<1> USE DEF CommandsInTime, NoCommandMissed, CommandsBeforeDone
<1>1. CASE UNCHANGED queueVars
  BY <1>1 DEF queueVars
<1>2. CASE StartUpstream \/ Stop \/ \E f \in Edits : Edit(f)
  BY <1>2 DEF StartUpstream, Stop, Edit, senderVars, mainVars, commandVars, fileVars
<1>3. CASE SenderStep
  BY <1>3 DEF SenderStep, CollectLocalState, NextBatch, LockBusy, SendChange, BatchSent, SignalCompleted,
              UploadDone, IsInitialSyncing, mainVars, commandVars, fileVars
<1>4. CASE EventsLoopStep
  BY <1>4 DEF EventsLoopStep, ReceiveEvent, BufferEvents, senderVars, mainVars, commandVars, fileVars
<1>5. CASE Gather
  BY <1>5 DEF Gather, senderVars, commandVars, fileVars
<1>6. CASE CheckIdle \/ ClearBusy
  BY <1>6 DEF CheckIdle, ClearBusy, senderVars, commandVars, fileVars
<1>7. CASE ExecCommandsAfterInitialSync
  BY <1>7 DEF ExecCommandsAfterInitialSync, senderVars, commandVars, fileVars
<1>8. CASE ApplyChanges
  <2>1. PICK equal \in SUBSET (Known \cap Names(changes)) : same' = same \cup equal /\ GoOnWith(Without(equal), "command")
    BY <1>8 DEF ApplyChanges
  <2>2. Names(changes) \ equal \subseteq Names(changes')
    BY <2>1 DEF GoOnWith, Without, Names
  <2>3. main' # "command" => Names(changes') = {}
    BY <2>1 DEF GoOnWith, Names
  <2> QED
    BY <1>8, <2>1, <2>2, <2>3 DEF ApplyChanges, senderVars, commandVars
<1>11. CASE RetryUpload
  BY <1>11 DEF RetryUpload, senderVars, commandVars
<1>9. CASE ExecCommandsAfterApply
  BY <1>9 DEF ExecCommandsAfterApply, senderVars, fileVars
<1>10. CASE MainReturns
  BY <1>10 DEF MainReturns, senderVars, fileVars
<1> QED
  BY <1>1, <1>2, <1>3, <1>4, <1>5, <1>6, <1>7, <1>8, <1>9, <1>10, <1>11 DEF QueueNext, MainStep, Ended

\* The commands of every file run that an attempt wrote, whatever attempts failed before
\* it, and those of the initial sync before the initial upload is declared done or the
\* container is started, whatever the sizes of channel and batch
\* (execCommandsAfterApply, execCommandsAfterInitialSync).
THEOREM CommandsInTimeTheorem == QueueSpec => []CommandsInTime
<1>1. QueueInit => CommandsInTime
  BY DEF QueueInit, CommandsInTime, NoCommandMissed, CommandsBeforeDone
<1>2. QueueTypeOK /\ CommandsInTime /\ [QueueNext]_queueVars => CommandsInTime'
  BY CommandsKept
<1> QED
  BY <1>1, <1>2, UploadLoopTypeCorrect, PTL DEF QueueSpec

-----------------------------------------------------------------------------
(* Nothing gets lost between the goroutines.                               *)

\* The files on their way: in the channel, in the hand of the events loop, in the
\* buffer, or gathered by the main loop.
OnTheWay == Names(events) \cup Names(hand) \cup Names(eventBuffer) \cup Names(changes)

\* What is on its way stays so until it is uploaded or a retry drops it, while the sync is
\* not stopped: the safety half of QueuedUploaded.
QueueKeeps == [][~stopped' => OnTheWay \subseteq OnTheWay' \cup Indexed']_queueVars

\* What the initial sync has found is still to be sent, on its way, uploaded or dropped.
InitialAccounted ==
    sender # "collect" /\ ~stopped => Initial \subseteq toSend \cup batch \cup OnTheWay \cup Indexed

\* A batch is cut when the one before has been sent.
BatchCut == sender \in {"collect", "wait"} => batch = {}

\* While changes are applied and their commands are run they are the uploaded ones.
AppliedUploaded == main = "command" /\ ~stopped => Names(changes) \subseteq uploaded

\* The files of two sets of entries together, and of fewer entries.
LEMMA NamesUnion == \A D, E : Names(D \cup E) = Names(D) \cup Names(E)
  BY DEF Names

LEMMA NamesEmpty == Names({}) = {}
  BY DEF Names

\* Only an upload or a retry takes files off the way.
LEMMA WayKept ==
  ASSUME AppliedUploaded, [QueueNext]_queueVars
  PROVE  /\ ~stopped' => OnTheWay \subseteq OnTheWay' \cup Indexed'
         /\ Indexed \subseteq Indexed' /\ AppliedUploaded'
<1> USE DEF OnTheWay, AppliedUploaded, Indexed
<1>1. CASE UNCHANGED queueVars
  BY <1>1 DEF queueVars, Names
<1>2. CASE StartUpstream \/ Stop
  BY <1>2 DEF StartUpstream, Stop, channelVars, senderVars, mainVars, commandVars, fileVars
<1>3. ASSUME NEW f \in Edits, Edit(f)
      PROVE  (OnTheWay \subseteq OnTheWay' /\ uploaded' = uploaded /\ dropped' = dropped) /\ AppliedUploaded'
  <2>1. Names(events) \subseteq Names(events')
    BY <1>3, NamesUnion DEF Edit
  <2>2. Names(hand') = Names(hand) /\ Names(eventBuffer') = Names(eventBuffer) /\ Names(changes') = Names(changes)
    BY <1>3 DEF Edit, mainVars
  <2> QED
    BY <1>3, <2>1, <2>2 DEF Edit, mainVars
<1>4. CASE SendChange
  <2>1. Names(events) \subseteq Names(events')
    BY <1>4, NamesUnion DEF SendChange
  <2>2. Names(hand') = Names(hand) /\ Names(eventBuffer') = Names(eventBuffer) /\ Names(changes') = Names(changes)
    BY <1>4 DEF SendChange, mainVars
  <2> QED
    BY <1>4, <2>1, <2>2 DEF SendChange, mainVars, fileVars
<1>5. CASE CollectLocalState \/ NextBatch \/ LockBusy \/ BatchSent \/ SignalCompleted \/ UploadDone
  BY <1>5 DEF CollectLocalState, NextBatch, LockBusy, BatchSent, SignalCompleted, UploadDone,
              channelVars, mainVars, fileVars
<1>6. CASE ReceiveEvent
  <2>1. Names(events) \subseteq Names(events') \cup Names(hand') /\ hand = {}
    BY <1>6 DEF ReceiveEvent, Names
  <2>2. Names(eventBuffer') = Names(eventBuffer) /\ Names(changes') = Names(changes)
    BY <1>6 DEF ReceiveEvent, mainVars
  <2> QED
    BY <1>6, <2>1, <2>2, NamesEmpty DEF ReceiveEvent, mainVars, fileVars
<1>7. CASE BufferEvents
  <2>1. Names(eventBuffer') = Names(eventBuffer) \cup Names(hand) \cup Names(events)
    BY <1>7 DEF BufferEvents, Names
  <2>2. Names(changes') = Names(changes)
    BY <1>7 DEF BufferEvents, mainVars
  <2> QED
    BY <1>7, <2>1, <2>2 DEF BufferEvents, mainVars, fileVars
<1>8. CASE Gather
  <2>1. Names(eventBuffer) \subseteq Names(Evaluated(eventBuffer)) \cup Indexed
    BY DEF Names, Evaluated
  <2>2. Names(changes') = Names(changes) \cup Names(Evaluated(eventBuffer))
    BY <1>8, NamesUnion DEF Gather
  <2>3. Names(events') = Names(events) /\ Names(hand') = Names(hand) /\ uploaded' = uploaded /\ main' # "command"
    BY <1>8 DEF Gather, fileVars
  <2>4. dropped' = dropped
    BY <1>8 DEF Gather, fileVars
  <2> QED
    BY <2>1, <2>2, <2>3, <2>4
<1>9. CASE CheckIdle \/ ClearBusy \/ ExecCommandsAfterInitialSync
  BY <1>9 DEF CheckIdle, ClearBusy, ExecCommandsAfterInitialSync, channelVars, fileVars
<1>10. CASE ApplyChanges
  <2>1. Names(changes') \subseteq Names(changes)
    BY <1>10 DEF ApplyChanges, GoOnWith, Without, Names
  <2> QED
    BY <1>10, <2>1 DEF ApplyChanges, channelVars
<1>13. CASE RetryUpload
  <2>1. PICK noted \in SUBSET (Known \cap Names(changes)) :
           dropped' = dropped \cup (noted \ uploaded) /\ GoOnWith(Without(noted), "apply")
    BY <1>13 DEF RetryUpload
  <2>2. Names(changes) \subseteq Names(changes') \cup noted
    BY <2>1 DEF GoOnWith, Without, Names
  <2>3. main' # "command" /\ uploaded' = uploaded
    BY <1>13, <2>1 DEF RetryUpload, GoOnWith
  <2> QED
    BY <1>13, <2>1, <2>2, <2>3 DEF RetryUpload, channelVars
<1>11. CASE ExecCommandsAfterApply
  <2>1. Names(changes) \subseteq uploaded
    BY <1>11 DEF ExecCommandsAfterApply
  <2> QED
    BY <1>11, <2>1 DEF ExecCommandsAfterApply, channelVars, fileVars
<1>12. CASE MainReturns
  BY <1>12 DEF MainReturns, channelVars, fileVars
<1> QED
  BY <1>1, <1>2, <1>3, <1>4, <1>5, <1>6, <1>7, <1>8, <1>9, <1>10, <1>11, <1>12, <1>13
     DEF QueueNext, SenderStep, EventsLoopStep, MainStep, Ended

\* The initial sync forgets nothing it has found but what is uploaded or dropped by a retry.
LEMMA AccountedKept ==
  ASSUME QueueTypeOK, AppliedUploaded, InitialAccounted, BatchCut, [QueueNext]_queueVars PROVE InitialAccounted' /\ BatchCut'
<1>1. ~stopped' => OnTheWay \subseteq OnTheWay' \cup Indexed' /\ Indexed \subseteq Indexed'
  BY WayKept
<1>2. CASE UNCHANGED <<sender, toSend, batch, stopped>>
  BY <1>1, <1>2 DEF InitialAccounted, BatchCut
<1>3. CASE Stop \/ MainReturns
  BY <1>3 DEF Stop, MainReturns, senderVars, InitialAccounted, BatchCut
<1>4. CASE CollectLocalState
  BY <1>4 DEF CollectLocalState, InitialAccounted, BatchCut
<1>5. CASE NextBatch
  BY <1>1, <1>5 DEF NextBatch, InitialAccounted, BatchCut
<1>6. CASE SendChange
  <2>1. PICK f \in batch : /\ events' = events \cup {[name |-> f, initial |-> TRUE]}
                           /\ batch' = batch \ {f}
    BY <1>6 DEF SendChange
  <2>2. f \in Names(events')
    <3>1. Names({[name |-> f, initial |-> TRUE]}) = {f}
      BY DEF Names
    <3> QED
      BY <2>1, <3>1, NamesUnion
  <2> QED
    BY <1>1, <1>6, <2>1, <2>2 DEF SendChange, InitialAccounted, BatchCut, OnTheWay
<1>7. CASE LockBusy \/ BatchSent \/ SignalCompleted \/ UploadDone
  BY <1>1, <1>7 DEF LockBusy, BatchSent, SignalCompleted, UploadDone, InitialAccounted, BatchCut
<1>8. CASE StartUpstream \/ \E f \in Edits : Edit(f)
  BY <1>2, <1>8 DEF StartUpstream, Edit, senderVars
<1>9. CASE EventsLoopStep
  BY <1>2, <1>9 DEF EventsLoopStep, ReceiveEvent, BufferEvents, senderVars
<1>10. CASE MainStep \/ RetryUpload
  BY <1>2, <1>10 DEF MainStep, RetryUpload, Gather, CheckIdle, ClearBusy, ExecCommandsAfterInitialSync, ApplyChanges,
                     ExecCommandsAfterApply, senderVars
<1> QED
  BY <1>2, <1>3, <1>4, <1>5, <1>6, <1>7, <1>8, <1>9, <1>10 DEF QueueNext, SenderStep, Ended, queueVars

\* Whatever the interleaving of watcher, initial sync, events loop and main loop, and
\* however small the channel: a file on its way to the container stays there until an
\* attempt uploads it or a retry drops it, and so does every file of the initial upload
\* once it need not be sent any more.
THEOREM NothingLost == QueueSpec => QueueKeeps /\ []InitialAccounted
<1>1. QueueInit => AppliedUploaded /\ InitialAccounted /\ BatchCut
  BY DEF QueueInit, AppliedUploaded, InitialAccounted, BatchCut
<1>2. AppliedUploaded /\ [QueueNext]_queueVars =>
        AppliedUploaded' /\ [~stopped' => OnTheWay \subseteq OnTheWay' \cup Indexed']_queueVars
  BY WayKept
<1>3. QueueTypeOK /\ AppliedUploaded /\ InitialAccounted /\ BatchCut /\ [QueueNext]_queueVars => (InitialAccounted /\ BatchCut)'
  BY AccountedKept
<1> QED
  BY <1>1, <1>2, <1>3, UploadLoopTypeCorrect, PTL DEF QueueSpec, QueueKeeps
=============================================================================
