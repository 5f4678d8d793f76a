-------------------------- MODULE SyncEngineProofs --------------------------
(***************************************************************************)
(* Proofs about SyncEngine for all files, contents, clocks and bounds.     *)
(***************************************************************************)
EXTENDS SyncEngine, TLAPS, WellFoundedInduction

USE ContentAssumption, AbsentAssumption, BoundAssumption

-----------------------------------------------------------------------------
(* What the operators on versions and changes return.                      *)

\* Truncating a time to its second gives a time (createFileInformationFromStat).
LEMMA SecType == ASSUME NEW t \in Nat PROVE Sec(t) \in Nat
  BY DEF Sec

\* InfoOf describes a file by seconds and size, and an absent file by no entry.
LEMMA InfoType ==
  /\ \A v \in Version \cup {Absent} : InfoOf(v) \in Info \cup {Absent}
  /\ \A v \in Version : InfoOf(v) \in Info
  BY SecType DEF InfoOf, Version, Info

\* The state of the helper holds full times.
LEMMA StatType == ASSUME NEW v \in Version \cup {Absent} PROVE StatOf(v) \in Stat \cup {Absent}
  BY DEF StatOf, Version, Stat

\* A transferred file is a file, and no younger than its original.
LEMMA ArchivedType == ASSUME NEW v \in Version PROVE Archived(v) \in Version
<1>1. Sec(v.tick) * TicksPerSecond \in Nat
  BY SecType DEF Version
<1> QED
  BY <1>1 DEF Archived, Version

\* Changes are built from a name and what is known of the file.
LEMMA ChangeType ==
  /\ \A f \in Files, i \in Info : ChangeOf(f, i) \in Change
  /\ \A f \in Files : RemoveChange(f) \in Change
  BY DEF ChangeOf, RemoveChange, Change, Info

\* The names of gathered changes are files.
LEMMA NamesType ==
  ASSUME TypeOK, NEW P \in SUBSET DOMAIN changes PROVE Names(P) \subseteq Files
<1>1. \A i \in DOMAIN changes : changes[i] \in Change
  BY DEF TypeOK
<1> QED
  BY <1>1 DEF Names, Change

\* filterChanges finds a first change for every file it is given.
LEMMA FirstPosition ==
  ASSUME TypeOK, NEW f \in Names(creates)
  PROVE  \E i \in creates : First(f) = changes[i] /\ changes[i].name = f
<1> DEFINE S == {i \in creates : changes[i].name = f}
           R == {ss \in Nat \X Nat : ss[1] < ss[2]}
<1>1. S # {} /\ S \subseteq Nat
  BY DEF TypeOK, Names
<1>2. PICK i \in S : \A j \in S : <<j, i>> \notin R
  <2>1. IsWellFoundedOn(R, Nat)
    BY NatLessThanWellFounded, Zenon DEF OpToRel
  <2> HIDE DEF S, R
  <2> QED
    BY <1>1, <2>1, WFMin
<1>3. \A j \in S : i <= j
  <2> TAKE j \in S
  <2>1. i \in Nat /\ j \in Nat
    BY <1>1
  <2>2. j < i => <<j, i>> \in R
    BY <2>1
  <2> QED
    BY <1>2, <2>1, <2>2
<1>4. \E k \in creates : changes[k].name = f /\ \A j \in creates : changes[j].name = f => k <= j
  BY <1>3
<1> QED
  BY <1>4 DEF First

\* It is one of the changes, with the name of the file.
LEMMA FirstType ==
  ASSUME TypeOK, NEW f \in Names(creates) PROVE First(f) \in Change /\ First(f).name = f
  BY FirstPosition DEF TypeOK

\* Whether a file is open, and from where, is left alone by the others.
LEMMA OpenKept ==
  ASSUME TypeOK, UNCHANGED <<downPhase, tar, outFile>>, ~NoneOpen => ~IndexLocked' PROVE OpenOK'
  BY DEF OpenOK, NoneOpen, TypeOK

\* No user breaks the types: what is written is a version.
LEMMA UserTypeOK == ASSUME TypeOK, UserNext PROVE TypeOK'
<1> PICK f \in Files : LocalWrite(f) \/ LocalDelete(f) \/ RemoteWrite(f) \/ RemoteDelete(f)
  BY DEF UserNext
<1>1. PICK side \in {"local", "remote"}, t \in Moments : Edit(side, f, t)
  BY DEF LocalWrite, LocalDelete, RemoteWrite, RemoteDelete
<1>2. t \in Nat
  BY DEF Moments
<1>3. /\ clock' \in Nat /\ writer' \in [Files -> {"local", "remote"}]
      /\ UNCHANGED <<fileMap, watched, upVars, downVars, stopped, env>>
  BY <1>1, <1>2 DEF Edit, TypeOK
<1>4. \A u \in Moments : NewVersions(u) \subseteq Version
  BY EnvironmentAssumption DEF NewVersions, Version, Moments, TypeOK, Environment
<1>5. /\ local' \in [Files -> Version \cup {Absent}] /\ remote' \in [Files -> Version \cup {Absent}]
      /\ events' \subseteq Files
  <2>1. CASE LocalWrite(f)
    BY <1>4, <2>1 DEF LocalWrite, TypeOK
  <2>2. CASE LocalDelete(f)
    BY <2>2 DEF LocalDelete, TypeOK
  <2>3. CASE RemoteWrite(f)
    BY <1>4, <2>3 DEF RemoteWrite, TypeOK
  <2>4. CASE RemoteDelete(f)
    BY <2>4 DEF RemoteDelete, TypeOK
  <2> QED
    BY <2>1, <2>2, <2>3, <2>4
<1>6. OpenOK'
  BY <1>3, OpenKept DEF TypeOK, OpenOK, IndexLocked, upVars, downVars
<1> QED
  BY <1>3, <1>5, <1>6 DEF TypeOK, upVars, downVars

\* The helper gives existing files another time, the client its entries (filterChanges).
LEMMA TouchedType ==
  ASSUME TypeOK
  PROVE  /\ IndexTouched \in [Files -> Info \cup {Absent}]
         /\ \A P \in SUBSET ToCheck : RemoteTouched(P) \in [Files -> Version \cup {Absent}]
<1>1. \A f \in ToCheck : First(f).mtime \in Nat /\ fileMap[f] # Absent
  BY FirstType DEF ToCheck, SameSize, Change
<1>2. ToCheck \subseteq Files
  BY NamesType DEF ToCheck, TypeOK
<1>3. \A n \in Nat : n * TicksPerSecond \in Nat
  OBVIOUS
<1>4. ASSUME NEW f \in ToCheck PROVE [fileMap[f] EXCEPT !.mtime = First(f).mtime] \in Info
  BY <1>1, <1>2 DEF TypeOK, Info
<1>5. ASSUME NEW f \in ToCheck, remote[f] # Absent
      PROVE  [remote[f] EXCEPT !.tick = First(f).mtime * TicksPerSecond] \in Version
  <2>1. remote[f] \in Version /\ First(f).mtime * TicksPerSecond \in Nat
    BY <1>1, <1>2, <1>3, <1>5 DEF TypeOK
  <2> QED
    BY <2>1 DEF Version
<1>6. IndexTouched \in [Files -> Info \cup {Absent}]
  BY <1>4 DEF IndexTouched, TypeOK
<1>7. ASSUME NEW P \in SUBSET ToCheck PROVE RemoteTouched(P) \in [Files -> Version \cup {Absent}]
  BY <1>5 DEF RemoteTouched, TypeOK
<1> QED
  BY <1>6, <1>7

\* What the helper unpacks are versions, what the client notes are their entries.
LEMMA UntarredType ==
  ASSUME TypeOK, NEW P \in SUBSET Archivable
  PROVE  /\ RemoteUntarred(P) \in [Files -> Version \cup {Absent}]
         /\ IndexUploaded(P) \in [Files -> Info \cup {Absent}]
  BY ArchivedType, InfoType DEF RemoteUntarred, IndexUploaded, Archivable, TypeOK

\* Giving the lock back leaves no change behind.
LEMMA ReleaseType ==
  ASSUME ReleaseIndex
  PROVE  /\ changes' \in Seq(Change) /\ creates' \subseteq DOMAIN changes' /\ uploads' \subseteq Files
         /\ upPhase' \in {"gather", "create", "filter", "upload"}
  BY DEF ReleaseIndex

\* The upstream only locks the index while no file is open (filterChanges, applyCreates).
LEMMA UpOpenOK == ASSUME TypeOK, UpNext PROVE OpenOK'
<1>1. UNCHANGED <<downPhase, tar, outFile>>
  BY DEF UpNext, UpStep, EvaluateMissing, EvaluateExcluded, EvaluatePresent, Evaluate, ApplyRemoves,
         FilterChanges, UploadArchive, FilterError, UploadError, downVars
<1>2. ASSUME ~NoneOpen PROVE ~IndexLocked'
  <2>1. ~IndexLocked
    BY <1>2 DEF TypeOK, OpenOK
  <2>2. UNCHANGED upPhase \/ upPhase' \in {"gather", "create"}
    BY <1>2, <2>1 DEF UpNext, UpStep, EvaluateMissing, EvaluateExcluded, EvaluatePresent, Evaluate, ApplyRemoves,
         Filter, FilterChanges, UploadArchive, FilterError, UploadError, ReleaseIndex, IndexLocked
  <2> QED
    BY <2>1, <2>2 DEF IndexLocked
<1> QED
  BY <1>1, <1>2, OpenKept

\* A failed upload leaves the loop in one of its phases with a part of the changes.
LEMMA RetryType ==
  ASSUME TypeOK, RetryUpload
  PROVE  /\ changes' \in Seq(Change) /\ creates' \subseteq DOMAIN changes' /\ uploads' \subseteq Files
         /\ upPhase' \in {"gather", "create", "filter", "upload"}
         /\ upTries' \in Nat /\ upErrors' \in Nat /\ stopped' \in BOOLEAN
<1>1. upTries' \in Nat /\ upErrors' \in Nat
  BY DEF RetryUpload, TypeOK
<1>2. stopped' \in BOOLEAN
  BY Zenon DEF RetryUpload, TypeOK
<1>3. \/ ReleaseIndex
      \/ upPhase' = "filter" /\ creates' \subseteq creates /\ uploads' = {} /\ UNCHANGED changes
      \/ UNCHANGED <<upPhase, changes, creates, uploads>>
  BY DEF RetryUpload
<1> QED
  BY <1>1, <1>2, <1>3, ReleaseType DEF TypeOK

\* The upstream loop keeps the types (evaluateChange, applyRemoves, applyCreates).
LEMMA UpTypeOK == ASSUME TypeOK, UpNext PROVE TypeOK'
<1>0. OpenOK'
  BY UpOpenOK
<1> USE <1>0
<1>1. ASSUME NEW f \in Files, EvaluateMissing(f) PROVE TypeOK'
  <2>1. changes' \in Seq(Change) /\ DOMAIN changes \subseteq DOMAIN changes'
    BY <1>1, ChangeType DEF EvaluateMissing, TypeOK
  <2> QED
    BY <1>1, <2>1 DEF EvaluateMissing, Evaluate, TypeOK, downVars, userVars
<1>2. ASSUME NEW f \in Files, EvaluateExcluded(f) PROVE TypeOK'
  BY <1>2, InfoType DEF EvaluateExcluded, Evaluate, TypeOK, downVars, userVars
<1>3. ASSUME NEW f \in Files, EvaluatePresent(f) PROVE TypeOK'
  <2>1. ChangeOf(f, InfoOf(local[f])) \in Change
    BY <1>3, ChangeType, InfoType DEF EvaluatePresent, TypeOK
  <2>2. changes' \in Seq(Change) /\ DOMAIN changes \subseteq DOMAIN changes'
    BY <1>3, <2>1 DEF EvaluatePresent, TypeOK
  <2> QED
    BY <1>3, <2>2 DEF EvaluatePresent, Evaluate, TypeOK, downVars, userVars
<1>4. CASE ApplyRemoves
  <2>1. fileMap' \in [Files -> Info \cup {Absent}] /\ remote' \in [Files -> Version \cup {Absent}]
    BY <1>4 DEF ApplyRemoves, TypeOK
  <2>2. upErrors' \in Nat /\ upTries' \in Nat
    BY <1>4 DEF ApplyRemoves, TypeOK
  <2>3. stopped' \in BOOLEAN
    BY <1>4, Zenon DEF ApplyRemoves, TypeOK
  <2>4. \/ ReleaseIndex
        \/ upPhase' = "create" /\ creates' \subseteq DOMAIN changes /\ UNCHANGED <<changes, uploads>>
        \/ UNCHANGED <<upPhase, changes, creates, uploads>>
    BY <1>4 DEF ApplyRemoves
  <2>5. /\ changes' \in Seq(Change) /\ creates' \subseteq DOMAIN changes' /\ uploads' \subseteq Files
        /\ upPhase' \in {"gather", "create", "filter", "upload"}
    BY <2>4, ReleaseType DEF TypeOK
  <2> QED
    BY <1>4, <2>1, <2>2, <2>3, <2>5 DEF ApplyRemoves, TypeOK, downVars, userVars
<1>5. CASE FilterChanges
  <2>1. fileMap' \in [Files -> Info \cup {Absent}] /\ remote' \in [Files -> Version \cup {Absent}]
    BY <1>5, TouchedType DEF FilterChanges, TypeOK
  <2>2. Names(creates) \subseteq Files
    BY NamesType DEF TypeOK
  <2>3. \/ ReleaseIndex
        \/ upPhase' = "upload" /\ uploads' \subseteq Names(creates) /\ UNCHANGED <<changes, creates>>
    BY <1>5 DEF FilterChanges, ToCheck
  <2>4. /\ changes' \in Seq(Change) /\ creates' \subseteq DOMAIN changes' /\ uploads' \subseteq Files
        /\ upPhase' \in {"gather", "create", "filter", "upload"}
    BY <2>2, <2>3, ReleaseType DEF TypeOK
  <2> QED
    BY <1>5, <2>1, <2>4 DEF FilterChanges, TypeOK, downVars, userVars
<1>6. CASE UploadArchive
  <2>1. fileMap' \in [Files -> Info \cup {Absent}] /\ remote' \in [Files -> Version \cup {Absent}]
    BY <1>6, UntarredType DEF UploadArchive, TypeOK
  <2>2. /\ changes' \in Seq(Change) /\ creates' \subseteq DOMAIN changes' /\ uploads' \subseteq Files
        /\ upPhase' \in {"gather", "create", "filter", "upload"}
    BY <1>6 DEF UploadArchive, ReleaseIndex
  <2> QED
    BY <1>6, <2>1, <2>2 DEF UploadArchive, TypeOK, downVars, userVars
<1>7. CASE FilterError
  <2>1. fileMap' \in [Files -> Info \cup {Absent}] /\ remote' \in [Files -> Version \cup {Absent}]
    BY <1>7, TouchedType DEF FilterError, TypeOK
  <2> QED
    BY <1>7, <2>1, RetryType DEF FilterError, TypeOK, downVars, userVars
<1>8. CASE UploadError
  <2>1. remote' \in [Files -> Version \cup {Absent}]
    BY <1>8, UntarredType DEF UploadError, TypeOK
  <2> QED
    BY <1>8, <2>1, RetryType DEF UploadError, TypeOK, downVars, userVars
<1> QED
  BY <1>1, <1>2, <1>3, <1>4, <1>5, <1>6, <1>7, <1>8 DEF UpNext, UpStep

\* What the helper reports are changes with the names of the differing files.
LEMMA ReportType ==
  ASSUME TypeOK PROVE Deletes \subseteq Change /\ Modifies \subseteq Change
<1>1. Deletes \subseteq Change
  <2> SUFFICES ASSUME NEW f \in Files, watched[f] # StatOf(remote[f]), remote[f] = Absent
               PROVE  [name |-> f, mtime |-> Sec(watched[f].tick), size |-> watched[f].size] \in Change
    BY DEF Deletes, Differing
  <2>1. watched[f] \in Stat
    BY DEF TypeOK, StatOf
  <2> QED
    BY <2>1, SecType DEF Stat, Change
<1>2. Modifies \subseteq Change
  BY ChangeType, InfoType DEF Modifies, Differing, TypeOK
<1> QED
  BY <1>1, <1>2

\* A request asks for files and sets the phase.
LEMMA RequestType ==
  ASSUME NEW cs \in SUBSET Change, RequestDownload(cs)
  PROVE  todo' \subseteq Files /\ downPhase' \in {"idle", "remove", "download"}
  BY DEF RequestDownload, Named, Change

\* A failed download keeps a part of the changes.
LEMMA RetryDownloadType ==
  ASSUME TypeOK, RetryDownload
  PROVE  /\ tar' \in [Files -> Version \cup {Absent}] /\ todo' \subseteq Files /\ downloads' \subseteq Change
         /\ downPhase' \in {"idle", "remove", "download"}
         /\ downTries' \in Nat /\ downErrors' \in Nat /\ stopped' \in BOOLEAN
<1>1. downTries' \in Nat /\ downErrors' \in Nat /\ tar' \in [Files -> Version \cup {Absent}]
  BY DEF RetryDownload, TypeOK
<1>2. stopped' \in BOOLEAN
  BY Zenon DEF RetryDownload, TypeOK
<1>3. \/ downloads' \subseteq downloads /\ RequestDownload(downloads')
      \/ UNCHANGED <<downloads, todo, downPhase>>
  BY DEF RetryDownload
<1> QED
  BY <1>1, <1>2, <1>3, RequestType DEF TypeOK

\* The downstream loop and the helper keep the types (collectChanges, remove, untarNext).
LEMMA DownTypeOK == ASSUME TypeOK, DownNext PROVE TypeOK'
<1>1. CASE CountChanges
  BY <1>1 DEF CountChanges, OpenOK, NoneOpen, IndexLocked, TypeOK, upVars, userVars
<1>2. CASE CollectChanges
  <2>1. deletes' \subseteq Change /\ downloads' \subseteq Change
    BY <1>2, ReportType DEF CollectChanges
  <2>2. watched' \in [Files -> Stat \cup {Absent}]
    BY <1>2, StatType DEF CollectChanges, Reported, TypeOK
  <2> QED
    BY <1>2, <2>1, <2>2 DEF CollectChanges, FolderDeleted, OpenOK, NoneOpen, TypeOK, upVars, userVars
<1>3. CASE RemoveLocal
  <2>1. /\ local' \in [Files -> Version \cup {Absent}] /\ fileMap' \in [Files -> Info \cup {Absent}]
        /\ events' \subseteq Files
    <3>1. PICK met \in Sweeps : Sweep(met)
      BY <1>3 DEF RemoveLocal
    <3>2. met \subseteq Files
      BY EnvironmentAssumption DEF Sweeps, Environment, TypeOK
    <3> QED
      BY <3>1, <3>2 DEF Sweep, Removed, Named, TypeOK, Change
  <2>2. todo' \subseteq Files /\ downPhase' \in {"idle", "remove", "download"}
    BY <1>3, RequestType DEF RemoveLocal, TypeOK
  <2> QED
    BY <1>3, <2>1, <2>2 DEF RemoveLocal, OpenOK, NoneOpen, TypeOK, upVars, userVars
<1>4. CASE FinishDownload
  BY <1>4 DEF FinishDownload, OpenOK, NoneOpen, Opened, TypeOK, upVars, userVars
<1>5. CASE DownloadError
  BY <1>5, RetryDownloadType DEF DownloadError, RetryDownload, OpenOK, NoneOpen, TypeOK, upVars
<1>6. ASSUME NEW f \in Files, TarRemote(f) PROVE TypeOK'
  <2>1. tar' \in [Files -> Version \cup {Absent}]
    BY <1>6, ArchivedType DEF TarRemote, TypeOK
  <2>2. remote[f] # Absent => Archived(remote[f]) # Absent
    BY <1>6, ArchivedType DEF TypeOK
  <2>3. ~NoneOpen => outFile.name \in Files /\ tar'[outFile.name] # Absent
    BY <1>6, <2>2 DEF TarRemote, OpenOK, NoneOpen, Opened, TypeOK
  <2>4. OpenOK'
    BY <1>6, <2>3 DEF TarRemote, OpenOK, NoneOpen, IndexLocked, TypeOK, upVars
  <2> QED
    BY <1>6, <2>1, <2>4 DEF TarRemote, TypeOK, upVars, userVars
<1>7. ASSUME NEW f \in Files, KeepNewer(f) PROVE TypeOK'
  BY <1>7, InfoType DEF KeepNewer, UntarNext, OpenOK, NoneOpen, TypeOK, upVars, userVars
<1>8. ASSUME NEW f \in Files, OpenLocal(f) PROVE TypeOK'
  <2>1. outFile' \in Opened
    BY <1>8, StatType DEF OpenLocal, Opened, TypeOK
  <2> QED
    BY <1>8, <2>1 DEF OpenLocal, UntarNext, OpenOK, NoneOpen, IndexLocked, TypeOK, upVars, userVars
<1>10. ASSUME NEW f \in Files, CopyLocal(f) PROVE TypeOK'
  <2>1. outFile \in Opened /\ tar[f] \in Version /\ clock \in Nat
    BY <1>10 DEF CopyLocal, OpenOK, TypeOK, NoneOpen
  <2>2. [tick |-> clock, data |-> tar[f].data] \in Version /\ outFile' \in Opened /\ outFile'.name = f
    BY <1>10, <2>1 DEF CopyLocal, Opened, Version
  <2> QED
    BY <1>10, <2>1, <2>2 DEF CopyLocal, UntarNext, OpenOK, NoneOpen, IndexLocked, TypeOK, upVars, userVars
<1>11. ASSUME NEW f \in Files, CloseLocal(f) PROVE TypeOK'
  <2>1. tar[f] \in Version
    BY <1>11 DEF CloseLocal, OpenOK, TypeOK, NoneOpen
  <2>2. local' \in [Files -> Version \cup {Absent}] /\ fileMap' \in [Files -> Info \cup {Absent}]
    <3>1. local[f] # Absent => [local[f] EXCEPT !.tick = tar[f].tick] \in Version
      BY <2>1 DEF TypeOK, Version
    <3> QED
      BY <1>11, <2>1, <3>1, InfoType DEF CloseLocal, IndexUntarred, TypeOK
  <2> QED
    BY <1>11, <2>2 DEF CloseLocal, UntarNext, OpenOK, NoneOpen, TypeOK, upVars, userVars
<1>9. ASSUME NEW f \in Files, UntarError(f) PROVE TypeOK'
  <2>1. \A t \in Moments : t \in Nat /\ [tick |-> t, data |-> Truncated] \in Version
    BY DEF Moments, Version
  <2>2. local' \in [Files -> Version \cup {Absent}] /\ events' \subseteq Files /\ clock' \in Nat
    BY <1>9, <2>1 DEF UntarError, TypeOK
  <2> QED
    BY <1>9, <2>2, RetryDownloadType DEF UntarError, RetryDownload, OpenOK, NoneOpen, TypeOK, upVars
<1> QED
  BY <1>1, <1>2, <1>3, <1>4, <1>5, <1>6, <1>7, <1>8, <1>9, <1>10, <1>11 DEF DownNext, DownStep

\* Initially the two sides and both records of them agree.
LEMMA InitTypeOK == ASSUME Init PROVE TypeOK
<1> PICK v \in [Files -> [tick : {TicksPerSecond}, data : env.contents] \cup {Absent}] :
       /\ local = v /\ remote = v
       /\ fileMap = [f \in Files |-> InfoOf(v[f])]
       /\ watched = [f \in Files |-> StatOf(v[f])]
  BY DEF Init
<1>1. env \in Environments /\ v \in [Files -> Version \cup {Absent}]
  BY EnvironmentAssumption DEF Init, Version, Environment
<1>2. fileMap \in [Files -> Info \cup {Absent}] /\ watched \in [Files -> Stat \cup {Absent}]
  BY <1>1, InfoType, StatType
<1>3. changes = <<>> /\ creates = {} /\ uploads = {} /\ events = {} /\ todo = {}
  BY DEF Init
<1>4. changes \in Seq(Change) /\ creates \subseteq DOMAIN changes
  BY <1>3
<1>5. /\ deletes = {} /\ downloads = {} /\ tar = [f \in Files |-> Absent]
      /\ writer = [f \in Files |-> "local"]
      /\ upPhase = "gather" /\ downPhase = "idle" /\ counted = FALSE /\ stopped = FALSE
  BY DEF Init
<1>6. upTries = 0 /\ downTries = 0 /\ clock \in Nat /\ upErrors = 0 /\ downErrors = 0
  BY DEF Init
<1>7. swept = FALSE /\ outFile = Absent
  BY DEF Init
<1> QED
  BY <1>1, <1>2, <1>3, <1>4, <1>5, <1>6, <1>7 DEF OpenOK, NoneOpen, TypeOK

\* So no step breaks them.
LEMMA TypeKept == ASSUME TypeOK, [Next]_vars PROVE TypeOK'
<1>1. CASE UNCHANGED vars
  BY <1>1 DEF TypeOK, OpenOK, NoneOpen, IndexLocked, vars, upVars, downVars, userVars
<1> QED
  BY <1>1, UserTypeOK, UpTypeOK, DownTypeOK DEF Next

\* Every variable always holds what the code can store in it.
THEOREM TypeCorrect == Spec => []TypeOK
<1>1. Init => TypeOK
  BY InitTypeOK
<1>2. TypeOK /\ [Next]_vars => TypeOK'
  BY TypeKept
<1> QED
  BY <1>1, <1>2, PTL DEF Spec

-----------------------------------------------------------------------------
(* The exclude lists.  The action properties follow from what the two      *)
(* loops have in their hands: the names they carry are filtered when they  *)
(* enter the loop, and nothing later lets another name in.                 *)

\* Every edit of a user takes place later than what was written before.
LEMMA MomentsLater == ASSUME TypeOK, NEW t \in Moments PROVE t > clock
<1>1. ASSUME NEW n \in Nat PROVE (Sec(n) + 1) * TicksPerSecond > n
  BY Z3 DEF Sec
<1> QED
  BY <1>1 DEF Moments, TypeOK

\* The exclude lists are chosen once, and name files.
LEMMA ListsType ==
  ASSUME TypeOK PROVE UploadExcluded \subseteq Files /\ DownloadExcluded \subseteq Files
  BY EnvironmentAssumption DEF TypeOK, Environment, UploadExcluded, DownloadExcluded

\* The environment is chosen once ...
LEMMA EnvFixed == ASSUME [Next]_vars PROVE env' = env
<1>1. CASE UserNext
  BY <1>1 DEF UserNext, LocalWrite, LocalDelete, RemoteWrite, RemoteDelete, Edit
<1>2. CASE UpNext
  BY <1>2 DEF UpNext, UpStep, EvaluateMissing, EvaluateExcluded, EvaluatePresent, Evaluate, ApplyRemoves,
              FilterChanges, UploadArchive, FilterError, UploadError, userVars
<1>3. CASE DownNext
  BY <1>3 DEF DownNext, DownStep, CountChanges, CollectChanges, RemoveLocal, FinishDownload, DownloadError,
              RetryDownload, TarRemote, KeepNewer, OpenLocal, CopyLocal, CloseLocal, UntarNext, UntarError, userVars
<1> QED
  BY <1>1, <1>2, <1>3 DEF Next, vars, userVars

\* ... and the lists with it.
LEMMA ListsFixed ==
  ASSUME [Next]_vars PROVE UploadExcluded' = UploadExcluded /\ DownloadExcluded' = DownloadExcluded
  BY EnvFixed DEF UploadExcluded, DownloadExcluded

\* Of the paths on the upload exclude list the upstream loop only carries removals.
UploadCarriesNone ==
    /\ \A i \in DOMAIN changes : changes[i].name \in UploadExcluded => changes[i].mtime = 0
    /\ \A i \in creates : changes[i].mtime > 0
    /\ uploads \cap UploadExcluded = {}

\* The downstream loop, the helper that serves it and the archive between them carry
\* no path on the download exclude list.
DownloadCarriesNone ==
    /\ \A c \in deletes \cup downloads : c.name \notin DownloadExcluded
    /\ todo \cap DownloadExcluded = {}
    /\ \A f \in DownloadExcluded : tar[f] = Absent

\* Filtering the report (collectChanges) keeps the excluded paths out of the downstream.
LEMMA DownloadInvariant ==
  ASSUME TypeOK, DownloadCarriesNone, [Next]_vars PROVE DownloadCarriesNone'
<1>0. DownloadExcluded' = DownloadExcluded /\ DownloadExcluded \subseteq Files
  BY ListsFixed, ListsType
<1> USE <1>0
<1>1. CASE UNCHANGED downVars
  BY <1>1 DEF DownloadCarriesNone, downVars
<1>2. CASE UserNext
  BY <1>1, <1>2 DEF UserNext, LocalWrite, LocalDelete, RemoteWrite, RemoteDelete, Edit
<1>3. CASE UpNext
  BY <1>1, <1>3 DEF UpNext, UpStep, EvaluateMissing, EvaluateExcluded, EvaluatePresent, Evaluate, ApplyRemoves,
                    FilterChanges, UploadArchive, FilterError, UploadError
<1>4. CASE DownNext
  <2>1. CASE CountChanges
    BY <2>1 DEF CountChanges, DownloadCarriesNone
  <2>2. CASE CollectChanges
    BY <2>2 DEF CollectChanges, NotIgnored, DownloadCarriesNone
  <2>3. CASE RemoveLocal
    BY <2>3 DEF RemoveLocal, RequestDownload, Named, DownloadCarriesNone
  <2>4. CASE FinishDownload
    BY <2>4 DEF FinishDownload, DownloadCarriesNone
  <2>5. CASE RetryDownload
    BY <2>5 DEF RetryDownload, RequestDownload, Named, DownloadCarriesNone
  <2>6. ASSUME NEW f \in Files, TarRemote(f) PROVE DownloadCarriesNone'
    BY <2>6 DEF TarRemote, DownloadCarriesNone, TypeOK
  <2>7. ASSUME NEW f \in Files, KeepNewer(f) \/ OpenLocal(f) \/ CopyLocal(f) \/ CloseLocal(f)
        PROVE  DownloadCarriesNone'
    BY <2>7 DEF KeepNewer, OpenLocal, CopyLocal, CloseLocal, UntarNext, DownloadCarriesNone, TypeOK
  <2> QED
    BY <1>4, <2>1, <2>2, <2>3, <2>4, <2>5, <2>6, <2>7
       DEF DownNext, DownStep, DownloadError, UntarError
<1> QED
  BY <1>1, <1>2, <1>3, <1>4 DEF Next, vars

\* A path on the download exclude list is never written locally by the sync, and deleted
\* only with its directory (deleteSafeRecursive), as the index knows it.
THEOREM DownloadExcludeTheorem == Spec => DownloadExcludeHonoured
<1>1. Init => DownloadCarriesNone
  BY InitTypeOK, ListsType DEF Init, DownloadCarriesNone
<1>2. TypeOK /\ DownloadCarriesNone /\ [Next]_vars => DownloadCarriesNone'
  BY DownloadInvariant
<1>3. TypeOK /\ DownloadCarriesNone /\ [Next]_vars
        => [\A f \in DownloadExcluded : local'[f] # local[f] /\ ~UserNext
               => local'[f] = Absent /\ f \in env.folder /\ Sweepable(f)]_vars
  <2> SUFFICES ASSUME TypeOK, DownloadCarriesNone, Next, ~UserNext, NEW f \in DownloadExcluded,
                      local'[f] # local[f]
               PROVE  local'[f] = Absent /\ f \in env.folder /\ Sweepable(f)
    OBVIOUS
  <2>1. f \in Files
    BY ListsType
  <2> USE <2>1
  <2>2. CASE UpNext
    BY <2>2 DEF UpNext, UpStep, EvaluateMissing, EvaluateExcluded, EvaluatePresent, Evaluate, ApplyRemoves,
                FilterChanges, UploadArchive, FilterError, UploadError
  <2>3. CASE RemoveLocal
    <3>1. PICK met \in Sweeps : Sweep(met)
      BY <2>3 DEF RemoveLocal
    <3>2. local'[f] = Absent /\ f \in Removed(met)
      BY <3>1 DEF Sweep, TypeOK
    <3>3. f \in met /\ Sweepable(f)
      BY <3>2 DEF Removed, Named, DownloadCarriesNone
    <3> QED
      BY <3>2, <3>3 DEF Sweeps
  <2>4. ASSUME NEW g \in Files, CopyLocal(g) \/ CloseLocal(g) PROVE FALSE
    <3>1. tar[g] # Absent
      BY <2>4 DEF CopyLocal, CloseLocal, TypeOK, OpenOK
    <3>2. f = g
      BY <2>4 DEF CopyLocal, CloseLocal, TypeOK
    <3> QED
      BY <3>1, <3>2 DEF DownloadCarriesNone
  <2>5. ASSUME NEW g \in Files, UntarError(g) PROVE FALSE
    BY <2>5 DEF UntarError, OpenOK, DownloadCarriesNone, TypeOK
  <2>6. CASE DownNext
    BY <2>3, <2>4, <2>5, <2>6 DEF DownNext, DownStep, CountChanges, CollectChanges, FinishDownload, DownloadError,
                                  TarRemote, KeepNewer, OpenLocal
  <2> QED
    BY <2>2, <2>6 DEF Next
<1> QED
  BY <1>1, <1>2, <1>3, TypeCorrect, PTL DEF Spec, DownloadExcludeHonoured

\* So no file that is being uploaded is excluded from uploads.
LEMMA CreatesNotExcluded ==
  ASSUME TypeOK, UploadCarriesNone PROVE Names(creates) \cap UploadExcluded = {}
<1>1. ASSUME NEW i \in creates, changes[i].name \in UploadExcluded PROVE FALSE
  <2>1. i \in DOMAIN changes
    BY DEF TypeOK
  <2>2. changes[i].mtime = 0
    BY <1>1, <2>1 DEF UploadCarriesNone
  <2>3. changes[i].mtime > 0
    BY DEF UploadCarriesNone
  <2> QED
    BY <2>2, <2>3
<1> QED
  BY <1>1, Zenon DEF Names

\* evaluateChange keeps every other change of an upload-excluded path out of the upstream.
LEMMA UploadInvariant ==
  ASSUME TypeOK, UploadCarriesNone, [Next]_vars PROVE UploadCarriesNone'
<1>0. UploadExcluded' = UploadExcluded /\ UploadExcluded \subseteq Files
  BY ListsFixed, ListsType
<1> USE <1>0
<1>1. CASE UNCHANGED <<changes, creates, uploads>>
  BY <1>1 DEF UploadCarriesNone
<1>2. CASE UserNext
  BY <1>1, <1>2 DEF UserNext, LocalWrite, LocalDelete, RemoteWrite, RemoteDelete, Edit, upVars
<1>3. CASE DownNext
  BY <1>1, <1>3 DEF DownNext, DownStep, CountChanges, CollectChanges, RemoveLocal, FinishDownload, DownloadError,
                    RetryDownload, TarRemote, KeepNewer, OpenLocal, CopyLocal, CloseLocal, UntarNext, UntarError, upVars
<1>4. ASSUME ReleaseIndex PROVE UploadCarriesNone'
  BY <1>4 DEF ReleaseIndex, UploadCarriesNone
<1>5. ASSUME NEW f \in Files, NEW c \in Change, changes' = Append(changes, c),
             c.name \in UploadExcluded => c.mtime = 0, UNCHANGED <<creates, uploads>>
      PROVE  UploadCarriesNone'
  BY <1>5 DEF UploadCarriesNone, TypeOK
<1>6. ASSUME NEW f \in Files, EvaluateMissing(f) PROVE UploadCarriesNone'
  BY <1>1, <1>5, <1>6, ChangeType DEF EvaluateMissing, Evaluate, RemoveChange
<1>7. ASSUME NEW f \in Files, EvaluateExcluded(f) PROVE UploadCarriesNone'
  BY <1>1, <1>7 DEF EvaluateExcluded, Evaluate
<1>8. ASSUME NEW f \in Files, EvaluatePresent(f) PROVE UploadCarriesNone'
  <2>1. ChangeOf(f, InfoOf(local[f])) \in Change /\ ChangeOf(f, InfoOf(local[f])).name = f
    BY <1>8, ChangeType, InfoType DEF EvaluatePresent, TypeOK, ChangeOf
  <2> QED
    BY <1>1, <1>5, <1>8, <2>1 DEF EvaluatePresent, Evaluate
<1>9. CASE ApplyRemoves
  <2>1. \/ ReleaseIndex
        \/ creates' = {i \in DOMAIN changes : changes[i].mtime > 0} /\ UNCHANGED <<changes, uploads>>
        \/ UNCHANGED <<changes, creates, uploads>>
    BY <1>9 DEF ApplyRemoves
  <2> QED
    BY <1>1, <1>4, <2>1 DEF UploadCarriesNone
<1>10. CASE FilterChanges
  <2>1. \/ ReleaseIndex
        \/ uploads' \subseteq Names(creates) /\ UNCHANGED <<changes, creates>>
    BY <1>10 DEF FilterChanges, ToCheck
  <2> QED
    BY <1>4, <2>1, CreatesNotExcluded DEF UploadCarriesNone
<1>11. CASE RetryUpload
  <2>1. \/ ReleaseIndex
        \/ creates' \subseteq creates /\ uploads' = {} /\ UNCHANGED changes
        \/ UNCHANGED <<changes, creates, uploads>>
    BY <1>11 DEF RetryUpload
  <2> QED
    BY <1>1, <1>4, <2>1 DEF UploadCarriesNone
<1>12. CASE UpNext
  BY <1>4, <1>6, <1>7, <1>8, <1>9, <1>10, <1>11, <1>12 DEF UpNext, UpStep, UploadArchive, FilterError, UploadError
<1> QED
  BY <1>1, <1>2, <1>3, <1>12 DEF Next, vars, upVars

\* The container gets neither content nor time of a path on the upload exclude list, only its removal.
THEOREM UploadExcludeTheorem == Spec => UploadExcludeHonoured
<1>1. Init => UploadCarriesNone
  BY DEF Init, UploadCarriesNone
<1>2. TypeOK /\ UploadCarriesNone /\ [Next]_vars => UploadCarriesNone'
  BY UploadInvariant
<1>3. TypeOK /\ UploadCarriesNone /\ [Next]_vars
        => [\A f \in UploadExcluded : remote'[f] # remote[f] /\ ~UserNext => remote'[f] = Absent]_vars
  <2> SUFFICES ASSUME TypeOK, UploadCarriesNone, Next, ~UserNext,
                      NEW f \in UploadExcluded, remote'[f] # remote[f]
               PROVE  remote'[f] = Absent
    OBVIOUS
  <2>1. f \in Files
    BY ListsType
  <2> USE <2>1
  <2>2. CASE DownNext
    BY <2>2 DEF DownNext, DownStep, CountChanges, CollectChanges, RemoveLocal, FinishDownload, DownloadError,
                RetryDownload, TarRemote, KeepNewer, OpenLocal, CopyLocal, CloseLocal, UntarNext, UntarError
  <2>3. CASE ApplyRemoves
    BY <2>3 DEF ApplyRemoves, TypeOK
  <2>4. ASSUME NEW P \in SUBSET ToCheck, remote' = RemoteTouched(P) PROVE FALSE
    BY <2>4, CreatesNotExcluded DEF RemoteTouched, ToCheck, TypeOK
  <2>5. ASSUME NEW P \in SUBSET Archivable, remote' = RemoteUntarred(P) PROVE FALSE
    BY <2>5 DEF RemoteUntarred, Archivable, TypeOK
  <2>6. CASE UpNext
    BY <2>3, <2>4, <2>5, <2>6 DEF UpNext, UpStep, EvaluateMissing, EvaluateExcluded, EvaluatePresent, Evaluate,
                                  FilterChanges, UploadArchive, FilterError, UploadError
  <2> QED
    BY <2>2, <2>6 DEF Next
<1> QED
  BY <1>1, <1>2, <1>3, TypeCorrect, PTL DEF Spec, UploadExcludeHonoured

\* Both directions, whatever fails and however the loops and the users interleave: no file is written
\* in a direction whose list excludes it, and only the named deletions cross the lists.
THEOREM ExcludesTheorem == Spec => ExcludesHonoured
  BY UploadExcludeTheorem, DownloadExcludeTheorem DEF ExcludesHonoured

-----------------------------------------------------------------------------
(* What a transfer makes of a file.                                        *)

\* A transferred file has the entry of its original: this is what lets the index
\* recognise the events that the loops' own writes cause.
LEMMA ArchivedInfo == ASSUME NEW v \in Version PROVE InfoOf(Archived(v)) = InfoOf(v)
<1>1. ASSUME NEW t \in Nat PROVE Sec(Sec(t) * TicksPerSecond) = Sec(t)
  BY Z3 DEF Sec
<1>2. Archived(v) \in Version /\ v # Absent /\ Archived(v) # Absent
  BY ArchivedType
<1> QED
  BY <1>1, <1>2 DEF InfoOf, Archived, Version

-----------------------------------------------------------------------------
(* What the two loops have in their hands.                                 *)

Deleting(f)    == \E c \in deletes : c.name = f
Downloading(f) == \E c \in downloads : c.name = f

\* The downstream has only changes it reported: while they are applied a deleted file
\* is one the helper regards as gone, a downloaded file one it regards as present.
DownInHand ==
    /\ downPhase = "idle" => deletes = {} /\ downloads = {}
    /\ downPhase = "download" => deletes = {}
    /\ downPhase # "download" => todo = {} /\ \A f \in Files : tar[f] = Absent
    /\ \A f \in todo : Downloading(f)
    /\ \A f \in Files : /\ tar[f] # Absent => Downloading(f) /\ f \notin todo
                        /\ Deleting(f) => watched[f] = Absent
                        /\ Downloading(f) => watched[f] # Absent

\* What upstream uploads is among the changes it is applying.
UpInHand ==
    /\ uploads \subseteq Names(creates)
    /\ upPhase # "upload" => uploads = {}
    /\ upPhase = "gather" => creates = {}

\* The phases of a loop are entered with what they need.
LEMMA DownInHandKept ==
  ASSUME TypeOK, DownInHand, [Next]_vars PROVE DownInHand'
<1>1. CASE UNCHANGED downVars /\ UNCHANGED watched
  BY <1>1 DEF DownInHand, Deleting, Downloading, downVars
<1>2. CASE UserNext
  BY <1>1, <1>2 DEF UserNext, LocalWrite, LocalDelete, RemoteWrite, RemoteDelete, Edit
<1>3. CASE UpNext
  BY <1>1, <1>3 DEF UpNext, UpStep, EvaluateMissing, EvaluateExcluded, EvaluatePresent, Evaluate, ApplyRemoves,
                    FilterChanges, UploadArchive, FilterError, UploadError
<1>4. CASE CountChanges
  BY <1>4 DEF CountChanges, DownInHand, Deleting, Downloading
<1>5. CASE CollectChanges
  <2>1. downPhase = "idle" /\ todo = {} /\ \A f \in Files : tar[f] = Absent
    BY <1>5 DEF CollectChanges, DownInHand
  <2>2. UNCHANGED <<todo, tar>> /\ downPhase' \in {"idle", "remove"}
        /\ (downPhase' = "idle" => deletes' = {} /\ downloads' = {})
    BY <1>5 DEF CollectChanges
  <2>3. \A f \in Files : watched'[f] = StatOf(remote[f])
    BY <1>5 DEF CollectChanges, Reported
  <2>4. ASSUME NEW f \in Files, NEW c \in Deletes, c.name = f PROVE remote[f] = Absent
    BY <2>4 DEF Deletes
  <2>5. ASSUME NEW f \in Files, NEW c \in Modifies, c.name = f PROVE remote[f] # Absent
    BY <2>5 DEF Modifies, ChangeOf
  <2>6. deletes' \subseteq Deletes /\ downloads' \subseteq Modifies
    BY <1>5 DEF CollectChanges
  <2>7. \A f \in Files : /\ Deleting(f)' => watched'[f] = Absent
                         /\ Downloading(f)' => watched'[f] # Absent
    <3>1. ASSUME NEW f \in Files, remote[f] # Absent PROVE StatOf(remote[f]) # Absent
      BY <3>1, StatType DEF TypeOK, StatOf, Version, Stat
    <3>2. \A f \in Files : remote[f] = Absent => StatOf(remote[f]) = Absent
      BY DEF StatOf
    <3> QED
      BY <2>3, <2>4, <2>5, <2>6, <3>1, <3>2 DEF Deleting, Downloading
  <2> QED
    BY <2>1, <2>2, <2>7 DEF DownInHand
<1>6. CASE RemoveLocal
  <2>1. deletes' = {} /\ UNCHANGED <<watched, downloads, tar>> /\ downPhase = "remove"
        /\ todo' = Named(downloads) /\ downPhase' = (IF downloads = {} THEN "idle" ELSE "download")
    BY <1>6 DEF RemoveLocal, RequestDownload
  <2> QED
    BY <2>1 DEF DownInHand, Deleting, Downloading, Named
<1>7. CASE FinishDownload
  BY <1>7 DEF FinishDownload, DownInHand, Deleting, Downloading
<1>8. CASE RetryDownload
  <2>1. /\ UNCHANGED <<watched, deletes>> /\ downPhase = "download" /\ \A f \in Files : tar'[f] = Absent
        /\ \/ /\ downloads' \subseteq downloads /\ todo' = Named(downloads')
              /\ downPhase' = (IF downloads' = {} THEN "idle" ELSE "download")
           \/ UNCHANGED <<downloads, todo, downPhase>>
    BY <1>8 DEF RetryDownload, RequestDownload
  <2> QED
    BY <2>1 DEF DownInHand, Deleting, Downloading, Named
<1>9. ASSUME NEW f \in Files, TarRemote(f) PROVE DownInHand'
  <2>1. /\ UNCHANGED <<watched, deletes, downloads, downPhase>> /\ downPhase = "download" /\ f \in todo
        /\ todo' = todo \ {f} /\ \A g \in Files : g # f => tar'[g] = tar[g]
    BY <1>9 DEF TarRemote, TypeOK
  <2> QED
    BY <2>1 DEF DownInHand, Deleting, Downloading
<1>10. ASSUME NEW f \in Files, KeepNewer(f) \/ OpenLocal(f) \/ CopyLocal(f) \/ CloseLocal(f)
       PROVE  DownInHand'
  <2>1. /\ UNCHANGED <<watched, deletes, downloads, downPhase, todo>> /\ downPhase = "download"
        /\ \A g \in Files : tar'[g] # Absent => tar[g] # Absent
    BY <1>10 DEF KeepNewer, OpenLocal, CopyLocal, CloseLocal, UntarNext, TypeOK
  <2> QED
    BY <2>1 DEF DownInHand, Deleting, Downloading
<1>11. CASE DownNext
  BY <1>4, <1>5, <1>6, <1>7, <1>8, <1>9, <1>10, <1>11
     DEF DownNext, DownStep, DownloadError, UntarError
<1> QED
  BY <1>1, <1>2, <1>3, <1>11 DEF Next, vars

\* applyChanges uploads only what filterChanges left of the changes it was given.
LEMMA UpInHandKept ==
  ASSUME TypeOK, UpInHand, [Next]_vars PROVE UpInHand'
<1>1. CASE UNCHANGED <<upPhase, changes, creates, uploads>>
  BY <1>1 DEF UpInHand, Names
<1>2. CASE UserNext \/ DownNext
  BY <1>1, <1>2 DEF UserNext, LocalWrite, LocalDelete, RemoteWrite, RemoteDelete, Edit, upVars,
                    DownNext, DownStep, CountChanges, CollectChanges, RemoveLocal, FinishDownload, DownloadError,
                    RetryDownload, TarRemote, KeepNewer, OpenLocal, CopyLocal, CloseLocal, UntarNext, UntarError
<1>3. CASE upPhase = "gather" /\ UNCHANGED <<upPhase, creates, uploads>>
  BY <1>3 DEF UpInHand, Names
<1>4. CASE ReleaseIndex
  BY <1>4 DEF ReleaseIndex, UpInHand, Names
<1>5. ASSUME NEW f \in Files, Evaluate(f) PROVE UpInHand'
  BY <1>3, <1>5 DEF Evaluate
<1>6. CASE ApplyRemoves
  <2>1. \/ ReleaseIndex
        \/ upPhase = "gather" /\ upPhase' = "create" /\ UNCHANGED <<changes, uploads>>
        \/ UNCHANGED <<upPhase, changes, creates, uploads>>
    BY <1>6 DEF ApplyRemoves
  <2> QED
    BY <1>1, <1>4, <2>1 DEF UpInHand
<1>7. CASE FilterChanges
  <2>1. \/ ReleaseIndex
        \/ upPhase' = "upload" /\ uploads' \subseteq Names(creates) /\ UNCHANGED <<changes, creates>>
    BY <1>7 DEF FilterChanges, ToCheck
  <2> QED
    BY <1>4, <2>1 DEF UpInHand, Names
<1>8. CASE RetryUpload
  <2>1. \/ ReleaseIndex
        \/ upPhase' = "filter" /\ uploads' = {}
        \/ UNCHANGED <<upPhase, changes, creates, uploads>>
    BY <1>8 DEF RetryUpload
  <2> QED
    BY <1>1, <1>4, <2>1 DEF UpInHand
<1>9. CASE UpNext
  BY <1>4, <1>5, <1>6, <1>7, <1>8, <1>9
     DEF UpNext, UpStep, EvaluateMissing, EvaluateExcluded, EvaluatePresent, UploadArchive, FilterError, UploadError
<1> QED
  BY <1>1, <1>2, <1>9 DEF Next, vars, upVars

-----------------------------------------------------------------------------
(* The test of untarNext.                                                  *)

\* What is in the archive of the open file is not older than what untarNext saw.
SeenOlder ==
    ~NoneOpen /\ outFile.seen # Absent => Sec(outFile.seen.tick) <= Sec(tar[outFile.name].tick)

\* The helper does not archive that file anew while it is open.
LEMMA SeenOlderKept ==
  ASSUME TypeOK, DownInHand, SeenOlder, [Next]_vars PROVE SeenOlder'
<1>1. CASE UNCHANGED <<tar, outFile>>
  BY <1>1 DEF SeenOlder, NoneOpen
<1>2. CASE UserNext \/ UpNext
  BY <1>1, <1>2 DEF UserNext, LocalWrite, LocalDelete, RemoteWrite, RemoteDelete, Edit, downVars,
                    UpNext, UpStep, EvaluateMissing, EvaluateExcluded, EvaluatePresent, Evaluate, ApplyRemoves,
                    FilterChanges, UploadArchive, FilterError, UploadError
<1>3. ASSUME NoneOpen' PROVE SeenOlder'
  BY <1>3 DEF SeenOlder
<1>4. ASSUME NEW f \in Files, TarRemote(f) PROVE SeenOlder'
  <2>1. ASSUME ~NoneOpen PROVE tar'[outFile.name] = tar[outFile.name]
    BY <1>4, <2>1 DEF TarRemote, DownInHand, OpenOK, NoneOpen, Opened, TypeOK
  <2> QED
    BY <1>4, <2>1 DEF TarRemote, SeenOlder, NoneOpen
<1>5. ASSUME NEW f \in Files, OpenLocal(f) PROVE SeenOlder'
  <2>1. outFile'.name = f /\ outFile'.seen = StatOf(local[f]) /\ tar'[f] = tar[f] /\ tar[f] \in Version
    BY <1>5 DEF OpenLocal, TypeOK
  <2>2. local[f] # Absent => StatOf(local[f]).tick = local[f].tick /\ Sec(local[f].tick) <= Sec(tar[f].tick)
    BY <1>5, <2>1, SecType DEF OpenLocal, NewerLocally, StatOf, Version, TypeOK
  <2>3. local[f] = Absent => StatOf(local[f]) = Absent
    BY DEF StatOf
  <2> QED
    BY <2>1, <2>2, <2>3 DEF SeenOlder
<1>6. ASSUME NEW f \in Files, CopyLocal(f) PROVE SeenOlder'
  <2>1. outFile'.name = outFile.name /\ outFile'.seen = outFile.seen /\ tar' = tar
    BY <1>6 DEF CopyLocal, NoneOpen, Opened, TypeOK
  <2> QED
    BY <1>6, <2>1 DEF CopyLocal, SeenOlder
<1>7. CASE DownNext
  BY <1>1, <1>3, <1>4, <1>5, <1>6, <1>7
     DEF DownNext, DownStep, CountChanges, CollectChanges, RemoveLocal, FinishDownload, DownloadError, RetryDownload,
         KeepNewer, CloseLocal, UntarError, NoneOpen
<1> QED
  BY <1>1, <1>2, <1>7 DEF Next, vars, downVars

\* The downstream only writes the local file that untarNext looked at, and leaves nothing older
\* there than what it saw.
THEOREM NeverOlderTheorem == Spec => NeverOlder
<1> DEFINE Written(f) == /\ local'[f] # local[f] /\ local'[f] # Absent => ~NoneOpen /\ outFile.name = f
                         /\ CloseLocal(f) /\ local'[f] # Absent /\ outFile.seen # Absent
                               => Sec(local'[f].tick) >= Sec(outFile.seen.tick)
<1>1. Init => TypeOK /\ DownInHand /\ SeenOlder
  BY InitTypeOK DEF Init, DownInHand, Deleting, Downloading, SeenOlder, NoneOpen
<1>2. TypeOK /\ DownInHand /\ SeenOlder /\ [Next]_vars => DownInHand' /\ SeenOlder'
  BY DownInHandKept, SeenOlderKept
<1>3. TypeOK /\ SeenOlder /\ [Next]_vars => [\A f \in Files : clock' = clock => Written(f)]_vars
  <2> SUFFICES ASSUME TypeOK, SeenOlder, Next, clock' = clock, NEW f \in Files PROVE Written(f)
    OBVIOUS
  <2>1. ASSUME CloseLocal(f), local'[f] # Absent, outFile.seen # Absent
        PROVE  Sec(local'[f].tick) >= Sec(outFile.seen.tick)
    <3>1. ~NoneOpen /\ outFile.name = f /\ tar[f] \in Version /\ outFile \in Opened
      BY <2>1 DEF CloseLocal, TypeOK, OpenOK, NoneOpen
    <3>2. local'[f].tick = tar[f].tick
      BY <2>1 DEF CloseLocal, TypeOK, Version
    <3>3. outFile.seen.tick \in Nat /\ tar[f].tick \in Nat
      BY <2>1, <3>1 DEF Opened, Stat, Version
    <3> QED
      BY <2>1, <3>1, <3>2, <3>3, SecType DEF SeenOlder
  <2>2. ASSUME local'[f] # local[f], local'[f] # Absent PROVE ~NoneOpen /\ outFile.name = f
    <3>1. CASE UserNext
      BY <3>1, MomentsLater DEF UserNext, LocalWrite, LocalDelete, RemoteWrite, RemoteDelete, Edit, TypeOK
    <3>2. CASE UpNext
      BY <2>2, <3>2 DEF UpNext, UpStep, EvaluateMissing, EvaluateExcluded, EvaluatePresent, Evaluate, ApplyRemoves,
                        FilterChanges, UploadArchive, FilterError, UploadError
    <3>3. CASE RemoveLocal
      BY <2>2, <3>3 DEF RemoveLocal, Sweep, TypeOK
    <3>4. ASSUME NEW g \in Files, CopyLocal(g) \/ CloseLocal(g) PROVE ~NoneOpen /\ outFile.name = f
      BY <2>2, <3>4 DEF CopyLocal, CloseLocal, TypeOK
    <3>5. ASSUME NEW g \in Files, UntarError(g) PROVE FALSE
      BY <3>5, MomentsLater DEF UntarError, TypeOK
    <3>6. CASE DownNext
      BY <2>2, <3>3, <3>4, <3>5, <3>6
         DEF DownNext, DownStep, CountChanges, CollectChanges, FinishDownload, DownloadError, TarRemote, KeepNewer, OpenLocal
    <3> QED
      BY <3>1, <3>2, <3>6 DEF Next
  <2> QED
    BY <2>1, <2>2
<1> QED
  BY <1>1, <1>2, <1>3, TypeCorrect, PTL DEF Spec, NeverOlder

-----------------------------------------------------------------------------
(* Times.                                                                  *)

\* A second begins no later than the moments in it, and later moments are in no earlier second.
LEMMA SecFacts ==
  /\ \A t \in Nat : /\ Sec(t) \in Nat /\ Sec(t) * TicksPerSecond \in Nat /\ Sec(t) * TicksPerSecond <= t
                    /\ Sec(Sec(t) * TicksPerSecond) = Sec(t)
  /\ \A s, t \in Nat : s <= t => Sec(s) <= Sec(t)
  /\ \A s, t \in Nat : s <= Sec(t) => s * TicksPerSecond \in Nat /\ s * TicksPerSecond <= t
  /\ \A s \in Nat : Sec(s * TicksPerSecond) = s
  /\ TicksPerSecond = 1 => \A t \in Nat : Sec(t) = t
  BY Z3 DEF Sec

\* Nothing was written later than now.
TimesPast ==
    /\ \A f \in Files :
          /\ local[f] # Absent => local[f].tick <= clock
          /\ remote[f] # Absent => remote[f].tick <= clock
          /\ tar[f] # Absent => tar[f].tick <= clock
          /\ watched[f] # Absent => watched[f].tick <= clock
          /\ fileMap[f] # Absent => fileMap[f].mtime <= Sec(clock)
    /\ \A i \in DOMAIN changes : changes[i].mtime <= Sec(clock)

\* What is known of a file and of its archived copy.
LEMMA VersionFacts ==
  ASSUME NEW v \in Version
  PROVE  /\ v # Absent /\ v.tick \in Nat /\ v.data \in Contents /\ Size[v.data] \in Nat /\ Sec(v.tick) \in Nat
         /\ InfoOf(v) = [mtime |-> Sec(v.tick), size |-> Size[v.data]] /\ InfoOf(v) # Absent
         /\ StatOf(v) = [tick |-> v.tick, size |-> Size[v.data]] /\ StatOf(v) # Absent
         /\ Archived(v) \in Version /\ Archived(v).tick = Sec(v.tick) * TicksPerSecond
         /\ Archived(v).data = v.data /\ Archived(v).tick <= v.tick
<1>1. v.tick \in Nat /\ v.data \in Contents /\ v # Absent
  BY DEF Version
<1>2. Size[v.data] \in Nat /\ Sec(v.tick) \in Nat /\ Sec(v.tick) * TicksPerSecond <= v.tick
  BY <1>1, SecFacts
<1>3. InfoOf(v) = [mtime |-> Sec(v.tick), size |-> Size[v.data]]
      /\ StatOf(v) = [tick |-> v.tick, size |-> Size[v.data]]
  BY <1>1 DEF InfoOf, StatOf
<1>4. InfoOf(v) \in Info /\ StatOf(v) \in Stat
  BY <1>1, <1>2, <1>3 DEF Info, Stat
<1>5. Archived(v) \in Version /\ Archived(v).tick = Sec(v.tick) * TicksPerSecond /\ Archived(v).data = v.data
  BY ArchivedType DEF Archived, Version
<1> QED
  BY <1>1, <1>2, <1>3, <1>4, <1>5

\* An entry of a past version is past.
LEMMA InfoPast ==
  ASSUME NEW v \in Version \cup {Absent}, NEW t \in Nat, v # Absent => v.tick <= t, InfoOf(v) # Absent
  PROVE  InfoOf(v).mtime <= Sec(t)
<1>1. v \in Version
  BY DEF InfoOf
<1> QED
  BY <1>1, VersionFacts, SecFacts

\* Appending a change leaves the others where they are.
LEMMA AppendedChange ==
  ASSUME TypeOK, NEW c \in Change
  PROVE  /\ \A i \in DOMAIN Append(changes, c) :
               (i \in DOMAIN changes /\ Append(changes, c)[i] = changes[i]) \/ Append(changes, c)[i] = c
         /\ \A i \in DOMAIN changes : i \in DOMAIN Append(changes, c) /\ Append(changes, c)[i] = changes[i]
         /\ \E i \in DOMAIN Append(changes, c) : Append(changes, c)[i] = c
<1>1. changes \in Seq(Change)
  BY DEF TypeOK
<1>2. Len(changes) \in Nat /\ DOMAIN changes = 1 .. Len(changes)
      /\ DOMAIN Append(changes, c) = 1 .. Len(changes) + 1
      /\ Append(changes, c)[Len(changes) + 1] = c
      /\ \A i \in 1 .. Len(changes) : Append(changes, c)[i] = changes[i]
  BY <1>1
<1> QED
  BY <1>2

\* Clocks only go on, so what is past stays past.
LEMMA PastStays ==
  ASSUME TypeOK, TimesPast, NEW t \in Nat, clock <= t
  PROVE  /\ \A f \in Files :
               /\ local[f] # Absent => local[f].tick <= t
               /\ remote[f] # Absent => remote[f].tick <= t
               /\ tar[f] # Absent => tar[f].tick <= t
               /\ watched[f] # Absent => watched[f].tick <= t
               /\ fileMap[f] # Absent => fileMap[f].mtime <= Sec(t)
         /\ \A i \in DOMAIN changes : changes[i].mtime <= Sec(t)
<1>1. clock \in Nat /\ Sec(clock) <= Sec(t) /\ Sec(clock) \in Nat /\ Sec(t) \in Nat
  BY SecFacts DEF TypeOK
<1>2. ASSUME NEW v \in Version, v.tick <= clock PROVE v.tick <= t
  BY <1>1, <1>2, VersionFacts
<1>3. \A f \in Files : /\ local[f] # Absent => local[f] \in Version
                       /\ remote[f] # Absent => remote[f] \in Version
                       /\ tar[f] # Absent => tar[f] \in Version
                       /\ watched[f] # Absent => watched[f].tick \in Nat
                       /\ fileMap[f] # Absent => fileMap[f].mtime \in Nat
  BY DEF TypeOK, Stat, Info
<1>4. \A i \in DOMAIN changes : changes[i].mtime \in Nat
  <2>1. \A i \in DOMAIN changes : changes[i] \in Change
    BY DEF TypeOK
  <2> QED
    BY <2>1 DEF Change
<1> QED
  BY <1>1, <1>2, <1>3, <1>4 DEF TimesPast

\* No step dates anything later than now: copies keep the time of the original or an older one.
LEMMA TimesPastKept ==
  ASSUME TypeOK, TimesPast, [Next]_vars PROVE TimesPast'
<1>0. TypeOK' /\ clock \in Nat /\ clock' \in Nat
  BY TypeKept DEF TypeOK
<1>1. CASE UNCHANGED vars
  BY <1>1 DEF vars, upVars, downVars, userVars, TimesPast
<1>2. CASE UserNext
  <2>1. PICK f \in Files : LocalWrite(f) \/ LocalDelete(f) \/ RemoteWrite(f) \/ RemoteDelete(f)
    BY <1>2 DEF UserNext
  <2>2. PICK t \in Moments : clock' = t /\ UNCHANGED <<fileMap, watched, upVars, downVars>>
    BY <2>1 DEF LocalWrite, LocalDelete, RemoteWrite, RemoteDelete, Edit
  <2>3. clock <= clock' /\ UNCHANGED <<fileMap, watched, changes, tar>>
    BY <1>0, <2>2, MomentsLater DEF upVars, downVars
  <2>4. \A v \in NewVersions(clock') : v \in Version /\ v.tick <= clock'
    BY SMTT(30), <1>0, <2>2, EnvironmentAssumption DEF NewVersions, Version, Moments, TypeOK, Environment
  <2>5. /\ \A g \in Files : local'[g] = local[g] \/ local'[g] = Absent \/ local'[g] \in NewVersions(clock')
        /\ \A g \in Files : remote'[g] = remote[g] \/ remote'[g] = Absent \/ remote'[g] \in NewVersions(clock')
    BY <2>1 DEF LocalWrite, LocalDelete, RemoteWrite, RemoteDelete, Edit, TypeOK
  <2> QED
    BY <1>0, <2>3, <2>4, <2>5, PastStays DEF TimesPast
<1>3. CASE UpNext
  <2>1. clock' = clock /\ UNCHANGED <<local, watched, tar>>
    BY <1>3 DEF UpNext, UpStep, EvaluateMissing, EvaluateExcluded, EvaluatePresent, Evaluate, ApplyRemoves,
                FilterChanges, UploadArchive, FilterError, UploadError, userVars, downVars
  <2>2. \A f \in Files : InfoOf(local[f]) # Absent => InfoOf(local[f]).mtime <= Sec(clock)
    BY InfoPast DEF TypeOK, TimesPast
  <2>3. \A i \in DOMAIN changes' : changes'[i].mtime <= Sec(clock)
    <3>1. ASSUME NEW f \in Files, EvaluateMissing(f) PROVE \A i \in DOMAIN changes' : changes'[i].mtime <= Sec(clock)
      <4>1. changes' = changes \/ changes' = Append(changes, RemoveChange(f))
        BY <3>1 DEF EvaluateMissing
      <4>2. RemoveChange(f).mtime <= Sec(clock) /\ RemoveChange(f) \in Change
        BY <1>0, SecFacts, ChangeType DEF RemoveChange
      <4> QED
        BY <4>1, <4>2, AppendedChange DEF TimesPast
    <3>2. ASSUME NEW f \in Files, EvaluatePresent(f) PROVE \A i \in DOMAIN changes' : changes'[i].mtime <= Sec(clock)
      <4> DEFINE c == ChangeOf(f, InfoOf(local[f]))
      <4>1. changes' = changes \/ changes' = Append(changes, c)
        BY <3>2 DEF EvaluatePresent
      <4>2. local[f] \in Version /\ InfoOf(local[f]) # Absent
        BY <3>2, VersionFacts DEF EvaluatePresent, TypeOK
      <4>3. c.mtime <= Sec(clock) /\ c \in Change
        BY <2>2, <4>2, ChangeType, InfoType DEF ChangeOf
      <4> HIDE DEF c
      <4> QED
        BY <4>1, <4>3, AppendedChange DEF TimesPast
    <3>3. CASE changes' = changes \/ changes' = <<>>
      BY <3>3 DEF TimesPast
    <3>4. RetryUpload => changes' = changes \/ changes' = <<>>
      BY DEF RetryUpload, ReleaseIndex
    <3> QED
      BY <1>3, <3>1, <3>2, <3>3, <3>4
         DEF UpNext, UpStep, EvaluateExcluded, ApplyRemoves, FilterChanges, UploadArchive, FilterError, UploadError,
             ReleaseIndex
  <2>4. \A f \in ToCheck : First(f).mtime \in Nat /\ First(f).mtime <= Sec(clock)
    <3>1. ASSUME NEW f \in Names(creates) PROVE First(f).mtime \in Nat /\ First(f).mtime <= Sec(clock)
      <4>1. First(f) \in Change /\ \E i \in creates : First(f) = changes[i]
        <5>1. \E i \in creates : First(f) = changes[i]
          BY FirstPosition
        <5> QED
          BY <5>1, FirstType
      <4> QED
        BY <4>1 DEF TimesPast, TypeOK, Change
    <3> QED
      BY <3>1 DEF ToCheck
  <2>5. \A f \in Files : fileMap'[f] # Absent => fileMap'[f].mtime <= Sec(clock)
    <3>1. ASSUME fileMap' = IndexTouched PROVE \A f \in Files : fileMap'[f] # Absent => fileMap'[f].mtime <= Sec(clock)
      <4> TAKE f \in Files
      <4>1. CASE f \in ToCheck
        <5>1. fileMap'[f] = [fileMap[f] EXCEPT !.mtime = First(f).mtime] /\ fileMap[f] \in Info
          BY <3>1, <4>1 DEF IndexTouched, ToCheck, SameSize, TypeOK
        <5> QED
          BY <2>4, <4>1, <5>1 DEF Info
      <4>2. CASE f \notin ToCheck
        BY <3>1, <4>2 DEF IndexTouched, TimesPast
      <4> QED
        BY <4>1, <4>2
    <3>2. ASSUME NEW f \in Files,
                 fileMap'[f] = fileMap[f] \/ fileMap'[f] = Absent \/ fileMap'[f] = InfoOf(local[f]),
                 fileMap'[f] # Absent
          PROVE  fileMap'[f].mtime <= Sec(clock)
      BY <2>2, <3>2 DEF TimesPast
    <3>3. \/ fileMap' = IndexTouched
          \/ \A f \in Files : fileMap'[f] = fileMap[f] \/ fileMap'[f] = Absent \/ fileMap'[f] = InfoOf(local[f])
      <4>1. ASSUME NEW f \in Files, EvaluateMissing(f) \/ EvaluatePresent(f) PROVE fileMap' = fileMap
        BY <4>1 DEF EvaluateMissing, EvaluatePresent
      <4>5. ASSUME NEW f \in Files, EvaluateExcluded(f)
            PROVE  \A g \in Files : fileMap'[g] = fileMap[g] \/ fileMap'[g] = InfoOf(local[g])
        BY <4>5 DEF EvaluateExcluded, TypeOK
      <4>2. CASE ApplyRemoves
        BY <4>2 DEF ApplyRemoves, TypeOK
      <4>3. CASE FilterChanges \/ FilterError \/ UploadError
        BY <4>3 DEF FilterChanges, FilterError, UploadError
      <4>4. CASE UploadArchive
        BY <4>4 DEF UploadArchive, IndexUploaded, TypeOK
      <4> QED
        BY <1>3, <4>1, <4>2, <4>3, <4>4, <4>5 DEF UpNext, UpStep
    <3> QED
      BY <3>1, <3>2, <3>3
  <2>6. \A f \in Files : remote'[f] # Absent => remote'[f].tick <= clock
    <3>1. ASSUME NEW P \in SUBSET ToCheck, remote' = RemoteTouched(P), NEW f \in Files, remote'[f] # Absent
          PROVE  remote'[f].tick <= clock
      <4>1. CASE f \in P /\ remote[f] # Absent
        <5>1. remote'[f] = [remote[f] EXCEPT !.tick = First(f).mtime * TicksPerSecond] /\ remote[f] \in Version
          BY <3>1, <4>1 DEF RemoteTouched, TypeOK
        <5>2. First(f).mtime * TicksPerSecond <= clock
          BY <1>0, <2>4, <4>1, SecFacts
        <5> QED
          BY <5>1, <5>2 DEF Version
      <4>2. CASE ~(f \in P /\ remote[f] # Absent)
        BY <3>1, <4>2 DEF RemoteTouched, TimesPast
      <4> QED
        BY <4>1, <4>2
    <3>2. ASSUME NEW P \in SUBSET Archivable, remote' = RemoteUntarred(P), NEW f \in Files, remote'[f] # Absent
          PROVE  remote'[f].tick <= clock
      <4>1. CASE f \in P
        <5>1. remote'[f] = Archived(local[f]) /\ local[f] \in Version /\ local[f].tick <= clock
          BY <3>2, <4>1 DEF RemoteUntarred, Archivable, TypeOK, TimesPast
        <5> QED
          BY <1>0, <5>1, VersionFacts
      <4>2. CASE f \notin P
        BY <3>2, <4>2 DEF RemoteUntarred, TimesPast
      <4> QED
        BY <4>1, <4>2
    <3>3. ASSUME NEW f \in Files, remote'[f] = remote[f] \/ remote'[f] = Absent, remote'[f] # Absent
          PROVE remote'[f].tick <= clock
      BY <3>3 DEF TimesPast
    <3>4. \/ \E P \in SUBSET ToCheck : remote' = RemoteTouched(P)
          \/ \E P \in SUBSET Archivable : remote' = RemoteUntarred(P)
          \/ \A f \in Files : remote'[f] = remote[f] \/ remote'[f] = Absent
      BY <1>3 DEF UpNext, UpStep, EvaluateMissing, EvaluateExcluded, EvaluatePresent, Evaluate, ApplyRemoves,
                  FilterChanges, UploadArchive, FilterError, UploadError
    <3> QED
      BY <3>1, <3>2, <3>3, <3>4
  <2> QED
    BY <2>1, <2>3, <2>5, <2>6 DEF TimesPast
<1>4. CASE DownNext
  <2>1. UNCHANGED <<remote, changes>>
    BY <1>4 DEF DownNext, DownStep, CountChanges, CollectChanges, RemoveLocal, FinishDownload, DownloadError,
                RetryDownload, TarRemote, KeepNewer, OpenLocal, CopyLocal, CloseLocal, UntarNext, UntarError, upVars
  <2>2. clock <= clock'
    <3>1. ASSUME NEW f \in Files, UntarError(f) PROVE clock <= clock'
      BY <1>0, <3>1, MomentsLater DEF UntarError
    <3>2. ASSUME DownStep \/ DownloadError PROVE clock' = clock
      BY <3>2 DEF DownStep, CountChanges, CollectChanges, RemoveLocal, FinishDownload, DownloadError,
                  TarRemote, KeepNewer, OpenLocal, CopyLocal, CloseLocal, UntarNext, userVars
    <3> QED
      BY <1>0, <1>4, <3>1, <3>2 DEF DownNext
  <2>3. \A f \in Files : /\ local'[f] # Absent => local'[f].tick <= clock'
                         /\ tar'[f] # Absent => tar'[f].tick <= clock'
                         /\ watched'[f] # Absent => watched'[f].tick <= clock'
                         /\ fileMap'[f] # Absent => fileMap'[f].mtime <= Sec(clock')
    <3> TAKE f \in Files
    <3>1. tar'[f] = tar[f] \/ tar'[f] = Absent \/ (tar'[f] = Archived(remote[f]) /\ remote[f] # Absent)
      <4>1. ASSUME NEW g \in Files, TarRemote(g)
            PROVE  tar'[f] = tar[f] \/ (tar'[f] = Archived(remote[f]) /\ remote[f] # Absent)
        BY <4>1 DEF TarRemote, TypeOK
      <4>2. ASSUME NEW g \in Files, KeepNewer(g) \/ CloseLocal(g) PROVE tar'[f] = tar[f] \/ tar'[f] = Absent
        BY <4>2 DEF KeepNewer, CloseLocal, TypeOK
      <4>3. RetryDownload => tar'[f] = Absent
        BY DEF RetryDownload
      <4> QED
        BY <1>4, <4>1, <4>2, <4>3
           DEF DownNext, DownStep, CountChanges, CollectChanges, RemoveLocal, FinishDownload, DownloadError,
               OpenLocal, CopyLocal, UntarError
    <3>2. watched'[f] = watched[f] \/ watched'[f] = StatOf(remote[f])
      BY <1>4 DEF DownNext, DownStep, CountChanges, CollectChanges, RemoveLocal, FinishDownload, DownloadError,
                  RetryDownload, TarRemote, KeepNewer, OpenLocal, CopyLocal, CloseLocal, UntarNext, UntarError, TypeOK, Reported
    <3>3. \/ local'[f] = local[f] \/ local'[f] = Absent \/ local'[f].tick = clock'
          \/ tar[f] # Absent /\ local'[f].tick = tar[f].tick
      <4>1. ASSUME NEW g \in Files, CopyLocal(g) PROVE local'[f] = local[f] \/ local'[f].tick = clock'
        BY <4>1 DEF CopyLocal, UntarNext, TypeOK, userVars
      <4>2. ASSUME NEW g \in Files, CloseLocal(g), local'[f] # local[f]
            PROVE  tar[f] # Absent /\ local'[f].tick = tar[f].tick
        <5>1. f = g /\ local[f] \in Version /\ local'[f] = [local[f] EXCEPT !.tick = tar[f].tick]
          BY <4>2 DEF CloseLocal, TypeOK
        <5>2. tar[f] # Absent
          BY <4>2, <5>1 DEF CloseLocal, TypeOK, OpenOK
        <5> QED
          BY <5>1, <5>2 DEF Version
      <4>3. ASSUME NEW g \in Files, UntarError(g) PROVE local'[f] = local[f] \/ local'[f].tick = clock'
        BY <4>3 DEF UntarError, TypeOK
      <4>4. CASE RemoveLocal
        BY <4>4 DEF RemoveLocal, Sweep
      <4> QED
        BY <1>4, <4>1, <4>2, <4>3, <4>4
           DEF DownNext, DownStep, CountChanges, CollectChanges, FinishDownload, DownloadError, TarRemote,
               KeepNewer, OpenLocal
    <3>4. \/ fileMap'[f] = fileMap[f] \/ fileMap'[f] = Absent
          \/ fileMap'[f] = InfoOf(local[f]) \/ fileMap'[f] = InfoOf(tar[f])
      <4>1. ASSUME NEW g \in Files, KeepNewer(g) PROVE fileMap'[f] = fileMap[f] \/ fileMap'[f] = InfoOf(local[f])
        BY <4>1 DEF KeepNewer, TypeOK
      <4>2. ASSUME NEW g \in Files, CloseLocal(g) PROVE fileMap'[f] = fileMap[f] \/ fileMap'[f] = InfoOf(tar[f])
        BY <4>2 DEF CloseLocal, IndexUntarred, TypeOK
      <4>3. CASE RemoveLocal
        BY <4>3 DEF RemoveLocal, Sweep
      <4>4. RetryDownload => UNCHANGED fileMap
        BY DEF RetryDownload
      <4> QED
        BY <1>4, <4>1, <4>2, <4>3, <4>4
           DEF DownNext, DownStep, CountChanges, CollectChanges, FinishDownload, DownloadError, TarRemote,
               OpenLocal, CopyLocal, UntarError
    <3>5. /\ local[f] \in Version \cup {Absent} /\ tar[f] \in Version \cup {Absent}
          /\ remote[f] \in Version \cup {Absent}
          /\ local[f] # Absent => local[f].tick <= clock'
          /\ tar[f] # Absent => tar[f].tick <= clock'
          /\ remote[f] # Absent => remote[f].tick <= clock'
          /\ watched[f] # Absent => watched[f].tick <= clock'
          /\ fileMap[f] # Absent => fileMap[f].mtime <= Sec(clock')
      BY <1>0, <2>2, PastStays DEF TypeOK
    <3>6. local'[f] # Absent => local'[f].tick <= clock'
      BY <1>0, <3>3, <3>5
    <3>7. tar'[f] # Absent => tar'[f].tick <= clock'
      BY <1>0, <3>1, <3>5, VersionFacts
    <3>8. watched'[f] # Absent => watched'[f].tick <= clock'
      BY <1>0, <3>2, <3>5, VersionFacts DEF StatOf
    <3>9. fileMap'[f] # Absent => fileMap'[f].mtime <= Sec(clock')
      BY <1>0, <3>4, <3>5, InfoPast
    <3> QED
      BY <3>6, <3>7, <3>8, <3>9
  <2>4. \A i \in DOMAIN changes : changes[i].mtime <= Sec(clock')
    BY <1>0, <2>2, PastStays
  <2>5. \A f \in Files : remote[f] # Absent => remote[f].tick <= clock'
    BY <1>0, <2>2, PastStays
  <2> QED
    BY <2>1, <2>3, <2>4, <2>5 DEF TimesPast
<1> QED
  BY <1>1, <1>2, <1>3, <1>4 DEF Next

-----------------------------------------------------------------------------
(* No loop takes what the other one did for a user's change, as long as    *)
(* users take turns and nothing fails.                                     *)

\* One side at a time edits a file, no file is dated back, and no call fails.
Calm == ~env.concurrent /\ ~env.epoch /\ env.maxUploadErrors = 0 /\ env.maxDownloadErrors = 0

\* The index describes the remote file, or there is none and there was none to report.
Matched(f) == (remote[f] = Absent /\ watched[f] = Absent) \/ fileMap[f] = InfoOf(remote[f])

\* untarNext has written the file, but not yet given it its time.
Copied(f) == ~NoneOpen /\ outFile.name = f /\ outFile.copied

\* Such a file comes from the archive, which holds what is to be downloaded.
LEMMA CopiedFacts ==
  ASSUME TypeOK, DownInHand, NEW f \in Files, Copied(f)
  PROVE  tar[f] # Absent /\ Downloading(f) /\ downPhase = "download" /\ f \notin todo
  BY DEF Copied, TypeOK, OpenOK, DownInHand

\* A file last edited in the container: nothing of it is on its way up, a local event
\* only tells what the index knows or will know when untarNext is done, the remote file
\* is the youngest, and once its report is dealt with the index describes it.
FromRemote(f) ==
    /\ f \notin Names(Pending)
    /\ f \in events /\ ~Copied(f) => fileMap[f] = InfoOf(local[f])
    /\ Copied(f) => local[f] # Absent /\ local[f].data = tar[f].data
    /\ remote[f] # Absent =>
          /\ fileMap[f] # Absent => fileMap[f].mtime <= Sec(remote[f].tick)
          /\ local[f] # Absent /\ ~Copied(f) => Sec(local[f].tick) <= Sec(remote[f].tick)
          /\ tar[f] # Absent => Sec(tar[f].tick) <= Sec(remote[f].tick)
    /\ f \notin DownloadExcluded /\ watched[f] = StatOf(remote[f]) =>
          /\ ~Deleting(f) /\ ~Downloading(f) => Matched(f)
          /\ Downloading(f) /\ downPhase = "download" /\ f \notin todo =>
                IF tar[f] = Absent THEN fileMap[f] = InfoOf(remote[f]) ELSE InfoOf(tar[f]) = InfoOf(remote[f])

\* The index describes the remote file, or a younger local one that is not uploaded.
MatchedOrKept(f) ==
    \/ Matched(f)
    \/ /\ f \in UploadExcluded /\ remote[f] # Absent /\ fileMap[f] # Absent
       /\ fileMap[f].mtime > Sec(remote[f].tick)

\* A file last edited locally: nothing of it is on its way down, and the index describes
\* the remote file even if it was not reported yet.
FromLocal(f) == ~Deleting(f) /\ ~Downloading(f) /\ (f \notin DownloadExcluded => MatchedOrKept(f))

EchoFree(f) == IF writer[f] = "remote" THEN FromRemote(f) ELSE FromLocal(f)

EchoInv ==
    /\ TypeOK /\ UploadCarriesNone /\ UpInHand /\ DownInHand /\ TimesPast
    /\ Calm => ~stopped /\ \A f \in Files : EchoFree(f)

Pends(f) == \E i \in Pending : changes[i].name = f

\* The two ways of saying that upstream has a change of a file.
LEMMA PendsNames == ASSUME NEW f PROVE (f \in Names(Pending) <=> Pends(f)) /\ (f \in Names(Pending)' <=> Pends(f)')
  BY DEF Names, Pends

\* A file that a step leaves alone is in order as before.
LEMMA EchoKept ==
  ASSUME NEW f \in Files, EchoFree(f), env' = env, writer'[f] = writer[f],
         local'[f] = local[f], remote'[f] = remote[f], fileMap'[f] = fileMap[f], watched'[f] = watched[f],
         tar'[f] = tar[f], Deleting(f)' <=> Deleting(f), Downloading(f)' <=> Downloading(f),
         f \in todo' <=> f \in todo, downPhase' = downPhase, f \in events' => f \in events,
         Copied(f)' <=> Copied(f), writer[f] = "remote" /\ ~Pends(f) => ~Pends(f)'
  PROVE  EchoFree(f)'
<1>1. (Matched(f)' <=> Matched(f)) /\ (MatchedOrKept(f)' <=> MatchedOrKept(f))
  BY DEF Matched, MatchedOrKept, UploadExcluded
<1>2. CASE writer[f] = "remote"
  BY <1>1, <1>2, PendsNames DEF EchoFree, FromRemote, DownloadExcluded
<1>3. CASE writer[f] # "remote"
  BY <1>1, <1>3 DEF EchoFree, FromLocal, DownloadExcluded
<1> QED
  BY <1>2, <1>3

\* The users take turns.
LEMMA UserEcho ==
  ASSUME EchoInv, Calm, UserNext PROVE \A f \in Files : EchoFree(f)'
<1> USE DEF EchoInv
<1>1. PICK f \in Files : LocalWrite(f) \/ LocalDelete(f) \/ RemoteWrite(f) \/ RemoteDelete(f)
  BY DEF UserNext
<1>2. PICK side \in {"local", "remote"}, t \in Moments :
        /\ Edit(side, f, t)
        /\ side = "local" => LocalWrite(f) \/ LocalDelete(f)
        /\ side = "remote" => RemoteWrite(f) \/ RemoteDelete(f)
  BY <1>1 DEF LocalWrite, LocalDelete, RemoteWrite, RemoteDelete
<1>3. /\ clock' = t /\ clock \in Nat /\ t \in Nat /\ clock < t /\ writer' = [writer EXCEPT ![f] = side]
      /\ UNCHANGED <<fileMap, watched, upVars, downVars, env>> /\ MayEdit(side, f)
  BY <1>2, MomentsLater DEF Edit, Moments, TypeOK
<1>4. /\ UNCHANGED <<fileMap, watched, upPhase, changes, creates, tar, todo, outFile, deletes, downloads, downPhase, env>>
      /\ \A g \in Files : g # f => local'[g] = local[g] /\ remote'[g] = remote[g] /\ writer'[g] = writer[g]
                                   /\ (g \in events' <=> g \in events)
      /\ writer'[f] = side
  BY <1>1, <1>3 DEF LocalWrite, LocalDelete, RemoteWrite, RemoteDelete, upVars, downVars, TypeOK
<1>10. \A g \in Files : (Copied(g)' <=> Copied(g)) /\ (Copied(g) => Downloading(g))
  BY <1>4, CopiedFacts DEF Copied, NoneOpen
<1>5. \A g \in Files : (Deleting(g)' <=> Deleting(g)) /\ (Downloading(g)' <=> Downloading(g)) /\ (Pends(g)' <=> Pends(g))
  BY <1>4 DEF Deleting, Downloading, Pends, Pending
<1>6. ASSUME NEW g \in Files, g # f PROVE EchoFree(g)'
  BY <1>4, <1>5, <1>6, <1>10, EchoKept
<1>7. writer[f] = side \/ (Settled(f) /\ ~Deleting(f) /\ ~Downloading(f) /\ ~Pends(f) /\ f \notin events)
  BY <1>3 DEF MayEdit, Calm, Settled, Deleting, Downloading, Names, Pends
<1>8. CASE side = "local"
  <2>1. remote'[f] = remote[f]
    BY <1>2, <1>8 DEF LocalWrite, LocalDelete
  <2>2. ~Deleting(f) /\ ~Downloading(f)
    BY <1>7, <1>8 DEF EchoFree, FromLocal
  <2>3. f \notin DownloadExcluded => MatchedOrKept(f)
    <3>1. CASE writer[f] = "local"
      BY <3>1 DEF EchoFree, FromLocal
    <3>2. CASE writer[f] # "local"
      <4>1. writer[f] = "remote" /\ watched[f] = StatOf(remote[f])
        BY <1>7, <1>8, <3>2 DEF Settled, TypeOK
      <4> QED
        BY <2>2, <4>1 DEF EchoFree, FromRemote, MatchedOrKept
    <3> QED
      BY <3>1, <3>2
  <2>4. MatchedOrKept(f)' <=> MatchedOrKept(f)
    BY <1>4, <2>1 DEF MatchedOrKept, Matched, UploadExcluded
  <2>5. FromLocal(f)'
    BY <1>4, <1>5, <2>2, <2>3, <2>4 DEF FromLocal, DownloadExcluded
  <2> QED
    BY <1>4, <1>6, <1>8, <2>5 DEF EchoFree
<1>9. CASE side = "remote"
  <2>1. local'[f] = local[f] /\ (f \in events' <=> f \in events)
    BY <1>2, <1>9 DEF RemoteWrite, RemoteDelete
  <2>2. /\ ~Pends(f) /\ (f \in events /\ ~Copied(f) => fileMap[f] = InfoOf(local[f]))
        /\ Copied(f) => local[f] # Absent /\ local[f].data = tar[f].data
    BY <1>7, <1>9, <1>10, PendsNames DEF EchoFree, FromRemote
  <2>3. \/ remote'[f] \in Version /\ remote'[f].tick = t
        \/ remote'[f] = Absent /\ remote[f] \in Version
    <3>1. CASE RemoteWrite(f)
      <4>1. PICK u \in Moments : Edit("remote", f, u) /\ \E v \in NewVersions(u) : remote' = [remote EXCEPT ![f] = v]
        BY <3>1 DEF RemoteWrite
      <4>2. u = t
        BY <1>3, <4>1 DEF Edit
      <4>3. PICK v \in NewVersions(t) : remote' = [remote EXCEPT ![f] = v]
        BY <4>1, <4>2
      <4>4. v.tick = t /\ v \in Version
        BY <1>3, <4>3, EnvironmentAssumption DEF NewVersions, Calm, Version, TypeOK, Environment
      <4> QED
        BY <4>3, <4>4 DEF TypeOK
    <3>2. CASE RemoteDelete(f)
      BY <3>2 DEF RemoteDelete, TypeOK
    <3> QED
      BY <1>2, <1>9, <3>1, <3>2
  <2>4. CASE remote'[f] \in Version /\ remote'[f].tick = t
    <3>1. /\ fileMap[f] # Absent => fileMap[f].mtime <= Sec(t)
          /\ local[f] # Absent => Sec(local[f].tick) <= Sec(t)
          /\ tar[f] # Absent => Sec(tar[f].tick) <= Sec(t)
          /\ watched[f] # Absent => watched[f].tick # t
      <4>1. /\ fileMap[f] # Absent => fileMap[f].mtime <= Sec(t)
            /\ local[f] # Absent => local[f].tick <= t
            /\ tar[f] # Absent => tar[f].tick <= t
        BY <1>3, PastStays
      <4>2. watched[f] # Absent => watched[f].tick <= clock /\ watched[f].tick \in Nat
        BY DEF TimesPast, TypeOK, Stat
      <4>3. /\ local[f] # Absent => local[f].tick \in Nat
            /\ tar[f] # Absent => tar[f].tick \in Nat
        BY VersionFacts DEF TypeOK
      <4>4. \A n \in Nat : n <= t => Sec(n) <= Sec(t)
        BY <1>3, SecFacts
      <4>5. watched[f] # Absent => watched[f].tick # t
        BY <1>3, <4>2
      <4> QED
        BY <4>1, <4>3, <4>4, <4>5
    <3>2. watched[f] # StatOf(remote'[f])
      BY <2>4, <3>1, VersionFacts
    <3>3. FromRemote(f)'
      BY <1>4, <1>5, <1>10, <2>1, <2>2, <2>4, <3>1, <3>2, PendsNames DEF FromRemote
    <3> QED
      BY <1>4, <1>6, <1>9, <3>3 DEF EchoFree
  <2>5. CASE remote'[f] = Absent /\ remote[f] \in Version
    <3>1. Downloading(f) => watched[f] # Absent
      BY DEF DownInHand
    <3>2. StatOf(remote'[f]) = Absent
      BY <2>5 DEF StatOf
    <3>3. FromRemote(f)'
      BY <1>4, <1>5, <1>10, <2>1, <2>2, <2>5, <3>1, <3>2, PendsNames DEF FromRemote, Matched
    <3> QED
      BY <1>4, <1>6, <1>9, <3>3 DEF EchoFree
  <2> QED
    BY <2>3, <2>4, <2>5
<1> QED
  BY <1>8, <1>9

\* What ApplyRemoves removes.
Removing == Names({i \in DOMAIN changes : changes[i].mtime = 0})

\* In calm nothing fails ...
LEMMA CalmRemoves ==
  ASSUME TypeOK, Calm, ApplyRemoves
  PROVE  /\ \A f \in Files : /\ fileMap'[f] = IF f \in Removing THEN Absent ELSE fileMap[f]
                             /\ remote'[f] = IF f \in Removing THEN Absent ELSE remote[f]
         /\ upPhase = "gather"
         /\ \/ ReleaseIndex /\ {i \in DOMAIN changes : changes[i].mtime > 0} = {}
            \/ /\ upPhase' = "create" /\ creates' = {i \in DOMAIN changes : changes[i].mtime > 0}
               /\ UNCHANGED <<changes, uploads>>
         /\ UNCHANGED <<local, watched, events, downVars, stopped, userVars>>
<1>1. ~(upErrors < env.maxUploadErrors)
  BY DEF Calm, TypeOK
<1> QED
  BY <1>1 DEF ApplyRemoves, Removing

\* ... and no call is repeated.
LEMMA CalmSteps ==
  ASSUME TypeOK, Calm, [Next]_vars
  PROVE  /\ env' = env /\ stopped' = stopped
         /\ \/ UNCHANGED vars \/ UserNext \/ UpStep \/ DownStep
<1>1. ~(upErrors < env.maxUploadErrors) /\ ~(downErrors < env.maxDownloadErrors)
  BY DEF Calm, TypeOK
<1>2. ~FilterError /\ ~UploadError /\ ~DownloadError /\ \A f \in Files : ~UntarError(f)
  BY <1>1 DEF FilterError, UploadError, RetryUpload, RetryDownload, DownloadError, UntarError
<1>3. env' = env
  BY <1>2 DEF Next, UserNext, LocalWrite, LocalDelete, RemoteWrite, RemoteDelete, Edit,
       UpNext, UpStep, EvaluateMissing, EvaluateExcluded, EvaluatePresent, Evaluate, ApplyRemoves,
       FilterChanges, UploadArchive, DownNext, DownStep, CountChanges, CollectChanges, RemoveLocal, FinishDownload,
       TarRemote, KeepNewer, OpenLocal, CopyLocal, CloseLocal, UntarNext, vars, userVars
<1>4. stopped' = stopped
  BY <1>2, CalmRemoves DEF Next, UserNext, LocalWrite, LocalDelete, RemoteWrite, RemoteDelete, Edit,
       UpNext, UpStep, EvaluateMissing, EvaluateExcluded, EvaluatePresent, Evaluate,
       FilterChanges, UploadArchive, DownNext, DownStep, CountChanges, CollectChanges, RemoveLocal, FinishDownload,
       TarRemote, KeepNewer, OpenLocal, CopyLocal, CloseLocal, UntarNext, vars
<1> QED
  BY <1>2, <1>3, <1>4 DEF Next, UpNext, DownNext

\* The index and the remote file are given the same time.
LEMMA TouchedTogether ==
  ASSUME TypeOK, NEW f \in ToCheck, remote[f] # Absent, fileMap[f] = InfoOf(remote[f])
  PROVE  IndexTouched[f] = InfoOf(RemoteTouched(ToCheck)[f]) /\ IndexTouched[f] # Absent
         /\ RemoteTouched(ToCheck)[f] \in Version /\ RemoteTouched(ToCheck)[f].data = remote[f].data
         /\ RemoteTouched(ToCheck)[f].tick = First(f).mtime * TicksPerSecond
<1>1. f \in Files /\ f \in Names(creates) /\ First(f).mtime \in Nat
  BY FirstType, NamesType DEF ToCheck, TypeOK, Change
<1>2. remote[f] \in Version
  BY <1>1 DEF TypeOK
<1> DEFINE r == remote[f]
           m == First(f).mtime
<1>3. IndexTouched[f] = [fileMap[f] EXCEPT !.mtime = m] /\ RemoteTouched(ToCheck)[f] = [r EXCEPT !.tick = m * TicksPerSecond]
  BY <1>1 DEF IndexTouched, RemoteTouched
<1>4. fileMap[f] = [mtime |-> Sec(r.tick), size |-> Size[r.data]]
  BY <1>2, VersionFacts
<1>5. IndexTouched[f] = [mtime |-> m, size |-> Size[r.data]]
  BY <1>3, <1>4
<1>6. m * TicksPerSecond \in Nat /\ Sec(m * TicksPerSecond) = m
  <2>1. \A n \in Nat : n * TicksPerSecond \in Nat
    OBVIOUS
  <2> QED
    BY <1>1, <2>1, SecFacts
<1>7. RemoteTouched(ToCheck)[f] \in Version /\ RemoteTouched(ToCheck)[f].data = r.data
      /\ RemoteTouched(ToCheck)[f].tick = m * TicksPerSecond
  BY <1>2, <1>3, <1>6 DEF Version
<1> QED
  BY <1>5, <1>6, <1>7, VersionFacts

\* The upstream loop carries no file last edited in the container, and what it uploads or
\* removes it notes in the index before the helper reports it (applyRemoves, applyCreates).
LEMMA UpEcho ==
  ASSUME EchoInv, Calm, UpStep PROVE \A f \in Files : EchoFree(f)'
<1> USE DEF EchoInv
<1>0. UNCHANGED <<local, watched, deletes, downloads, todo, tar, outFile, downPhase, writer, env>>
  BY DEF UpStep, EvaluateMissing, EvaluateExcluded, EvaluatePresent, Evaluate, ApplyRemoves, FilterChanges,
         UploadArchive, downVars, userVars
<1>1. \A f \in Files : (Deleting(f)' <=> Deleting(f)) /\ (Downloading(f)' <=> Downloading(f)) /\ (Copied(f)' <=> Copied(f))
  BY <1>0 DEF Deleting, Downloading, Copied, NoneOpen
<1>2. ASSUME NEW f \in Files, remote'[f] = remote[f], fileMap'[f] = fileMap[f], f \in events' => f \in events,
             writer[f] = "remote" => ~Pends(f)'
      PROVE  EchoFree(f)'
  BY <1>0, <1>1, <1>2, EchoKept
<1>3. \A f \in Files : writer[f] = "remote" => ~Pends(f)
  BY PendsNames DEF EchoFree, FromRemote
<1>4. ASSUME NEW f \in Files, writer[f] = "local", MatchedOrKept(f)'
      PROVE  EchoFree(f)'
  BY <1>0, <1>1, <1>4 DEF EchoFree, FromLocal
<1>5. ASSUME NEW f \in Files, writer[f] = "local", f \notin DownloadExcluded PROVE MatchedOrKept(f)
  BY <1>5 DEF EchoFree, FromLocal
<1>6. \A f \in Files : writer[f] \in {"local", "remote"}
  BY DEF TypeOK
<1>7. ASSUME NEW f \in Files, EvaluateMissing(f) \/ EvaluateExcluded(f) \/ EvaluatePresent(f),
             NEW g \in Files PROVE EchoFree(g)'
  <2>1. upPhase = "gather" /\ upPhase' = "gather" /\ f \in events /\ events' = events \ {f} /\ remote' = remote
        /\ ~Copied(f)
    BY <1>7 DEF EvaluateMissing, EvaluateExcluded, EvaluatePresent, Evaluate, Copied
  <2>2. CASE f # g
    <3>1. fileMap'[g] = fileMap[g]
      BY <1>7, <2>2 DEF EvaluateMissing, EvaluateExcluded, EvaluatePresent, TypeOK
    <3>2. Pends(g)' => Pends(g)
      <4>1. ASSUME NEW c \in Change, c.name = f, changes' = Append(changes, c) PROVE Pends(g)' => Pends(g)
        BY <2>1, <2>2, <4>1, AppendedChange DEF Pends, Pending
      <4>2. CASE changes' = changes
        BY <2>1, <4>2 DEF Pends, Pending
      <4>3. RemoveChange(f) \in Change /\ RemoveChange(f).name = f
        BY ChangeType DEF RemoveChange
      <4>4. local[f] # Absent => ChangeOf(f, InfoOf(local[f])) \in Change /\ ChangeOf(f, InfoOf(local[f])).name = f
        BY ChangeType, InfoType DEF ChangeOf, TypeOK
      <4> QED
        BY <1>7, <4>1, <4>2, <4>3, <4>4 DEF EvaluateMissing, EvaluateExcluded, EvaluatePresent
    <3> QED
      BY <1>2, <1>3, <2>1, <3>1, <3>2
  <2>3. CASE f = g
    <3>1. CASE writer[f] = "remote"
      <4>1. fileMap[f] = InfoOf(local[f])
        BY <2>1, <3>1 DEF EchoFree, FromRemote
      <4>2. local[f] = Absent => ~shouldRemoveRemote(f)
        BY <4>1 DEF shouldRemoveRemote, InfoOf
      <4>3. local[f] # Absent => /\ ~shouldUpload(ChangeOf(f, InfoOf(local[f])), fileMap)
                                 /\ ~(fileMap[f].mtime < Sec(local[f].tick))
        <5>1. ASSUME local[f] # Absent
              PROVE  /\ fileMap[f] = [mtime |-> Sec(local[f].tick), size |-> Size[local[f].data]]
                     /\ fileMap[f] # Absent /\ Sec(local[f].tick) \in Nat
          BY <4>1, <5>1, VersionFacts DEF TypeOK
        <5> QED
          BY <4>1, <5>1 DEF shouldUpload, ChangeOf, InfoIn
      <4>4. changes' = changes /\ fileMap' = fileMap
        BY <1>7, <4>2, <4>3 DEF EvaluateMissing, EvaluateExcluded, EvaluatePresent
      <4>5. Pends(f)' => Pends(f)
        BY <2>1, <4>4 DEF Pends, Pending
      <4> QED
        BY <1>2, <1>3, <2>1, <2>3, <4>4, <4>5
    <3>2. CASE writer[f] = "local"
      <4>1. CASE fileMap'[f] = fileMap[f]
        BY <1>2, <2>1, <2>3, <3>2, <4>1
      <4>2. CASE fileMap'[f] # fileMap[f]
        <5>1. f \in UploadExcluded /\ fileMap[f] # Absent /\ local[f] # Absent
              /\ fileMap[f].mtime < Sec(local[f].tick) /\ fileMap'[f] = InfoOf(local[f])
          BY <1>7, <4>2 DEF EvaluateMissing, EvaluateExcluded, EvaluatePresent, TypeOK
        <5>2. fileMap'[f] # Absent /\ fileMap'[f].mtime = Sec(local[f].tick) /\ Sec(local[f].tick) \in Nat
              /\ fileMap[f].mtime \in Nat
          BY <5>1, VersionFacts DEF TypeOK, Info
        <5>3. ASSUME f \notin DownloadExcluded PROVE MatchedOrKept(f)'
          <6>1. MatchedOrKept(f)
            BY <1>5, <3>2, <5>3
          <6>2. CASE remote[f] = Absent
            <7>1. watched[f] = Absent
              BY <5>1, <6>1, <6>2 DEF MatchedOrKept, Matched, InfoOf
            <7> QED
              BY <1>0, <2>1, <6>2, <7>1 DEF MatchedOrKept, Matched
          <6>3. CASE remote[f] # Absent
            <7>1. Sec(remote[f].tick) \in Nat /\ InfoOf(remote[f]).mtime = Sec(remote[f].tick)
              BY <6>3, VersionFacts DEF TypeOK
            <7>2. fileMap[f].mtime >= Sec(remote[f].tick)
              BY <5>2, <6>1, <6>3, <7>1 DEF MatchedOrKept, Matched
            <7>3. fileMap'[f].mtime > Sec(remote[f].tick)
              BY <5>1, <5>2, <7>1, <7>2
            <7> QED
              BY <1>0, <2>1, <5>1, <5>2, <6>3, <7>3 DEF MatchedOrKept, UploadExcluded
          <6> QED
            BY <6>2, <6>3
        <5> QED
          BY <1>0, <1>1, <1>4, <2>3, <3>2, <5>3 DEF EchoFree, FromLocal, DownloadExcluded
      <4> QED
        BY <4>1, <4>2
    <3> QED
      BY <1>6, <3>1, <3>2
  <2> QED
    BY <2>2, <2>3
<1>8. ASSUME ApplyRemoves, NEW f \in Files PROVE EchoFree(f)'
  <2>1. /\ fileMap'[f] = IF f \in Removing THEN Absent ELSE fileMap[f]
        /\ remote'[f] = IF f \in Removing THEN Absent ELSE remote[f]
        /\ upPhase = "gather" /\ events' = events
        /\ \/ ReleaseIndex
           \/ upPhase' = "create" /\ creates' \subseteq DOMAIN changes /\ changes' = changes
    BY <1>8, CalmRemoves
  <2>2. Pends(f)' => Pends(f)
    BY <2>1 DEF Pends, Pending, ReleaseIndex
  <2>3. f \in Removing => Pends(f)
    BY <2>1 DEF Removing, Names, Pends, Pending
  <2>4. CASE f \notin Removing
    BY <1>2, <1>3, <2>1, <2>2, <2>4
  <2>5. CASE f \in Removing
    <3>1. writer[f] = "local"
      BY <1>3, <1>6, <2>3, <2>5
    <3>2. MatchedOrKept(f)'
      BY <2>1, <2>5 DEF MatchedOrKept, Matched, InfoOf
    <3> QED
      BY <1>4, <3>1, <3>2
  <2> QED
    BY <2>4, <2>5
<1>9. ASSUME FilterChanges, NEW f \in Files PROVE EchoFree(f)'
  <2>1. /\ fileMap' = IndexTouched /\ remote' = RemoteTouched(ToCheck) /\ upPhase # "gather" /\ events' = events
        /\ \/ ReleaseIndex
           \/ upPhase' = "upload" /\ creates' = creates /\ changes' = changes
    BY <1>9 DEF FilterChanges, Filter
  <2>2. Pends(f)' => Pends(f)
    BY <2>1 DEF Pends, Pending, ReleaseIndex
  <2>3. CASE f \notin ToCheck
    <3>1. fileMap'[f] = fileMap[f] /\ remote'[f] = remote[f]
      BY <2>1, <2>3 DEF IndexTouched, RemoteTouched
    <3> QED
      BY <1>2, <1>3, <2>1, <2>2, <3>1
  <2>4. CASE f \in ToCheck
    <3>1. Pends(f) /\ f \in Names(creates)
      BY <2>1, <2>4 DEF ToCheck, Names, Pends, Pending
    <3>2. writer[f] = "local" /\ f \notin UploadExcluded
      BY <1>3, <1>6, <3>1, CreatesNotExcluded
    <3>3. ASSUME f \notin DownloadExcluded PROVE Matched(f)'
      <4>1. Matched(f)
        BY <1>5, <3>2, <3>3 DEF MatchedOrKept
      <4>2. fileMap[f] # Absent
        BY <2>4 DEF ToCheck, SameSize
      <4>3. CASE remote[f] = Absent
        <5>1. watched[f] = Absent /\ remote'[f] = Absent
          BY <2>1, <4>1, <4>2, <4>3 DEF Matched, InfoOf, RemoteTouched
        <5> QED
          BY <1>0, <5>1 DEF Matched
      <4>4. CASE remote[f] # Absent
        <5>1. fileMap[f] = InfoOf(remote[f])
          BY <4>1, <4>4 DEF Matched
        <5> QED
          BY <2>1, <2>4, <4>4, <5>1, TouchedTogether DEF Matched
      <4> QED
        BY <4>3, <4>4
    <3> QED
      BY <1>0, <1>1, <3>2, <3>3 DEF EchoFree, FromLocal, DownloadExcluded, MatchedOrKept
  <2> QED
    BY <2>3, <2>4
<1>10. ASSUME UploadArchive, NEW f \in Files PROVE EchoFree(f)'
  <2>1. /\ fileMap' = IndexUploaded(Archivable) /\ remote' = RemoteUntarred(Archivable) /\ upPhase = "upload"
        /\ events' = events /\ ReleaseIndex
    BY <1>10 DEF UploadArchive
  <2>2. ~Pends(f)'
    BY <2>1 DEF Pends, Pending, ReleaseIndex
  <2>3. CASE f \notin Archivable
    <3>1. fileMap'[f] = fileMap[f] /\ remote'[f] = remote[f]
      BY <2>1, <2>3 DEF IndexUploaded, RemoteUntarred
    <3> QED
      BY <1>2, <2>1, <2>2, <3>1
  <2>4. CASE f \in Archivable
    <3>1. Pends(f) /\ local[f] \in Version
      BY <2>1, <2>4 DEF Archivable, UpInHand, Names, Pends, Pending, TypeOK
    <3>2. writer[f] = "local"
      BY <1>3, <1>6, <3>1
    <3>3. fileMap'[f] = InfoOf(local[f]) /\ remote'[f] = Archived(local[f])
      BY <2>1, <2>4 DEF IndexUploaded, RemoteUntarred
    <3>4. Matched(f)'
      BY <3>1, <3>3, ArchivedInfo DEF Matched
    <3> QED
      BY <1>4, <3>2, <3>4 DEF MatchedOrKept
  <2> QED
    BY <2>3, <2>4
<1> QED
  BY <1>7, <1>8, <1>9, <1>10 DEF UpStep

\* Users who take turns delete no directory that holds files being edited.
LEMMA CalmSweeps == ASSUME TypeOK, Calm PROVE Sweeps = {{}}
<1>1. env.folder = {}
  BY EnvironmentAssumption DEF Calm, TypeOK
<1> QED
  BY <1>1 DEF Sweeps

\* The downstream loop notes what it writes and removes in the index before the watcher
\* reports it (remove, untarNext), and collects no report the index already accounts for.
LEMMA DownEcho ==
  ASSUME EchoInv, Calm, DownStep PROVE \A f \in Files : EchoFree(f)'
<1> USE DEF EchoInv
<1>0. UNCHANGED <<remote, writer, env, upPhase, changes, creates>>
  BY DEF DownStep, CountChanges, CollectChanges, RemoveLocal, FinishDownload, TarRemote, KeepNewer, OpenLocal,
         CopyLocal, CloseLocal, UntarNext, upVars, userVars
<1>1. \A f \in Files : (Pends(f)' <=> Pends(f)) /\ (writer[f] = "remote" => ~Pends(f))
  BY <1>0, PendsNames DEF EchoFree, FromRemote, Pends, Pending
<1>2. \A f \in Files : writer[f] \in {"local", "remote"}
  BY DEF TypeOK
<1>3. \A f \in Files : Matched(f) => MatchedOrKept(f)
  BY DEF MatchedOrKept
<1>10. ASSUME UNCHANGED outFile PROVE \A f \in Files : Copied(f)' <=> Copied(f)
  BY <1>10 DEF Copied, NoneOpen
<1>11. \A f \in Files : Copied(f) => tar[f] # Absent /\ Downloading(f) /\ downPhase = "download" /\ f \notin todo
  BY CopiedFacts
<1>4. CASE CountChanges
  BY <1>0, <1>1, <1>4, <1>10, EchoKept DEF CountChanges, Deleting, Downloading
<1>5. ASSUME CollectChanges, NEW f \in Files PROVE EchoFree(f)'
  <2>1. /\ downPhase = "idle" /\ deletes = {} /\ downloads = {} /\ todo = {} /\ tar[f] = Absent
        /\ UNCHANGED <<local, fileMap, events, todo, tar>> /\ downPhase' # "download"
        /\ watched'[f] = StatOf(remote[f]) /\ ~Copied(f) /\ ~Copied(f)'
    BY <1>5, <1>10, <1>11 DEF CollectChanges, DownInHand, Reported
  <2>2. Deleting(f)' => /\ f \notin DownloadExcluded /\ remote[f] = Absent /\ watched[f] # Absent
                        /\ local[f] # Absent /\ fileMap[f] # Absent
    <3> SUFFICES ASSUME Deleting(f)' PROVE /\ f \notin DownloadExcluded /\ remote[f] = Absent /\ watched[f] # Absent
                                           /\ local[f] # Absent /\ fileMap[f] # Absent
      OBVIOUS
    <3>1. PICK c \in deletes' : c.name = f
      BY DEF Deleting
    <3>2. c \in Deletes /\ f \notin DownloadExcluded /\ local[f] # Absent /\ fileMap[f] # Absent
      BY <1>5, <3>1 DEF CollectChanges, NotIgnored, shouldRemoveLocal
    <3>3. remote[f] = Absent /\ watched[f] # StatOf(remote[f])
      BY <3>1, <3>2 DEF Deletes, Differing
    <3> QED
      BY <3>2, <3>3 DEF StatOf
  <2>3. remote[f] # Absent => /\ InfoOf(remote[f]) = [mtime |-> Sec(remote[f].tick), size |-> Size[remote[f].data]]
                              /\ Sec(remote[f].tick) \in Nat
    BY VersionFacts DEF TypeOK
  <2>4. Downloading(f)' => /\ f \notin DownloadExcluded /\ remote[f] # Absent /\ watched[f] # StatOf(remote[f])
                           /\ shouldDownload(ChangeOf(f, InfoOf(remote[f])))
    BY <1>5 DEF CollectChanges, Downloading, Modifies, Differing, NotIgnored, ChangeOf
  <2>5. CASE writer[f] = "remote"
    <3>1. ASSUME f \notin DownloadExcluded, ~Deleting(f)', ~Downloading(f)' PROVE Matched(f)'
      <4>1. CASE watched[f] = StatOf(remote[f])
        <5>1. Matched(f)
          BY <2>1, <2>5, <3>1, <4>1 DEF EchoFree, FromRemote, Deleting, Downloading
        <5> QED
          BY <1>0, <2>1, <4>1, <5>1 DEF Matched
      <4>2. CASE remote[f] = Absent
        BY <1>0, <2>1, <4>2 DEF Matched, StatOf
      <4>3. CASE watched[f] # StatOf(remote[f]) /\ remote[f] # Absent
        <5> DEFINE c == ChangeOf(f, InfoOf(remote[f]))
        <5>1. c \in Modifies /\ c.name = f
          BY <4>3 DEF Modifies, Differing, ChangeOf
        <5>2. ~shouldDownload(c)
          <6>1. c \notin downloads'
            BY <3>1, <5>1 DEF Downloading
          <6> QED
            BY <1>5, <3>1, <5>1, <6>1 DEF CollectChanges, NotIgnored
        <5>3. fileMap[f] # Absent /\ ~(Sec(remote[f].tick) > fileMap[f].mtime)
              /\ (Sec(remote[f].tick) = fileMap[f].mtime => Size[remote[f].data] = fileMap[f].size)
          BY <2>3, <4>3, <5>2 DEF shouldDownload, ChangeOf
        <5>4. fileMap[f] \in Info
          BY <5>3 DEF TypeOK
        <5>5. fileMap[f].mtime <= Sec(remote[f].tick)
          BY <2>5, <4>3, <5>3 DEF EchoFree, FromRemote
        <5>6. fileMap[f] = InfoOf(remote[f])
          BY <2>3, <4>3, <5>3, <5>4, <5>5 DEF Info
        <5> QED
          BY <1>0, <2>1, <5>6 DEF Matched
      <4> QED
        BY <4>1, <4>2, <4>3
    <3>2. FromRemote(f)'
      BY <1>0, <1>1, <2>1, <2>5, <3>1, PendsNames DEF EchoFree, FromRemote, DownloadExcluded
    <3> QED
      BY <1>0, <2>5, <3>2 DEF EchoFree
  <2>6. CASE writer[f] = "local"
    <3>0. f \notin DownloadExcluded => MatchedOrKept(f)
      BY <2>6 DEF EchoFree, FromLocal
    <3>1. ~Deleting(f)'
      BY <2>2, <3>0 DEF MatchedOrKept, Matched, InfoOf
    <3>2. ~Downloading(f)'
      <4> SUFFICES ASSUME Downloading(f)' PROVE FALSE
        OBVIOUS
      <4>1. f \notin DownloadExcluded /\ remote[f] # Absent /\ shouldDownload(ChangeOf(f, InfoOf(remote[f])))
        BY <2>4
      <4>2. MatchedOrKept(f)
        BY <3>0, <4>1
      <4>3. \/ fileMap[f] = Absent
            \/ Sec(remote[f].tick) > fileMap[f].mtime
            \/ Sec(remote[f].tick) = fileMap[f].mtime /\ Size[remote[f].data] # fileMap[f].size
        BY <2>3, <4>1 DEF shouldDownload, ChangeOf
      <4>4. CASE Matched(f)
        <5>1. fileMap[f] = [mtime |-> Sec(remote[f].tick), size |-> Size[remote[f].data]] /\ fileMap[f] # Absent
          BY <2>3, <4>1, <4>4, VersionFacts DEF Matched, TypeOK
        <5> QED
          BY <2>3, <4>1, <4>3, <5>1
      <4>5. CASE ~Matched(f)
        <5>1. fileMap[f] # Absent /\ fileMap[f].mtime > Sec(remote[f].tick)
          BY <4>2, <4>5 DEF MatchedOrKept
        <5>2. fileMap[f].mtime \in Nat
          BY <5>1 DEF TypeOK, Info
        <5> QED
          BY <2>3, <4>1, <4>3, <5>1, <5>2
      <4> QED
        BY <4>4, <4>5
    <3>3. f \notin DownloadExcluded => MatchedOrKept(f)'
      <4>1. Matched(f) => Matched(f)'
        BY <1>0, <2>1 DEF Matched, StatOf
      <4> QED
        BY <1>0, <2>1, <3>0, <4>1 DEF MatchedOrKept, UploadExcluded
    <3> QED
      BY <1>0, <2>6, <3>1, <3>2, <3>3 DEF EchoFree, FromLocal, DownloadExcluded
  <2> QED
    BY <1>2, <2>5, <2>6
<1>6. ASSUME RemoveLocal, NEW f \in Files PROVE EchoFree(f)'
  <2>1. /\ downPhase = "remove" /\ todo = {} /\ tar[f] = Absent /\ deletes' = {}
        /\ UNCHANGED <<watched, tar, downloads>> /\ todo' = Named(downloads) /\ ~Copied(f) /\ ~Copied(f)'
    BY <1>6, <1>10, <1>11 DEF RemoveLocal, RequestDownload, DownInHand
  <2>8. Sweep({})
    BY <1>6, CalmSweeps DEF RemoveLocal
  <2>9. fileMap'[f] = IF Deleting(f) THEN Absent ELSE fileMap[f]
    BY <2>8 DEF Sweep, Named, Deleting
  <2>2. ~Deleting(f)' /\ (Downloading(f)' <=> Downloading(f)) /\ (Downloading(f)' => f \in todo')
    BY <2>1 DEF Deleting, Downloading, Named
  <2>3. \/ local'[f] = local[f] /\ (f \in events' <=> f \in events)
        \/ Deleting(f) /\ local'[f] = Absent
    BY <2>8 DEF Sweep, Removed, Named, Deleting
  <2>4. \A c \in deletes : c.name = f /\ shouldRemoveLocal(c) => local'[f] = Absent
    BY <2>8 DEF Sweep, Removed, Named
  <2>5. Deleting(f) => watched[f] = Absent
    BY DEF DownInHand
  <2>6. CASE writer[f] = "remote"
    <3>1. f \in events' => fileMap'[f] = InfoOf(local'[f])
      <4>1. CASE local'[f] = Absent /\ Deleting(f)
        BY <2>1, <2>9, <4>1 DEF InfoOf
      <4>2. CASE Deleting(f) /\ local'[f] # Absent
        <5> SUFFICES ASSUME f \in events' PROVE FALSE
          OBVIOUS
        <5>1. local'[f] = local[f] /\ f \in events /\ local[f] # Absent
          BY <2>3, <4>2
        <5>2. fileMap[f] = InfoOf(local[f])
          BY <2>1, <2>6, <5>1 DEF EchoFree, FromRemote
        <5>3. fileMap[f] = [mtime |-> Sec(local[f].tick), size |-> Size[local[f].data]] /\ fileMap[f] # Absent
              /\ Sec(local[f].tick) \in Nat
          BY <5>1, <5>2, VersionFacts DEF TypeOK
        <5>4. PICK c \in deletes : c.name = f
          BY <4>2 DEF Deleting
        <5>5. shouldRemoveLocal(c)
          BY <5>1, <5>3, <5>4 DEF shouldRemoveLocal, InfoIn
        <5> QED
          BY <2>4, <4>2, <5>4, <5>5
      <4>3. CASE ~Deleting(f)
        BY <2>1, <2>9, <2>3, <2>6, <4>3 DEF EchoFree, FromRemote
      <4> QED
        BY <4>1, <4>2, <4>3
    <3>2. f \notin DownloadExcluded /\ watched'[f] = StatOf(remote'[f]) /\ ~Downloading(f)' => Matched(f)'
      <4> SUFFICES ASSUME f \notin DownloadExcluded, watched[f] = StatOf(remote[f]), ~Downloading(f)
                   PROVE  Matched(f)'
        BY <1>0, <2>1, <2>9, <2>2
      <4>1. CASE Deleting(f)
        <5>1. watched[f] = Absent /\ remote[f] = Absent
          BY <2>5, <4>1, VersionFacts DEF TypeOK
        <5> QED
          BY <1>0, <2>1, <2>9, <5>1 DEF Matched
      <4>2. CASE ~Deleting(f)
        <5>1. Matched(f)
          BY <2>6, <4>2 DEF EchoFree, FromRemote
        <5> QED
          BY <1>0, <2>1, <2>9, <4>2, <5>1 DEF Matched
      <4> QED
        BY <4>1, <4>2
    <3>3. FromRemote(f)
      BY <2>6 DEF EchoFree
    <3>4. remote'[f] # Absent =>
            /\ fileMap'[f] # Absent => fileMap'[f].mtime <= Sec(remote'[f].tick)
            /\ local'[f] # Absent => Sec(local'[f].tick) <= Sec(remote'[f].tick)
            /\ tar'[f] # Absent => Sec(tar'[f].tick) <= Sec(remote'[f].tick)
      BY <1>0, <2>1, <2>9, <2>3, <3>3 DEF FromRemote
    <3>5. FromRemote(f)'
      BY <1>0, <1>1, <2>1, <2>9, <2>2, <2>6, <3>1, <3>2, <3>4, PendsNames DEF FromRemote, DownloadExcluded
    <3> QED
      BY <1>0, <2>6, <3>5 DEF EchoFree
  <2>7. CASE writer[f] = "local"
    <3>1. ~Deleting(f) /\ ~Downloading(f) /\ (f \notin DownloadExcluded => MatchedOrKept(f))
      BY <2>7 DEF EchoFree, FromLocal
    <3>2. MatchedOrKept(f)' <=> MatchedOrKept(f)
      BY <1>0, <2>1, <2>9, <3>1 DEF MatchedOrKept, Matched, UploadExcluded
    <3> QED
      BY <1>0, <2>2, <2>7, <3>1, <3>2 DEF EchoFree, FromLocal, DownloadExcluded
  <2> QED
    BY <1>2, <2>6, <2>7
<1>7. ASSUME FinishDownload, NEW f \in Files PROVE EchoFree(f)'
  <2>1. /\ downPhase = "download" /\ downPhase' = "idle" /\ downloads' = {} /\ deletes = {} /\ deletes' = {}
        /\ todo = {} /\ tar[f] = Absent /\ UNCHANGED <<local, fileMap, watched, events, todo, tar>>
        /\ ~Copied(f) /\ ~Copied(f)'
    BY <1>7, <1>10, <1>11 DEF FinishDownload, DownInHand
  <2>2. ~Deleting(f) /\ ~Deleting(f)' /\ ~Downloading(f)'
    BY <2>1 DEF Deleting, Downloading
  <2>3. CASE writer[f] = "remote"
    <3>1. FromRemote(f)
      BY <2>3 DEF EchoFree
    <3>2. f \notin DownloadExcluded /\ watched[f] = StatOf(remote[f]) => Matched(f)
      BY <2>1, <2>2, <3>1 DEF FromRemote, Matched
    <3>3. Matched(f)' <=> Matched(f)
      BY <1>0, <2>1 DEF Matched
    <3>4. FromRemote(f)'
      BY <1>0, <1>1, <2>1, <2>2, <2>3, <3>1, <3>2, <3>3, PendsNames DEF FromRemote, DownloadExcluded
    <3> QED
      BY <1>0, <2>3, <3>4 DEF EchoFree
  <2>4. CASE writer[f] = "local"
    <3>1. MatchedOrKept(f)' <=> MatchedOrKept(f)
      BY <1>0, <2>1 DEF MatchedOrKept, Matched, UploadExcluded
    <3> QED
      BY <1>0, <2>2, <2>4, <3>1 DEF EchoFree, FromLocal, DownloadExcluded
  <2> QED
    BY <1>2, <2>3, <2>4
<1>8. ASSUME NEW g \in Files, TarRemote(g), NEW f \in Files PROVE EchoFree(f)'
  <2>1. /\ downPhase = "download" /\ g \in todo /\ todo' = todo \ {g}
        /\ UNCHANGED <<local, fileMap, watched, events, downPhase, deletes, downloads>>
        /\ tar'[f] = IF f = g /\ remote[f] # Absent THEN Archived(remote[f]) ELSE tar[f]
        /\ Copied(f)' <=> Copied(f)
    BY <1>8, <1>10 DEF TarRemote, TypeOK
  <2>2. (Deleting(f)' <=> Deleting(f)) /\ (Downloading(f)' <=> Downloading(f))
    BY <2>1 DEF Deleting, Downloading
  <2>3. CASE f # g
    BY <1>0, <1>1, <2>1, <2>2, <2>3, EchoKept
  <2>4. CASE f = g
    <3>1. Downloading(f) /\ watched[f] # Absent /\ tar[f] = Absent /\ ~Copied(f)
      BY <1>11, <2>1, <2>4 DEF DownInHand
    <3>2. writer[f] = "remote" /\ FromRemote(f)
      BY <1>2, <3>1 DEF EchoFree, FromLocal
    <3>3. CASE remote[f] = Absent
      <4>1. watched[f] # StatOf(remote[f])
        BY <3>1, <3>3 DEF StatOf
      <4>2. FromRemote(f)'
        BY <1>0, <1>1, <2>1, <2>2, <3>1, <3>2, <3>3, <4>1, PendsNames DEF FromRemote
      <4> QED
        BY <1>0, <3>2, <4>2 DEF EchoFree
    <3>4. CASE remote[f] # Absent
      <4>1. remote[f] \in Version
        BY <3>4 DEF TypeOK
      <4>2. tar'[f] = Archived(remote[f]) /\ tar'[f] # Absent /\ InfoOf(tar'[f]) = InfoOf(remote[f])
            /\ Sec(tar'[f].tick) <= Sec(remote[f].tick)
        BY <2>1, <2>4, <3>4, <4>1, VersionFacts, ArchivedInfo, SecFacts
      <4>3. FromRemote(f)'
        BY <1>0, <1>1, <2>1, <2>2, <3>1, <3>2, <4>2, PendsNames DEF FromRemote
      <4> QED
        BY <1>0, <3>2, <4>3 DEF EchoFree
    <3> QED
      BY <3>3, <3>4
  <2> QED
    BY <2>3, <2>4
<1>9. ASSUME NEW g \in Files, KeepNewer(g), NEW f \in Files PROVE EchoFree(f)'
  <2>1. /\ downPhase = "download" /\ tar[g] # Absent /\ tar'[g] = Absent /\ ~Copied(f) /\ ~Copied(f)'
        /\ UNCHANGED <<local, events, watched, downPhase, deletes, downloads, todo>>
    BY <1>9, <1>10 DEF KeepNewer, UntarNext, Copied, TypeOK
  <2>2. (Deleting(f)' <=> Deleting(f)) /\ (Downloading(f)' <=> Downloading(f))
    BY <2>1 DEF Deleting, Downloading
  <2>3. CASE f # g
    <3>1. fileMap'[f] = fileMap[f] /\ tar'[f] = tar[f]
      BY <1>9, <2>3 DEF KeepNewer, TypeOK
    <3> QED
      BY <1>0, <1>1, <2>1, <2>2, <3>1, EchoKept
  <2>4. CASE f = g
    <3>1. Downloading(f) /\ watched[f] # Absent /\ f \notin todo
      BY <2>1, <2>4 DEF DownInHand
    <3>2. writer[f] = "remote" /\ FromRemote(f)
      BY <1>2, <3>1 DEF EchoFree, FromLocal
    <3>3. tar[f] \in Version /\ Sec(tar[f].tick) \in Nat /\ InfoOf(tar[f]).mtime = Sec(tar[f].tick)
      BY <2>1, <2>4, VersionFacts DEF TypeOK
    <3>4. NewerLocally(f) /\ fileMap'[f] = InfoOf(local[f])
      BY <1>9, <2>4 DEF KeepNewer, TypeOK
    <3>5. local[f] # Absent => InfoOf(local[f]).mtime = Sec(local[f].tick) /\ Sec(local[f].tick) \in Nat
      BY VersionFacts DEF TypeOK
    <3>6. remote[f] # Absent => (local[f] # Absent => Sec(local[f].tick) <= Sec(remote[f].tick))
      BY <2>1, <3>2 DEF FromRemote
    <3>7. fileMap'[f] # Absent => local[f] # Absent
      BY <3>4 DEF InfoOf
    <3>8. ASSUME f \notin DownloadExcluded, watched[f] = StatOf(remote[f]) PROVE FALSE
      <4>1. InfoOf(tar[f]) = InfoOf(remote[f]) /\ remote[f] # Absent
        BY <2>1, <2>4, <3>1, <3>2, <3>8 DEF FromRemote, StatOf
      <4>2. Sec(tar[f].tick) = Sec(remote[f].tick)
        BY <3>3, <4>1, VersionFacts DEF TypeOK
      <4> QED
        BY <3>3, <3>4, <3>5, <3>6, <4>1, <4>2 DEF NewerLocally
    <3>9. FromRemote(f)'
      BY <1>0, <1>1, <2>1, <2>2, <2>4, <3>1, <3>2, <3>4, <3>5, <3>6, <3>7, <3>8, PendsNames
         DEF FromRemote, DownloadExcluded
    <3> QED
      BY <1>0, <3>2, <3>9 DEF EchoFree
  <2> QED
    BY <2>3, <2>4
<1>12. ASSUME NEW g \in Files, OpenLocal(g), NEW f \in Files PROVE EchoFree(f)'
  <2>1. ~Copied(f) /\ ~Copied(f)' /\ UNCHANGED <<local, fileMap, events, tar, watched, downPhase, deletes, downloads, todo>>
    BY <1>12 DEF OpenLocal, UntarNext, Copied
  <2> QED
    BY <1>0, <1>1, <2>1, EchoKept DEF Deleting, Downloading
<1>13. ASSUME NEW g \in Files, CopyLocal(g) \/ CloseLocal(g), NEW f \in Files PROVE EchoFree(f)'
  <2>1. /\ outFile # Absent /\ outFile.name = g /\ outFile \in Opened /\ tar[g] \in Version /\ downPhase = "download"
        /\ UNCHANGED <<watched, downPhase, deletes, downloads, todo>>
    BY <1>13 DEF CopyLocal, CloseLocal, UntarNext, OpenOK, NoneOpen, TypeOK
  <2>2. (Deleting(f)' <=> Deleting(f)) /\ (Downloading(f)' <=> Downloading(f))
    BY <2>1 DEF Deleting, Downloading
  <2>3. CASE f # g
    <3>1. /\ local'[f] = local[f] /\ fileMap'[f] = fileMap[f] /\ tar'[f] = tar[f]
          /\ f \in events' <=> f \in events
      BY <1>13, <2>3 DEF CopyLocal, CloseLocal, UntarNext, IndexUntarred, TypeOK
    <3>2. ~Copied(f) /\ ~Copied(f)'
      BY <1>13, <2>1, <2>3 DEF CopyLocal, CloseLocal, Copied, NoneOpen, Opened
    <3> QED
      BY <1>0, <1>1, <2>1, <2>2, <3>1, <3>2, EchoKept
  <2>4. CASE f = g
    <3>1. Downloading(f) /\ watched[f] # Absent /\ f \notin todo
      BY <2>1, <2>4 DEF DownInHand
    <3>2. writer[f] = "remote" /\ FromRemote(f)
      BY <1>2, <3>1 DEF EchoFree, FromLocal
    <3>3. CASE CopyLocal(g)
      <4>1. Copied(f)' /\ ~Copied(f)
        BY <2>1, <2>4, <3>3 DEF CopyLocal, Copied, NoneOpen, Opened
      <4>2. local'[f] = [tick |-> clock, data |-> tar[f].data] /\ local'[f] # Absent /\ UNCHANGED <<fileMap, tar>>
        <5>1. [tick |-> clock, data |-> tar[f].data] \in Version
          BY <2>1, <2>4 DEF TypeOK, Version
        <5> QED
          BY <2>4, <3>3, <5>1 DEF CopyLocal, UntarNext, TypeOK
      <4>3. FromRemote(f)'
        BY <1>0, <1>1, <2>1, <2>2, <3>1, <3>2, <4>1, <4>2, PendsNames DEF FromRemote, DownloadExcluded, Matched
      <4> QED
        BY <1>0, <3>2, <4>3 DEF EchoFree
    <3>4. CASE CloseLocal(g)
      <4>1. Copied(f) /\ ~Copied(f)' /\ tar'[f] = Absent
        BY <2>1, <2>4, <3>4 DEF CloseLocal, UntarNext, Copied, NoneOpen, TypeOK
      <4>2. local[f] \in Version /\ local[f].data = tar[f].data
        BY <3>2, <4>1 DEF FromRemote, TypeOK
      <4>3. fileMap'[f] = InfoOf(tar[f]) /\ local'[f] = [local[f] EXCEPT !.tick = tar[f].tick]
        BY <2>4, <3>4, <4>2 DEF CloseLocal, IndexUntarred, TypeOK
      <4>4. local'[f] = tar[f]
        BY <2>1, <2>4, <4>2, <4>3 DEF Version
      <4>5. fileMap'[f] = [mtime |-> Sec(tar[f].tick), size |-> Size[tar[f].data]] /\ tar[f] # Absent
        BY <2>1, <2>4, <4>3, VersionFacts
      <4>6. remote[f] # Absent => Sec(tar[f].tick) <= Sec(remote[f].tick)
        BY <3>2, <4>5 DEF FromRemote
      <4>7. f \notin DownloadExcluded /\ watched[f] = StatOf(remote[f]) => fileMap'[f] = InfoOf(remote[f])
        BY <2>1, <3>1, <3>2, <4>3, <4>5 DEF FromRemote
      <4>8. InfoOf(local'[f]) = fileMap'[f] /\ fileMap'[f].mtime = Sec(tar[f].tick) /\ local'[f] # Absent
        <5>1. fileMap'[f].mtime = Sec(tar[f].tick)
          BY <4>5
        <5>2. InfoOf(local'[f]) = fileMap'[f] /\ local'[f] # Absent
          BY Zenon, <4>3, <4>4, <4>5
        <5> QED
          BY <5>1, <5>2
      <4>9. f \notin DownloadExcluded /\ watched[f] = StatOf(remote[f]) =>
              /\ Matched(f)'
              /\ IF tar'[f] = Absent THEN fileMap'[f] = InfoOf(remote'[f]) ELSE InfoOf(tar'[f]) = InfoOf(remote'[f])
        BY <1>0, <4>1, <4>7 DEF Matched
      <4>10. remote'[f] # Absent =>
              /\ fileMap'[f] # Absent => fileMap'[f].mtime <= Sec(remote'[f].tick)
              /\ local'[f] # Absent /\ ~Copied(f)' => Sec(local'[f].tick) <= Sec(remote'[f].tick)
              /\ tar'[f] # Absent => Sec(tar'[f].tick) <= Sec(remote'[f].tick)
        BY <1>0, <4>1, <4>4, <4>6, <4>8
      <4>11. f \notin Names(Pending)'
        BY <1>1, <3>2, PendsNames
      <4>12. FromRemote(f)'
        BY <1>0, <2>1, <4>1, <4>8, <4>9, <4>10, <4>11 DEF FromRemote, DownloadExcluded
      <4> QED
        BY <1>0, <3>2, <4>12 DEF EchoFree
    <3> QED
      BY <1>13, <3>3, <3>4
  <2> QED
    BY <2>3, <2>4
<1> QED
  BY <1>4, <1>5, <1>6, <1>7, <1>8, <1>9, <1>12, <1>13 DEF DownStep

\* No step of anyone disturbs this ...
LEMMA EchoInvKept == ASSUME EchoInv, [Next]_vars PROVE EchoInv'
<1>1. TypeOK'
  BY TypeKept DEF EchoInv
<1>2. UploadCarriesNone' /\ UpInHand' /\ DownInHand' /\ TimesPast'
  BY UploadInvariant, UpInHandKept, DownInHandKept, TimesPastKept DEF EchoInv
<1>3. env' = env
  BY EnvFixed
<1>4. ASSUME Calm' PROVE ~stopped' /\ \A f \in Files : EchoFree(f)'
  <2>1. Calm
    BY <1>3, <1>4 DEF Calm
  <2>2. stopped' = stopped /\ (UNCHANGED vars \/ UserNext \/ UpStep \/ DownStep)
    BY <2>1, CalmSteps DEF EchoInv
  <2>3. CASE UNCHANGED vars
    BY <2>1, <2>3 DEF EchoInv, vars, upVars, downVars, userVars, EchoFree, FromRemote, FromLocal, MatchedOrKept,
       Matched, Copied, NoneOpen, Names, Pending, Deleting, Downloading, UploadExcluded, DownloadExcluded
  <2> QED
    BY <2>1, <2>2, <2>3, UserEcho, UpEcho, DownEcho DEF EchoInv
<1> QED
  BY <1>1, <1>2, <1>4 DEF EchoInv

\* ... which holds when the initial sync is over ...
LEMMA EchoInvInit == ASSUME Init PROVE EchoInv
<1>1. TypeOK
  BY InitTypeOK
<1>2. UploadCarriesNone /\ UpInHand /\ DownInHand
  BY <1>1 DEF Init, UploadCarriesNone, UpInHand, DownInHand, Deleting, Downloading, Names
<1>3. \A f \in Files : /\ local[f] = remote[f] /\ fileMap[f] = InfoOf(remote[f]) /\ watched[f] = StatOf(remote[f])
                       /\ remote[f] # Absent => remote[f].tick = TicksPerSecond
  BY DEF Init
<1>4. clock = TicksPerSecond /\ changes = <<>> /\ tar = [f \in Files |-> Absent] /\ events = {} /\ ~stopped
      /\ deletes = {} /\ downloads = {} /\ writer = [f \in Files |-> "local"]
  BY DEF Init
<1>5. TimesPast
  <2>1. \A f \in Files : /\ fileMap[f] # Absent => fileMap[f].mtime <= Sec(clock)
                         /\ watched[f] # Absent => watched[f].tick <= clock
    <3> TAKE f \in Files
    <3>1. CASE remote[f] = Absent
      BY <1>3, <3>1 DEF InfoOf, StatOf
    <3>2. CASE remote[f] # Absent
      <4>1. remote[f] \in Version /\ remote[f].tick = TicksPerSecond
        BY <1>1, <1>3, <3>2 DEF TypeOK
      <4>2. InfoOf(remote[f]).mtime = Sec(TicksPerSecond) /\ StatOf(remote[f]).tick = TicksPerSecond
            /\ Sec(TicksPerSecond) \in Nat
        BY <4>1, VersionFacts
      <4> QED
        BY <1>3, <1>4, <4>2
    <3> QED
      BY <3>1, <3>2
  <2> QED
    BY <1>3, <1>4, <2>1 DEF TimesPast
<1>6. \A f \in Files : EchoFree(f)
  BY <1>3, <1>4 DEF EchoFree, FromLocal, Deleting, Downloading, MatchedOrKept, Matched
<1> QED
  BY <1>1, <1>2, <1>4, <1>5, <1>6 DEF EchoInv

\* ... and so always.
LEMMA EchoInvHolds == Spec => []EchoInv
  BY EchoInvInit, EchoInvKept, PTL DEF Spec

\* In every environment in which the two sides do not edit a file at the same time,
\* no file is dated back and no call fails, neither loop ever takes what the other one
\* did for a change of the user's: evaluateChange uploads nothing that the downstream
\* wrote, and collectChanges applies nothing that the upstream uploaded, whatever
\* is excluded, however small the resolution of the clocks, and however often a file is edited.
THEOREM NoEchoTheorem ==
  ASSUME \A e \in Environments :
            e.concurrent \/ (~e.epoch /\ e.maxUploadErrors = 0 /\ e.maxDownloadErrors = 0)
  PROVE  Spec => []NoEcho
<1>1. EchoInv => NoEcho
  <2> SUFFICES ASSUME EchoInv, ~env.concurrent PROVE NoEcho
    BY DEF NoEcho, NoUploadEcho, NoDownloadEcho
  <2>1. Calm
    BY DEF Calm, EchoInv, TypeOK
  <2>2. ASSUME NEW f \in Files, writer[f] = "remote" PROVE f \notin Names(Pending)
    BY <2>1, <2>2 DEF EchoInv, EchoFree, FromRemote
  <2>3. ASSUME NEW f \in Files, writer[f] = "local" PROVE \A c \in deletes \cup downloads : c.name # f
    BY <2>1, <2>3 DEF EchoInv, EchoFree, FromLocal, Deleting, Downloading
  <2> QED
    BY <2>2, <2>3 DEF NoEcho, NoUploadEcho, NoDownloadEcho
<1> QED
  BY <1>1, EchoInvHolds, PTL

-----------------------------------------------------------------------------
(* What nobody works on is the same on both sides, as long as moreover the *)
(* client can tell versions apart by their seconds and their checksums.    *)

\* The clocks tick in seconds, no file is empty (its checksum never counts as equal),
\* and a file is left alone while its change is gathered.
Careful == Calm /\ ~env.repeated /\ TicksPerSecond = 1 /\ \A c \in Contents : Size[c] > 0

\* Versions of one time are one version.
Agree(v, w) == v # Absent /\ w # Absent /\ v.tick = w.tick => v.data = w.data

\* No file has the time 0, which marks a removal among the changes.
Dated(f) == \A v \in {local[f], remote[f], tar[f]} : v # Absent => v.tick > 0

\* A file last edited in the container: the index describes the local file unless it is being
\* written, a file the helper regards as gone is gone locally or about to be deleted, and once
\* a report is dealt with the sides agree.
SyncedRemote(f) ==
    /\ ~Copied(f) => fileMap[f] = InfoOf(local[f]) /\ Agree(local[f], remote[f])
    /\ Agree(tar[f], remote[f])
    /\ watched[f] = Absent /\ ~Deleting(f) => local[f] = Absent
    /\ /\ watched[f] = StatOf(remote[f]) /\ ~Deleting(f)
       /\ Downloading(f) => downPhase = "download" /\ f \notin todo /\ tar[f] = Absent
       => InSync(f)

\* A local file is still what a change says of it.
Describes(c) == local[c.name] # Absent /\ InfoIn(c) = InfoOf(local[c.name])

BeingUploaded(f) == upPhase = "upload" /\ f \in uploads
Busy(f) == f \in events \/ (IF upPhase = "upload" THEN f \in uploads ELSE Pends(f))

\* A file last edited locally: the index describes the remote file, a gathered change
\* describes the local file unless the watcher has reported a later one, and when upstream
\* is done with it the sides agree.
SyncedLocal(f) ==
    /\ fileMap[f] = InfoOf(remote[f])
    /\ upPhase = "gather" => \A i \in DOMAIN changes : changes[i].name = f =>
          /\ f \notin events
          /\ IF changes[i].mtime = 0 THEN local[f] = Absent ELSE Describes(changes[i])
    /\ upPhase \in {"create", "filter"} /\ f \notin events => \A i \in creates : changes[i].name = f => Describes(changes[i])
    /\ BeingUploaded(f) /\ f \notin events => local[f] # Absent
    /\ ~BeingUploaded(f) => Agree(local[f], remote[f])
    /\ ~Busy(f) => fileMap[f] = InfoOf(local[f]) /\ InSync(f)

Cared(f) == Dated(f) /\ IF writer[f] = "remote" THEN SyncedRemote(f) ELSE SyncedLocal(f)

SettledInv == EchoInv /\ (Careful => \A f \in Synced : Cared(f))

\* With a clock that ticks in seconds an entry holds the whole time of a file, and an
\* archived file is the file.
LEMMA CarefulFacts ==
  ASSUME Careful, NEW v \in Version
  PROVE  /\ v # Absent /\ v.tick \in Nat /\ Sec(v.tick) = v.tick /\ Size[v.data] > 0 /\ Size[v.data] \in Nat
         /\ InfoOf(v) = [mtime |-> v.tick, size |-> Size[v.data]] /\ InfoOf(v) # Absent
         /\ StatOf(v) = [tick |-> v.tick, size |-> Size[v.data]] /\ StatOf(v) # Absent
         /\ Archived(v) = v
<1>1. TicksPerSecond = 1 /\ Sec(v.tick) = v.tick /\ v.tick * 1 = v.tick
  BY VersionFacts, SecFacts DEF Careful
<1>2. Archived(v) = v
  BY <1>1 DEF Archived, Version
<1> QED
  BY <1>1, <1>2, VersionFacts DEF Careful

\* Versions that agree and that one entry describes are in sync.
LEMMA SameEntry ==
  ASSUME Careful, NEW v \in Version \cup {Absent}, NEW w \in Version \cup {Absent}, InfoOf(v) = InfoOf(w), Agree(v, w)
  PROVE  (v = Absent /\ w = Absent) \/ (v # Absent /\ w # Absent /\ v.tick = w.tick /\ v.data = w.data)
<1>1. CASE v = Absent \/ w = Absent
  BY <1>1, CarefulFacts DEF InfoOf
<1>2. CASE v # Absent /\ w # Absent
  <2>1. v.tick = w.tick
    BY <1>2, CarefulFacts
  <2> QED
    BY <1>2, <2>1 DEF Agree
<1> QED
  BY <1>1, <1>2

\* A file last edited locally that a step leaves alone is in order as before.
LEMMA LocalKept ==
  ASSUME NEW f \in Files, TypeOK, SyncedLocal(f), local'[f] = local[f], remote'[f] = remote[f], fileMap'[f] = fileMap[f],
         f \in events' <=> f \in events, upPhase' = upPhase, creates' = creates, uploads' = uploads,
         \A i \in DOMAIN changes : i \in DOMAIN changes' /\ changes'[i] = changes[i],
         \A i \in DOMAIN changes' : changes'[i].name = f => i \in DOMAIN changes
  PROVE  SyncedLocal(f)'
<1>1. creates \subseteq DOMAIN changes
  BY DEF TypeOK
<1>2. Pends(f)' <=> Pends(f)
  BY <1>1 DEF Pends, Pending
<1>3. (Busy(f)' <=> Busy(f)) /\ (BeingUploaded(f)' <=> BeingUploaded(f))
  BY <1>2 DEF Busy, BeingUploaded
<1>4. \A i \in DOMAIN changes : changes[i].name = f => (Describes(changes[i])' <=> Describes(changes[i]))
  BY DEF Describes, InfoIn
<1>5. InSync(f)' <=> InSync(f)
  BY DEF InSync
<1> QED
  BY <1>1, <1>3, <1>4, <1>5 DEF SyncedLocal

\* A file last edited in the container that a step leaves alone is in order as before.
LEMMA RemoteKept ==
  ASSUME NEW f \in Files, SyncedRemote(f), local'[f] = local[f], remote'[f] = remote[f], fileMap'[f] = fileMap[f],
         watched'[f] = watched[f], tar'[f] = tar[f], Deleting(f)' <=> Deleting(f), Downloading(f)' <=> Downloading(f),
         f \in todo' <=> f \in todo, downPhase' = downPhase, Copied(f)' <=> Copied(f)
  PROVE  SyncedRemote(f)'
  BY DEF SyncedRemote, InSync

\* The lists are chosen once.
LEMMA SyncedFixed == ASSUME [Next]_vars PROVE (Synced' = Synced) /\ Synced \subseteq Files
                                              /\ \A f \in Synced : f \notin UploadExcluded /\ f \notin DownloadExcluded
  BY ListsFixed DEF Synced

\* An edit is later than what was written before, and takes place when the sync is done
\* with what the other side's user wrote.
LEMMA UserSynced ==
  ASSUME SettledInv, Careful, UserNext PROVE \A f \in Synced : Cared(f)'
<1> USE DEF SettledInv, EchoInv
<1>0. Calm
  BY DEF Careful
<1>1. PICK f \in Files : LocalWrite(f) \/ LocalDelete(f) \/ RemoteWrite(f) \/ RemoteDelete(f)
  BY DEF UserNext
<1>2. PICK side \in {"local", "remote"}, t \in Moments :
        /\ Edit(side, f, t)
        /\ side = "local" => LocalWrite(f) \/ LocalDelete(f)
        /\ side = "remote" => RemoteWrite(f) \/ RemoteDelete(f)
  BY <1>1 DEF LocalWrite, LocalDelete, RemoteWrite, RemoteDelete
<1>3. /\ clock' = t /\ clock \in Nat /\ t \in Nat /\ clock < t /\ writer' = [writer EXCEPT ![f] = side]
      /\ UNCHANGED <<fileMap, watched, upVars, downVars, env>> /\ MayEdit(side, f)
  BY <1>2, MomentsLater DEF Edit, Moments, TypeOK
<1>4. /\ UNCHANGED <<fileMap, watched, upPhase, changes, creates, uploads, tar, todo, deletes, downloads, downPhase, env>>
      /\ \A g \in Files : g # f => local'[g] = local[g] /\ remote'[g] = remote[g] /\ writer'[g] = writer[g]
                                   /\ (g \in events' <=> g \in events)
      /\ writer'[f] = side /\ writer[f] \in {"local", "remote"} /\ outFile' = outFile
  BY <1>1, <1>3 DEF LocalWrite, LocalDelete, RemoteWrite, RemoteDelete, upVars, downVars, TypeOK
<1>5. \A g \in Files : /\ (Deleting(g)' <=> Deleting(g)) /\ (Downloading(g)' <=> Downloading(g)) /\ (Pends(g)' <=> Pends(g))
                       /\ (Copied(g)' <=> Copied(g)) /\ (Copied(g) => Downloading(g) /\ watched[g] # Absent)
  <2>1. \A g \in Files : Copied(g) => Downloading(g) /\ watched[g] # Absent
    BY CopiedFacts DEF DownInHand
  <2> QED
    BY <1>4, <2>1 DEF Deleting, Downloading, Pends, Pending, Copied, NoneOpen
<1>6. ASSUME NEW g \in Synced, g # f PROVE Cared(g)'
  <2>1. g \in Files /\ Cared(g)
    BY <1>6 DEF Synced
  <2>2. Dated(g)'
    BY <1>4, <1>6, <2>1 DEF Cared, Dated
  <2> QED
    BY <1>4, <1>5, <1>6, <2>1, <2>2, LocalKept, RemoteKept DEF Cared
<1>7. writer[f] = side \/ (Settled(f) /\ ~Deleting(f) /\ ~Downloading(f) /\ ~Pends(f) /\ f \notin events)
  BY <1>0, <1>3 DEF MayEdit, Calm, Settled, Deleting, Downloading, Names, Pends
<1>8. upPhase = "gather" => ~Pends(f)
  BY <1>3 DEF MayEdit, Careful, Names, Pends
<1>9. /\ local[f] # Absent => local[f].tick < t
      /\ remote[f] # Absent => remote[f].tick < t
      /\ tar[f] # Absent => tar[f].tick < t
      /\ watched[f] # Absent => watched[f].tick < t
  <2>1. /\ local[f] \in Version \cup {Absent} /\ remote[f] \in Version \cup {Absent} /\ tar[f] \in Version \cup {Absent}
        /\ watched[f] # Absent => watched[f].tick \in Nat
    BY DEF TypeOK, Stat
  <2> QED
    BY <1>3, <2>1, VersionFacts DEF TimesPast
<1>10. \A v \in NewVersions(t) : v \in Version /\ v.tick = t /\ t > 0
  BY <1>0, <1>3, EnvironmentAssumption DEF NewVersions, Calm, Version, TypeOK, Environment
<1>11. ASSUME f \in Synced, side = "local" PROVE Cared(f)'
  <2>0. Cared(f) /\ EchoFree(f)
    BY <1>0, <1>11
  <2>1. /\ remote'[f] = remote[f] /\ f \in events'
        /\ local'[f] = Absent \/ local'[f] \in NewVersions(t)
    <3>1. CASE LocalWrite(f)
      <4>1. PICK u \in Moments : Edit("local", f, u) /\ \E v \in NewVersions(u) : local' = [local EXCEPT ![f] = v]
        BY <3>1 DEF LocalWrite
      <4>2. u = t
        BY <1>3, <4>1 DEF Edit
      <4> QED
        BY <3>1, <4>1, <4>2 DEF LocalWrite, TypeOK
    <3>2. CASE LocalDelete(f)
      BY <3>2 DEF LocalDelete, TypeOK
    <3> QED
      BY <1>2, <1>11, <3>1, <3>2
  <2>2. Dated(f)'
    BY <1>4, <1>10, <2>0, <2>1 DEF Cared, Dated
  <2>3. fileMap[f] = InfoOf(remote[f])
    <3>1. CASE writer[f] = "local"
      BY <2>0, <3>1 DEF Cared, SyncedLocal
    <3>2. CASE writer[f] = "remote"
      <4>1. watched[f] = StatOf(remote[f]) /\ ~Deleting(f) /\ ~Downloading(f)
        BY <1>7, <1>11, <3>2 DEF Settled
      <4>2. Matched(f) /\ fileMap[f] = InfoOf(local[f]) /\ InSync(f)
        BY <1>5, <1>11, <2>0, <3>2, <4>1 DEF Cared, SyncedRemote, EchoFree, FromRemote, Synced
      <4> QED
        BY <4>2 DEF Matched, InSync, InfoOf
    <3> QED
      BY <1>4, <3>1, <3>2
  <2>4. upPhase = "gather" => \A i \in DOMAIN changes : changes[i].name # f
    BY <1>8 DEF Pends, Pending
  <2>5. Agree(local'[f], remote'[f])
    BY <1>3, <1>9, <1>10, <2>1 DEF Agree
  <2>6. SyncedLocal(f)'
    BY <1>4, <2>1, <2>3, <2>4, <2>5 DEF SyncedLocal, Busy
  <2> QED
    BY <1>4, <1>11, <2>2, <2>6 DEF Cared
<1>12. ASSUME f \in Synced, side = "remote" PROVE Cared(f)'
  <2>0. Cared(f) /\ EchoFree(f)
    BY <1>0, <1>12
  <2>1. /\ local'[f] = local[f]
        /\ remote'[f] = Absent \/ remote'[f] \in NewVersions(t)
    <3>1. CASE RemoteWrite(f)
      <4>1. PICK u \in Moments : Edit("remote", f, u) /\ \E v \in NewVersions(u) : remote' = [remote EXCEPT ![f] = v]
        BY <3>1 DEF RemoteWrite
      <4>2. u = t
        BY <1>3, <4>1 DEF Edit
      <4> QED
        BY <3>1, <4>1, <4>2 DEF RemoteWrite, TypeOK
    <3>2. CASE RemoteDelete(f)
      BY <3>2 DEF RemoteDelete, TypeOK
    <3> QED
      BY <1>2, <1>12, <3>1, <3>2
  <2>2. Dated(f)'
    BY <1>4, <1>10, <2>0, <2>1 DEF Cared, Dated
  <2>3. (~Copied(f) => fileMap[f] = InfoOf(local[f])) /\ (watched[f] = Absent /\ ~Deleting(f) => local[f] = Absent)
    <3>1. CASE writer[f] = "remote"
      BY <2>0, <3>1 DEF Cared, SyncedRemote
    <3>2. CASE writer[f] = "local"
      <4>1. watched[f] = StatOf(remote[f]) /\ ~Pends(f) /\ f \notin events
        BY <1>7, <1>12, <3>2 DEF Settled
      <4>2. f \notin uploads
        BY <4>1, PendsNames DEF UpInHand, Pending
      <4>3. ~Busy(f)
        BY <4>1, <4>2 DEF Busy
      <4>4. fileMap[f] = InfoOf(local[f]) /\ InSync(f)
        BY <2>0, <3>2, <4>3 DEF Cared, SyncedLocal
      <4>5. remote[f] # Absent => StatOf(remote[f]) # Absent
        BY VersionFacts DEF TypeOK
      <4> QED
        BY <4>1, <4>4, <4>5 DEF InSync
    <3> QED
      BY <1>4, <3>1, <3>2
  <2>4. Agree(local'[f], remote'[f]) /\ Agree(tar'[f], remote'[f])
    BY <1>3, <1>4, <1>9, <1>10, <2>1 DEF Agree
  <2>5. SyncedRemote(f)'
    <3>1. CASE remote'[f] = Absent
      <4>1. StatOf(remote'[f]) = Absent
        BY <3>1 DEF StatOf
      <4> QED
        BY <1>4, <1>5, <2>1, <2>3, <2>4, <3>1, <4>1 DEF SyncedRemote, InSync
    <3>2. CASE remote'[f] \in NewVersions(t)
      <4>1. watched[f] # StatOf(remote'[f])
        <5>1. remote'[f] \in Version /\ remote'[f].tick = t
          BY <1>10, <3>2
        <5>2. StatOf(remote'[f]).tick = t /\ StatOf(remote'[f]) # Absent
          BY <5>1, VersionFacts
        <5> QED
          BY <1>3, <1>9, <5>2
      <4> QED
        BY <1>4, <1>5, <2>1, <2>3, <2>4, <4>1 DEF SyncedRemote
    <3> QED
      BY <2>1, <3>1, <3>2
  <2> QED
    BY <1>4, <1>12, <2>2, <2>5 DEF Cared
<1> QED
  BY <1>6, <1>11, <1>12

\* The upstream loop touches no file last edited in the container, and what it is done with
\* is the same on both sides.
LEMMA UpSynced ==
  ASSUME SettledInv, Careful, UpStep PROVE \A f \in Synced : Cared(f)'
<1> USE DEF SettledInv, EchoInv
<1>0. /\ UNCHANGED <<local, watched, deletes, downloads, todo, tar, outFile, downPhase, writer, env>>
      /\ Synced' = Synced /\ Synced \subseteq Files /\ Calm
      /\ \A f \in Synced : f \notin UploadExcluded /\ f \notin DownloadExcluded
  BY DEF UpStep, EvaluateMissing, EvaluateExcluded, EvaluatePresent, Evaluate, ApplyRemoves, FilterChanges,
         UploadArchive, downVars, userVars, Synced, UploadExcluded, DownloadExcluded, Careful
<1>1. \A f \in Files : /\ (Deleting(f)' <=> Deleting(f)) /\ (Downloading(f)' <=> Downloading(f))
                       /\ writer[f] \in {"local", "remote"} /\ (Copied(f)' <=> Copied(f))
  BY <1>0 DEF Deleting, Downloading, TypeOK, Copied, NoneOpen
<1>2. ASSUME NEW f \in Synced PROVE /\ Cared(f) /\ f \in Files /\ (writer[f] = "remote" => ~Pends(f))
                                    /\ local[f] \in Version \cup {Absent} /\ remote[f] \in Version \cup {Absent}
                                    /\ f \notin UploadExcluded
  BY <1>0, PendsNames DEF EchoFree, FromRemote, TypeOK
<1>3. ASSUME NEW f \in Synced, writer[f] = "remote", remote'[f] = remote[f], fileMap'[f] = fileMap[f] PROVE Cared(f)'
  BY <1>0, <1>1, <1>2, <1>3, RemoteKept DEF Cared, Dated
<1>4. ASSUME NEW f \in Synced, writer[f] = "local", remote'[f] = remote[f], SyncedLocal(f)' PROVE Cared(f)'
  BY <1>0, <1>2, <1>4 DEF Cared, Dated
<1>5. ASSUME NEW f \in Synced, writer[f] = "local" PROVE SyncedLocal(f)
  BY <1>2, <1>5 DEF Cared
<1>6. \A i \in DOMAIN changes : changes[i] \in Change
  BY DEF TypeOK
<1>7. ASSUME NEW f \in Files, EvaluateMissing(f) \/ EvaluateExcluded(f) \/ EvaluatePresent(f), NEW g \in Synced
      PROVE  Cared(g)'
  <2>1. /\ upPhase = "gather" /\ upPhase' = "gather" /\ f \in events /\ events' = events \ {f}
        /\ UNCHANGED <<remote, creates, uploads>>
    BY <1>7 DEF EvaluateMissing, EvaluateExcluded, EvaluatePresent, Evaluate
  <2> DEFINE c == IF local[f] = Absent THEN RemoveChange(f) ELSE ChangeOf(f, InfoOf(local[f]))
  <2>2. c \in Change /\ c.name = f
    BY ChangeType, InfoType DEF RemoveChange, ChangeOf, TypeOK
  <2>3. changes' = changes \/ changes' = Append(changes, c)
    BY <1>7 DEF EvaluateMissing, EvaluateExcluded, EvaluatePresent
  <2>4. /\ \A i \in DOMAIN changes : i \in DOMAIN changes' /\ changes'[i] = changes[i]
        /\ \A i \in DOMAIN changes' : i \in DOMAIN changes \/ changes'[i] = c
    <3> HIDE DEF c
    <3> QED
      BY <2>2, <2>3, AppendedChange
  <2>5. CASE f # g
    <3>1. fileMap'[g] = fileMap[g]
      BY <1>2, <1>7, <2>5 DEF EvaluateMissing, EvaluateExcluded, EvaluatePresent, TypeOK
    <3>2. CASE writer[g] = "remote"
      BY <1>3, <2>1, <3>1, <3>2
    <3>3. CASE writer[g] = "local"
      <4>1. SyncedLocal(g) /\ g \in Files
        BY <1>2, <1>5, <3>3
      <4>2. \A i \in DOMAIN changes' : changes'[i].name = g => i \in DOMAIN changes
        BY <2>2, <2>4, <2>5
      <4>3. SyncedLocal(g)'
        BY <1>0, <2>1, <2>4, <2>5, <3>1, <4>1, <4>2, LocalKept
      <4> QED
        BY <1>4, <2>1, <3>3, <4>3
    <3> QED
      BY <1>1, <1>2, <3>2, <3>3
  <2>6. CASE f = g
    <3>1. fileMap' = fileMap
      BY <1>2, <1>7, <2>6 DEF EvaluateMissing, EvaluateExcluded, EvaluatePresent
    <3>2. CASE writer[f] = "remote"
      BY <1>3, <2>1, <2>6, <3>1, <3>2
    <3>3. CASE writer[f] = "local"
      <4>1. SyncedLocal(f)
        BY <1>5, <2>6, <3>3
      <4>2. fileMap[f] = InfoOf(remote[f]) /\ Agree(local[f], remote[f])
            /\ \A i \in DOMAIN changes : changes[i].name # f
        BY <2>1, <4>1 DEF SyncedLocal, BeingUploaded
      <4>3. \A i \in DOMAIN changes' : changes'[i].name = f => changes'[i] = c
        BY <2>4, <4>2
      <4>4. IF c.mtime = 0 THEN local[f] = Absent ELSE Describes(c)
        <5>1. CASE local[f] = Absent
          BY <5>1 DEF RemoveChange
        <5>2. CASE local[f] # Absent
          <6>1. InfoOf(local[f]) = [mtime |-> local[f].tick, size |-> Size[local[f].data]] /\ local[f].tick > 0
            BY <1>2, <2>6, <5>2, CarefulFacts DEF Cared, Dated
          <6> QED
            BY <5>2, <6>1 DEF ChangeOf, Describes, InfoIn
        <5> QED
          BY <5>1, <5>2
      <4>5. ~Busy(f)' => fileMap[f] = InfoOf(local[f])
        <5> SUFFICES ASSUME ~Busy(f)' PROVE fileMap[f] = InfoOf(local[f])
          OBVIOUS
        <5>1. changes' = changes
          <6>1. ~Pends(f)'
            BY <2>1 DEF Busy
          <6>2. ASSUME changes' = Append(changes, c) PROVE FALSE
            <7>1. \E i \in DOMAIN changes' : changes'[i] = c
              <8> HIDE DEF c
              <8> QED
                BY <2>2, <6>2, AppendedChange
            <7> QED
              BY <2>1, <2>2, <6>1, <7>1 DEF Pends, Pending
          <6> QED
            BY <2>3, <6>2
        <5>2. Append(changes, c) # changes
          <6>1. changes \in Seq(Change) /\ c \in Change
            BY <2>2 DEF TypeOK
          <6> HIDE DEF c
          <6>2. Len(Append(changes, c)) = Len(changes) + 1 /\ Len(changes) \in Nat
            BY <6>1
          <6> QED
            BY <6>2
        <5>3. CASE local[f] = Absent
          BY <1>7, <2>6, <5>1, <5>2, <5>3 DEF EvaluateMissing, EvaluateExcluded, EvaluatePresent, shouldRemoveRemote, InfoOf
        <5>4. CASE local[f] # Absent
          <6>1. ~shouldUpload(c, fileMap) /\ InfoIn(c) = InfoOf(local[f])
            BY <1>2, <1>7, <2>6, <5>1, <5>2, <5>4, CarefulFacts
               DEF EvaluateMissing, EvaluateExcluded, EvaluatePresent, ChangeOf, InfoIn
          <6> QED
            BY <2>2, <6>1 DEF shouldUpload
        <5> QED
          BY <5>3, <5>4
      <4>6. ~Busy(f)' => InSync(f)'
        BY <1>0, <1>2, <2>1, <2>6, <4>2, <4>5, SameEntry DEF InSync
      <4>7. SyncedLocal(f)'
        <5>1. f \notin events' /\ upPhase' = "gather" /\ ~BeingUploaded(f)'
          BY <2>1 DEF BeingUploaded
        <5>2. \A i \in DOMAIN changes' : changes'[i].name = f =>
                 IF changes'[i].mtime = 0 THEN local'[f] = Absent ELSE Describes(changes[i])'
          BY <1>0, <4>3, <4>4 DEF Describes, InfoIn
        <5> QED
          BY <1>0, <2>1, <3>1, <4>2, <4>5, <4>6, <5>1, <5>2 DEF SyncedLocal
      <4> QED
        BY <1>4, <2>1, <2>6, <3>3, <4>7
    <3> QED
      BY <1>1, <3>2, <3>3
  <2> QED
    BY <2>5, <2>6
<1>8. ASSUME ApplyRemoves, NEW f \in Synced PROVE Cared(f)'
  <2> DEFINE rest == {i \in DOMAIN changes : changes[i].mtime > 0}
  <2>1. /\ fileMap'[f] = IF f \in Removing THEN Absent ELSE fileMap[f]
        /\ remote'[f] = IF f \in Removing THEN Absent ELSE remote[f]
        /\ upPhase = "gather" /\ events' = events
        /\ \/ ReleaseIndex /\ rest = {}
           \/ upPhase' = "create" /\ creates' = rest /\ changes' = changes /\ uploads' = uploads
    <3>1. /\ fileMap'[f] = IF f \in Removing THEN Absent ELSE fileMap[f]
          /\ remote'[f] = IF f \in Removing THEN Absent ELSE remote[f]
      BY <1>0, <1>2, <1>8, CalmRemoves
    <3>2. /\ upPhase = "gather" /\ UNCHANGED events
          /\ \/ ReleaseIndex /\ rest = {}
             \/ upPhase' = "create" /\ creates' = rest /\ UNCHANGED <<changes, uploads>>
      BY <1>0, <1>8, CalmRemoves
    <3> QED
      BY <3>1, <3>2
  <2>2. f \in Removing <=> \E i \in DOMAIN changes : changes[i].name = f /\ changes[i].mtime = 0
    BY DEF Removing, Names
  <2>3. Pends(f) <=> \E i \in DOMAIN changes : changes[i].name = f
    BY <2>1 DEF Pends, Pending
  <2>4. Pends(f)' <=> \E i \in rest : changes[i].name = f
    BY <2>1 DEF Pends, Pending, ReleaseIndex
  <2>5. \A i \in DOMAIN changes : changes[i].mtime \in Nat
    BY <1>6 DEF Change
  <2>6. uploads = {} /\ uploads' = {} /\ ~BeingUploaded(f)' /\ upPhase' \in {"gather", "create"}
    BY <2>1 DEF UpInHand, ReleaseIndex, BeingUploaded
  <2>7. upPhase' = "gather" => changes' = <<>>
    BY <2>1 DEF ReleaseIndex
  <2>8. CASE f \notin Removing
    <3>1. fileMap'[f] = fileMap[f] /\ remote'[f] = remote[f]
      BY <2>1, <2>8
    <3>2. CASE writer[f] = "remote"
      BY <1>3, <3>1, <3>2
    <3>3. CASE writer[f] = "local"
      <4>1. SyncedLocal(f)
        BY <1>5, <3>3
      <4>2. Pends(f)' <=> Pends(f)
        BY <2>2, <2>3, <2>4, <2>5, <2>8
      <4>3. Busy(f)' <=> Busy(f)
        BY <2>1, <2>6, <4>2 DEF Busy
      <4>4. upPhase' = "create" => \A i \in creates' : changes'[i].name = f => Describes(changes[i])'
        <5> SUFFICES ASSUME upPhase' = "create", NEW i \in rest, changes[i].name = f PROVE Describes(changes[i])'
          BY <2>1 DEF ReleaseIndex
        <5>1. Describes(changes[i])
          BY <2>1, <4>1 DEF SyncedLocal
        <5>2. changes' = changes /\ local' = local
          BY <1>0, <2>1 DEF ReleaseIndex
        <5> QED
          BY <5>1, <5>2 DEF Describes, InfoIn
      <4>5. fileMap[f] = InfoOf(remote[f]) /\ Agree(local[f], remote[f])
            /\ (~Busy(f) => fileMap[f] = InfoOf(local[f]) /\ InSync(f))
        BY <2>1, <4>1 DEF SyncedLocal, BeingUploaded
      <4>6. InSync(f)' <=> InSync(f)
        BY <1>0, <3>1 DEF InSync
      <4>7. SyncedLocal(f)'
        <5>1. events' = events /\ local'[f] = local[f]
          BY <1>0, <2>1
        <5>2. upPhase' = "gather" => \A i \in DOMAIN changes' : changes'[i].name # f
          BY <2>7
        <5> QED
          BY <2>6, <3>1, <4>3, <4>4, <4>5, <4>6, <5>1, <5>2 DEF SyncedLocal
      <4> QED
        BY <1>4, <3>1, <3>3, <4>7
    <3> QED
      BY <1>1, <1>2, <3>2, <3>3
  <2>9. CASE f \in Removing
    <3>1. writer[f] = "local" /\ SyncedLocal(f)
      BY <1>1, <1>2, <1>5, <2>2, <2>3, <2>9
    <3>2. local[f] = Absent /\ \A i \in DOMAIN changes : changes[i].name = f => changes[i].mtime = 0
      BY <2>1, <2>2, <2>9, <3>1 DEF SyncedLocal, Describes
    <3>3. ~Pends(f)'
      BY <2>4, <3>2
    <3>4. fileMap'[f] = Absent /\ remote'[f] = Absent /\ local'[f] = Absent
      BY <1>0, <2>1, <2>9, <3>2
    <3>5. upPhase' = "create" => \A i \in creates' : changes'[i].name # f
      BY <2>1, <3>2 DEF ReleaseIndex
    <3>6. SyncedLocal(f)'
      BY <2>6, <2>7, <3>4, <3>5 DEF SyncedLocal, InSync, InfoOf, Agree
    <3> QED
      BY <1>0, <1>2, <3>1, <3>4, <3>6 DEF Cared, Dated
  <2> QED
    BY <2>8, <2>9
<1>9. ASSUME FilterChanges, NEW f \in Synced PROVE Cared(f)'
  <2> DEFINE rest == {g \in Names(creates) : ~SameSize(g)} \cup {g \in ToCheck : ~EqualChecksum(g)}
  <2>1. /\ fileMap' = IndexTouched /\ remote' = RemoteTouched(ToCheck) /\ upPhase \in {"create", "filter"} /\ events' = events
        /\ \/ rest = {} /\ ReleaseIndex
           \/ upPhase' = "upload" /\ uploads' = rest /\ changes' = changes /\ creates' = creates
    BY <1>9 DEF FilterChanges, Filter
  <2>2. upPhase' = "gather" => changes' = <<>>
    BY <2>1 DEF ReleaseIndex
  <2>3. upPhase' \in {"gather", "upload"} /\ (upPhase' = "upload" => uploads' = rest) /\ (upPhase' = "gather" => rest = {})
    BY <2>1 DEF ReleaseIndex
  <2>4. (BeingUploaded(f)' <=> f \in rest) /\ (Busy(f)' <=> f \in events \/ f \in rest)
    <3>1. upPhase' = "gather" => ~Pends(f)'
      BY <2>2 DEF Pends, Pending
    <3> QED
      BY <2>1, <2>3, <3>1 DEF BeingUploaded, Busy
  <2>5. (f \in Names(creates) <=> Pends(f)) /\ (Pends(f) <=> \E i \in creates : changes[i].name = f)
    BY <2>1, PendsNames DEF Pends, Pending
  <2>6. CASE f \notin ToCheck
    <3>1. fileMap'[f] = fileMap[f] /\ remote'[f] = remote[f]
      BY <1>2, <2>1, <2>6 DEF IndexTouched, RemoteTouched
    <3>2. CASE writer[f] = "remote"
      BY <1>3, <3>1, <3>2
    <3>3. CASE writer[f] = "local"
      <4>1. SyncedLocal(f) /\ (InSync(f)' <=> InSync(f))
        BY <1>0, <1>5, <3>1, <3>3 DEF InSync
      <4>2. fileMap[f] = InfoOf(remote[f]) /\ Agree(local[f], remote[f])
        BY <2>1, <4>1 DEF SyncedLocal, BeingUploaded
      <4>3. f \notin events => \A i \in creates : changes[i].name = f => Describes(changes[i])
        BY <2>1, <4>1 DEF SyncedLocal
      <4>4. f \notin events /\ Pends(f) => f \in rest /\ local[f] # Absent
        <5> SUFFICES ASSUME f \notin events, Pends(f) PROVE f \in rest /\ local[f] # Absent
          OBVIOUS
        <5>1. First(f).name = f /\ \E i \in creates : First(f) = changes[i]
          BY <2>5, FirstPosition
        <5>2. Describes(First(f))
          BY <4>3, <5>1
        <5>3. First(f).size > 0 /\ local[f] # Absent
          BY <1>2, <5>1, <5>2, CarefulFacts DEF Describes, InfoIn
        <5> QED
          BY <2>5, <2>6, <5>3 DEF ToCheck
      <4>5. f \in rest => Pends(f)
        BY <2>5, <2>6
      <4>6. ~Busy(f)' => ~Busy(f)
        BY <2>1, <2>4, <4>4 DEF Busy
      <4>7. ~Busy(f) => fileMap[f] = InfoOf(local[f]) /\ InSync(f)
        BY <4>1 DEF SyncedLocal
      <4>8. SyncedLocal(f)'
        BY <1>0, <2>1, <2>2, <2>3, <2>4, <3>1, <4>1, <4>2, <4>4, <4>5, <4>6, <4>7 DEF SyncedLocal
      <4> QED
        BY <1>4, <3>1, <3>3, <4>8
    <3> QED
      BY <1>1, <1>2, <3>2, <3>3
  <2>7. CASE f \in ToCheck
    <3>1. Pends(f) /\ fileMap[f] # Absent
      BY <2>5, <2>7 DEF ToCheck, SameSize
    <3>2. writer[f] = "local" /\ SyncedLocal(f)
      BY <1>1, <1>2, <1>5, <3>1
    <3>3. fileMap[f] = InfoOf(remote[f]) /\ remote[f] # Absent
      BY <3>1, <3>2 DEF SyncedLocal, InfoOf
    <3>4. /\ fileMap'[f] = InfoOf(remote'[f]) /\ remote'[f] \in Version /\ remote'[f].data = remote[f].data
          /\ remote'[f].tick = First(f).mtime * TicksPerSecond
      BY <2>1, <2>7, <3>3, TouchedTogether
    <3>5. PICK i \in creates : First(f) = changes[i] /\ changes[i].name = f
      BY <2>5, <3>1, FirstPosition
    <3>6. First(f).mtime > 0 /\ First(f).mtime \in Nat
      BY <1>6, <3>5 DEF UploadCarriesNone, Change, TypeOK
    <3>7. remote'[f].tick = First(f).mtime
      BY <3>4, <3>6 DEF Careful
    <3>8. Dated(f)'
      BY <1>0, <1>2, <3>6, <3>7 DEF Cared, Dated
    <3>9. f \notin events => Describes(First(f)) /\ local[f] # Absent
      <4>1. f \notin events => Describes(changes[i])
        BY <2>1, <3>2, <3>5 DEF SyncedLocal
      <4> QED
        BY <3>5, <4>1 DEF Describes
    <3>10. f \notin rest => EqualChecksum(f)
      BY <2>7
    <3>11. f \notin rest => InSync(f)' /\ Agree(local'[f], remote'[f])
      BY <1>0, <3>4, <3>10 DEF EqualChecksum, InSync, Agree
    <3>12. f \notin rest /\ f \notin events => fileMap'[f] = InfoOf(local'[f])
      <4> SUFFICES ASSUME f \notin rest, f \notin events PROVE fileMap'[f] = InfoOf(local[f])
        BY <1>0
      <4>1. local[f] \in Version /\ local[f].data = remote[f].data /\ InfoIn(First(f)) = InfoOf(local[f])
        BY <1>2, <3>5, <3>9, <3>10 DEF EqualChecksum, Describes
      <4>2. First(f).mtime = local[f].tick
        BY <4>1, CarefulFacts DEF InfoIn
      <4> QED
        BY <3>4, <3>7, <4>1, <4>2, CarefulFacts
    <3>13. SyncedLocal(f)'
      BY <1>0, <2>1, <2>2, <2>3, <2>4, <3>4, <3>9, <3>11, <3>12 DEF SyncedLocal
    <3> QED
      BY <1>0, <3>2, <3>8, <3>13 DEF Cared
  <2> QED
    BY <2>6, <2>7
<1>10. ASSUME UploadArchive, NEW f \in Synced PROVE Cared(f)'
  <2>1. /\ fileMap' = IndexUploaded(Archivable) /\ remote' = RemoteUntarred(Archivable) /\ upPhase = "upload"
        /\ events' = events /\ upPhase' = "gather" /\ changes' = <<>>
    BY <1>10 DEF UploadArchive, ReleaseIndex
  <2>2. ~BeingUploaded(f)' /\ (Busy(f)' <=> f \in events)
    BY <2>1 DEF BeingUploaded, Busy, Pends, Pending
  <2>3. CASE f \in Archivable
    <3>1. Pends(f) /\ local[f] \in Version
      BY <1>2, <2>1, <2>3 DEF Archivable, UpInHand, Names, Pends, Pending
    <3>2. writer[f] = "local"
      BY <1>1, <1>2, <3>1
    <3>3. fileMap'[f] = InfoOf(local[f]) /\ remote'[f] = local[f] /\ local[f] # Absent
      BY <1>2, <2>1, <2>3, <3>1, CarefulFacts DEF IndexUploaded, RemoteUntarred
    <3>4. SyncedLocal(f)'
      BY <1>0, <2>1, <2>2, <3>3 DEF SyncedLocal, InSync, Agree
    <3> QED
      BY <1>0, <1>2, <3>2, <3>3, <3>4 DEF Cared, Dated
  <2>4. CASE f \notin Archivable
    <3>1. fileMap'[f] = fileMap[f] /\ remote'[f] = remote[f]
      BY <1>2, <2>1, <2>4 DEF IndexUploaded, RemoteUntarred
    <3>2. CASE writer[f] = "remote"
      BY <1>3, <3>1, <3>2
    <3>3. CASE writer[f] = "local"
      <4>1. SyncedLocal(f) /\ (InSync(f)' <=> InSync(f))
        BY <1>0, <1>5, <3>1, <3>3 DEF InSync
      <4>2. f \in uploads => local[f] = Absent /\ f \in events
        BY <1>2, <2>1, <2>4, <4>1 DEF Archivable, SyncedLocal, BeingUploaded
      <4>3. SyncedLocal(f)'
        BY <1>0, <2>1, <2>2, <3>1, <4>1, <4>2 DEF SyncedLocal, Agree, Busy, BeingUploaded
      <4> QED
        BY <1>4, <3>1, <3>3, <4>3
    <3> QED
      BY <1>1, <1>2, <3>2, <3>3
  <2> QED
    BY <2>3, <2>4
<1> QED
  BY <1>0, <1>7, <1>8, <1>9, <1>10 DEF UpStep

\* The downstream loop touches no file last edited locally, and what it is done with is the
\* same on both sides.
LEMMA DownSynced ==
  ASSUME SettledInv, Careful, DownStep PROVE \A f \in Synced : Cared(f)'
<1> USE DEF SettledInv, EchoInv
<1>0. /\ UNCHANGED <<remote, writer, env, upPhase, changes, creates, uploads>>
      /\ Synced' = Synced /\ Synced \subseteq Files /\ Calm
      /\ \A f \in Synced : f \notin UploadExcluded /\ f \notin DownloadExcluded
  BY DEF DownStep, CountChanges, CollectChanges, RemoveLocal, FinishDownload, TarRemote, KeepNewer, OpenLocal,
         CopyLocal, CloseLocal, UntarNext, upVars, userVars, Synced, UploadExcluded, DownloadExcluded, Careful
<1>1. ASSUME NEW f \in Synced
      PROVE  /\ Cared(f) /\ EchoFree(f) /\ f \in Files /\ f \notin DownloadExcluded /\ writer[f] \in {"local", "remote"}
             /\ local[f] \in Version \cup {Absent} /\ remote[f] \in Version \cup {Absent}
             /\ tar[f] \in Version \cup {Absent}
             /\ Copied(f) => tar[f] # Absent /\ Downloading(f) /\ downPhase = "download" /\ f \notin todo /\ watched[f] # Absent
  <2>1. f \in Files /\ (Copied(f) => watched[f] # Absent)
    BY <1>0, <1>1, CopiedFacts DEF DownInHand
  <2> QED
    BY <1>0, <1>1, <2>1, CopiedFacts DEF TypeOK
<1>13. ASSUME UNCHANGED outFile PROVE \A f \in Files : Copied(f)' <=> Copied(f)
  BY <1>13 DEF Copied, NoneOpen
<1>2. ASSUME NEW f \in Synced, writer[f] = "local" PROVE Cared(f)'
  <2>1. ~Deleting(f) /\ ~Downloading(f) /\ SyncedLocal(f) /\ Dated(f)
    BY <1>1, <1>2 DEF Cared, EchoFree, FromLocal
  <2>2. tar[f] = Absent /\ f \notin todo
    BY <1>1, <2>1 DEF DownInHand
  <2>3. local'[f] = local[f] /\ fileMap'[f] = fileMap[f] /\ (f \in events' <=> f \in events) /\ tar'[f] = Absent
    <3>1. CASE CountChanges \/ CollectChanges \/ FinishDownload
      BY <2>2, <3>1 DEF CountChanges, CollectChanges, FinishDownload
    <3>2. CASE RemoveLocal
      <4>1. Sweep({}) /\ tar' = tar
        BY <1>0, <3>2, CalmSweeps DEF RemoveLocal
      <4> QED
        BY <1>1, <2>1, <2>2, <4>1 DEF Sweep, Removed, Named, Deleting
    <3>4. ASSUME NEW g \in Files, OpenLocal(g) \/ CopyLocal(g)
          PROVE  local'[f] = local[f] /\ fileMap'[f] = fileMap[f] /\ (f \in events' <=> f \in events) /\ tar'[f] = Absent
      <4>1. CASE OpenLocal(g)
        BY <2>2, <4>1 DEF OpenLocal
      <4>2. CASE CopyLocal(g)
        <5>1. g # f
          BY <2>2, <4>2 DEF CopyLocal, TypeOK, OpenOK
        <5> QED
          BY <1>1, <2>2, <4>2, <5>1 DEF CopyLocal, TypeOK
      <4> QED
        BY <3>4, <4>1, <4>2
    <3>3. ASSUME NEW g \in Files, TarRemote(g) \/ KeepNewer(g) \/ CloseLocal(g)
          PROVE  local'[f] = local[f] /\ fileMap'[f] = fileMap[f] /\ (f \in events' <=> f \in events) /\ tar'[f] = Absent
      <4>1. g # f
        BY <2>2, <3>3 DEF TarRemote, KeepNewer, CloseLocal, TypeOK, OpenOK
      <4>2. CASE TarRemote(g)
        BY <1>1, <2>2, <4>1, <4>2 DEF TarRemote, TypeOK
      <4>3. CASE KeepNewer(g)
        BY <1>1, <2>2, <4>1, <4>3 DEF KeepNewer, TypeOK
      <4>4. CASE CloseLocal(g)
        BY <1>1, <2>2, <4>1, <4>4 DEF CloseLocal, IndexUntarred, TypeOK
      <4> QED
        BY <3>3, <4>2, <4>3, <4>4
    <3> QED
      BY <3>1, <3>2, <3>3, <3>4 DEF DownStep
  <2>4. SyncedLocal(f)'
    BY <1>0, <1>1, <2>1, <2>3, LocalKept
  <2>5. Dated(f)'
    BY <1>0, <2>1, <2>3 DEF Dated
  <2> QED
    BY <1>0, <1>2, <2>4, <2>5 DEF Cared
<1>3. ASSUME NEW f \in Synced, writer[f] = "remote", Dated(f)', SyncedRemote(f)' PROVE Cared(f)'
  BY <1>0, <1>3 DEF Cared
<1>4. ASSUME NEW f \in Synced, writer[f] = "remote" PROVE SyncedRemote(f) /\ Dated(f) /\ FromRemote(f)
  BY <1>1, <1>4 DEF Cared, EchoFree
<1>5. ASSUME NEW f \in Synced, writer[f] = "remote",
             local'[f] = local[f] \/ local'[f] = Absent \/ local'[f] = tar[f],
             tar'[f] = tar[f] \/ tar'[f] = Absent \/ (remote[f] # Absent /\ tar'[f] = remote[f])
      PROVE  Dated(f)'
  BY <1>0, <1>4, <1>5 DEF Dated
<1>14. clock > 0 \/ \A f \in Synced : tar[f] = Absent \/ writer[f] # "remote"
  <2> SUFFICES ASSUME NEW f \in Synced, tar[f] # Absent, writer[f] = "remote" PROVE clock > 0
    OBVIOUS
  <2>1. tar[f].tick > 0 /\ tar[f].tick <= clock /\ tar[f].tick \in Nat /\ clock \in Nat
    BY <1>1, <1>4, VersionFacts DEF Dated, TimesPast, TypeOK
  <2> QED
    BY <2>1
<1>6. ASSUME CountChanges, NEW f \in Synced, writer[f] = "remote" PROVE Cared(f)'
  <2>1. UNCHANGED <<local, fileMap, watched, tar, todo, downPhase, deletes, downloads>>
    BY <1>6 DEF CountChanges
  <2>2. SyncedRemote(f)'
    BY <1>0, <1>1, <1>4, <1>6, <1>13, <2>1, RemoteKept DEF CountChanges, Deleting, Downloading
  <2> QED
    BY <1>3, <1>5, <1>6, <2>1, <2>2
<1>7. ASSUME CollectChanges, NEW f \in Synced, writer[f] = "remote" PROVE Cared(f)'
  <2>1. /\ downPhase = "idle" /\ deletes = {} /\ downloads = {} /\ todo = {} /\ tar[f] = Absent
        /\ UNCHANGED <<local, fileMap, todo, tar>> /\ downPhase' # "download"
        /\ watched'[f] = StatOf(remote[f]) /\ ~Deleting(f) /\ ~Downloading(f) /\ ~Copied(f) /\ ~Copied(f)'
    BY <1>1, <1>7, <1>13 DEF CollectChanges, DownInHand, Reported, Deleting, Downloading
  <2>2. /\ fileMap[f] = InfoOf(local[f]) /\ Agree(local[f], remote[f]) /\ Agree(tar[f], remote[f])
        /\ watched[f] = Absent => local[f] = Absent
        /\ watched[f] = StatOf(remote[f]) => InSync(f)
    BY <1>4, <1>7, <2>1 DEF SyncedRemote
  <2>3. ASSUME remote[f] = Absent, ~Deleting(f)' PROVE local[f] = Absent
    <3>1. CASE watched[f] = Absent
      BY <2>2, <3>1
    <3>2. CASE watched[f] # Absent
      <4> DEFINE c == [name |-> f, mtime |-> Sec(watched[f].tick), size |-> watched[f].size]
      <4>1. c \in Deletes
        BY <1>1, <2>3, <3>2 DEF Deletes, Differing, StatOf
      <4>2. ~shouldRemoveLocal(c)
        BY <1>1, <1>7, <2>3, <4>1 DEF CollectChanges, NotIgnored, Deleting
      <4> SUFFICES ASSUME local[f] # Absent PROVE FALSE
        OBVIOUS
      <4>3. fileMap[f] = [mtime |-> local[f].tick, size |-> Size[local[f].data]] /\ fileMap[f] # Absent
            /\ Sec(local[f].tick) = local[f].tick /\ local[f].tick \in Nat
        BY <1>1, <2>2, CarefulFacts
      <4>4. InfoIn(c) = fileMap[f] => Sec(local[f].tick) <= c.mtime
        BY <4>3 DEF InfoIn
      <4> QED
        BY <4>2, <4>3, <4>4 DEF shouldRemoveLocal
    <3> QED
      BY <3>1, <3>2
  <2>4. ASSUME ~Deleting(f)', ~Downloading(f)' PROVE InSync(f)
    <3>1. CASE watched[f] = StatOf(remote[f])
      BY <2>2, <3>1
    <3>2. CASE remote[f] = Absent
      BY <2>3, <2>4, <3>2 DEF InSync
    <3>3. CASE watched[f] # StatOf(remote[f]) /\ remote[f] # Absent
      <4> DEFINE c == ChangeOf(f, InfoOf(remote[f]))
      <4>1. c \in Modifies /\ c.name = f
        BY <1>1, <3>3 DEF Modifies, Differing, ChangeOf
      <4>2. ~shouldDownload(c)
        BY <1>1, <1>7, <2>4, <4>1 DEF CollectChanges, NotIgnored, Downloading
      <4>3. c.mtime = remote[f].tick /\ c.size = Size[remote[f].data] /\ remote[f].tick \in Nat
            /\ InfoOf(remote[f]) = [mtime |-> remote[f].tick, size |-> Size[remote[f].data]]
            /\ Sec(remote[f].tick) = remote[f].tick
        BY <1>1, <3>3, CarefulFacts DEF ChangeOf
      <4>4. fileMap[f] # Absent /\ ~(remote[f].tick > fileMap[f].mtime)
            /\ (remote[f].tick = fileMap[f].mtime => Size[remote[f].data] = fileMap[f].size)
        BY <4>1, <4>2, <4>3 DEF shouldDownload
      <4>5. local[f] \in Version /\ fileMap[f] = [mtime |-> local[f].tick, size |-> Size[local[f].data]]
            /\ local[f].tick \in Nat
        BY <1>1, <2>2, <4>4, CarefulFacts DEF InfoOf
      <4>6. fileMap[f].mtime <= remote[f].tick
        BY <1>4, <1>7, <3>3, <4>3, <4>4 DEF FromRemote
      <4>7. local[f].tick = remote[f].tick
        BY <4>3, <4>4, <4>5, <4>6
      <4> QED
        BY <1>1, <2>2, <3>3, <4>5, <4>7, CarefulFacts DEF Agree, InSync
    <3> QED
      BY <3>1, <3>2, <3>3
  <2>5. watched'[f] = Absent => remote[f] = Absent
    BY <1>1, <2>1, VersionFacts
  <2>6. SyncedRemote(f)'
    BY <1>0, <2>1, <2>2, <2>3, <2>4, <2>5 DEF SyncedRemote, InSync
  <2> QED
    BY <1>3, <1>5, <1>7, <2>1, <2>6
<1>8. ASSUME RemoveLocal, NEW f \in Synced, writer[f] = "remote" PROVE Cared(f)'
  <2>1. /\ downPhase = "remove" /\ todo = {} /\ tar[f] = Absent /\ deletes' = {}
        /\ UNCHANGED <<watched, tar, downloads>> /\ todo' = Named(downloads) /\ ~Copied(f) /\ ~Copied(f)'
    BY <1>1, <1>8, <1>13 DEF RemoveLocal, RequestDownload, DownInHand
  <2>9. Sweep({})
    BY <1>0, <1>8, CalmSweeps DEF RemoveLocal
  <2>10. fileMap'[f] = IF Deleting(f) THEN Absent ELSE fileMap[f]
    BY <1>1, <2>9 DEF Sweep, Named, Deleting
  <2>2. ~Deleting(f)' /\ (Downloading(f)' <=> Downloading(f)) /\ (Downloading(f)' => f \in todo')
    BY <2>1 DEF Deleting, Downloading, Named
  <2>3. ~Deleting(f) => local'[f] = local[f]
    BY <1>1, <2>9 DEF Sweep, Removed, Named, Deleting
  <2>4. \A c \in deletes : c.name = f /\ shouldRemoveLocal(c) => local'[f] = Absent
    BY <1>1, <2>9 DEF Sweep, Removed, Named
  <2>5. local'[f] = local[f] \/ local'[f] = Absent
    BY <1>1, <2>9 DEF Sweep
  <2>6. /\ fileMap[f] = InfoOf(local[f]) /\ Agree(local[f], remote[f]) /\ Agree(tar[f], remote[f])
        /\ watched[f] = Absent /\ ~Deleting(f) => local[f] = Absent
        /\ watched[f] = StatOf(remote[f]) /\ ~Deleting(f) /\ ~Downloading(f) => InSync(f)
    BY <1>4, <1>8, <2>1 DEF SyncedRemote
  <2>7. CASE Deleting(f)
    <3>1. PICK c \in deletes : c.name = f
      BY <2>7 DEF Deleting
    <3>2. local'[f] = Absent
      <4> SUFFICES ASSUME local[f] # Absent PROVE local'[f] = Absent
        BY <2>5
      <4>1. fileMap[f] = [mtime |-> local[f].tick, size |-> Size[local[f].data]] /\ fileMap[f] # Absent
            /\ Sec(local[f].tick) = local[f].tick /\ local[f].tick \in Nat
        BY <1>1, <2>6, CarefulFacts
      <4>2. shouldRemoveLocal(c)
        BY <3>1, <4>1 DEF shouldRemoveLocal, InfoIn
      <4> QED
        BY <2>4, <3>1, <4>2
    <3>3. watched[f] = Absent
      BY <1>1, <2>7 DEF DownInHand
    <3>4. watched[f] = StatOf(remote[f]) => remote[f] = Absent
      BY <1>1, <3>3, VersionFacts
    <3>5. SyncedRemote(f)'
      BY <1>0, <2>1, <2>10, <2>6, <2>7, <3>2, <3>4 DEF SyncedRemote, InSync, InfoOf, Agree
    <3> QED
      BY <1>3, <1>5, <1>8, <2>1, <2>5, <3>5
  <2>8. CASE ~Deleting(f)
    <3>1. SyncedRemote(f)'
      BY <1>0, <2>1, <2>10, <2>2, <2>3, <2>6, <2>8 DEF SyncedRemote, InSync
    <3> QED
      BY <1>3, <1>5, <1>8, <2>1, <2>5, <3>1
  <2> QED
    BY <2>7, <2>8
<1>9. ASSUME FinishDownload, NEW f \in Synced, writer[f] = "remote" PROVE Cared(f)'
  <2>1. /\ downPhase = "download" /\ downPhase' = "idle" /\ downloads' = {} /\ deletes = {} /\ deletes' = {}
        /\ todo = {} /\ tar[f] = Absent /\ UNCHANGED <<local, fileMap, watched, todo, tar>>
        /\ ~Copied(f) /\ ~Copied(f)'
    BY <1>1, <1>9, <1>13 DEF FinishDownload, DownInHand
  <2>2. ~Deleting(f) /\ ~Deleting(f)' /\ ~Downloading(f)'
    BY <2>1 DEF Deleting, Downloading
  <2>3. SyncedRemote(f)'
    BY <1>0, <1>4, <1>9, <2>1, <2>2 DEF SyncedRemote, InSync
  <2> QED
    BY <1>3, <1>5, <1>9, <2>1, <2>3
<1>10. ASSUME NEW g \in Files, TarRemote(g), NEW f \in Synced, writer[f] = "remote" PROVE Cared(f)'
  <2>1. /\ downPhase = "download" /\ g \in todo /\ todo' = todo \ {g}
        /\ UNCHANGED <<local, fileMap, watched, downPhase, deletes, downloads>>
        /\ tar'[f] = IF f = g /\ remote[f] # Absent THEN remote[f] ELSE tar[f]
        /\ Copied(f)' <=> Copied(f)
    <3>1. remote[f] # Absent => Archived(remote[f]) = remote[f]
      BY <1>1, CarefulFacts
    <3> QED
      BY <1>1, <1>10, <1>13, <3>1 DEF TarRemote, TypeOK
  <2>2. (Deleting(f)' <=> Deleting(f)) /\ (Downloading(f)' <=> Downloading(f))
    BY <2>1 DEF Deleting, Downloading
  <2>3. SyncedRemote(f)'
    <3>1. CASE f # g
      BY <1>0, <1>1, <1>4, <1>10, <2>1, <2>2, <3>1, RemoteKept
    <3>2. CASE f = g
      <4>1. Downloading(f) /\ watched[f] # Absent
        BY <1>1, <2>1, <3>2 DEF DownInHand
      <4>2. remote[f] = Absent => StatOf(remote[f]) = Absent
        BY DEF StatOf
      <4> QED
        BY <1>0, <1>4, <1>10, <2>1, <2>2, <3>2, <4>1, <4>2 DEF SyncedRemote, Agree
    <3> QED
      BY <3>1, <3>2
  <2> QED
    BY <1>3, <1>5, <1>10, <2>1, <2>3
<1>11. ASSUME NEW g \in Files, KeepNewer(g) \/ CloseLocal(g), NEW f \in Synced, writer[f] = "remote" PROVE Cared(f)'
  <2>1. /\ downPhase = "download" /\ tar[g] # Absent /\ tar'[g] = Absent
        /\ UNCHANGED <<watched, downPhase, deletes, downloads, todo>>
    BY <1>11 DEF KeepNewer, CloseLocal, UntarNext, TypeOK, OpenOK
  <2>2. (Deleting(f)' <=> Deleting(f)) /\ (Downloading(f)' <=> Downloading(f))
    BY <2>1 DEF Deleting, Downloading
  <2>3. CASE f # g
    <3>1. local'[f] = local[f] /\ fileMap'[f] = fileMap[f] /\ tar'[f] = tar[f]
      <4>1. CASE KeepNewer(g)
        BY <1>1, <2>3, <4>1 DEF KeepNewer, TypeOK
      <4>2. CASE CloseLocal(g)
        BY <1>1, <2>3, <4>2 DEF CloseLocal, IndexUntarred, TypeOK
      <4> QED
        BY <1>11, <4>1, <4>2
    <3>2. ~Copied(f) /\ ~Copied(f)'
      BY <1>11, <2>3 DEF KeepNewer, CloseLocal, Copied, NoneOpen
    <3>3. SyncedRemote(f)'
      BY <1>0, <1>1, <1>4, <1>11, <2>1, <2>2, <3>1, <3>2, RemoteKept
    <3> QED
      BY <1>3, <1>5, <1>11, <3>1, <3>3
  <2>4. CASE f = g
    <3>1. Downloading(f) /\ watched[f] # Absent /\ f \notin todo /\ tar[f] \in Version /\ ~Copied(f)'
      BY <1>1, <1>11, <2>1, <2>4 DEF DownInHand, KeepNewer, CloseLocal, Copied, NoneOpen
    <3>2. \/ KeepNewer(g) /\ NewerLocally(f) /\ ~Copied(f) /\ local'[f] = local[f] /\ fileMap'[f] = InfoOf(local[f])
          \/ Copied(f) /\ local'[f] = tar[f] /\ fileMap'[f] = InfoOf(tar[f])
      <4>1. CASE KeepNewer(g)
        BY <1>1, <2>4, <4>1 DEF KeepNewer, Copied, TypeOK
      <4>2. CASE CloseLocal(g)
        <5>1. Copied(f) /\ fileMap'[f] = InfoOf(tar[f])
          BY <1>1, <2>4, <4>2 DEF CloseLocal, IndexUntarred, Copied, TypeOK
        <5>2. local[f] \in Version /\ local[f].data = tar[f].data
          BY <1>1, <1>4, <1>11, <5>1 DEF FromRemote
        <5>3. local'[f] = [local[f] EXCEPT !.tick = tar[f].tick]
          BY <1>1, <2>4, <4>2, <5>2, VersionFacts DEF CloseLocal, TypeOK
        <5>4. local'[f] = tar[f]
          BY <3>1, <5>2, <5>3 DEF Version
        <5> QED
          BY <5>1, <5>4
      <4> QED
        BY <1>11, <4>1, <4>2
    <3>3. Agree(local'[f], remote[f]) /\ Agree(tar'[f], remote[f])
      BY <1>4, <1>11, <2>1, <2>4, <3>2 DEF SyncedRemote, Agree
    <3>4. ASSUME watched[f] = StatOf(remote[f]) PROVE InSync(f)'
      <4>1. remote[f] \in Version
        BY <1>1, <3>1, <3>4 DEF StatOf
      <4>2. InfoOf(tar[f]) = InfoOf(remote[f]) /\ Agree(tar[f], remote[f])
            /\ (local[f] # Absent /\ ~Copied(f) => Sec(local[f].tick) <= Sec(remote[f].tick))
        BY <1>1, <1>4, <1>11, <2>1, <2>4, <3>1, <3>4, <4>1, VersionFacts DEF FromRemote, SyncedRemote
      <4>3. tar[f].tick = remote[f].tick /\ tar[f].data = remote[f].data
        BY <3>1, <4>1, <4>2, SameEntry, VersionFacts
      <4>4. ~(NewerLocally(f) /\ ~Copied(f))
        <5>1. /\ Sec(tar[f].tick) = Sec(remote[f].tick) /\ Sec(remote[f].tick) \in Nat
              /\ local[f] # Absent => Sec(local[f].tick) \in Nat
          BY <1>1, <4>1, <4>3, VersionFacts
        <5> QED
          BY <4>2, <5>1 DEF NewerLocally
      <4> QED
        BY <1>0, <2>1, <2>4, <3>1, <3>2, <4>1, <4>3, <4>4, VersionFacts DEF InSync
    <3>5. SyncedRemote(f)'
      <4>1. fileMap'[f] = InfoOf(local'[f])
        BY Zenon, <3>2
      <4> QED
        BY <1>0, <2>1, <2>2, <2>4, <3>1, <3>3, <3>4, <4>1 DEF SyncedRemote
    <3>6. Dated(f)'
      BY <1>5, <1>11, <2>1, <2>4, <3>2
    <3> QED
      BY <1>3, <1>11, <3>5, <3>6
  <2> QED
    BY <2>3, <2>4
<1>15. ASSUME NEW g \in Files, OpenLocal(g), NEW f \in Synced, writer[f] = "remote" PROVE Cared(f)'
  <2>1. ~Copied(f) /\ ~Copied(f)' /\ UNCHANGED <<local, fileMap, tar, watched, downPhase, deletes, downloads, todo>>
    BY <1>15 DEF OpenLocal, UntarNext, Copied
  <2>2. SyncedRemote(f)'
    BY <1>0, <1>1, <1>4, <1>15, <2>1, RemoteKept DEF Deleting, Downloading
  <2> QED
    BY <1>3, <1>5, <1>15, <2>1, <2>2
<1>16. ASSUME NEW g \in Files, CopyLocal(g), NEW f \in Synced, writer[f] = "remote" PROVE Cared(f)'
  <2>1. /\ ~NoneOpen /\ outFile.name = g /\ outFile \in Opened /\ tar[g] \in Version /\ downPhase = "download"
        /\ UNCHANGED <<fileMap, tar, watched, downPhase, deletes, downloads, todo>>
    BY <1>16 DEF CopyLocal, UntarNext, OpenOK, NoneOpen, TypeOK
  <2>2. (Deleting(f)' <=> Deleting(f)) /\ (Downloading(f)' <=> Downloading(f))
    BY <2>1 DEF Deleting, Downloading
  <2>3. CASE f # g
    <3>1. local'[f] = local[f]
      BY <1>1, <1>16, <2>3 DEF CopyLocal, TypeOK
    <3>2. ~Copied(f) /\ ~Copied(f)'
      BY <1>16, <2>1, <2>3 DEF CopyLocal, Copied, NoneOpen, Opened
    <3>3. SyncedRemote(f)'
      BY <1>0, <1>1, <1>4, <1>16, <2>1, <2>2, <3>1, <3>2, RemoteKept
    <3> QED
      BY <1>3, <1>5, <1>16, <2>1, <3>1, <3>3
  <2>4. CASE f = g
    <3>1. Downloading(f) /\ watched[f] # Absent /\ tar[f] # Absent /\ Agree(tar[f], remote[f])
      BY <1>1, <1>4, <1>16, <2>1, <2>4, VersionFacts DEF DownInHand, SyncedRemote
    <3>2. Copied(f)'
      BY <2>1, <2>4, <1>16 DEF CopyLocal, Copied, NoneOpen, Opened
    <3>3. local'[f] = [tick |-> clock, data |-> tar[f].data]
      BY <1>1, <1>16, <2>4 DEF CopyLocal, TypeOK
    <3>4. SyncedRemote(f)'
      BY <1>0, <2>1, <2>2, <3>1, <3>2 DEF SyncedRemote
    <3>5. clock > 0
      BY <1>14, <1>16, <3>1
    <3>6. Dated(f)'
      BY <1>0, <1>4, <1>16, <2>1, <3>3, <3>5 DEF Dated
    <3> QED
      BY <1>3, <1>16, <3>4, <3>6
  <2> QED
    BY <2>3, <2>4
<1>12. ASSUME NEW f \in Synced, writer[f] = "remote" PROVE Cared(f)'
  BY <1>6, <1>7, <1>8, <1>9, <1>10, <1>11, <1>12, <1>15, <1>16 DEF DownStep
<1> QED
  BY <1>0, <1>1, <1>2, <1>12

\* The invariant holds at first, when the sides and the client's index of them agree ...
LEMMA SettledInvInit == ASSUME Init PROVE SettledInv
<1>1. EchoInv
  BY EchoInvInit
<1>2. \A f \in Files : /\ local[f] = remote[f] /\ fileMap[f] = InfoOf(remote[f])
                       /\ remote[f] # Absent => remote[f].tick = TicksPerSecond
  BY DEF Init
<1>3. changes = <<>> /\ tar = [f \in Files |-> Absent] /\ uploads = {} /\ upPhase = "gather"
      /\ writer = [f \in Files |-> "local"]
  BY DEF Init
<1>4. ASSUME NEW f \in Files PROVE Cared(f)
  <2>1. SyncedLocal(f)
    BY <1>2, <1>3 DEF SyncedLocal, Agree, InSync, BeingUploaded
  <2>2. Dated(f)
    BY <1>2, <1>3 DEF Dated
  <2> QED
    BY <1>3, <2>1, <2>2 DEF Cared
<1> QED
  BY <1>1, <1>4 DEF SettledInv, Synced

\* ... and no step disturbs it.
LEMMA SettledInvKept == ASSUME SettledInv, [Next]_vars PROVE SettledInv'
<1>1. EchoInv' /\ env' = env /\ Synced' = Synced
  BY EchoInvKept, EnvFixed, SyncedFixed DEF SettledInv
<1>2. ASSUME Careful' PROVE \A f \in Synced : Cared(f)'
  <2>1. Careful /\ Calm
    BY <1>1, <1>2 DEF Careful, Calm
  <2>2. UNCHANGED vars \/ UserNext \/ UpStep \/ DownStep
    BY <2>1, CalmSteps DEF SettledInv, EchoInv
  <2>3. CASE UNCHANGED vars
    <3>1. ASSUME NEW f \in Synced PROVE Cared(f)'
      <4>1. Cared(f) /\ f \in Files /\ TypeOK
        BY <2>1 DEF SettledInv, EchoInv, Synced
      <4>2. SyncedLocal(f) => SyncedLocal(f)'
        BY <2>3, <4>1, LocalKept DEF vars, upVars, downVars, userVars
      <4>3. SyncedRemote(f) => SyncedRemote(f)'
        BY <2>3, <4>1, RemoteKept DEF vars, upVars, downVars, userVars, Deleting, Downloading, Copied, NoneOpen
      <4> QED
        BY <2>3, <4>1, <4>2, <4>3 DEF vars, upVars, downVars, userVars, Cared, Dated
    <3> QED
      BY <3>1
  <2> QED
    BY <2>1, <2>2, <2>3, UserSynced, UpSynced, DownSynced
<1> QED
  BY <1>1, <1>2 DEF SettledInv

\* What both loops are done with and the index and the helper are settled about is in sync.
LEMMA SettledMeansSynced ==
  ASSUME SettledInv, Careful, NEW f \in Synced, Settled(f) PROVE InSync(f)
<1>1. f \in Files /\ Cared(f) /\ writer[f] \in {"local", "remote"} /\ UpInHand
  BY DEF SettledInv, EchoInv, TypeOK, Synced
<1>2. f \notin events /\ ~Pends(f) /\ ~Deleting(f) /\ ~Downloading(f) /\ watched[f] = StatOf(remote[f])
  BY PendsNames DEF Settled, Deleting, Downloading
<1>3. CASE writer[f] = "remote"
  BY <1>1, <1>2, <1>3 DEF Cared, SyncedRemote
<1>4. CASE writer[f] = "local"
  <2>1. f \notin uploads
    BY <1>1, <1>2, PendsNames DEF UpInHand, Pending
  <2> QED
    BY <1>1, <1>2, <1>4, <2>1 DEF Cared, SyncedLocal, Busy
<1> QED
  BY <1>1, <1>3, <1>4

\* In every environment in which some file may go both ways, suppose the users take turns
\* and leave a file alone while its change is gathered, no file is dated back and no call
\* fails; let the clocks tick in seconds and no file be empty.  Then, for any number of
\* files and edits and every interleaving of the two main loops, the helper and the users,
\* a file nobody works on holds the same content on both sides.
THEOREM SettledTheorem ==
  ASSUME TicksPerSecond = 1, \A c \in Contents : Size[c] > 0,
         \A e \in Environments :
            \/ Files \subseteq e.uploadExcluded \cup e.downloadExcluded
            \/ ~e.concurrent /\ ~e.repeated /\ ~e.epoch /\ e.maxUploadErrors = 0 /\ e.maxDownloadErrors = 0
  PROVE  Spec => []SettledInSync
<1>1. SettledInv => SettledInSync
  <2> SUFFICES ASSUME SettledInv, NEW f \in Synced, Settled(f) PROVE InSync(f)
    BY DEF SettledInSync
  <2>1. env \in Environments
    BY DEF SettledInv, EchoInv, TypeOK
  <2>2. ~(Files \subseteq env.uploadExcluded \cup env.downloadExcluded)
    BY DEF Synced, UploadExcluded, DownloadExcluded
  <2>3. Careful
    BY <2>1, <2>2 DEF Careful, Calm
  <2> QED
    BY <2>3, SettledMeansSynced
<1> QED
  BY <1>1, SettledInvInit, SettledInvKept, PTL DEF Spec
=============================================================================
