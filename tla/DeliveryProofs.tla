---------------------------- MODULE DeliveryProofs ----------------------------
(***************************************************************************)
(* Proofs about Delivery for any users, images, deployments,               *)
(* configurations and bounds: an image the local cache names was built     *)
(* from what the cache says; and, when commands do not overlap, what was   *)
(* deployed is what was asked for, and the secret knows it.                *)
(***************************************************************************)
EXTENDS Delivery, TLAPS

-----------------------------------------------------------------------------
(* Types.                                                                  *)

\* Changing one value of a table of tables.
LEMMA CellType ==
  ASSUME NEW S, NEW T, NEW V, NEW f \in [S -> [T -> V]], NEW a \in S, NEW b \in T, NEW v \in V
  PROVE  [f EXCEPT ![a][b] = v] \in [S -> [T -> V]]
  OBVIOUS

\* What the steps of a build leave in the caches, the registries and the jobs
\* (build.go).
LEMMA BuildTypes ==
  ASSUME BuildTypeOK, NEW u \in Users,
         \/ LoadImages(u) \/ (DropImages(u) /\ file' = file)
         \/ \E i \in Images : \/ CheckImage(u, i) \/ PushImage(u, i) \/ BuildFails(u, i) \/ CollectBuild(u, i)
                              \/ EditSources(u, i)
         \/ ChangeLogin(u) \/ LoseLocalImages
  PROVE  BuildTypeOK'
<1> USE DEF BuildTypeOK
<1>0. \A i \in Images : /\ jobs[u][i] \in Job /\ cache[u][i] \in ImageCache /\ file[u][i] \in ImageCache
                        /\ sources[u][i] \in Versions
  OBVIOUS
<1>1. CASE LoadImages(u)
  <2>1. ASSUME NEW i \in Images PROVE ForStore(file[u][i], StoreFor(u)) \in ImageCache
    BY <1>0 DEF ForStore, StoreFor, ImageCache, Stores, BuildTypeOK
  <2> QED
    BY <1>1, <2>1 DEF LoadImages
<1>2. CASE DropImages(u) /\ file' = file
  <2>1. NewImage \in ImageCache /\ Todo \in Job
    BY DEF NewImage, Todo, ImageCache, Stores, Job
  <2> QED
    BY <1>2, <2>1 DEF DropImages
<1>3. ASSUME NEW i \in Images, CheckImage(u, i) PROVE BuildTypeOK'
  <2>1. NextTag(i) \in Nat
    BY DEF NextTag, Tags
  <2>2. ASSUME NextTag(i) \in Tags PROVE [at |-> "building", tag |-> NextTag(i)] \in Job
    BY <2>2 DEF Job
  <2>3. [jobs[u][i] EXCEPT !.at = "skipped"] \in Job
    BY <1>0 DEF Job
  <2>4. [cache[u][i] EXCEPT !.hash = sources[u][i]] \in ImageCache
    BY <1>0 DEF ImageCache
  <2>5. lastTag' \in [Images -> Tags]
    BY <1>3 DEF CheckImage
  <2>6. cache' \in [Users -> [Images -> ImageCache]]
    <3>1. cache' = cache \/ cache' = [cache EXCEPT ![u][i] = [cache[u][i] EXCEPT !.hash = sources[u][i]]]
      BY <1>3 DEF CheckImage
    <3> QED
      <4>1. CASE cache' = cache
        BY <4>1
      <4>2. CASE cache' # cache
        <5>1. PICK k \in ImageCache : cache' = [cache EXCEPT ![u][i] = k]
          BY <3>1, <2>4, <4>2
        <5> QED
          BY <5>1
      <4> QED
        BY <4>1, <4>2
  <2>7. jobs' \in [Users -> [Images -> Job]]
    <3>1. \/ jobs' = [jobs EXCEPT ![u][i] = [at |-> "building", tag |-> NextTag(i)]] /\ NextTag(i) \in Tags
          \/ jobs' = [jobs EXCEPT ![u][i] = [jobs[u][i] EXCEPT !.at = "skipped"]]
      BY <1>3 DEF CheckImage
    <3> QED
      <4>1. PICK j \in Job : jobs' = [jobs EXCEPT ![u][i] = j]
        BY <3>1, <2>2, <2>3
      <4> QED
        BY <4>1
  <2> QED
    BY <1>3, <2>5, <2>6, <2>7 DEF CheckImage
<1>4. ASSUME NEW i \in Images, PushImage(u, i) PROVE BuildTypeOK'
  <2>1. [cache[u][i] EXCEPT !.sure = (sources[u][i] = cache[u][i].hash /\ sources[u][i] = read[u][i])] \in ImageCache
    BY <1>0 DEF ImageCache
  <2>2. [jobs[u][i] EXCEPT !.at = "built"] \in Job
    BY <1>0 DEF Job
  <2>3. stored' \in [Stores -> [Images -> [Tags -> Versions \cup {None}]]]
    <3> DEFINE st == cache[u][i].store
               t == jobs[u][i].tag
    <3>1. st \in Stores
      BY <1>0 DEF ImageCache
    <3>2. stored' = [stored EXCEPT ![st][i] = [stored[st][i] EXCEPT ![t] = sources[u][i]]]
      BY <1>4, <3>1 DEF PushImage
    <3>3. [stored[st][i] EXCEPT ![t] = sources[u][i]] \in [Tags -> Versions \cup {None}]
      <4>1. stored[st][i] \in [Tags -> Versions \cup {None}]
        BY <3>1
      <4> QED
        BY <1>0, <4>1
    <3> QED
      BY <3>1, <3>2, <3>3, CellType
  <2>4. cache' \in [Users -> [Images -> ImageCache]]
    BY <1>4, <2>1 DEF PushImage
  <2> QED
    BY <1>4, <2>2, <2>3, <2>4 DEF PushImage
<1>5. ASSUME NEW i \in Images, BuildFails(u, i) PROVE BuildTypeOK'
  <2>1. [jobs[u][i] EXCEPT !.at = "failed"] \in Job
    BY <1>0 DEF Job
  <2> QED
    BY <1>5, <2>1 DEF BuildFails
<1>6. ASSUME NEW i \in Images, CollectBuild(u, i) PROVE BuildTypeOK'
  <2>1. [jobs[u][i] EXCEPT !.at = "finished"] \in Job
    BY <1>0 DEF Job
  <2>2. [cache[u][i] EXCEPT !.tag = jobs[u][i].tag] \in ImageCache
    BY <1>0 DEF Job, ImageCache
  <2> QED
    BY <1>6, <2>1, <2>2 DEF CollectBuild
<1>7. ASSUME NEW i \in Images, EditSources(u, i) PROVE BuildTypeOK'
  <2>1. PICK v \in Versions : sources' = [sources EXCEPT ![u][i] = v]
    BY <1>7 DEF EditSources
  <2> QED
    BY <1>7, <2>1 DEF EditSources
<1>8. CASE ChangeLogin(u)
  BY <1>8 DEF ChangeLogin
<1>9. CASE LoseLocalImages
  BY <1>9 DEF LoseLocalImages
<1> QED
  BY <1>1, <1>2, <1>3, <1>4, <1>5, <1>6, <1>7, <1>8, <1>9

\* Entries of the record (RemoteCache.GetDeployment), and what a release and a manifest
\* say of the image.
LEMMA RecordTypes ==
  ASSUME BuildTypeOK, DeployTypeOK, NEW u \in Users, NEW d \in Deployments
  PROVE  /\ GetDeployment(u, d) \in Deployment
         /\ loaded[u][d] \in Configs[d] /\ loaded[u][d] \in Config
         /\ Values(u, d) \in ImageRef
         /\ NextRevision(d) \in Nat /\ NextRevision(d) # 0
         /\ Manifest(u, d) \in Applied
         /\ \A known \in Deployment : /\ ForProject(known, u) \in Deployment
                                      /\ ForProject(known, u).helm = known.helm
                                      /\ ForProject(known, u).kubectl = known.kubectl
                                      /\ ForProject(known, u).hash = known.hash
                                      /\ ForProject(known, u).projects = known.projects \cup {u}
<1>1. GetDeployment(u, d) \in Deployment
  <2>1. remote[u][d] \in Deployment \cup {None}
    BY DEF DeployTypeOK, RemoteCache
  <2>2. NewDeployment \in Deployment
    BY DEF NewDeployment, Deployment
  <2> QED
    BY <2>1, <2>2 DEF GetDeployment
<1>2. loaded[u][d] \in Configs[d] /\ loaded[u][d] \in Config
  <2>1. loaded[u] \in Checkouts
    BY DEF DeployTypeOK
  <2> QED
    BY <2>1, DeployAssumption DEF Checkouts
<1>3. Values(u, d) \in ImageRef
  BY <1>2 DEF Values, ImageRef, Config, BuildTypeOK, ImageCache
<1>4. NextRevision(d) \in Nat /\ NextRevision(d) # 0
  BY DEF NextRevision, DeployTypeOK, Release
<1>5. Manifest(u, d) \in Applied
  BY <1>2, <1>3 DEF Manifest, Applied, Config
<1>6. \A known \in Deployment : /\ ForProject(known, u) \in Deployment
                                /\ ForProject(known, u).helm = known.helm
                                /\ ForProject(known, u).kubectl = known.kubectl
                                /\ ForProject(known, u).hash = known.hash
                                /\ ForProject(known, u).projects = known.projects \cup {u}
  BY DEF ForProject, Deployment
<1> QED
  BY <1>1, <1>2, <1>3, <1>4, <1>5, <1>6

\* What the steps of a command do to the configuration, the cluster and the record
\* (deploy.go, remotecache/schema.go).
LEMMA DeployTypes ==
  ASSUME BuildTypeOK, DeployTypeOK, NEW u \in Users,
         \/ Load(u, FALSE) \/ Load(u, TRUE)
         \/ DropRemote(u) /\ (UNCHANGED secret \/ SaveRemote(u))
         \/ \E d \in Deployments :
               \/ CheckRelease(u, d) \/ Upgrade(u, d, TRUE) \/ Upgrade(u, d, FALSE) \/ RecordRelease(u, d)
               \/ ApplyManifests(u, d) \/ ApplyFails(u, d) \/ DeployFails(u, d)
               \/ (\E force \in BOOLEAN, survivors \in SUBSET (Objects \cup {d}) : Purge(u, d, force, survivors))
               \/ EditConfig(u, d)
  PROVE  DeployTypeOK'
<1> USE DEF DeployTypeOK
<1>0. /\ None \notin RemoteCache /\ NoDeployments \in RemoteCache
      /\ \A d \in Deployments : remote[u][d] \in Deployment \cup {None}
      /\ remote[u] \in RemoteCache
  BY DeployAssumption DEF NoDeployments, RemoteCache
<1>1. ASSUME NEW refused \in BOOLEAN, Load(u, refused) PROVE DeployTypeOK'
  BY <1>0, <1>1 DEF Load
<1>2. CASE DropRemote(u) /\ (UNCHANGED secret \/ SaveRemote(u))
  <2>1. secret' \in RemoteCache \cup {None}
    BY <1>0, <1>2 DEF SaveRemote
  <2>2. [d \in Deployments |-> "todo"] \in [Deployments -> Steps]
    BY DEF Steps
  <2> QED
    BY <1>0, <1>2, <2>1, <2>2 DEF DropRemote
<1>3. ASSUME NEW d \in Deployments, NEW s \in Steps, Go(u, d, s)
      PROVE  steps' \in [Users -> [Deployments -> Steps]]
  BY <1>3 DEF Go
<1>4. ASSUME NEW d \in Deployments, NEW known \in Deployment \cup {None}, SetDeployment(u, d, known)
      PROVE  remote' \in [Users -> RemoteCache]
  <2>1. [remote[u] EXCEPT ![d] = known] \in RemoteCache
    BY <1>0 DEF RemoteCache
  <2> QED
    BY <1>4, <2>1 DEF SetDeployment
<1>5. ASSUME NEW d \in Deployments, CheckRelease(u, d) PROVE DeployTypeOK'
  <2>1. steps' \in [Users -> [Deployments -> Steps]]
    BY <1>5, <1>3 DEF CheckRelease, Steps
  <2>2. remote' \in [Users -> RemoteCache]
    BY <1>5, <1>4, RecordTypes DEF CheckRelease
  <2> QED
    BY <1>5, <2>1, <2>2 DEF CheckRelease
<1>6. ASSUME NEW d \in Deployments, NEW ok \in BOOLEAN, Upgrade(u, d, ok) PROVE DeployTypeOK'
  <2>1. steps' \in [Users -> [Deployments -> Steps]]
    BY <1>6, <1>3 DEF Upgrade, Steps
  <2>2. [version |-> loaded[u][d].version, values |-> Values(u, d), revision |-> NextRevision(d), ok |-> ok] \in Release
    BY <1>6, RecordTypes, DeployAssumption DEF Upgrade, Release, Config
  <2> QED
    BY <1>6, <2>1, <2>2 DEF Upgrade
<1>7. ASSUME NEW d \in Deployments, RecordRelease(u, d) PROVE DeployTypeOK'
  <2>1. steps' \in [Users -> [Deployments -> Steps]]
    BY <1>7, <1>3 DEF RecordRelease, Steps
  <2> DEFINE known == GetDeployment(u, d)
             found == IF releases[d] # None THEN releases[d].revision
                      ELSE IF known.helm # None THEN known.helm.revision ELSE None
             entry == [known EXCEPT !.hash = loaded[u][d].version, !.helm = [values |-> Values(u, d), revision |-> found]]
  <2>2. known \in Deployment
    BY RecordTypes
  <2>3. found \in 1..MaxRevisions \cup {None}
    BY <2>2 DEF Deployment, HelmCache, Release
  <2>4. entry \in Deployment
    <3> HIDE DEF known, found
    <3>1. Values(u, d) \in ImageRef /\ loaded[u][d].version \in Nat
      BY RecordTypes DEF Config
    <3>2. [values |-> Values(u, d), revision |-> found] \in HelmCache
      BY <2>3, <3>1 DEF HelmCache
    <3> QED
      BY <2>2, <3>1, <3>2 DEF Deployment
  <2>5. SetDeployment(u, d, ForProject(entry, u))
    BY <1>7 DEF RecordRelease
  <2>6. remote' \in [Users -> RemoteCache]
    BY <1>4, <2>4, <2>5, RecordTypes
  <2> QED
    BY <1>7, <2>1, <2>6 DEF RecordRelease
<1>8. ASSUME NEW d \in Deployments, NEW objs, Apply(u, d, objs) PROVE applied' \in [Objects -> Applied \cup {None}]
  BY <1>8, RecordTypes DEF Apply
<1>9. ASSUME NEW d \in Deployments, ApplyManifests(u, d) PROVE DeployTypeOK'
  <2>1. steps' \in [Users -> [Deployments -> Steps]]
    BY <1>9, <1>3 DEF ApplyManifests, Steps
  <2> DEFINE entry == [GetDeployment(u, d) EXCEPT !.hash = loaded[u][d].version, !.kubectl = loaded[u][d].objects]
  <2>4. GetDeployment(u, d) \in Deployment /\ loaded[u][d] \in Config
    BY RecordTypes
  <2>2. entry \in Deployment
    BY <2>4 DEF Deployment, Config
  <2>3. remote' \in [Users -> RemoteCache]
    BY <1>9, <1>4, <2>2, RecordTypes DEF ApplyManifests
  <2> QED
    BY <1>9, <1>8, <2>1, <2>3 DEF ApplyManifests
<1>10. ASSUME NEW d \in Deployments, ApplyFails(u, d) PROVE DeployTypeOK'
  <2>1. steps' \in [Users -> [Deployments -> Steps]]
    BY <1>10, <1>3 DEF ApplyFails, Steps
  <2>2. applied' \in [Objects -> Applied \cup {None}]
    BY <1>10, <1>8 DEF ApplyFails
  <2> QED
    BY <1>10, <2>1, <2>2 DEF ApplyFails
<1>11. ASSUME NEW d \in Deployments, DeployFails(u, d) PROVE DeployTypeOK'
  BY <1>11, <1>3 DEF DeployFails, Steps
<1>12. ASSUME NEW d \in Deployments, NEW force \in BOOLEAN, NEW survivors \in SUBSET (Objects \cup {d}),
              Purge(u, d, force, survivors)
       PROVE  DeployTypeOK'
  <2>1. steps' \in [Users -> [Deployments -> Steps]]
    BY <1>12, <1>3 DEF Purge, Steps
  <2>2. CASE ReleaseFor(u, d)
    <3>1. [remote[u][d] EXCEPT !.projects = @ \ {u}] \in Deployment
      BY <1>0, <2>2 DEF ReleaseFor, Deployment
    <3> QED
      BY <1>12, <1>4, <2>1, <2>2, <3>1 DEF ReleaseFor, Purge
  <2>3. CASE Delete(u, d, survivors)
    <3>1. remote' \in [Users -> RemoteCache]
      BY <1>4, <2>3 DEF Delete
    <3>2. applied' \in [Objects -> Applied \cup {None}] /\ releases' \in [Deployments -> Release \cup {None}]
      BY <2>3 DEF Delete
    <3> QED
      BY <1>12, <2>1, <3>1, <3>2 DEF Purge
  <2> QED
    BY <1>12, <2>2, <2>3 DEF Purge
<1>13. ASSUME NEW d \in Deployments, EditConfig(u, d) PROVE DeployTypeOK'
  <2>1. PICK c \in Configs[d] : configs' = [configs EXCEPT ![u][d] = c]
    BY <1>13 DEF EditConfig
  <2>2. [configs[u] EXCEPT ![d] = c] \in Checkouts
    BY <2>1 DEF Checkouts
  <2> QED
    BY <1>13, <2>1, <2>2 DEF EditConfig
<1> QED
  BY <1>1, <1>2, <1>5, <1>6, <1>7, <1>9, <1>10, <1>11, <1>12, <1>13

\* Every variable of Delivery has its type.
LEMMA NextType == TypeOK /\ [Next]_vars => TypeOK'
<1> SUFFICES ASSUME TypeOK, [Next]_vars PROVE TypeOK'
  OBVIOUS
<1> USE DEF TypeOK
<1>1. ASSUME NEW u \in Users, NEW k \in Kinds, Begin(u, k) PROVE TypeOK'
  <2>1. BuildTypeOK' /\ DeployTypeOK'
    BY <1>1, BuildTypes, DeployTypes DEF Begin
  <2>2. used' \in [commands : 0..MaxCommands, edits : 0..MaxEdits, faults : 0..MaxFaults]
    <3>1. used.commands \in 0..MaxCommands /\ used.faults \in 0..MaxFaults /\ used.commands < MaxCommands
      BY <1>1 DEF Begin
    <3>2. CASE Spend("commands")
      BY <3>1, <3>2, DeliveryAssumption DEF Spend
    <3>3. CASE MayFail /\ used' = [used EXCEPT !.commands = @ + 1, !.faults = @ + 1]
      <4>1. used.commands + 1 \in 0..MaxCommands /\ used.faults + 1 \in 0..MaxFaults
        BY <3>1, <3>3, DeliveryAssumption DEF MayFail
      <4> QED
        BY <3>3, <4>1
    <3> QED
      BY <1>1, <3>2, <3>3 DEF Begin
  <2> QED
    BY <1>1, <2>1, <2>2 DEF Begin, Phases
<1>0. ASSUME NEW u \in Users, Leave(u), file' \in [Users -> [Images -> ImageCache]], UNCHANGED secret \/ SaveRemote(u)
      PROVE  /\ BuildTypeOK' /\ DeployTypeOK'
             /\ kind' \in [Users -> Kinds] /\ phase' \in [Users -> Phases]
  <2>1. DeployTypeOK'
    BY <1>0, DeployTypes DEF Leave
  <2>2. BuildTypeOK'
    <3>1. NewImage \in ImageCache /\ Todo \in Job
      BY DEF NewImage, Todo, ImageCache, Stores, Job
    <3> QED
      BY <1>0, <3>1 DEF Leave, DropImages, BuildTypeOK
  <2> QED
    BY <1>0, <2>1, <2>2 DEF Leave, Kinds, Phases
<1>00. ASSUME MayFail, Spend("faults")
       PROVE  used' \in [commands : 0..MaxCommands, edits : 0..MaxEdits, faults : 0..MaxFaults]
  BY <1>00, DeliveryAssumption DEF MayFail, Spend
<1>01. file \in [Users -> [Images -> ImageCache]] /\ cache \in [Users -> [Images -> ImageCache]]
  BY DEF BuildTypeOK
<1>2. ASSUME NEW u \in Users, Crash(u) \/ PurgeError(u) PROVE TypeOK'
  BY <1>0, <1>00, <1>01, <1>2 DEF Crash, PurgeError, CutShort
<1>3. ASSUME NEW u \in Users, BuildEnds(u) \/ DeployEnds(u) PROVE TypeOK'
  BY <1>0, <1>01, <1>3 DEF BuildEnds, DeployEnds
<1>4. ASSUME NEW u \in Users, ImagesBuilt(u) PROVE TypeOK'
  <2>1. file' \in [Users -> [Images -> ImageCache]]
    BY <1>01, <1>4 DEF ImagesBuilt, SaveImages
  <2>2. CASE kind[u] = "deploy"
    BY <1>4, <2>1, <2>2 DEF ImagesBuilt, BuildTypeOK, DeployTypeOK, deployVars, Phases
  <2>3. CASE kind[u] # "deploy"
    BY <1>0, <1>4, <2>1, <2>3 DEF ImagesBuilt
  <2> QED
    BY <2>2, <2>3
<1>5. ASSUME NEW u \in Users, Deployed(u) \/ Purged(u) PROVE TypeOK'
  BY <1>0, <1>01, <1>5 DEF Deployed, Purged
<1>6. ASSUME NEW u \in Users, NEW i \in Images, BuildStep(u, i) \/ BuildError(u, i) PROVE TypeOK'
  <2>1. BuildTypeOK'
    BY <1>6, BuildTypes DEF BuildStep, BuildError
  <2> QED
    BY <1>6, <1>00, <2>1 DEF BuildStep, BuildError, deployVars, commandVars, DeployTypeOK
<1>7. ASSUME NEW u \in Users, NEW d \in Deployments, DeployStep(u, d) \/ DeployError(u, d) \/ PurgeStep(u, d)
      PROVE  TypeOK'
  <2>1. DeployTypeOK'
    BY <1>7, DeployTypes DEF DeployStep, DeployError, PurgeStep
  <2>2. CASE DeployStep(u, d)
    BY <2>1, <2>2 DEF DeployStep, buildVars, BuildTypeOK
  <2>3. CASE DeployError(u, d)
    BY <1>00, <2>1, <2>3 DEF DeployError, buildVars, BuildTypeOK
  <2>4. CASE PurgeStep(u, d)
    <3>1. used' \in [commands : 0..MaxCommands, edits : 0..MaxEdits, faults : 0..MaxFaults]
      BY <1>00, <2>4 DEF PurgeStep
    <3>2. UNCHANGED <<buildVars, kind, phase, gone>> /\ tidy' \in BOOLEAN
      BY <2>4 DEF PurgeStep
    <3>3. uses' \in [Deployments -> SUBSET Users]
      BY <2>4 DEF PurgeStep
    <3> QED
      BY <2>1, <3>1, <3>2, <3>3 DEF buildVars, BuildTypeOK
  <2> QED
    BY <1>7, <2>2, <2>3, <2>4
<1>8. ASSUME NEW u \in Users, Edit(u) PROVE TypeOK'
  <2>1. used' \in [commands : 0..MaxCommands, edits : 0..MaxEdits, faults : 0..MaxFaults]
    BY <1>8, DeliveryAssumption DEF Edit, Spend
  <2>2. BuildTypeOK'
    <3>1. CASE UNCHANGED buildVars
      BY <3>1 DEF buildVars, BuildTypeOK
    <3> QED
      BY <1>8, <3>1, BuildTypes DEF Edit
  <2>3. DeployTypeOK'
    <3>1. CASE UNCHANGED deployVars
      BY <3>1 DEF deployVars, DeployTypeOK
    <3> QED
      BY <1>8, <3>1, DeployTypes DEF Edit
  <2> QED
    BY <1>8, <2>1, <2>2, <2>3 DEF Edit
<1>9. CASE RegistryRestarts
  <2>1. BuildTypeOK'
    BY <1>9 DEF RegistryRestarts, LoseLocalImages, BuildTypeOK
  <2> QED
    BY <1>00, <1>9, <2>1 DEF RegistryRestarts, deployVars, DeployTypeOK
<1>10. CASE UNCHANGED vars
  BY <1>10 DEF vars, buildVars, deployVars, commandVars, BuildTypeOK, DeployTypeOK
<1> QED
  BY <1>1, <1>2, <1>3, <1>4, <1>5, <1>6, <1>7, <1>8, <1>9, <1>10 DEF Next, Finished

\* ... and has it at the start.
LEMMA InitType == Init => TypeOK
<1> SUFFICES ASSUME Init PROVE TypeOK
  OBVIOUS
<1>1. NewImage \in ImageCache /\ Todo \in Job
  BY DEF NewImage, Todo, ImageCache, Stores, Job
<1>2. BuildTypeOK
  BY <1>1, BuildAssumption DEF Init, BuildInit, BuildTypeOK, Tags
<1>3. NoDeployments \in RemoteCache
  BY DEF NoDeployments, RemoteCache
<1>4. DeployTypeOK
  BY <1>3 DEF Init, DeployInit, DeployTypeOK, NoDeployments, Steps
<1> QED
  BY <1>2, <1>4, DeliveryAssumption DEF Init, TypeOK, Kinds, Phases

-----------------------------------------------------------------------------
(* The invariant of the images.                                            *)

IsBuilt(known, t, i) ==
    (t # None /\ known.sure) =>
        \/ stored[known.store][i][t] = known.hash
        \/ known.store = "local" /\ stored["local"][i][t] = None

\* Whatever a cache says once it is read or written: an entry with its tag; the entry of a
\* build with the tag it will get.
EntriesBuilt ==
    \A u \in Users : \A i \in Images \ Pinned :
        /\ IsBuilt(file[u][i], file[u][i].tag, i)
        /\ jobs[u][i].at \in {"todo", "skipped", "finished"} => IsBuilt(cache[u][i], cache[u][i].tag, i)
        /\ jobs[u][i].at = "built" => IsBuilt(cache[u][i], jobs[u][i].tag, i)

\* Tags known of an image were handed out, and that of a build under way is its own.
HandedOut(t, i) == t = None \/ t <= lastTag[i]

TagsFresh ==
    \A u \in Users : \A i \in Images \ Pinned :
        /\ HandedOut(file[u][i].tag, i) /\ HandedOut(cache[u][i].tag, i) /\ HandedOut(jobs[u][i].tag, i)
        /\ jobs[u][i].at = "building" =>
              /\ jobs[u][i].tag # None
              /\ \A w \in Users : /\ file[w][i].tag # jobs[u][i].tag /\ cache[w][i].tag # jobs[u][i].tag
                                  /\ w # u => jobs[w][i].tag # jobs[u][i].tag

\* What was built or found up to date is what the command looked at.
LookedAt ==
    \A u \in Users : \A i \in Images :
        \/ jobs[u][i].at = "skipped"
        \/ (jobs[u][i].at \in {"built", "finished"} /\ cache[u][i].sure)
        => cache[u][i].hash = read[u][i]

\* A user who runs no command has no builds.
Rested == \A u \in Users : phase[u] = "idle" => \A i \in Images : jobs[u][i].at = "todo"

ImageInv == TypeOK /\ EntriesBuilt /\ TagsFresh /\ LookedAt /\ Rested

\* A step that leaves the images, their caches and their jobs alone.
LEMMA ImagesKept ==
  ASSUME EntriesBuilt, TagsFresh, LookedAt, UNCHANGED <<stored, lastTag, file, cache, jobs, read>>
  PROVE  (EntriesBuilt /\ TagsFresh /\ LookedAt)'
<1>1. EntriesBuilt'
  <2>1. \A u \in Users : \A i \in Images \ Pinned :
           /\ IsBuilt(file[u][i], file[u][i].tag, i)' <=> IsBuilt(file[u][i], file[u][i].tag, i)
           /\ IsBuilt(cache[u][i], cache[u][i].tag, i)' <=> IsBuilt(cache[u][i], cache[u][i].tag, i)
           /\ IsBuilt(cache[u][i], jobs[u][i].tag, i)' <=> IsBuilt(cache[u][i], jobs[u][i].tag, i)
    BY DEF IsBuilt
  <2> QED
    BY <2>1 DEF EntriesBuilt
<1>2. TagsFresh'
  BY DEF TagsFresh, HandedOut
<1>3. LookedAt'
  BY DEF LookedAt
<1> QED
  BY <1>1, <1>2, <1>3

\* A command begins: what is read from disk names the same images as before; of another
\* store, it claims nothing (createBuilder).
LEMMA LoadKeepsImages ==
  ASSUME ImageInv, NEW u \in Users, \A i \in Images : jobs[u][i].at = "todo", LoadImages(u)
  PROVE  (EntriesBuilt /\ TagsFresh /\ LookedAt)'
<1> USE DEF ImageInv
<1>0. /\ UNCHANGED <<stored, lastTag, file, jobs, read>>
      /\ \A w \in Users : \A i \in Images : cache'[w][i] = IF w = u THEN ForStore(file[u][i], StoreFor(u)) ELSE cache[w][i]
  BY DEF LoadImages, TypeOK, BuildTypeOK
<1>1. ASSUME NEW i \in Images
      PROVE             /\ file[u][i] \in ImageCache
                        /\ ForStore(file[u][i], StoreFor(u)).tag = file[u][i].tag
                        /\ ForStore(file[u][i], StoreFor(u)).hash = file[u][i].hash
                        /\ ForStore(file[u][i], StoreFor(u)).store = StoreFor(u)
                        /\ ForStore(file[u][i], StoreFor(u)).sure =>
                              file[u][i].sure /\ (file[u][i].tag = None \/ file[u][i].store = StoreFor(u))
  <2>1. file[u][i] \in ImageCache
    BY DEF TypeOK, BuildTypeOK
  <2> QED
    BY <2>1 DEF ForStore, ImageCache
<1>2. \A i \in Images : jobs[u][i].at = "todo"
  OBVIOUS
<1>3. EntriesBuilt'
  <2>1. ASSUME NEW i \in Images \ Pinned
        PROVE  IsBuilt(file[u][i], file[u][i].tag, i)' /\ IsBuilt(cache[u][i], cache[u][i].tag, i)'
    <3>1. IsBuilt(file[u][i], file[u][i].tag, i)
      BY DEF EntriesBuilt
    <3>2. cache'[u][i] = ForStore(file[u][i], StoreFor(u)) /\ file' = file /\ stored' = stored
      BY <1>0
    <3> QED
      BY <1>1, <3>1, <3>2 DEF IsBuilt
  <2>2. ASSUME NEW w \in Users, NEW i \in Images \ Pinned, w # u
        PROVE  /\ IsBuilt(file[w][i], file[w][i].tag, i)'
               /\ jobs'[w][i].at \in {"todo", "skipped", "finished"} => IsBuilt(cache[w][i], cache[w][i].tag, i)'
               /\ jobs'[w][i].at = "built" => IsBuilt(cache[w][i], jobs[w][i].tag, i)'
    <3>1. cache'[w][i] = cache[w][i] /\ UNCHANGED <<stored, file, jobs>>
      BY <1>0, <2>2
    <3>2. /\ IsBuilt(file[w][i], file[w][i].tag, i)
          /\ jobs[w][i].at \in {"todo", "skipped", "finished"} => IsBuilt(cache[w][i], cache[w][i].tag, i)
          /\ jobs[w][i].at = "built" => IsBuilt(cache[w][i], jobs[w][i].tag, i)
      BY DEF EntriesBuilt
    <3> QED
      BY <3>1, <3>2 DEF IsBuilt
  <2>3. ASSUME NEW i \in Images \ Pinned PROVE jobs'[u][i].at # "built"
    BY <1>0, <1>2
  <2> QED
    BY <2>1, <2>2, <2>3 DEF EntriesBuilt
<1>4. TagsFresh'
  BY <1>0, <1>1, <1>2 DEF TagsFresh, HandedOut
<1>5. LookedAt'
  BY <1>0, <1>1, <1>2 DEF LookedAt
<1> QED
  BY <1>3, <1>4, <1>5

\* A command ends: what it held in memory is gone, the file is as before or as the cache.
LEMMA LeaveKeepsImages ==
  ASSUME ImageInv, NEW u \in Users, DropImages(u),
         \/ UNCHANGED file
         \/ file' = [file EXCEPT ![u] = cache[u]] /\ BuildsDone(u)
  PROVE  (EntriesBuilt /\ TagsFresh /\ LookedAt)'
<1> USE DEF ImageInv
<1>0. /\ UNCHANGED <<stored, lastTag>>
      /\ \A w \in Users \ {u} : file'[w] = file[w] /\ cache'[w] = cache[w] /\ jobs'[w] = jobs[w] /\ read'[w] = read[w]
      /\ \A i \in Images : cache'[u][i] = NewImage /\ jobs'[u][i] = Todo
      /\ NewImage.tag = None /\ Todo.at = "todo" /\ Todo.tag = None
  BY DEF DropImages, TypeOK, BuildTypeOK, NewImage, Todo
<1>1. \A i \in Images \ Pinned : /\ file'[u][i] = file[u][i] \/ file'[u][i] = cache[u][i]
                                 /\ IsBuilt(file'[u][i], file'[u][i].tag, i)
  <2>1. CASE UNCHANGED file
    BY <2>1 DEF EntriesBuilt
  <2>2. CASE file' = [file EXCEPT ![u] = cache[u]] /\ BuildsDone(u)
    <3>1. file'[u] = cache[u]
      BY <2>2 DEF TypeOK, BuildTypeOK
    <3> QED
      BY <2>2, <3>1 DEF EntriesBuilt, BuildsDone
  <2> QED
    BY <2>1, <2>2
<1>2. EntriesBuilt'
  <2>1. ASSUME NEW w \in Users, NEW i \in Images \ Pinned, w # u
        PROVE  /\ IsBuilt(file[w][i], file[w][i].tag, i)'
               /\ jobs'[w][i].at \in {"todo", "skipped", "finished"} => IsBuilt(cache[w][i], cache[w][i].tag, i)'
               /\ jobs'[w][i].at = "built" => IsBuilt(cache[w][i], jobs[w][i].tag, i)'
    <3>1. /\ file'[w][i] = file[w][i] /\ cache'[w][i] = cache[w][i] /\ jobs'[w][i] = jobs[w][i]
          /\ UNCHANGED stored
      BY <1>0, <2>1
    <3>2. /\ IsBuilt(file[w][i], file[w][i].tag, i)
          /\ jobs[w][i].at \in {"todo", "skipped", "finished"} => IsBuilt(cache[w][i], cache[w][i].tag, i)
          /\ jobs[w][i].at = "built" => IsBuilt(cache[w][i], jobs[w][i].tag, i)
      BY DEF EntriesBuilt
    <3> QED
      BY <3>1, <3>2 DEF IsBuilt
  <2>2. ASSUME NEW i \in Images \ Pinned
        PROVE  IsBuilt(file[u][i], file[u][i].tag, i)' /\ jobs'[u][i].at = "todo" /\ IsBuilt(cache[u][i], cache[u][i].tag, i)'
    BY <1>0, <1>1 DEF IsBuilt
  <2> QED
    BY <2>1, <2>2 DEF EntriesBuilt
<1>3. TagsFresh'
  BY <1>0, <1>1 DEF TagsFresh, HandedOut
<1>4. LookedAt'
  BY <1>0 DEF LookedAt
<1> QED
  BY <1>2, <1>3, <1>4

\* A look at an image (ShouldRebuild): a new build gets a tag of its own, and an image
\* that is skipped is the one that was looked at.
LEMMA CheckKeepsImages ==
  ASSUME ImageInv, NEW u \in Users, NEW i \in Images, CheckImage(u, i)
  PROVE  (EntriesBuilt /\ TagsFresh /\ LookedAt)'
<1> USE DEF ImageInv
<1>t. /\ jobs \in [Users -> [Images -> Job]] /\ cache \in [Users -> [Images -> ImageCache]]
      /\ jobs[u][i] \in Job /\ cache[u][i] \in ImageCache
  BY DEF TypeOK, BuildTypeOK
<1>c. cache' = cache \/ cache' = [cache EXCEPT ![u][i].hash = sources[u][i]]
  BY DEF CheckImage
<1>0. /\ jobs[u][i].at = "todo" /\ jobs[u][i] \in Job /\ cache[u][i] \in ImageCache
      /\ UNCHANGED <<stored, file>>
      /\ \A w \in Users : \A j \in Images : (w # u \/ j # i) =>
            cache'[w][j] = cache[w][j] /\ jobs'[w][j] = jobs[w][j] /\ read'[w][j] = read[w][j]
      /\ \A j \in Images \ {i} : lastTag'[j] = lastTag[j]
      /\ read'[u][i] = sources[u][i]
      /\ cache'[u][i].tag = cache[u][i].tag
  <2>1. jobs[u][i].at = "todo" /\ UNCHANGED <<stored, file>> /\ read'[u][i] = sources[u][i]
    BY DEF CheckImage, TypeOK, BuildTypeOK
  <2>2. \A w \in Users : \A j \in Images : (w # u \/ j # i) => jobs'[w][j] = jobs[w][j] /\ read'[w][j] = read[w][j]
    BY DEF CheckImage, TypeOK, BuildTypeOK
  <2>3. \A w \in Users : \A j \in Images : (w # u \/ j # i) => cache'[w][j] = cache[w][j]
    BY <1>c, <1>t
  <2>4. cache'[u][i].tag = cache[u][i].tag
    BY <1>c, <1>t DEF ImageCache
  <2>5. \A j \in Images \ {i} : lastTag'[j] = lastTag[j]
    BY DEF CheckImage, TypeOK, BuildTypeOK
  <2> QED
    BY <1>t, <2>1, <2>2, <2>3, <2>4, <2>5
<1>1. CASE MissingLocally(u, i) \/ MustRebuild(u, i)
  <2>1. jobs'[u][i] = [at |-> "building", tag |-> NextTag(i)] /\ lastTag'[i] = NextTag(i)
    BY <1>1 DEF CheckImage, TypeOK, BuildTypeOK
  <2>2. EntriesBuilt'
    <3>1. ASSUME NEW w \in Users, NEW j \in Images \ Pinned
          PROVE  /\ IsBuilt(file[w][j], file[w][j].tag, j)'
                 /\ jobs'[w][j].at \in {"todo", "skipped", "finished"} => IsBuilt(cache[w][j], cache[w][j].tag, j)'
                 /\ jobs'[w][j].at = "built" => IsBuilt(cache[w][j], jobs[w][j].tag, j)'
      <4>1. /\ IsBuilt(file[w][j], file[w][j].tag, j)
            /\ jobs[w][j].at \in {"todo", "skipped", "finished"} => IsBuilt(cache[w][j], cache[w][j].tag, j)
            /\ jobs[w][j].at = "built" => IsBuilt(cache[w][j], jobs[w][j].tag, j)
        BY DEF EntriesBuilt
      <4>2. CASE w = u /\ j = i
        <5>1. jobs'[w][j].at = "building" /\ UNCHANGED <<stored, file>>
          BY <1>0, <2>1, <4>2
        <5> QED
          BY <4>1, <5>1 DEF IsBuilt
      <4>3. CASE w # u \/ j # i
        <5>1. cache'[w][j] = cache[w][j] /\ jobs'[w][j] = jobs[w][j] /\ UNCHANGED <<stored, file>>
          BY <1>0, <4>3
        <5> QED
          BY <4>1, <5>1 DEF IsBuilt
      <4> QED
        BY <4>2, <4>3
    <3> QED
      BY <3>1 DEF EntriesBuilt
  <2>3. LookedAt'
    BY <1>0, <2>1 DEF LookedAt
  <2>4. TagsFresh'
    <3>1. i \notin Pinned => lastTag[i] \in Nat /\ NextTag(i) = lastTag[i] + 1 /\ NextTag(i) # None
      BY BuildAssumption DEF NextTag, Tags, TypeOK, BuildTypeOK
    <3>2. ASSUME NEW t \in Tags \cup {None}, HandedOut(t, i), i \notin Pinned
          PROVE  HandedOut(t, i)' /\ t # NextTag(i)
      BY <2>1, <3>1, <3>2 DEF HandedOut, Tags
    <3>3. \A w \in Users : /\ file[w][i].tag \in Tags \cup {None} /\ cache[w][i].tag \in Tags \cup {None}
                           /\ jobs[w][i].tag \in Tags \cup {None}
      BY DEF TypeOK, BuildTypeOK, ImageCache, Job
    <3>4. ASSUME i \notin Pinned, NEW w \in Users
          PROVE  /\ HandedOut(file[w][i].tag, i)' /\ HandedOut(cache[w][i].tag, i)' /\ HandedOut(jobs[w][i].tag, i)'
                 /\ file'[w][i].tag # NextTag(i) /\ cache'[w][i].tag # NextTag(i)
                 /\ w # u => jobs'[w][i].tag # NextTag(i)
      <4>1. file'[w][i].tag = file[w][i].tag /\ cache'[w][i].tag = cache[w][i].tag /\ (w # u => jobs'[w][i] = jobs[w][i])
        BY <1>0
      <4>2. HandedOut(file[w][i].tag, i) /\ HandedOut(cache[w][i].tag, i) /\ HandedOut(jobs[w][i].tag, i)
        BY <3>4 DEF TagsFresh
      <4>3. NextTag(i) <= lastTag'[i]
        BY <2>1, <3>1, <3>4
      <4>4. /\ HandedOut(file[w][i].tag, i)' /\ HandedOut(cache[w][i].tag, i)'
            /\ file'[w][i].tag # NextTag(i) /\ cache'[w][i].tag # NextTag(i)
        BY <3>2, <3>3, <3>4, <4>1, <4>2 DEF HandedOut
      <4>5. HandedOut(jobs[w][i].tag, i)' /\ (w # u => jobs'[w][i].tag # NextTag(i))
        BY <2>1, <3>2, <3>3, <3>4, <4>1, <4>2, <4>3 DEF HandedOut
      <4> QED
        BY <4>4, <4>5
    <3>5. ASSUME NEW j \in Images \ Pinned, NEW w \in Users, j # i
          PROVE  /\ HandedOut(file[w][j].tag, j)' /\ HandedOut(cache[w][j].tag, j)' /\ HandedOut(jobs[w][j].tag, j)'
                 /\ jobs'[w][j].at = "building" =>
                      /\ jobs'[w][j].tag # None
                      /\ \A x \in Users : /\ file'[x][j].tag # jobs'[w][j].tag /\ cache'[x][j].tag # jobs'[w][j].tag
                                          /\ x # w => jobs'[x][j].tag # jobs'[w][j].tag
      BY <1>0, <3>5 DEF TagsFresh, HandedOut
    <3>6. ASSUME i \notin Pinned, NEW w \in Users, jobs'[w][i].at = "building"
          PROVE  /\ jobs'[w][i].tag # None
                 /\ \A x \in Users : /\ file'[x][i].tag # jobs'[w][i].tag /\ cache'[x][i].tag # jobs'[w][i].tag
                                     /\ x # w => jobs'[x][i].tag # jobs'[w][i].tag
      <4>1. CASE w = u
        BY <2>1, <3>1, <3>4, <3>6, <4>1
      <4>2. CASE w # u
        BY <1>0, <2>1, <3>4, <3>6, <4>2 DEF TagsFresh
      <4> QED
        BY <4>1, <4>2
    <3> QED
      BY <3>4, <3>5, <3>6 DEF TagsFresh
  <2> QED
    BY <2>2, <2>3, <2>4
<1>2. CASE ~(MissingLocally(u, i) \/ MustRebuild(u, i))
  <2>1. jobs'[u][i].at = "skipped" /\ jobs'[u][i].tag = jobs[u][i].tag /\ UNCHANGED <<cache, lastTag>>
    <3>1. jobs' = [jobs EXCEPT ![u][i].at = "skipped"] /\ UNCHANGED <<cache, lastTag>>
      BY <1>2 DEF CheckImage
    <3> QED
      BY <1>t, <3>1 DEF Job
  <2>2. EntriesBuilt'
    <3>1. ASSUME NEW w \in Users, NEW j \in Images \ Pinned
          PROVE  /\ IsBuilt(file[w][j], file[w][j].tag, j)'
                 /\ jobs'[w][j].at \in {"todo", "skipped", "finished"} => IsBuilt(cache[w][j], cache[w][j].tag, j)'
                 /\ jobs'[w][j].at = "built" => IsBuilt(cache[w][j], jobs[w][j].tag, j)'
      <4>1. /\ \/ jobs'[w][j] = jobs[w][j]
               \/ jobs'[w][j].at = "skipped" /\ jobs[w][j].at = "todo" /\ jobs'[w][j].tag = jobs[w][j].tag
            /\ UNCHANGED <<stored, file, cache>>
        BY <1>0, <2>1
      <4>2. /\ IsBuilt(file[w][j], file[w][j].tag, j)
            /\ jobs[w][j].at \in {"todo", "skipped", "finished"} => IsBuilt(cache[w][j], cache[w][j].tag, j)
            /\ jobs[w][j].at = "built" => IsBuilt(cache[w][j], jobs[w][j].tag, j)
        BY DEF EntriesBuilt
      <4> QED
        BY <4>1, <4>2 DEF IsBuilt
    <3> QED
      BY <3>1 DEF EntriesBuilt
  <2>3. LookedAt'
    BY <1>0, <1>2, <2>1 DEF LookedAt, MustRebuild
  <2>4. TagsFresh'
    BY <1>0, <2>1 DEF TagsFresh, HandedOut
  <2> QED
    BY <2>2, <2>3, <2>4
<1> QED
  BY <1>1, <1>2

\* A build pushes an image under a tag that nothing names yet.
LEMMA PushKeepsImages ==
  ASSUME ImageInv, NEW u \in Users, NEW i \in Images, PushImage(u, i)
  PROVE  (EntriesBuilt /\ TagsFresh /\ LookedAt)'
<1> USE DEF ImageInv
<1> DEFINE st == cache[u][i].store
           t == jobs[u][i].tag
<1>t. /\ jobs \in [Users -> [Images -> Job]] /\ cache \in [Users -> [Images -> ImageCache]]
      /\ jobs[u][i] \in Job /\ cache[u][i] \in ImageCache
  BY DEF TypeOK, BuildTypeOK
<1>c. cache'[u][i] = [cache[u][i] EXCEPT !.sure = (sources[u][i] = cache[u][i].hash /\ sources[u][i] = read[u][i])]
  BY <1>t DEF PushImage
<1>0. /\ jobs[u][i].at = "building" /\ jobs[u][i] \in Job /\ cache[u][i] \in ImageCache
      /\ UNCHANGED <<file, lastTag, read>>
      /\ \A w \in Users : \A j \in Images : (w # u \/ j # i) => cache'[w][j] = cache[w][j] /\ jobs'[w][j] = jobs[w][j]
      /\ jobs'[u][i].at = "built" /\ jobs'[u][i].tag = t
      /\ cache'[u][i].tag = cache[u][i].tag /\ cache'[u][i].hash = cache[u][i].hash /\ cache'[u][i].store = st
      /\ cache'[u][i].sure => sources[u][i] = cache[u][i].hash /\ sources[u][i] = read[u][i]
  <2>1. jobs[u][i].at = "building" /\ UNCHANGED <<file, lastTag, read>>
    BY DEF PushImage
  <2>2. \A w \in Users : \A j \in Images : (w # u \/ j # i) => cache'[w][j] = cache[w][j] /\ jobs'[w][j] = jobs[w][j]
    BY <1>t DEF PushImage
  <2>3. jobs'[u][i].at = "built" /\ jobs'[u][i].tag = t
    BY <1>t DEF PushImage, Job
  <2>4. /\ cache'[u][i].tag = cache[u][i].tag /\ cache'[u][i].hash = cache[u][i].hash /\ cache'[u][i].store = st
        /\ cache'[u][i].sure = (sources[u][i] = cache[u][i].hash /\ sources[u][i] = read[u][i])
    BY <1>t, <1>c DEF ImageCache
  <2> QED
    BY <1>t, <2>1, <2>2, <2>3, <2>4
<1>1. st \in Stores /\ t \in Tags \cup {None}
  BY <1>0 DEF ImageCache, Job
<1>2. \A s \in Stores : \A j \in Images : \A x \in Tags \cup {None} :
         (s # st \/ j # i \/ x # t) => stored'[s][j][x] = stored[s][j][x]
  BY <1>1 DEF PushImage, TypeOK, BuildTypeOK
<1>3. t # None => stored'[st][i][t] = sources[u][i]
  BY <1>1 DEF PushImage, TypeOK, BuildTypeOK
<1>4. \A w \in Users : \A j \in Images :
         /\ file[w][j].tag \in Tags \cup {None} /\ cache[w][j].tag \in Tags \cup {None} /\ jobs[w][j].tag \in Tags \cup {None}
         /\ file[w][j].store \in Stores /\ cache[w][j].store \in Stores /\ "local" \in Stores
  BY DEF TypeOK, BuildTypeOK, ImageCache, Job, Stores
<1>5. TagsFresh'
  BY <1>0 DEF TagsFresh, HandedOut
<1>6. LookedAt'
  BY <1>0 DEF LookedAt
<1>7. EntriesBuilt'
  <2>2. ASSUME NEW w \in Users, NEW j \in Images \ Pinned
        PROVE  IsBuilt(file[w][j], file[w][j].tag, j)'
    <3>1. j # i \/ file[w][j].tag # t
      BY <1>0 DEF TagsFresh
    <3>2. IsBuilt(file[w][j], file[w][j].tag, j)
      BY DEF EntriesBuilt
    <3>3. /\ file[w][j].tag \in Tags \cup {None} /\ file[w][j].store \in Stores /\ "local" \in Stores
          /\ file' = file
      BY <1>0, <1>4
    <3>4. /\ stored'[file[w][j].store][j][file[w][j].tag] = stored[file[w][j].store][j][file[w][j].tag]
          /\ stored'["local"][j][file[w][j].tag] = stored["local"][j][file[w][j].tag]
      BY <1>2, <3>1, <3>3
    <3> QED
      BY <3>2, <3>3, <3>4 DEF IsBuilt
  <2>3. ASSUME NEW w \in Users, NEW j \in Images \ Pinned, w # u \/ j # i
        PROVE  /\ jobs'[w][j].at \in {"todo", "skipped", "finished"} => IsBuilt(cache[w][j], cache[w][j].tag, j)'
               /\ jobs'[w][j].at = "built" => IsBuilt(cache[w][j], jobs[w][j].tag, j)'
    <3>1. j # i \/ (cache[w][j].tag # t /\ jobs[w][j].tag # t)
      BY <1>0, <2>3 DEF TagsFresh
    <3> QED
      <4>1. cache'[w][j] = cache[w][j] /\ jobs'[w][j] = jobs[w][j]
        BY <1>0, <2>3
      <4>2. /\ jobs[w][j].at \in {"todo", "skipped", "finished"} => IsBuilt(cache[w][j], cache[w][j].tag, j)
            /\ jobs[w][j].at = "built" => IsBuilt(cache[w][j], jobs[w][j].tag, j)
        BY DEF EntriesBuilt
      <4>3. /\ stored'[cache[w][j].store][j][cache[w][j].tag] = stored[cache[w][j].store][j][cache[w][j].tag]
            /\ stored'["local"][j][cache[w][j].tag] = stored["local"][j][cache[w][j].tag]
        BY <1>2, <1>4, <3>1
      <4>4. /\ stored'[cache[w][j].store][j][jobs[w][j].tag] = stored[cache[w][j].store][j][jobs[w][j].tag]
            /\ stored'["local"][j][jobs[w][j].tag] = stored["local"][j][jobs[w][j].tag]
        BY <1>2, <1>4, <3>1
      <4> QED
        BY <4>1, <4>2, <4>3, <4>4 DEF IsBuilt
  <2>4. IsBuilt(cache[u][i], jobs[u][i].tag, i)'
    BY <1>0, <1>1, <1>3 DEF IsBuilt
  <2> QED
    BY <1>0, <2>2, <2>3, <2>4 DEF EntriesBuilt
<1> QED
  BY <1>5, <1>6, <1>7

\* The main loop learns the result of a build.
LEMMA CollectKeepsImages ==
  ASSUME ImageInv, NEW u \in Users, NEW i \in Images, CollectBuild(u, i) \/ BuildFails(u, i)
  PROVE  (EntriesBuilt /\ TagsFresh /\ LookedAt)'
<1> USE DEF ImageInv
<1>t. /\ jobs \in [Users -> [Images -> Job]] /\ cache \in [Users -> [Images -> ImageCache]]
      /\ jobs[u][i] \in Job /\ cache[u][i] \in ImageCache
  BY DEF TypeOK, BuildTypeOK
<1>0. /\ UNCHANGED <<stored, file, lastTag, read>>
      /\ jobs[u][i] \in Job /\ cache[u][i] \in ImageCache
      /\ \A w \in Users : \A j \in Images : (w # u \/ j # i) => cache'[w][j] = cache[w][j] /\ jobs'[w][j] = jobs[w][j]
      /\ jobs'[u][i].tag = jobs[u][i].tag
      /\ cache'[u][i].hash = cache[u][i].hash /\ cache'[u][i].store = cache[u][i].store /\ cache'[u][i].sure = cache[u][i].sure
  <2>1. UNCHANGED <<stored, file, lastTag, read>>
    BY DEF CollectBuild, BuildFails
  <2>2. \A w \in Users : \A j \in Images : (w # u \/ j # i) => cache'[w][j] = cache[w][j] /\ jobs'[w][j] = jobs[w][j]
    BY <1>t DEF CollectBuild, BuildFails
  <2>3. jobs'[u][i].tag = jobs[u][i].tag
    <3>1. \/ jobs'[u][i] = [jobs[u][i] EXCEPT !.at = "finished"]
          \/ jobs'[u][i] = [jobs[u][i] EXCEPT !.at = "failed"]
      <4>1. CASE CollectBuild(u, i)
        BY <1>t, <4>1 DEF CollectBuild
      <4>2. CASE BuildFails(u, i)
        BY <1>t, <4>2 DEF BuildFails
      <4> QED
        BY <4>1, <4>2
    <3> QED
      BY <1>t, <3>1 DEF Job
  <2>4. cache'[u][i].hash = cache[u][i].hash /\ cache'[u][i].store = cache[u][i].store /\ cache'[u][i].sure = cache[u][i].sure
    <3>1. cache' = cache \/ cache'[u][i] = [cache[u][i] EXCEPT !.tag = jobs[u][i].tag]
      BY <1>t DEF CollectBuild, BuildFails
    <3> QED
      BY <1>t, <3>1 DEF ImageCache
  <2> QED
    BY <1>t, <2>1, <2>2, <2>3, <2>4
<1>1. \/ jobs[u][i].at = "built" /\ jobs'[u][i].at = "finished" /\ cache'[u][i].tag = jobs[u][i].tag
      \/ jobs'[u][i].at = "failed" /\ cache'[u][i].tag = cache[u][i].tag
  BY <1>t DEF CollectBuild, BuildFails, ImageCache, Job
<1>2. EntriesBuilt'
  <2>1. ASSUME NEW w \in Users, NEW j \in Images \ Pinned, w # u \/ j # i
        PROVE  /\ jobs'[w][j].at \in {"todo", "skipped", "finished"} => IsBuilt(cache[w][j], cache[w][j].tag, j)'
               /\ jobs'[w][j].at = "built" => IsBuilt(cache[w][j], jobs[w][j].tag, j)'
    <3>1. cache'[w][j] = cache[w][j] /\ jobs'[w][j] = jobs[w][j] /\ UNCHANGED stored
      BY <1>0, <2>1
    <3>2. /\ jobs[w][j].at \in {"todo", "skipped", "finished"} => IsBuilt(cache[w][j], cache[w][j].tag, j)
          /\ jobs[w][j].at = "built" => IsBuilt(cache[w][j], jobs[w][j].tag, j)
      BY DEF EntriesBuilt
    <3> QED
      BY <3>1, <3>2 DEF IsBuilt
  <2>2. ASSUME i \notin Pinned
        PROVE  /\ jobs'[u][i].at \in {"todo", "skipped", "finished"} => IsBuilt(cache[u][i], cache[u][i].tag, i)'
               /\ jobs'[u][i].at # "built"
    <3>1. CASE jobs[u][i].at = "built" /\ jobs'[u][i].at = "finished" /\ cache'[u][i].tag = jobs[u][i].tag
      <4>1. IsBuilt(cache[u][i], jobs[u][i].tag, i)
        BY <2>2, <3>1 DEF EntriesBuilt
      <4>2. UNCHANGED stored
        BY <1>0
      <4> QED
        BY <1>0, <3>1, <4>1, <4>2 DEF IsBuilt
    <3>2. CASE jobs'[u][i].at = "failed"
      BY <3>2
    <3> QED
      BY <1>1, <3>1, <3>2
  <2>3. \A w \in Users, j \in Images \ Pinned : IsBuilt(file[w][j], file[w][j].tag, j)'
    BY <1>0 DEF EntriesBuilt, IsBuilt
  <2> QED
    BY <2>1, <2>2, <2>3 DEF EntriesBuilt
<1>3. TagsFresh'
  BY <1>0, <1>1 DEF TagsFresh, HandedOut
<1>4. LookedAt'
  BY <1>0, <1>1 DEF LookedAt
<1> QED
  BY <1>2, <1>3, <1>4

\* Nobody has a build before a command or after it.
LEMMA RestedKept == ImageInv /\ [Next]_vars => Rested'
<1> SUFFICES ASSUME ImageInv, [Next]_vars, NEW u \in Users, phase'[u] = "idle" PROVE \A i \in Images : jobs'[u][i].at = "todo"
  BY DEF Rested
<1> USE DEF ImageInv
<1>0. /\ phase \in [Users -> Phases] /\ jobs \in [Users -> [Images -> Job]]
      /\ phase[u] = "idle" => \A i \in Images : jobs[u][i].at = "todo"
  BY DEF TypeOK, BuildTypeOK, Rested
<1>1. ASSUME NEW w \in Users, Leave(w), \A x \in Users \ {w} : phase'[x] = phase[x]
      PROVE  \A i \in Images : jobs'[u][i].at = "todo"
  BY <1>0, <1>1 DEF Leave, DropImages, Todo
<1>2. ASSUME NEW w \in Users, NEW k \in Kinds, Begin(w, k) PROVE \A i \in Images : jobs'[u][i].at = "todo"
  BY <1>0, <1>2 DEF Begin, LoadImages
<1>3. ASSUME NEW w \in Users, Leave(w) PROVE \A x \in Users \ {w} : phase'[x] = phase[x]
  BY <1>0, <1>3 DEF Leave
<1>4. ASSUME NEW w \in Users, ImagesBuilt(w) PROVE \A i \in Images : jobs'[u][i].at = "todo"
  <2>1. CASE kind[w] = "deploy"
    BY <1>0, <1>4, <2>1 DEF ImagesBuilt
  <2>2. CASE kind[w] # "deploy"
    BY <1>1, <1>3, <1>4, <2>2 DEF ImagesBuilt
  <2> QED
    BY <2>1, <2>2
<1>5. ASSUME NEW w \in Users,
             Crash(w) \/ BuildEnds(w) \/ Deployed(w) \/ DeployEnds(w) \/ Purged(w) \/ PurgeError(w)
      PROVE  \A i \in Images : jobs'[u][i].at = "todo"
  BY <1>1, <1>3, <1>5 DEF Crash, BuildEnds, Deployed, DeployEnds, Purged, PurgeError
<1>6. ASSUME NEW w \in Users, NEW i \in Images, BuildStep(w, i) \/ BuildError(w, i)
      PROVE  \A j \in Images : jobs'[u][j].at = "todo"
  <2>1. phase' = phase /\ phase[w] = "build" /\ u # w
    BY <1>6 DEF BuildStep, BuildError, commandVars
  <2>2. jobs'[u] = jobs[u]
    <3>1. CASE CheckImage(w, i)
      BY <1>0, <2>1, <3>1 DEF CheckImage
    <3>2. CASE PushImage(w, i)
      BY <1>0, <2>1, <3>2 DEF PushImage
    <3>3. CASE CollectBuild(w, i)
      BY <1>0, <2>1, <3>3 DEF CollectBuild
    <3>4. CASE BuildFails(w, i)
      BY <1>0, <2>1, <3>4 DEF BuildFails
    <3> QED
      BY <1>6, <3>1, <3>2, <3>3, <3>4 DEF BuildStep, BuildError
  <2> QED
    BY <1>0, <2>1, <2>2
<1>7. ASSUME NEW w \in Users, NEW d \in Deployments, DeployStep(w, d) \/ DeployError(w, d) \/ PurgeStep(w, d)
      PROVE  \A j \in Images : jobs'[u][j].at = "todo"
  BY <1>0, <1>7 DEF DeployStep, DeployError, PurgeStep, buildVars, commandVars
<1>8. ASSUME NEW w \in Users, Edit(w) PROVE UNCHANGED <<phase, jobs>>
  BY <1>8 DEF Edit, EditSources, ChangeLogin, buildVars
<1>9. CASE RegistryRestarts
  BY <1>0, <1>9 DEF RegistryRestarts, LoseLocalImages
<1>10. CASE UNCHANGED vars
  BY <1>0, <1>10 DEF vars, buildVars, commandVars
<1> QED
  BY <1>0, <1>2, <1>4, <1>5, <1>6, <1>7, <1>8, <1>9, <1>10 DEF Next, Finished

\* Every step keeps what the caches say of the images.
LEMMA NextKeepsImages == ImageInv /\ [Next]_vars => ImageInv'
<1> SUFFICES ASSUME ImageInv, [Next]_vars PROVE (EntriesBuilt /\ TagsFresh /\ LookedAt)'
  BY NextType, RestedKept DEF ImageInv
<1>0. ASSUME UNCHANGED <<stored, lastTag, file, cache, jobs, read>> PROVE (EntriesBuilt /\ TagsFresh /\ LookedAt)'
  BY <1>0, ImagesKept DEF ImageInv
<1>1. ASSUME NEW u \in Users, NEW k \in Kinds, Begin(u, k) PROVE (EntriesBuilt /\ TagsFresh /\ LookedAt)'
  <2>1. LoadImages(u) /\ \A i \in Images : jobs[u][i].at = "todo"
    BY <1>1 DEF Begin, ImageInv, Rested
  <2> QED
    BY <2>1, LoadKeepsImages
<1>2. ASSUME NEW u \in Users,
             Crash(u) \/ BuildEnds(u) \/ Deployed(u) \/ DeployEnds(u) \/ Purged(u) \/ PurgeError(u)
      PROVE  (EntriesBuilt /\ TagsFresh /\ LookedAt)'
  <2>1. DropImages(u) /\ UNCHANGED file
    BY <1>2 DEF Crash, BuildEnds, Deployed, DeployEnds, Purged, PurgeError, Leave
  <2> QED
    BY <2>1, LeaveKeepsImages
<1>3. ASSUME NEW u \in Users, ImagesBuilt(u) PROVE (EntriesBuilt /\ TagsFresh /\ LookedAt)'
  <2>1. BuildsDone(u) /\ (UNCHANGED file \/ file' = [file EXCEPT ![u] = cache[u]])
    BY <1>3 DEF ImagesBuilt, SaveImages
  <2>2. CASE kind[u] # "deploy"
    <3>1. DropImages(u)
      BY <1>3, <2>2 DEF ImagesBuilt, Leave
    <3> QED
      BY <2>1, <3>1, LeaveKeepsImages
  <2>3. CASE kind[u] = "deploy"
    <3>1. UNCHANGED <<stored, lastTag, cache, jobs, read>>
      BY <1>3, <2>3 DEF ImagesBuilt
    <3>2. \A w \in Users : \A i \in Images \ Pinned :
             /\ file'[w][i] = file[w][i] \/ (w = u /\ file'[w][i] = cache[u][i])
             /\ IsBuilt(file[w][i], file[w][i].tag, i) /\ IsBuilt(cache[u][i], cache[u][i].tag, i)
      <4>1. \A w \in Users : file'[w] = file[w] \/ (w = u /\ file'[w] = cache[u])
        BY <2>1 DEF ImageInv, TypeOK, BuildTypeOK
      <4> QED
        BY <2>1, <4>1 DEF ImageInv, EntriesBuilt, BuildsDone
    <3>3. EntriesBuilt'
      <4>1. \A w \in Users : \A i \in Images \ Pinned : IsBuilt(file[w][i], file[w][i].tag, i)'
        BY <3>1, <3>2 DEF IsBuilt
      <4> QED
        BY <3>1, <4>1 DEF ImageInv, EntriesBuilt, IsBuilt
    <3>4. TagsFresh'
      BY <3>1, <3>2 DEF ImageInv, TagsFresh, HandedOut
    <3>5. LookedAt'
      BY <3>1 DEF ImageInv, LookedAt
    <3> QED
      BY <3>3, <3>4, <3>5
  <2> QED
    BY <2>2, <2>3
<1>4. ASSUME NEW u \in Users, NEW i \in Images, BuildStep(u, i) \/ BuildError(u, i)
      PROVE  (EntriesBuilt /\ TagsFresh /\ LookedAt)'
  BY <1>4, CheckKeepsImages, PushKeepsImages, CollectKeepsImages DEF BuildStep, BuildError
<1>5. ASSUME NEW u \in Users, NEW d \in Deployments, DeployStep(u, d) \/ DeployError(u, d) \/ PurgeStep(u, d)
      PROVE  (EntriesBuilt /\ TagsFresh /\ LookedAt)'
  BY <1>0, <1>5 DEF DeployStep, DeployError, PurgeStep, buildVars
<1>6. ASSUME NEW u \in Users, Edit(u) PROVE (EntriesBuilt /\ TagsFresh /\ LookedAt)'
  BY <1>0, <1>6 DEF Edit, EditSources, ChangeLogin, buildVars
<1>7. CASE RegistryRestarts
  <2>1. UNCHANGED <<lastTag, file, cache, jobs, read>>
    BY <1>7 DEF RegistryRestarts, LoseLocalImages
  <2>2. /\ stored'["registry"] = stored["registry"]
        /\ \A i \in Images : \A t \in Tags : stored'["local"][i][t] = None
    BY <1>7 DEF RegistryRestarts, LoseLocalImages, ImageInv, TypeOK, BuildTypeOK, Stores
  <2>3. \A w \in Users : \A i \in Images :
           /\ file[w][i].store \in {"registry", "local"} /\ cache[w][i].store \in {"registry", "local"}
           /\ file[w][i].tag \in Tags \cup {None} /\ cache[w][i].tag \in Tags \cup {None} /\ jobs[w][i].tag \in Tags \cup {None}
    BY DEF ImageInv, TypeOK, BuildTypeOK, ImageCache, Job, Stores
  <2>4. EntriesBuilt'
    <3>1. ASSUME NEW w \in Users, NEW i \in Images \ Pinned
          PROVE  /\ IsBuilt(file[w][i], file[w][i].tag, i)'
                 /\ jobs'[w][i].at \in {"todo", "skipped", "finished"} => IsBuilt(cache[w][i], cache[w][i].tag, i)'
                 /\ jobs'[w][i].at = "built" => IsBuilt(cache[w][i], jobs[w][i].tag, i)'
      <4>1. /\ IsBuilt(file[w][i], file[w][i].tag, i)
            /\ jobs[w][i].at \in {"todo", "skipped", "finished"} => IsBuilt(cache[w][i], cache[w][i].tag, i)
            /\ jobs[w][i].at = "built" => IsBuilt(cache[w][i], jobs[w][i].tag, i)
        BY DEF ImageInv, EntriesBuilt
      <4> QED
        BY <2>1, <2>2, <2>3, <4>1 DEF IsBuilt
    <3> QED
      BY <3>1 DEF EntriesBuilt
  <2>5. (TagsFresh /\ LookedAt)'
    BY <2>1 DEF ImageInv, TagsFresh, HandedOut, LookedAt
  <2> QED
    BY <2>4, <2>5
<1>8. CASE UNCHANGED vars
  BY <1>0, <1>8 DEF vars, buildVars
<1> QED
  BY <1>1, <1>2, <1>3, <1>4, <1>5, <1>6, <1>7, <1>8 DEF Next, Finished

\* At the start no image is known.
LEMMA InitImages == Init => ImageInv
<1> SUFFICES ASSUME Init PROVE ImageInv
  OBVIOUS
<1>1. \A u \in Users : \A i \in Images : /\ file[u][i].tag = None /\ cache[u][i].tag = None
                                         /\ jobs[u][i].tag = None /\ jobs[u][i].at = "todo"
  BY DEF Init, BuildInit, NewImage, Todo
<1>2. EntriesBuilt /\ TagsFresh /\ LookedAt /\ Rested
  BY <1>1 DEF EntriesBuilt, IsBuilt, TagsFresh, HandedOut, LookedAt, Rested
<1> QED
  BY <1>2, InitType DEF ImageInv

\* The invariant of the images holds always, whether commands overlap or not.
LEMMA ImagesHold == Spec => []ImageInv
<1>1. ImageInv /\ [Next]_vars => ImageInv'
  BY NextKeepsImages
<1> QED
  BY <1>1, InitImages, PTL DEF Spec

\* Every variable always has its type; in particular no revision, tag or bound is
\* exceeded (Delivery!TypeOK).
THEOREM DeliveryTypeCorrect == Spec => []TypeOK
<1>1. ImageInv => TypeOK
  BY DEF ImageInv
<1> QED
  BY <1>1, ImagesHold, PTL

\* The local cache never names an image that was not built from what it has the hashes of,
\* for any users, whose commands may overlap, and whatever fails or crashes (build.go).
THEOREM CachedImageTheorem == Spec => []CachedImageIsBuilt
<1>1. ImageInv => CachedImageIsBuilt
  <2> SUFFICES ASSUME ImageInv, NEW u \in Users, NEW i \in Images \ Pinned, file[u][i].tag # None, file[u][i].sure
               PROVE  stored[file[u][i].store][i][file[u][i].tag]
                         \in {file[u][i].hash} \cup (IF file[u][i].store = "local" THEN {None} ELSE {})
    BY DEF CachedImageIsBuilt
  <2>1. IsBuilt(file[u][i], file[u][i].tag, i)
    BY DEF ImageInv, EntriesBuilt
  <2> QED
    BY <2>1 DEF IsBuilt
<1> QED
  BY <1>1, ImagesHold, PTL

-----------------------------------------------------------------------------
(* The invariant of the record, for commands that do not overlap and       *)
(* deployments that have no objects in common.                             *)

Disjoint ==
    \A d, e \in Deployments : \A b \in Configs[d], c \in Configs[e] : b.objects \cap c.objects # {} => d = e

ObjectsOf(d) == UNION {c.objects : c \in Configs[d]}

\* What the secret says of a deployment.
InSecret(d) == IF secret = None \/ secret[d] = None THEN NewDeployment ELSE secret[d]

Alone == \A u, w \in Users : phase[u] # "idle" /\ phase[w] # "idle" => u = w

\* Where the command of a user can be with a deployment.
StepShape(u, d) ==
    /\ phase[u] \in {"idle", "build"} => At(u, d, "todo")
    /\ phase[u] = "deploy" => steps[u][d] # "purged"
    /\ phase[u] = "purge" => steps[u][d] \in {"todo", "purged"}
    /\ steps[u][d] \in {"upgrade", "list", "skipped"} => loaded[u][d].method = "helm"

\* Deploying begins when the builds are done, and starts from the record, or from none.
CommandShape(u) ==
    /\ phase[u] = "deploy" => BuildsDone(u)
    /\ phase[u] # "idle" => raw[u] \in {secret, None}

\* A record names only objects its deployment may have.
OwnObjects(known, d) == known.kubectl # None => known.kubectl \subseteq ObjectsOf(d)

HelmVersion(d, v) == \E c \in Configs[d] : c.method = "helm" /\ c.version = v

\* The release is there, not older than the record, and the one of the record as recorded.
Fresh(known, d) ==
    known.helm # None =>
        /\ releases[d] # None
        /\ known.helm.revision # None /\ known.helm.revision <= releases[d].revision
        /\ known.helm.revision = releases[d].revision =>
              /\ releases[d].ok /\ releases[d].values = known.helm.values
              /\ HelmVersion(d, known.hash) => releases[d].version = known.hash

\* A running purge has deleted the entry, which is in the secret until it ends.
Deleted(d) == \E u \in Users : At(u, d, "purged") /\ remote[u][d] = None

SecretFresh(d) == (d \notin gone /\ ~Deleted(d)) => Fresh(InSecret(d), d)

MineFresh(u, d) ==
    (/\ phase[u] # "idle" /\ steps[u][d] \notin {"list", "failed"}
     /\ d \notin gone \/ (At(u, d, "upgraded") /\ loaded[u][d].method = "helm"))
    => Fresh(GetDeployment(u, d), d)

\* The release is what the checkout asks for.
Result(u, d) ==
    /\ releases[d] # None /\ releases[d].ok
    /\ releases[d].version = loaded[u][d].version /\ releases[d].values = Values(u, d)

ResultShape(u, d) ==
    /\ At(u, d, "list") => Result(u, d)
    /\ (At(u, d, "upgraded") /\ loaded[u][d].method = "helm") => Result(u, d)
    /\ At(u, d, "skipped") => (d \notin gone => Result(u, d)) /\ loaded[u][d].image \notin Built(u)
    /\ (At(u, d, "upgraded") /\ loaded[u][d].method = "kubectl")
          => \A o \in loaded[u][d].objects : applied[o] = Manifest(u, d)

SameObjects(known, d) ==
    \A o \in ObjectsOf(d) : applied[o] # None <=> (known.kubectl # None /\ o \in known.kubectl)

\* The record of a deployment has what is in the cluster of it, and no more.
Matches(known, d) == (known.helm # None <=> releases[d] # None) /\ SameObjects(known, d)

SecretAccounts(d) ==
    (\A u \in Users : steps[u][d] \in {"todo", "upgrade", "skipped"})
    => Matches(InSecret(d), d) /\ uses[d] \subseteq InSecret(d).projects

MineAccounts(u, d) ==
    phase[u] # "idle" =>
        /\ steps[u][d] \notin {"list", "failed"} => Matches(GetDeployment(u, d), d)
        /\ At(u, d, "list") => SameObjects(GetDeployment(u, d), d)
        /\ ~At(u, d, "failed") => uses[d] \subseteq GetDeployment(u, d).projects
        /\ steps[u][d] \in {"upgraded", "skipped"} => u \in GetDeployment(u, d).projects

\* An object in the cluster is one of a deployment.
NoOrphans == \A o \in Objects : applied[o] # None => \E d \in Deployments : o \in ObjectsOf(d)

\* What holds of a deployment.
DeploymentInv(d) ==
    /\ OwnObjects(InSecret(d), d) /\ SecretFresh(d)
    /\ tidy => SecretAccounts(d)

\* What holds of a deployment in the command of a user.
MineInv(u, d) ==
    /\ StepShape(u, d) /\ OwnObjects(GetDeployment(u, d), d) /\ MineFresh(u, d) /\ ResultShape(u, d)
    /\ tidy => MineAccounts(u, d)

RecordInv ==
    /\ TypeOK /\ Alone
    /\ \A d \in Deployments : DeploymentInv(d)
    /\ \A u \in Users : \A d \in Deployments : MineInv(u, d)
    /\ \A u \in Users : CommandShape(u)
    /\ tidy => NoOrphans

\* Entries of the record, of the secret and of the running command.
LEMMA EntryTypes ==
  ASSUME TypeOK, NEW d \in Deployments
  PROVE  /\ InSecret(d) \in Deployment
         /\ \A u \in Users : /\ remote[u] \in RemoteCache /\ remote[u] # None
                             /\ GetDeployment(u, d) \in Deployment
                             /\ remote[u][d] # None => GetDeployment(u, d) = remote[u][d]
                             /\ loaded[u][d] \in Configs[d] /\ loaded[u][d] \in Config
                             /\ loaded[u][d].objects \subseteq ObjectsOf(d)
<1>1. NewDeployment \in Deployment
  BY DEF NewDeployment, Deployment
<1>2. InSecret(d) \in Deployment
  BY <1>1 DEF InSecret, TypeOK, DeployTypeOK, RemoteCache
<1>3. ASSUME NEW u \in Users
      PROVE  /\ remote[u] \in RemoteCache /\ remote[u] # None
             /\ GetDeployment(u, d) \in Deployment
             /\ remote[u][d] # None => GetDeployment(u, d) = remote[u][d]
             /\ loaded[u][d] \in Configs[d] /\ loaded[u][d] \in Config
             /\ loaded[u][d].objects \subseteq ObjectsOf(d)
  <2>1. remote[u] \in RemoteCache /\ remote[u] # None
    BY DeployAssumption DEF TypeOK, DeployTypeOK
  <2>2. GetDeployment(u, d) \in Deployment /\ loaded[u][d] \in Configs[d] /\ loaded[u][d] \in Config
    BY RecordTypes DEF TypeOK
  <2> QED
    BY <2>1, <2>2 DEF GetDeployment, ObjectsOf
<1> QED
  BY <1>2, <1>3

\* Deployments with no object in common.
LEMMA ObjectsApart ==
  ASSUME Disjoint, NEW d \in Deployments, NEW e \in Deployments, NEW o, o \in ObjectsOf(d), o \in ObjectsOf(e)
  PROVE  d = e
  BY DEF Disjoint, ObjectsOf

-----------------------------------------------------------------------------
(* Steps that leave the record and the cluster alone.                      *)

\* A step of a build or of a user who runs no command.
LEMMA QuietKeepsRecord ==
  ASSUME RecordInv, TypeOK', UNCHANGED <<steps, remote, secret, releases, applied, raw, gone, tidy, uses>>,
         \A u \in Users :
            /\ phase'[u] = phase[u] \/ (phase[u] = "build" /\ phase'[u] = "deploy" /\ BuildsDone(u)')
            /\ phase[u] \in {"deploy", "purge"} => loaded'[u] = loaded[u] /\ cache'[u] = cache[u] /\ jobs'[u] = jobs[u]
  PROVE  RecordInv'
<1> USE DEF RecordInv
<1>1. Alone'
  BY DEF Alone
<1>2. ASSUME NEW d \in Deployments PROVE DeploymentInv(d)'
  BY DEF DeploymentInv, InSecret, OwnObjects, SecretFresh, Deleted, At, Fresh, HelmVersion, SecretAccounts,
         Matches, SameObjects, ObjectsOf
<1>3. ASSUME NEW u \in Users, NEW d \in Deployments PROVE MineInv(u, d)'
  <2>0. /\ MineInv(u, d) /\ GetDeployment(u, d)' = GetDeployment(u, d)
        /\ phase \in [Users -> Phases] /\ phase' \in [Users -> Phases]
    BY DEF TypeOK, GetDeployment
  <2>1. CASE phase[u] \in {"deploy", "purge"}
    <3>1. /\ phase'[u] = phase[u] /\ loaded'[u] = loaded[u]
          /\ Values(u, d)' = Values(u, d) /\ Manifest(u, d)' = Manifest(u, d) /\ Built(u)' = Built(u)
      BY <2>1 DEF Values, Manifest, Built, JobsAt
    <3>2. StepShape(u, d)' /\ OwnObjects(GetDeployment(u, d), d)' /\ MineFresh(u, d)'
      BY <2>0, <3>1 DEF MineInv, StepShape, At, OwnObjects, ObjectsOf, MineFresh, Fresh, HelmVersion
    <3>3. ResultShape(u, d)'
      BY <2>0, <3>1 DEF MineInv, ResultShape, Result, At
    <3>4. tidy' => MineAccounts(u, d)'
      BY <2>0, <3>1 DEF MineInv, MineAccounts, At, Matches, SameObjects, ObjectsOf
    <3> QED
      BY <3>2, <3>3, <3>4 DEF MineInv
  <2>2. CASE phase[u] \in {"idle", "build"}
    <3>1. At(u, d, "todo") /\ steps' = steps
      BY <2>0, <2>2 DEF MineInv, StepShape
    <3>2. StepShape(u, d)' /\ OwnObjects(GetDeployment(u, d), d)' /\ ResultShape(u, d)'
      BY <2>0, <3>1 DEF MineInv, StepShape, At, OwnObjects, ObjectsOf, ResultShape
    <3>3. phase[u] = "idle" <=> phase'[u] = "idle"
      BY <2>0
    <3>4. MineFresh(u, d)'
      BY <2>0, <3>1, <3>3 DEF MineInv, At, MineFresh, Fresh, HelmVersion
    <3>5. tidy' => MineAccounts(u, d)'
      BY <2>0, <3>1, <3>3 DEF MineInv, MineAccounts, At, Matches, SameObjects, ObjectsOf
    <3> QED
      BY <3>2, <3>4, <3>5 DEF MineInv
  <2> QED
    BY <2>0, <2>1, <2>2 DEF Phases
<1>4. ASSUME NEW u \in Users PROVE CommandShape(u)'
  BY DEF CommandShape, BuildsDone
<1>5. tidy' => NoOrphans'
  BY DEF NoOrphans, ObjectsOf
<1> QED
  BY <1>1, <1>2, <1>3, <1>4, <1>5

\* A command begins, alone (initialize: the remote cache is loaded).
LEMMA BeginKeepsRecord ==
  ASSUME RecordInv, ~Overlap, TypeOK', NEW u \in Users, NEW k \in Kinds, Begin(u, k)
  PROVE  RecordInv'
<1> USE DEF RecordInv
<1>0. /\ \A w \in Users : phase[w] = "idle" /\ \A d \in Deployments : steps[w][d] = "todo"
      /\ \A w \in Users \ {u} : phase'[w] = "idle"
      /\ phase'[u] \in {"build", "purge"}
      /\ UNCHANGED <<releases, applied, secret, steps, uses, gone>>
      /\ tidy' => tidy
  <2>1. \A w \in Users : phase[w] = "idle" /\ \A d \in Deployments : steps[w][d] = "todo"
    BY DEF Begin, Idle, MineInv, StepShape, At
  <2>2. phase' = [phase EXCEPT ![u] = IF k \in {"build", "deploy"} THEN "build" ELSE "purge"] /\ phase \in [Users -> Phases]
    BY DEF Begin, TypeOK
  <2> QED
    BY <2>1, <2>2 DEF Begin, Load
<1>1. PICK refused \in BOOLEAN : Load(u, refused) /\ (refused => tidy' = FALSE)
  BY DEF Begin
<1>2. Alone'
  BY <1>0 DEF Alone
<1>3. ASSUME NEW d \in Deployments
      PROVE  /\ InSecret(d)' = InSecret(d)
             /\ d \notin gone => Fresh(InSecret(d), d)
             /\ OwnObjects(InSecret(d), d)
             /\ tidy => Matches(InSecret(d), d) /\ uses[d] \subseteq InSecret(d).projects
  <2>1. DeploymentInv(d) /\ ~Deleted(d)
    BY <1>0 DEF Deleted, At
  <2> QED
    BY <1>0, <2>1 DEF DeploymentInv, SecretFresh, SecretAccounts, InSecret
<1>4. ASSUME NEW d \in Deployments PROVE DeploymentInv(d)'
  BY <1>0, <1>3 DEF DeploymentInv, OwnObjects, SecretFresh, Fresh, HelmVersion, SecretAccounts, Matches, SameObjects, ObjectsOf
<1>5. ASSUME NEW d \in Deployments
      PROVE  GetDeployment(u, d)' = IF refused THEN NewDeployment ELSE InSecret(d)
  BY <1>1 DEF Load, GetDeployment, InSecret, NoDeployments, TypeOK, DeployTypeOK
<1>6. ASSUME NEW d \in Deployments PROVE MineInv(u, d)'
  <2>1. OwnObjects(GetDeployment(u, d), d)'
    BY <1>3, <1>5 DEF OwnObjects, NewDeployment, ObjectsOf
  <2>2. MineFresh(u, d)'
    BY <1>0, <1>3, <1>5 DEF MineFresh, Fresh, HelmVersion, NewDeployment, At
  <2>3. tidy' => MineAccounts(u, d)'
    BY <1>0, <1>1, <1>3, <1>5 DEF MineAccounts, Matches, SameObjects, ObjectsOf, At
  <2> QED
    BY <1>0, <2>1, <2>2, <2>3 DEF MineInv, StepShape, ResultShape, At
<1>7. ASSUME NEW w \in Users \ {u}, NEW d \in Deployments PROVE MineInv(w, d)'
  <2>1. GetDeployment(w, d)' = GetDeployment(w, d)
    BY <1>1 DEF Load, GetDeployment, TypeOK, DeployTypeOK
  <2>2. OwnObjects(GetDeployment(w, d), d)'
    BY <2>1 DEF MineInv, OwnObjects, ObjectsOf
  <2> QED
    BY <1>0, <2>2 DEF MineInv, StepShape, ResultShape, MineFresh, MineAccounts, At
<1>8. ASSUME NEW w \in Users PROVE CommandShape(w)'
  <2>1. w = u => raw'[w] \in {secret, None}
    BY <1>1 DEF Load, TypeOK, DeployTypeOK
  <2> QED
    BY <1>0, <2>1 DEF CommandShape
<1>9. tidy' => NoOrphans'
  BY <1>0 DEF NoOrphans, ObjectsOf
<1> QED
  BY <1>2, <1>4, <1>6, <1>7, <1>8, <1>9

-----------------------------------------------------------------------------
(* Commands end.                                                           *)

\* What must be true of the secret that a command leaves behind, whether it saved it or not.
LEMMA LeaveKeepsRecord ==
  ASSUME RecordInv, TypeOK', NEW u \in Users, phase[u] # "idle", Leave(u), tidy' => tidy,
         \A d \in Deployments :
            /\ OwnObjects(InSecret(d)', d)
            /\ d \notin gone' => Fresh(InSecret(d)', d)
            /\ tidy' => Matches(InSecret(d)', d) /\ uses'[d] \subseteq InSecret(d)'.projects
  PROVE  RecordInv'
<1> USE DEF RecordInv
<1>0. /\ \A w \in Users : phase'[w] = "idle" /\ \A d \in Deployments : steps'[w][d] = "todo"
      /\ UNCHANGED <<releases, applied>>
  <2>1. /\ phase' = [phase EXCEPT ![u] = "idle"]
        /\ steps' = [steps EXCEPT ![u] = [d \in Deployments |-> "todo"]]
        /\ UNCHANGED <<releases, applied>>
    BY DEF Leave, DropRemote
  <2>2. \A w \in Users \ {u} : phase[w] = "idle" /\ \A d \in Deployments : steps[w][d] = "todo"
    BY DEF Alone, MineInv, StepShape, At
  <2> QED
    BY <2>1, <2>2 DEF TypeOK, DeployTypeOK
<1>1. Alone'
  BY <1>0 DEF Alone
<1>2. ASSUME NEW d \in Deployments PROVE DeploymentInv(d)'
  <2>1. OwnObjects(InSecret(d), d)'
    BY DEF OwnObjects, ObjectsOf
  <2>2. SecretFresh(d)'
    BY <1>0 DEF SecretFresh, Fresh, HelmVersion
  <2>3. tidy' => SecretAccounts(d)'
    BY <1>0 DEF SecretAccounts, Matches, SameObjects, ObjectsOf
  <2> QED
    BY <2>1, <2>2, <2>3 DEF DeploymentInv
<1>3. ASSUME NEW w \in Users, NEW d \in Deployments PROVE MineInv(w, d)'
  <2>1. OwnObjects(GetDeployment(w, d), d)'
    <3>1. CASE w = u
      BY <3>1 DEF Leave, DropRemote, TypeOK, DeployTypeOK, GetDeployment, NoDeployments, NewDeployment, OwnObjects
    <3>2. CASE w # u
      <4>1. remote'[w] = remote[w]
        BY <3>2 DEF Leave, DropRemote, TypeOK, DeployTypeOK
      <4> QED
        BY <4>1 DEF GetDeployment, MineInv, OwnObjects, ObjectsOf
    <3> QED
      BY <3>1, <3>2
  <2> QED
    BY <1>0, <2>1 DEF MineInv, StepShape, ResultShape, MineFresh, MineAccounts, At
<1>4. ASSUME NEW w \in Users PROVE CommandShape(w)'
  BY <1>0 DEF CommandShape
<1>5. tidy' => NoOrphans'
  BY <1>0 DEF NoOrphans, ObjectsOf
<1> QED
  BY <1>1, <1>2, <1>3, <1>4, <1>5

\* What a command that ends has saved is what it had in memory (RemoteCache.Save: nothing
\* is written if nothing changed since it was loaded).
LEMMA SavedAsHeld ==
  ASSUME TypeOK, NEW u \in Users, NEW d \in Deployments, raw[u] \in {secret, None}, SaveRemote(u)
  PROVE  InSecret(d)' = GetDeployment(u, d)
  BY EntryTypes DEF SaveRemote, InSecret, GetDeployment, NoDeployments

\* While a command builds or deploys no entry is deleted.
LEMMA NoneDeleted ==
  ASSUME RecordInv, NEW u \in Users, phase[u] # "idle", NEW d \in Deployments,
         ~At(u, d, "purged") \/ remote[u][d] # None
  PROVE  ~Deleted(d)
  BY DEF RecordInv, Alone, MineInv, StepShape, Deleted, At

\* The ends of the commands keep the invariant of the record.
LEMMA EndKeepsRecord ==
  ASSUME RecordInv, TypeOK', NEW u \in Users,
         \/ Crash(u) \/ PurgeError(u) \/ BuildEnds(u) \/ (ImagesBuilt(u) /\ kind[u] # "deploy")
         \/ DeployEnds(u) \/ Deployed(u) \/ Purged(u)
  PROVE  RecordInv'
<1> USE DEF RecordInv
<1> DEFINE Left == \A d \in Deployments :
                     /\ OwnObjects(InSecret(d)', d)
                     /\ d \notin gone' => Fresh(InSecret(d)', d)
                     /\ tidy' => Matches(InSecret(d)', d) /\ uses'[d] \subseteq InSecret(d)'.projects
<1>0. phase[u] # "idle" /\ Leave(u) /\ (tidy' => tidy)
  <2>1. CASE Crash(u) \/ PurgeError(u)
    BY <2>1 DEF Crash, PurgeError, CutShort
  <2>2. CASE BuildEnds(u) \/ (ImagesBuilt(u) /\ kind[u] # "deploy")
    BY <2>2 DEF BuildEnds, ImagesBuilt
  <2>3. CASE DeployEnds(u) \/ Deployed(u) \/ Purged(u)
    BY <2>3 DEF DeployEnds, Deployed, Purged
  <2> QED
    BY <2>1, <2>2, <2>3
<1>1. \A d \in Deployments : DeploymentInv(d) /\ MineInv(u, d) /\ StepShape(u, d)
  BY DEF MineInv
<1>2. \A w \in Users \ {u} : \A d \in Deployments : steps[w][d] = "todo"
  BY <1>0 DEF Alone, MineInv, StepShape, At
<1>3. raw[u] \in {secret, None}
  BY <1>0 DEF CommandShape
<1>4. CASE Crash(u) \/ PurgeError(u)
  <2>1. UNCHANGED <<secret, uses>> /\ CutShort(u)
    BY <1>4 DEF Crash, PurgeError
  <2>2. ASSUME NEW d \in Deployments
        PROVE  /\ OwnObjects(InSecret(d)', d)
               /\ d \notin gone' => Fresh(InSecret(d)', d)
               /\ tidy' => Matches(InSecret(d)', d) /\ uses'[d] \subseteq InSecret(d)'.projects
    <3>1. InSecret(d)' = InSecret(d)
      BY <2>1 DEF InSecret
    <3>2. d \notin gone' => d \notin gone /\ ~Deleted(d)
      BY <1>0, <2>1, NoneDeleted DEF CutShort
    <3>3. tidy' => \A w \in Users : steps[w][d] \in {"todo", "upgrade", "skipped"}
      <4>1. tidy' => ~Touched(u)
        BY <2>1 DEF CutShort
      <4>2. ~Touched(u) => steps[u][d] \notin {"list", "upgraded", "purged", "failed"}
        BY DEF Touched
      <4>3. steps[u][d] \in Steps
        BY DEF TypeOK, DeployTypeOK
      <4> QED
        BY <1>2, <4>1, <4>2, <4>3 DEF Steps
    <3> QED
      BY <1>0, <1>1, <2>1, <3>1, <3>2, <3>3 DEF DeploymentInv, SecretFresh, SecretAccounts
  <2>3. Left
    BY <2>2
  <2> QED
    BY <1>0, <2>3, LeaveKeepsRecord
<1>5. CASE BuildEnds(u) \/ (ImagesBuilt(u) /\ kind[u] # "deploy")
  <2>1. UNCHANGED <<secret, uses, gone, tidy>> /\ phase[u] = "build"
    BY <1>5 DEF BuildEnds, ImagesBuilt
  <2>2. ASSUME NEW d \in Deployments
        PROVE  /\ OwnObjects(InSecret(d)', d)
               /\ d \notin gone' => Fresh(InSecret(d)', d)
               /\ tidy' => Matches(InSecret(d)', d) /\ uses'[d] \subseteq InSecret(d)'.projects
    <3>1. InSecret(d)' = InSecret(d)
      BY <2>1 DEF InSecret
    <3>2. \A w \in Users : steps[w][d] = "todo"
      BY <1>1, <1>2, <2>1 DEF StepShape, At
    <3>3. ~Deleted(d)
      BY <3>2 DEF Deleted, At
    <3> QED
      BY <1>0, <1>1, <2>1, <3>1, <3>2, <3>3 DEF DeploymentInv, SecretFresh, SecretAccounts
  <2>3. Left
    BY <2>2
  <2> QED
    BY <1>0, <2>3, LeaveKeepsRecord
<1>6. CASE DeployEnds(u)
  <2>1. UNCHANGED <<secret, gone>> /\ tidy' = FALSE /\ phase[u] = "deploy"
    BY <1>6 DEF DeployEnds
  <2>2. ASSUME NEW d \in Deployments
        PROVE  /\ OwnObjects(InSecret(d)', d)
               /\ d \notin gone' => Fresh(InSecret(d)', d)
    <3>1. InSecret(d)' = InSecret(d)
      BY <2>1 DEF InSecret
    <3>2. ~Deleted(d)
      BY <1>1, <2>1, NoneDeleted DEF StepShape, At
    <3> QED
      BY <1>1, <2>1, <3>1, <3>2 DEF DeploymentInv, SecretFresh
  <2>3. Left
    BY <2>1, <2>2
  <2> QED
    BY <1>0, <2>3, LeaveKeepsRecord
<1>7. CASE Deployed(u)
  <2>1. /\ phase[u] = "deploy" /\ DeploysDone(u) /\ SaveRemote(u) /\ UNCHANGED tidy
        /\ uses' = [d \in Deployments |-> uses[d] \cup {u}]
        /\ gone' = {d \in gone : loaded[u][d].method = "kubectl" \/ At(u, d, "skipped")}
    BY <1>7 DEF Deployed
  <2>2. ASSUME NEW d \in Deployments
        PROVE  /\ OwnObjects(InSecret(d)', d)
               /\ d \notin gone' => Fresh(InSecret(d)', d)
               /\ tidy' => Matches(InSecret(d)', d) /\ uses'[d] \subseteq InSecret(d)'.projects
    <3>1. InSecret(d)' = GetDeployment(u, d)
      BY <1>3, <2>1, SavedAsHeld
    <3>2. steps[u][d] \in {"upgraded", "skipped"}
      BY <2>1 DEF DeploysDone
    <3>3. d \notin gone' => d \notin gone \/ (At(u, d, "upgraded") /\ loaded[u][d].method = "helm")
      BY <2>1, <3>2, EntryTypes DEF At, Config, Methods
    <3>4. d \notin gone' => Fresh(GetDeployment(u, d), d)
      BY <1>1, <2>1, <3>2, <3>3 DEF MineInv, MineFresh
    <3>5. tidy' => MineAccounts(u, d)
      BY <1>1, <2>1 DEF MineInv
    <3>6. tidy' => Matches(GetDeployment(u, d), d) /\ uses[d] \subseteq GetDeployment(u, d).projects /\ u \in GetDeployment(u, d).projects
      BY <2>1, <3>2, <3>5 DEF MineAccounts, At
    <3> QED
      BY <1>1, <2>1, <3>1, <3>4, <3>6 DEF MineInv
  <2>3. Left
    BY <2>2
  <2> QED
    BY <1>0, <2>3, LeaveKeepsRecord
<1>8. CASE Purged(u)
  <2>1. /\ phase[u] = "purge" /\ PurgeDone(u) /\ UNCHANGED <<tidy, uses>>
        /\ gone' = {d \in gone : secret' # None /\ secret'[d] # None}
    BY <1>8 DEF Purged
  <2>2. CASE \A d \in Deployments : At(u, d, "todo")
    <3>1. UNCHANGED secret
      BY <1>8, <2>2 DEF Purged
    <3>2. ASSUME NEW d \in Deployments
          PROVE  /\ OwnObjects(InSecret(d)', d)
                 /\ d \notin gone' => Fresh(InSecret(d)', d)
                 /\ tidy' => Matches(InSecret(d)', d) /\ uses'[d] \subseteq InSecret(d)'.projects
      <4>1. InSecret(d)' = InSecret(d)
        BY <3>1 DEF InSecret
      <4>2. \A w \in Users : steps[w][d] = "todo"
        BY <1>2, <2>2 DEF At
      <4>3. ~Deleted(d)
        BY <4>2 DEF Deleted, At
      <4>4. (d \notin gone' /\ d \in gone) => InSecret(d) = NewDeployment
        BY <2>1, <3>1 DEF InSecret
      <4> QED
        BY <1>1, <2>1, <4>1, <4>2, <4>3, <4>4 DEF DeploymentInv, SecretFresh, SecretAccounts, Fresh, NewDeployment
    <3>3. Left
      BY <3>2
    <3> QED
      BY <1>0, <3>3, LeaveKeepsRecord
  <2>3. CASE ~(\A d \in Deployments : At(u, d, "todo"))
    <3>1. SaveRemote(u)
      BY <1>8, <2>3 DEF Purged
    <3>2. ASSUME NEW d \in Deployments
          PROVE  /\ OwnObjects(InSecret(d)', d)
                 /\ d \notin gone' => Fresh(InSecret(d)', d)
                 /\ tidy' => Matches(InSecret(d)', d) /\ uses'[d] \subseteq InSecret(d)'.projects
      <4>1. InSecret(d)' = GetDeployment(u, d)
        BY <1>3, <3>1, SavedAsHeld
      <4>2. steps[u][d] \in {"todo", "purged"}
        BY <1>1, <2>1 DEF StepShape
      <4>3. (d \notin gone' /\ d \in gone) => InSecret(d)' = NewDeployment
        BY <2>1 DEF InSecret
      <4>4. d \notin gone => Fresh(GetDeployment(u, d), d)
        BY <1>1, <2>1, <4>2 DEF MineInv, MineFresh
      <4>5. d \notin gone' => Fresh(GetDeployment(u, d), d)
        BY <4>1, <4>3, <4>4 DEF Fresh, NewDeployment
      <4>6. tidy' => Matches(GetDeployment(u, d), d) /\ uses[d] \subseteq GetDeployment(u, d).projects
        BY <1>1, <2>1, <4>2 DEF MineInv, MineAccounts, At
      <4> QED
        BY <1>1, <2>1, <4>1, <4>5, <4>6 DEF MineInv
    <3>3. Left
      BY <3>2
    <3> QED
      BY <1>0, <3>3, LeaveKeepsRecord
  <2> QED
    BY <2>2, <2>3
<1> QED
  BY <1>4, <1>5, <1>6, <1>7, <1>8

-----------------------------------------------------------------------------
(* Steps with one deployment.                                              *)

\* What a step of the command of u with d leaves alone.
StepWith(u, d) ==
    /\ phase[u] # "idle"
    /\ UNCHANGED <<secret, raw, loaded, phase, gone, cache, jobs>> /\ (tidy' => tidy)
    /\ \A w \in Users : \A e \in Deployments :
          (w # u \/ e # d) => steps'[w][e] = steps[w][e] /\ remote'[w][e] = remote[w][e]
    /\ \A e \in Deployments \ {d} : releases'[e] = releases[e] /\ uses'[e] = uses[e]
    /\ \A o \in Objects : applied'[o] # applied[o] => o \in ObjectsOf(d)

\* Only what concerns d in the command of u is left to show: the other deployments have
\* other objects, the other users run no command.
LEMMA OthersKeepRecord ==
  ASSUME RecordInv, Disjoint, TypeOK', NEW u \in Users, NEW d \in Deployments, StepWith(u, d),
         DeploymentInv(d)', MineInv(u, d)'
  PROVE  RecordInv'
<1> USE DEF RecordInv
<1>0. /\ UNCHANGED <<secret, raw, loaded, phase, gone, cache, jobs>> /\ (tidy' => tidy)
      /\ phase[u] # "idle"
  BY DEF StepWith
<1>1. Alone' /\ \A w \in Users \ {u} : phase[w] = "idle"
  BY <1>0 DEF Alone
<1>2. ASSUME NEW e \in Deployments, e # d
      PROVE  /\ \A w \in Users : steps'[w][e] = steps[w][e] /\ remote'[w][e] = remote[w][e]
             /\ releases'[e] = releases[e] /\ uses'[e] = uses[e]
             /\ \A w \in Users : GetDeployment(w, e)' = GetDeployment(w, e)
             /\ \A o \in ObjectsOf(e) \cap Objects : applied'[o] = applied[o]
  BY <1>2, ObjectsApart DEF StepWith, GetDeployment
<1>3. \A e \in Deployments : ObjectsOf(e) \subseteq Objects
  BY DeployAssumption DEF ObjectsOf, Config
<1>4. ASSUME NEW e \in Deployments, e # d PROVE DeploymentInv(e)'
  <2>1. InSecret(e)' = InSecret(e) /\ (Deleted(e)' <=> Deleted(e)) /\ DeploymentInv(e)
    BY <1>0, <1>2, <1>4 DEF InSecret, Deleted, At
  <2>2. OwnObjects(InSecret(e), e)'
    BY <2>1 DEF DeploymentInv, OwnObjects, ObjectsOf
  <2>3. SecretFresh(e)'
    BY <1>0, <1>2, <1>4, <2>1 DEF DeploymentInv, SecretFresh, Fresh, HelmVersion
  <2>4. tidy' => SecretAccounts(e)'
    BY <1>0, <1>2, <1>3, <1>4, <2>1 DEF DeploymentInv, SecretAccounts, Matches, SameObjects, ObjectsOf
  <2> QED
    BY <2>2, <2>3, <2>4 DEF DeploymentInv
<1>5. ASSUME NEW e \in Deployments, e # d PROVE MineInv(u, e)'
  <2>0. /\ MineInv(u, e) /\ steps'[u][e] = steps[u][e] /\ GetDeployment(u, e)' = GetDeployment(u, e)
        /\ releases'[e] = releases[e] /\ uses'[e] = uses[e]
        /\ Values(u, e)' = Values(u, e) /\ Manifest(u, e)' = Manifest(u, e) /\ Built(u)' = Built(u)
    BY <1>0, <1>2, <1>5 DEF Values, Manifest, Built, JobsAt
  <2>1. StepShape(u, e)' /\ OwnObjects(GetDeployment(u, e), e)' /\ MineFresh(u, e)'
    BY <1>0, <2>0 DEF MineInv, StepShape, At, OwnObjects, ObjectsOf, MineFresh, Fresh, HelmVersion
  <2>2. ResultShape(u, e)'
    <3>1. \A o \in loaded[u][e].objects : applied'[o] = applied[o]
      BY <1>2, <1>3, <1>5, EntryTypes
    <3> QED
      BY <1>0, <2>0, <3>1 DEF MineInv, ResultShape, Result, At
  <2>3. tidy' => MineAccounts(u, e)'
    BY <1>0, <1>2, <1>3, <1>5, <2>0 DEF MineInv, MineAccounts, At, Matches, SameObjects, ObjectsOf
  <2> QED
    BY <2>1, <2>2, <2>3 DEF MineInv
<1>6. ASSUME NEW w \in Users \ {u}, NEW e \in Deployments PROVE MineInv(w, e)'
  <2>1. steps'[w][e] = "todo" /\ phase'[w] = "idle" /\ GetDeployment(w, e)' = GetDeployment(w, e)
    BY <1>0, <1>1 DEF MineInv, StepShape, At, StepWith, GetDeployment
  <2>2. OwnObjects(GetDeployment(w, e), e)'
    BY <2>1 DEF MineInv, OwnObjects, ObjectsOf
  <2> QED
    BY <2>1, <2>2 DEF MineInv, StepShape, ResultShape, MineFresh, MineAccounts, At
<1>7. ASSUME NEW w \in Users PROVE CommandShape(w)'
  BY <1>0 DEF CommandShape, BuildsDone
<1>8. tidy' => NoOrphans'
  BY <1>0 DEF NoOrphans, StepWith, ObjectsOf
<1> QED
  BY <1>1, <1>4, <1>5, <1>6, <1>7, <1>8

\* How a step with one deployment changes the tables.
LEMMA StepFrame ==
  ASSUME TypeOK, NEW u \in Users, NEW d \in Deployments, NEW s, Go(u, d, s)
  PROVE  /\ steps'[u][d] = s
         /\ \A w \in Users : \A e \in Deployments : (w # u \/ e # d) => steps'[w][e] = steps[w][e]
  BY DEF Go, TypeOK, DeployTypeOK

\* ... and the record of the command (RemoteCache.SetDeployment).
LEMMA EntryFrame ==
  ASSUME TypeOK, NEW u \in Users, NEW d \in Deployments, NEW known, SetDeployment(u, d, known)
  PROVE  /\ remote'[u][d] = known
         /\ known # None => GetDeployment(u, d)' = known
         /\ known = None => GetDeployment(u, d)' = NewDeployment
         /\ \A w \in Users : \A e \in Deployments : (w # u \/ e # d) => remote'[w][e] = remote[w][e]
<1>1. remote \in [Users -> RemoteCache] /\ \A w \in Users : remote[w] \in [Deployments -> Deployment \cup {None}]
  BY DEF TypeOK, DeployTypeOK, RemoteCache
<1>2. remote'[u][d] = known /\ \A w \in Users : \A e \in Deployments : (w # u \/ e # d) => remote'[w][e] = remote[w][e]
  BY <1>1 DEF SetDeployment
<1> QED
  BY <1>2 DEF GetDeployment

\* helm looks whether an upgrade is needed (helm/deploy.go: ShouldUpgrade); if not, the
\* release is the one of the record, and the record is right about it.
LEMMA CheckKeepsRecord ==
  ASSUME RecordInv, Disjoint, TypeOK', NEW u \in Users, NEW d \in Deployments,
         phase[u] = "deploy", CheckRelease(u, d), tidy' => tidy,
         UNCHANGED <<phase, gone, uses, cache, jobs>>
  PROVE  RecordInv'
<1> USE DEF RecordInv
<1> DEFINE known == GetDeployment(u, d)
           found == ForProject(known, u)
<1>0. /\ DeploymentInv(d) /\ MineInv(u, d) /\ known \in Deployment /\ loaded[u][d] \in Configs[d]
      /\ At(u, d, "todo") /\ loaded[u][d].method = "helm"
      /\ UNCHANGED <<configs, releases, applied, secret, loaded, raw>>
  BY EntryTypes DEF CheckRelease
<1>1. /\ found \in Deployment /\ found # None /\ found.helm = known.helm /\ found.kubectl = known.kubectl
      /\ found.hash = known.hash /\ found.projects = known.projects \cup {u}
  BY <1>0, RecordTypes, DeployAssumption DEF TypeOK
<1>2. \/ /\ Go(u, d, "upgrade") /\ UNCHANGED remote
      \/ /\ ~UpgradeNeeded(u, d) /\ Go(u, d, "skipped") /\ SetDeployment(u, d, found)
  BY DEF CheckRelease
<1>3. /\ steps'[u][d] \in {"upgrade", "skipped"}
      /\ \A w \in Users : \A e \in Deployments :
            (w # u \/ e # d) => steps'[w][e] = steps[w][e] /\ remote'[w][e] = remote[w][e]
      /\ GetDeployment(u, d)' \in {known, found}
      /\ remote[u][d] # None => remote'[u][d] # None
  <2>1. CASE Go(u, d, "upgrade") /\ UNCHANGED remote
    BY <2>1, StepFrame DEF GetDeployment
  <2>2. CASE Go(u, d, "skipped") /\ SetDeployment(u, d, found)
    BY <1>1, <2>2, StepFrame, EntryFrame
  <2> QED
    BY <1>2, <2>1, <2>2
<1>4. StepWith(u, d)
  BY <1>0, <1>3 DEF StepWith
<1>5. DeploymentInv(d)'
  <2>1. InSecret(d)' = InSecret(d)
    BY <1>0 DEF InSecret
  <2>2. ~Deleted(d)
    BY <1>0, NoneDeleted DEF At
  <2>3. SecretFresh(d)'
    BY <1>0, <2>1, <2>2 DEF DeploymentInv, SecretFresh, Fresh, HelmVersion
  <2>4. tidy' => SecretAccounts(d)'
    <3>1. (\A w \in Users : steps'[w][d] \in {"todo", "upgrade", "skipped"})
          => (\A w \in Users : steps[w][d] \in {"todo", "upgrade", "skipped"})
      BY <1>0, <1>3 DEF At
    <3> QED
      BY <1>0, <2>1, <3>1 DEF DeploymentInv, SecretAccounts, Matches, SameObjects, ObjectsOf
  <2> QED
    BY <1>0, <2>1, <2>3, <2>4 DEF DeploymentInv, OwnObjects, ObjectsOf
<1>6. MineInv(u, d)'
  <2>0. steps[u][d] = "todo" /\ steps'[u][d] \in {"upgrade", "skipped"} /\ phase'[u] = "deploy"
    BY <1>0, <1>3 DEF At
  <2>1. StepShape(u, d)'
    BY <1>0, <2>0 DEF StepShape, At
  <2>2. OwnObjects(GetDeployment(u, d), d)'
    BY <1>0, <1>1, <1>3 DEF MineInv, OwnObjects, ObjectsOf
  <2>3. d \notin gone => Fresh(known, d)
    BY <1>0, <2>0 DEF MineInv, MineFresh
  <2>4. MineFresh(u, d)'
    BY <1>0, <1>1, <1>3, <2>0, <2>3 DEF MineFresh, Fresh, HelmVersion, At
  <2>5. ResultShape(u, d)'
    <3>1. CASE Go(u, d, "upgrade") /\ UNCHANGED remote
      BY <3>1, StepFrame DEF ResultShape, At
    <3>2. CASE ~UpgradeNeeded(u, d) /\ Go(u, d, "skipped")
      <4>1. steps'[u][d] = "skipped" /\ Built(u)' = Built(u) /\ Values(u, d)' = Values(u, d)
        BY <1>0, <3>2, StepFrame DEF Built, JobsAt, Values
      <4>2. /\ loaded[u][d].image \notin Built(u) /\ known.helm # None /\ known.hash = loaded[u][d].version
            /\ known.helm.values = Values(u, d) /\ releases[d] # None /\ releases[d].revision = known.helm.revision
        BY <3>2 DEF UpgradeNeeded
      <4>3. HelmVersion(d, known.hash)
        BY <1>0, <4>2 DEF HelmVersion
      <4>4. d \notin gone => Result(u, d)
        BY <2>3, <4>2, <4>3 DEF Fresh, Result
      <4> QED
        BY <1>0, <4>1, <4>2, <4>4 DEF ResultShape, Result, At
    <3> QED
      BY <1>2, <3>1, <3>2
  <2>6. tidy' => MineAccounts(u, d)'
    <3>1. tidy => Matches(known, d) /\ uses[d] \subseteq known.projects
      BY <1>0, <2>0 DEF MineInv, MineAccounts, At
    <3>2. At(u, d, "skipped")' => GetDeployment(u, d)' = found
      <4>1. CASE Go(u, d, "upgrade")
        BY <4>1, StepFrame DEF At
      <4>2. CASE SetDeployment(u, d, found)
        BY <1>1, <4>2, EntryFrame
      <4> QED
        BY <1>2, <4>1, <4>2
    <3> QED
      BY <1>0, <1>1, <1>3, <2>0, <3>1, <3>2 DEF MineAccounts, Matches, SameObjects, ObjectsOf, At
  <2> QED
    BY <2>1, <2>2, <2>4, <2>5, <2>6 DEF MineInv
<1> QED
  BY <1>4, <1>5, <1>6, OthersKeepRecord

\* helm upgrade makes a revision newer than any that is recorded.
LEMMA UpgradeKeepsRecord ==
  ASSUME RecordInv, Disjoint, TypeOK', NEW u \in Users, NEW d \in Deployments, NEW ok \in BOOLEAN,
         phase[u] = "deploy", Upgrade(u, d, ok), tidy' => tidy,
         UNCHANGED <<phase, gone, uses, cache, jobs>>
  PROVE  RecordInv'
<1> USE DEF RecordInv
<1>0. /\ DeploymentInv(d) /\ MineInv(u, d) /\ InSecret(d) \in Deployment
      /\ At(u, d, "upgrade") /\ loaded[u][d].method = "helm"
      /\ UNCHANGED <<configs, applied, secret, loaded, remote, raw>>
      /\ GetDeployment(u, d)' = GetDeployment(u, d) /\ InSecret(d)' = InSecret(d)
  BY EntryTypes DEF Upgrade, MineInv, StepShape, At, GetDeployment, InSecret
<1>1. /\ steps'[u][d] = IF ok THEN "list" ELSE "failed"
      /\ \A w \in Users : \A e \in Deployments : (w # u \/ e # d) => steps'[w][e] = steps[w][e]
  BY StepFrame DEF Upgrade
<1>2. /\ releases'[d] # None /\ releases'[d].ok = ok
      /\ releases'[d].version = loaded[u][d].version /\ releases'[d].values = Values(u, d)
      /\ releases[d] # None => /\ releases[d].revision \in Nat
                               /\ releases'[d].revision = releases[d].revision + 1
      /\ \A e \in Deployments \ {d} : releases'[e] = releases[e]
  <2> DEFINE new == [version |-> loaded[u][d].version, values |-> Values(u, d), revision |-> NextRevision(d), ok |-> ok]
  <2>1. releases' = [releases EXCEPT ![d] = new] /\ releases \in [Deployments -> Release \cup {None}]
    BY DEF Upgrade, TypeOK, DeployTypeOK
  <2>2. new \in Release
    BY RecordTypes, DeployAssumption DEF TypeOK, Upgrade, Release, Config
  <2> QED
    BY <2>1, <2>2, DeployAssumption DEF NextRevision, Release
<1>3. StepWith(u, d)
  BY <1>0, <1>1, <1>2 DEF StepWith
<1>4. DeploymentInv(d)'
  <2>1. ~Deleted(d)
    BY <1>0, NoneDeleted DEF At
  <2>2. SecretFresh(d)'
    <3>1. d \notin gone => Fresh(InSecret(d), d)
      BY <1>0, <2>1 DEF DeploymentInv, SecretFresh
    <3>2. InSecret(d).helm # None => InSecret(d).helm.revision \in Nat \cup {None}
      BY <1>0 DEF Deployment, HelmCache
    <3>3. d \notin gone => Fresh(InSecret(d), d)'
      BY <1>0, <1>2, <3>1, <3>2 DEF Fresh
    <3> QED
      BY <3>3 DEF SecretFresh
  <2>3. ~(\A w \in Users : steps'[w][d] \in {"todo", "upgrade", "skipped"})
    BY <1>1
  <2> QED
    BY <1>0, <2>2, <2>3 DEF DeploymentInv, OwnObjects, ObjectsOf, SecretAccounts
<1>5. MineInv(u, d)'
  <2>0. /\ steps[u][d] = "upgrade" /\ steps'[u][d] \in {"list", "failed"} /\ phase'[u] = "deploy"
        /\ steps'[u][d] = "list" => ok
    BY <1>0, <1>1 DEF At
  <2>1. StepShape(u, d)' /\ OwnObjects(GetDeployment(u, d), d)' /\ MineFresh(u, d)'
    BY <1>0, <2>0 DEF MineInv, StepShape, OwnObjects, ObjectsOf, MineFresh, At
  <2>2. ResultShape(u, d)'
    <3>1. Values(u, d)' = Values(u, d) /\ loaded' = loaded
      BY <1>0 DEF Values
    <3> QED
      BY <1>2, <2>0, <3>1 DEF ResultShape, Result, At
  <2>3. tidy' => MineAccounts(u, d)'
    BY <1>0, <2>0 DEF MineInv, MineAccounts, Matches, SameObjects, ObjectsOf, At
  <2> QED
    BY <2>1, <2>2, <2>3 DEF MineInv
<1> QED
  BY <1>3, <1>4, <1>5, OthersKeepRecord

\* The revision that is recorded is that of the release (helm/client.go: InstallChart).
LEMMA ReleaseKeepsRecord ==
  ASSUME RecordInv, Disjoint, TypeOK', NEW u \in Users, NEW d \in Deployments,
         phase[u] = "deploy", RecordRelease(u, d), tidy' => tidy,
         UNCHANGED <<phase, gone, uses, cache, jobs>>
  PROVE  RecordInv'
<1> USE DEF RecordInv
<1> DEFINE known == GetDeployment(u, d)
           found == IF releases[d] # None THEN releases[d].revision
                    ELSE IF known.helm # None THEN known.helm.revision ELSE None
           entry == [known EXCEPT !.hash = loaded[u][d].version, !.helm = [values |-> Values(u, d), revision |-> found]]
           saved == ForProject(entry, u)
<1>0. /\ DeploymentInv(d) /\ MineInv(u, d) /\ InSecret(d)' = InSecret(d)
      /\ known \in Deployment /\ loaded[u][d] \in Configs[d] /\ loaded[u][d] \in Config
      /\ At(u, d, "list") /\ loaded[u][d].method = "helm"
      /\ UNCHANGED <<configs, releases, applied, secret, loaded, raw>>
  BY EntryTypes DEF RecordRelease, MineInv, StepShape, At, InSecret
<1>1. Result(u, d) /\ found = releases[d].revision /\ releases[d] \in Release
  BY <1>0 DEF MineInv, ResultShape, Result, TypeOK, DeployTypeOK
<1>2. /\ saved \in Deployment /\ saved # None
      /\ saved.helm = [values |-> Values(u, d), revision |-> releases[d].revision] /\ saved.helm # None
      /\ saved.hash = loaded[u][d].version /\ saved.kubectl = known.kubectl
      /\ saved.projects = known.projects \cup {u}
  <2>1. Values(u, d) \in ImageRef
    BY RecordTypes DEF TypeOK
  <2>2. [values |-> Values(u, d), revision |-> found] \in HelmCache
    BY <1>1, <2>1 DEF HelmCache, Release
  <2>3. entry \in Deployment /\ entry.helm = [values |-> Values(u, d), revision |-> found]
        /\ entry.hash = loaded[u][d].version /\ entry.kubectl = known.kubectl /\ entry.projects = known.projects
    BY <1>0, <2>2 DEF Deployment, Config
  <2>4. /\ saved \in Deployment /\ saved.helm = entry.helm /\ saved.kubectl = entry.kubectl
        /\ saved.hash = entry.hash /\ saved.projects = entry.projects \cup {u}
    <3> HIDE DEF entry
    <3> QED
      BY <2>3, RecordTypes DEF TypeOK
  <2>5. saved # None /\ saved.helm # None
    BY <2>2, <2>3, <2>4, DeployAssumption
  <2> QED
    BY <1>1, <2>3, <2>4, <2>5
<1>3. /\ steps'[u][d] = "upgraded"
      /\ \A w \in Users : \A e \in Deployments :
            (w # u \/ e # d) => steps'[w][e] = steps[w][e] /\ remote'[w][e] = remote[w][e]
      /\ GetDeployment(u, d)' = saved /\ remote'[u][d] # None
  <2>1. Go(u, d, "upgraded") /\ SetDeployment(u, d, saved)
    BY DEF RecordRelease
  <2> QED
    BY <1>2, <2>1, StepFrame, EntryFrame
<1>4. StepWith(u, d)
  BY <1>0, <1>3 DEF StepWith
<1>5. DeploymentInv(d)'
  <2>1. ~Deleted(d)
    BY <1>0, NoneDeleted DEF At
  <2>2. SecretFresh(d)'
    BY <1>0, <2>1 DEF DeploymentInv, SecretFresh, Fresh, HelmVersion
  <2>3. ~(\A w \in Users : steps'[w][d] \in {"todo", "upgrade", "skipped"})
    BY <1>3
  <2> QED
    BY <1>0, <2>2, <2>3 DEF DeploymentInv, OwnObjects, ObjectsOf, SecretAccounts
<1>6. MineInv(u, d)'
  <2>0. phase'[u] = "deploy" /\ Values(u, d)' = Values(u, d)
    BY <1>0 DEF Values
  <2>1. StepShape(u, d)' /\ OwnObjects(GetDeployment(u, d), d)'
    BY <1>0, <1>2, <1>3, <2>0 DEF MineInv, StepShape, OwnObjects, ObjectsOf, At
  <2>2. Fresh(GetDeployment(u, d), d)'
    <3>1. releases[d].revision \in Nat /\ releases[d].revision # None
      BY <1>1, BuildAssumption DEF Release
    <3>2. /\ saved.helm.revision = releases[d].revision /\ saved.helm.values = Values(u, d)
          /\ saved.hash = loaded[u][d].version
      BY <1>2
    <3>3. Fresh(saved, d)
      <4> HIDE DEF saved
      <4> QED
        BY <1>1, <3>1, <3>2 DEF Fresh, Result
    <3> QED
      BY <1>0, <1>3, <3>3 DEF Fresh, HelmVersion
  <2>3. ResultShape(u, d)'
    BY <1>0, <1>1, <1>3, <2>0 DEF ResultShape, Result, At
  <2>4. tidy' => MineAccounts(u, d)'
    BY <1>0, <1>1, <1>2, <1>3, <2>0 DEF MineInv, MineAccounts, Matches, SameObjects, ObjectsOf, Result, At
  <2> QED
    BY <2>1, <2>2, <2>3, <2>4 DEF MineInv, MineFresh
<1> QED
  BY <1>4, <1>5, <1>6, OthersKeepRecord

\* Manifests are applied and recorded. A configuration with less objects than the record
\* is the case of tidy.
LEMMA ApplyKeepsRecord ==
  ASSUME RecordInv, Disjoint, TypeOK', NEW u \in Users, NEW d \in Deployments,
         phase[u] = "deploy", ApplyManifests(u, d), tidy' => tidy,
         (tidy' /\ remote[u][d] # None /\ remote[u][d].kubectl # None)
         => remote[u][d].kubectl \subseteq remote'[u][d].kubectl,
         UNCHANGED <<phase, gone, uses, cache, jobs>>
  PROVE  RecordInv'
<1> USE DEF RecordInv
<1> DEFINE known == GetDeployment(u, d)
           entry == [known EXCEPT !.hash = loaded[u][d].version, !.kubectl = loaded[u][d].objects]
           saved == ForProject(entry, u)
<1>0. /\ DeploymentInv(d) /\ MineInv(u, d) /\ InSecret(d)' = InSecret(d)
      /\ known \in Deployment /\ loaded[u][d] \in Configs[d] /\ loaded[u][d] \in Config
      /\ loaded[u][d].objects \subseteq ObjectsOf(d)
      /\ At(u, d, "todo") /\ loaded[u][d].method = "kubectl" /\ loaded[u][d].objects \in SUBSET Objects
      /\ UNCHANGED <<configs, releases, secret, loaded, raw>>
  BY EntryTypes DEF ApplyManifests, At, InSecret, Config
<1>2. /\ saved \in Deployment /\ saved # None
      /\ saved.helm = known.helm /\ saved.hash = loaded[u][d].version
      /\ saved.kubectl = loaded[u][d].objects /\ saved.kubectl # None
      /\ saved.projects = known.projects \cup {u}
  <2>1. entry \in Deployment /\ entry.helm = known.helm /\ entry.hash = loaded[u][d].version
        /\ entry.kubectl = loaded[u][d].objects /\ entry.projects = known.projects
    BY <1>0 DEF Deployment, Config
  <2>2. loaded[u][d].objects # None
    BY <1>0, DeployAssumption
  <2>3. /\ saved \in Deployment /\ saved.helm = entry.helm /\ saved.kubectl = entry.kubectl
        /\ saved.hash = entry.hash /\ saved.projects = entry.projects \cup {u}
    <3> HIDE DEF entry
    <3> QED
      BY <2>1, RecordTypes DEF TypeOK
  <2>4. saved # None
    BY <2>3, DeployAssumption
  <2> QED
    BY <2>1, <2>2, <2>3, <2>4
<1>3. /\ steps'[u][d] = "upgraded"
      /\ \A w \in Users : \A e \in Deployments :
            (w # u \/ e # d) => steps'[w][e] = steps[w][e] /\ remote'[w][e] = remote[w][e]
      /\ GetDeployment(u, d)' = saved /\ remote'[u][d] = saved
  <2>1. Go(u, d, "upgraded") /\ SetDeployment(u, d, saved)
    BY DEF ApplyManifests
  <2> QED
    BY <1>2, <2>1, StepFrame, EntryFrame
<1>4. /\ \A o \in loaded[u][d].objects : applied'[o] = Manifest(u, d) /\ applied'[o] # None
      /\ \A o \in Objects \ loaded[u][d].objects : applied'[o] = applied[o]
  BY <1>0, RecordTypes, DeployAssumption DEF ApplyManifests, Apply, TypeOK
<1>5. StepWith(u, d)
  BY <1>0, <1>3, <1>4 DEF StepWith
<1>6. DeploymentInv(d)'
  <2>1. ~Deleted(d)
    BY <1>0, NoneDeleted DEF At
  <2>2. SecretFresh(d)'
    BY <1>0, <2>1 DEF DeploymentInv, SecretFresh, Fresh, HelmVersion
  <2>3. ~(\A w \in Users : steps'[w][d] \in {"todo", "upgrade", "skipped"})
    BY <1>3
  <2> QED
    BY <1>0, <2>2, <2>3 DEF DeploymentInv, OwnObjects, ObjectsOf, SecretAccounts
<1>7. MineInv(u, d)'
  <2>0. phase'[u] = "deploy" /\ Manifest(u, d)' = Manifest(u, d) /\ steps[u][d] = "todo"
    BY <1>0 DEF Manifest, Values, At
  <2>1. StepShape(u, d)' /\ OwnObjects(GetDeployment(u, d), d)'
    BY <1>0, <1>2, <1>3, <2>0 DEF MineInv, StepShape, OwnObjects, ObjectsOf, At
  <2>2. MineFresh(u, d)'
    <3>1. ~HelmVersion(d, saved.hash)
      <4>1. \A c \in Configs[d] : c.version = loaded[u][d].version => c = loaded[u][d]
        BY <1>0, DeployAssumption
      <4> QED
        BY <1>0, <1>2, <4>1 DEF HelmVersion
    <3>2. d \notin gone => Fresh(known, d)
      BY <1>0, <2>0 DEF MineInv, MineFresh
    <3>3. d \notin gone => Fresh(GetDeployment(u, d), d)'
      BY <1>0, <1>2, <1>3, <3>1, <3>2 DEF Fresh, HelmVersion
    <3> QED
      BY <1>0, <3>3 DEF MineFresh
  <2>3. ResultShape(u, d)'
    BY <1>0, <1>3, <1>4, <2>0 DEF ResultShape, At
  <2>4. tidy' => MineAccounts(u, d)'
    <3>1. tidy' => Matches(known, d) /\ uses[d] \subseteq known.projects
      BY <1>0, <2>0 DEF MineInv, MineAccounts, At
    <3>2. (tidy' /\ known.kubectl # None) => known.kubectl \subseteq saved.kubectl
      BY <1>3 DEF GetDeployment, NewDeployment
    <3>3. ObjectsOf(d) \subseteq Objects
      BY DeployAssumption DEF ObjectsOf, Config
    <3>4. tidy' => \A o \in ObjectsOf(d) : applied'[o] # None <=> o \in loaded[u][d].objects
      BY <1>2, <1>4, <3>1, <3>2, <3>3 DEF Matches, SameObjects
    <3> QED
      BY <1>0, <1>2, <1>3, <2>0, <3>1, <3>4 DEF MineAccounts, Matches, SameObjects, ObjectsOf, At
  <2> QED
    BY <2>1, <2>2, <2>3, <2>4 DEF MineInv
<1> QED
  BY <1>5, <1>6, <1>7, OthersKeepRecord

\* After an error with a deployment nothing is claimed of it until the next command.
LEMMA FailureKeepsRecord ==
  ASSUME RecordInv, Disjoint, TypeOK', NEW u \in Users, NEW d \in Deployments,
         phase[u] = "deploy", ApplyFails(u, d) \/ DeployFails(u, d),
         UNCHANGED <<phase, gone, uses, cache, jobs, tidy>>
  PROVE  RecordInv'
<1> USE DEF RecordInv
<1>0. /\ DeploymentInv(d) /\ MineInv(u, d)
      /\ UNCHANGED <<configs, releases, secret, loaded, remote, raw>>
      /\ GetDeployment(u, d)' = GetDeployment(u, d) /\ InSecret(d)' = InSecret(d)
  BY DEF ApplyFails, DeployFails, GetDeployment, InSecret
<1>1. /\ steps'[u][d] = "failed"
      /\ \A w \in Users : \A e \in Deployments : (w # u \/ e # d) => steps'[w][e] = steps[w][e]
  BY StepFrame DEF ApplyFails, DeployFails
<1>2. \A o \in Objects : applied'[o] # applied[o] => o \in ObjectsOf(d)
  BY EntryTypes DEF ApplyFails, DeployFails, Apply
<1>3. StepWith(u, d)
  BY <1>0, <1>1, <1>2 DEF StepWith
<1>4. DeploymentInv(d)'
  <2>1. ~Deleted(d)
    BY <1>0, NoneDeleted DEF MineInv, StepShape, At
  <2>2. SecretFresh(d)'
    BY <1>0, <2>1 DEF DeploymentInv, SecretFresh, Fresh, HelmVersion
  <2>3. ~(\A w \in Users : steps'[w][d] \in {"todo", "upgrade", "skipped"})
    BY <1>1
  <2> QED
    BY <1>0, <2>2, <2>3 DEF DeploymentInv, OwnObjects, ObjectsOf, SecretAccounts
<1>5. MineInv(u, d)'
  BY <1>0, <1>1 DEF MineInv, StepShape, OwnObjects, ObjectsOf, MineFresh, ResultShape, MineAccounts, At
<1> QED
  BY <1>3, <1>4, <1>5, OthersKeepRecord

\* Purge of one deployment: it is released for others that use it, or deleted with its
\* entry, whether or not all of it could be deleted (deploy.go: Purge).
LEMMA PurgeKeepsRecord ==
  ASSUME RecordInv, Disjoint, TypeOK', NEW u \in Users, NEW d \in Deployments, PurgeStep(u, d)
  PROVE  RecordInv'
<1> USE DEF RecordInv
<1>1. PICK survivors \in SUBSET (Objects \cup {d}) :
         /\ Purge(u, d, kind[u] = "force", survivors)
         /\ tidy' = (tidy /\ survivors = {} /\ (remote'[u][d] # None \/ remote[u][d].helm = None
                                                \/ remote[u][d].kubectl = None))
  BY DEF PurgeStep
<1> DEFINE known == remote[u][d]
<1>0. /\ DeploymentInv(d) /\ MineInv(u, d) /\ known \in Deployment /\ known # None
      /\ GetDeployment(u, d) = known /\ (known.kubectl # None => known.kubectl \subseteq ObjectsOf(d))
      /\ phase[u] = "purge" /\ At(u, d, "todo") /\ Go(u, d, "purged")
      /\ UNCHANGED <<secret, loaded, raw, phase, gone, cache, jobs>>
      /\ uses' = [uses EXCEPT ![d] = IF kind[u] = "force" THEN {} ELSE @ \ {u}]
      /\ InSecret(d)' = InSecret(d) /\ (tidy' => tidy)
  <2>1. /\ known # None /\ At(u, d, "todo") /\ Go(u, d, "purged") /\ UNCHANGED <<secret, loaded, raw>>
    BY <1>1 DEF Purge
  <2>2. /\ phase[u] = "purge" /\ UNCHANGED <<phase, gone, cache, jobs>>
        /\ uses' = [uses EXCEPT ![d] = IF kind[u] = "force" THEN {} ELSE @ \ {u}]
    BY DEF PurgeStep, buildVars
  <2>3. GetDeployment(u, d) = known /\ known \in Deployment
    BY <2>1, EntryTypes
  <2>4. MineInv(u, d) /\ (known.kubectl # None => known.kubectl \subseteq ObjectsOf(d))
    BY <2>3 DEF MineInv, OwnObjects
  <2> QED
    BY <1>1, <2>1, <2>2, <2>3, <2>4 DEF InSecret
<1>2. steps'[u][d] = "purged" /\ \A w \in Users : \A e \in Deployments : (w # u \/ e # d) => steps'[w][e] = steps[w][e]
  BY <1>0, StepFrame
<1>3. /\ uses'[d] = IF kind[u] = "force" THEN {} ELSE uses[d] \ {u}
      /\ \A e \in Deployments \ {d} : uses'[e] = uses[e]
  BY <1>0 DEF TypeOK
<1>4. /\ d \notin gone => Fresh(known, d)
      /\ tidy => Matches(known, d) /\ uses[d] \subseteq known.projects
  <2>1. d \notin gone => Fresh(known, d)
    BY <1>0 DEF MineInv, MineFresh, At
  <2>2. tidy => MineAccounts(u, d)
    BY <1>0 DEF MineInv
  <2>3. MineAccounts(u, d) => Matches(known, d) /\ uses[d] \subseteq known.projects
    BY <1>0 DEF MineAccounts, At
  <2> QED
    BY <2>1, <2>2, <2>3
<1>5. ~(\A w \in Users : steps'[w][d] \in {"todo", "upgrade", "skipped"})
  BY <1>2
<1>6. ~Deleted(d) /\ (d \notin gone => Fresh(InSecret(d), d))
  BY <1>0, NoneDeleted DEF DeploymentInv, SecretFresh
<1>7. CASE ReleaseFor(u, d) /\ survivors = {} /\ kind[u] # "force"
  <2> DEFINE kept == [known EXCEPT !.projects = @ \ {u}]
  <2>1. /\ kept \in Deployment /\ kept # None /\ kept.helm = known.helm /\ kept.kubectl = known.kubectl
        /\ kept.hash = known.hash /\ kept.projects = known.projects \ {u}
    <3>1. /\ kept \in Deployment /\ kept.helm = known.helm /\ kept.kubectl = known.kubectl
          /\ kept.hash = known.hash /\ kept.projects = known.projects \ {u}
      BY <1>0 DEF Deployment
    <3> QED
      BY <3>1, DeployAssumption
  <2>2. /\ remote'[u][d] = kept /\ GetDeployment(u, d)' = kept /\ UNCHANGED <<releases, applied>>
        /\ \A w \in Users : \A e \in Deployments : (w # u \/ e # d) => remote'[w][e] = remote[w][e]
    <3>1. SetDeployment(u, d, kept) /\ UNCHANGED <<releases, applied>>
      BY <1>7 DEF ReleaseFor
    <3> QED
      BY <2>1, <3>1, EntryFrame
  <2>3. StepWith(u, d)
    BY <1>0, <1>2, <1>3, <2>2 DEF StepWith
  <2>4. DeploymentInv(d)'
    BY <1>0, <1>5, <1>6, <2>2 DEF DeploymentInv, SecretFresh, Fresh, HelmVersion, OwnObjects, ObjectsOf, SecretAccounts
  <2>5. MineInv(u, d)'
    <3>1. StepShape(u, d)' /\ ResultShape(u, d)'
      BY <1>0, <1>2 DEF StepShape, ResultShape, At
    <3>4. OwnObjects(GetDeployment(u, d), d)'
      <4> HIDE DEF kept
      <4> QED
        BY <1>0, <2>1, <2>2 DEF OwnObjects, ObjectsOf
    <3>2. MineFresh(u, d)'
      BY <1>0, <1>2, <1>4, <2>1, <2>2 DEF MineFresh, Fresh, HelmVersion, At
    <3>3. tidy' => MineAccounts(u, d)'
      BY <1>0, <1>2, <1>3, <1>4, <1>7, <2>1, <2>2 DEF MineAccounts, Matches, SameObjects, ObjectsOf, At
    <3> QED
      BY <3>1, <3>2, <3>3, <3>4 DEF MineInv
  <2> QED
    BY <2>3, <2>4, <2>5, OthersKeepRecord
<1>8. CASE Delete(u, d, survivors) /\ (kind[u] = "force" \/ ~InUseByOthers(known, u))
  <2>1. /\ remote'[u][d] = None /\ GetDeployment(u, d)' = NewDeployment
        /\ \A w \in Users : \A e \in Deployments : (w # u \/ e # d) => remote'[w][e] = remote[w][e]
    <3>1. SetDeployment(u, d, None)
      BY <1>8 DEF Delete
    <3> QED
      BY <3>1, EntryFrame
  <2>2. /\ \A o \in Objects : applied'[o] # applied[o] => o \in ObjectsOf(d)
        /\ \A e \in Deployments \ {d} : releases'[e] = releases[e]
    <3>1. CASE known.kubectl # None
      BY <1>0, <1>8, <3>1 DEF Delete
    <3>2. CASE known.kubectl = None
      BY <1>8, <3>2 DEF Delete, TypeOK, DeployTypeOK
    <3> QED
      BY <3>1, <3>2
  <2>3. StepWith(u, d)
    BY <1>0, <1>2, <1>3, <2>1, <2>2 DEF StepWith
  <2>4. Deleted(d)'
    BY <1>2, <2>1 DEF Deleted, At
  <2>5. DeploymentInv(d)'
    BY <1>0, <1>5, <2>4 DEF DeploymentInv, SecretFresh, OwnObjects, ObjectsOf, SecretAccounts
  <2>6. tidy' => Matches(NewDeployment, d)'
    <3> SUFFICES ASSUME tidy' PROVE Matches(NewDeployment, d)'
      OBVIOUS
    <3>1. /\ survivors = {} /\ (known.helm = None \/ known.kubectl = None) /\ Matches(known, d)
      BY <1>0, <1>1, <1>4, <2>1
    <3>2. ObjectsOf(d) \subseteq Objects
      BY DeployAssumption DEF ObjectsOf, Config
    <3>3. CASE known.kubectl # None
      <4>1. releases' = releases /\ releases[d] = None
        BY <1>8, <3>1, <3>3 DEF Delete, Matches
      <4>2. applied' = [o \in Objects |-> IF o \in known.kubectl THEN None ELSE applied[o]]
        BY <1>8, <3>1, <3>3 DEF Delete
      <4>3. \A o \in ObjectsOf(d) : applied'[o] = None
        BY <3>1, <3>2, <4>2 DEF Matches, SameObjects
      <4> QED
        BY <4>1, <4>3 DEF Matches, SameObjects, NewDeployment, ObjectsOf
    <3>4. CASE known.kubectl = None
      <4>1. applied' = applied /\ releases'[d] = None
        BY <1>8, <3>1, <3>4 DEF Delete, TypeOK, DeployTypeOK
      <4>2. \A o \in ObjectsOf(d) : applied'[o] = None
        BY <3>1, <3>4, <4>1 DEF Matches, SameObjects
      <4> QED
        BY <4>1, <4>2 DEF Matches, SameObjects, NewDeployment, ObjectsOf
    <3> QED
      BY <3>3, <3>4
  <2>7. tidy' => uses'[d] = {}
    BY <1>0, <1>3, <1>4, <1>8 DEF InUseByOthers
  <2>8. MineInv(u, d)'
    <3>1. StepShape(u, d)' /\ OwnObjects(GetDeployment(u, d), d)' /\ ResultShape(u, d)' /\ MineFresh(u, d)'
      BY <1>0, <1>2, <2>1 DEF StepShape, OwnObjects, NewDeployment, ResultShape, MineFresh, Fresh, At
    <3>2. tidy' => MineAccounts(u, d)'
      BY <1>2, <2>1, <2>6, <2>7 DEF MineAccounts, Matches, SameObjects, NewDeployment, ObjectsOf, At
    <3> QED
      BY <3>1, <3>2 DEF MineInv
  <2> QED
    BY <2>3, <2>5, <2>8, OthersKeepRecord
<1> QED
  BY <1>1, <1>7, <1>8 DEF Purge

-----------------------------------------------------------------------------
(* Every step.                                                             *)

\* Every step keeps the invariant of the record.
LEMMA NextKeepsRecord == RecordInv /\ ~Overlap /\ Disjoint /\ [Next]_vars => RecordInv'
<1> SUFFICES ASSUME RecordInv, ~Overlap, Disjoint, [Next]_vars PROVE RecordInv'
  OBVIOUS
<1>0. TypeOK'
  BY NextType DEF RecordInv
<1>1. ASSUME NEW u \in Users, NEW k \in Kinds, Begin(u, k) PROVE RecordInv'
  BY <1>0, <1>1, BeginKeepsRecord
<1>2. ASSUME NEW u \in Users,
             Crash(u) \/ PurgeError(u) \/ BuildEnds(u) \/ DeployEnds(u) \/ Deployed(u) \/ Purged(u)
      PROVE  RecordInv'
  BY <1>0, <1>2, EndKeepsRecord
<1>3. ASSUME NEW u \in Users, ImagesBuilt(u) PROVE RecordInv'
  <2>1. CASE kind[u] # "deploy"
    BY <1>0, <1>3, <2>1, EndKeepsRecord
  <2>2. CASE kind[u] = "deploy"
    <3>1. /\ UNCHANGED <<steps, remote, secret, releases, applied, raw, gone, tidy, uses, loaded, cache, jobs>>
          /\ phase[u] = "build" /\ BuildsDone(u) /\ phase' = [phase EXCEPT ![u] = "deploy"]
      BY <1>3, <2>2 DEF ImagesBuilt, deployVars
    <3>2. \A w \in Users : phase'[w] = phase[w] \/ (phase[w] = "build" /\ phase'[w] = "deploy" /\ BuildsDone(w)')
      BY <3>1 DEF RecordInv, TypeOK, BuildsDone
    <3> QED
      BY <1>0, <3>1, <3>2, QuietKeepsRecord
  <2> QED
    BY <2>1, <2>2
<1>4. ASSUME NEW u \in Users, NEW i \in Images, BuildStep(u, i) \/ BuildError(u, i) PROVE RecordInv'
  <2>1. /\ UNCHANGED <<steps, remote, secret, releases, applied, raw, gone, tidy, uses, phase, loaded>>
        /\ phase[u] = "build"
    BY <1>4 DEF BuildStep, BuildError, deployVars, commandVars
  <2>2. \A w \in Users \ {u} : phase[w] = "idle"
    BY <2>1 DEF RecordInv, Alone
  <2> QED
    BY <1>0, <2>1, <2>2, QuietKeepsRecord
<1>5. ASSUME NEW u \in Users, NEW d \in Deployments, DeployStep(u, d) PROVE RecordInv'
  <2>1. /\ phase[u] = "deploy" /\ (tidy' => tidy)
        /\ UNCHANGED <<phase, gone, uses, cache, jobs>>
        /\ (tidy' /\ remote[u][d] # None /\ remote[u][d].kubectl # None)
           => remote[u][d].kubectl \subseteq remote'[u][d].kubectl
    BY <1>5 DEF DeployStep, buildVars
  <2> QED
    BY <1>0, <1>5, <2>1, CheckKeepsRecord, UpgradeKeepsRecord, ReleaseKeepsRecord, ApplyKeepsRecord DEF DeployStep
<1>6. ASSUME NEW u \in Users, NEW d \in Deployments, DeployError(u, d) PROVE RecordInv'
  <2>1. phase[u] = "deploy" /\ UNCHANGED <<phase, gone, uses, cache, jobs, tidy>>
    BY <1>6 DEF DeployError, buildVars
  <2>2. CASE Upgrade(u, d, FALSE)
    <3>1. FALSE \in BOOLEAN /\ (tidy' => tidy)
      BY <2>1
    <3> QED
      BY <1>0, <2>1, <2>2, <3>1, UpgradeKeepsRecord
  <2>3. CASE ApplyFails(u, d) \/ DeployFails(u, d)
    BY <1>0, <2>1, <2>3, FailureKeepsRecord
  <2> QED
    BY <1>6, <2>2, <2>3 DEF DeployError
<1>7. ASSUME NEW u \in Users, NEW d \in Deployments, PurgeStep(u, d) PROVE RecordInv'
  BY <1>0, <1>7, PurgeKeepsRecord
<1>8. ASSUME NEW u \in Users, Edit(u) PROVE RecordInv'
  <2>1. UNCHANGED <<steps, remote, secret, releases, applied, raw, gone, tidy, uses, phase, cache, jobs>>
    BY <1>8 DEF Edit, EditSources, EditConfig, ChangeLogin, deployVars, buildVars
  <2>2. \A w \in Users : phase[w] # "idle" => loaded'[w] = loaded[w]
    <3>1. CASE UNCHANGED deployVars
      BY <3>1 DEF deployVars
    <3>2. CASE phase[u] = "idle" /\ \E d \in Deployments : EditConfig(u, d)
      BY <3>2 DEF EditConfig, RecordInv, TypeOK, DeployTypeOK
    <3> QED
      BY <1>8, <3>1, <3>2 DEF Edit
  <2> QED
    BY <1>0, <2>1, <2>2, QuietKeepsRecord
<1>9. CASE RegistryRestarts \/ UNCHANGED vars
  <2>1. UNCHANGED <<steps, remote, secret, releases, applied, raw, gone, tidy, uses, phase, cache, jobs, loaded>>
    BY <1>9 DEF RegistryRestarts, LoseLocalImages, deployVars, buildVars, commandVars, vars
  <2> QED
    BY <1>0, <2>1, QuietKeepsRecord
<1> QED
  BY <1>1, <1>2, <1>3, <1>4, <1>5, <1>6, <1>7, <1>8, <1>9 DEF Next, Finished

\* At the start nothing is deployed and nothing is recorded.
LEMMA InitRecord == Init => RecordInv
<1> SUFFICES ASSUME Init PROVE RecordInv
  OBVIOUS
<1>1. /\ \A u \in Users : phase[u] = "idle" /\ \A d \in Deployments : steps[u][d] = "todo" /\ remote[u][d] = None
      /\ secret = None /\ \A d \in Deployments : releases[d] = None /\ uses[d] = {}
      /\ \A o \in Objects : applied[o] = None
  BY DEF Init, DeployInit, NoDeployments
<1>2. ASSUME NEW d \in Deployments PROVE DeploymentInv(d)
  <2>1. ObjectsOf(d) \subseteq Objects
    BY DeployAssumption DEF ObjectsOf, Config
  <2> QED
    BY <1>1, <2>1 DEF DeploymentInv, InSecret, NewDeployment, OwnObjects, SecretFresh, Fresh, SecretAccounts, Matches, SameObjects
<1>3. ASSUME NEW u \in Users, NEW d \in Deployments PROVE MineInv(u, d)
  BY <1>1 DEF MineInv, StepShape, GetDeployment, NewDeployment, OwnObjects, MineFresh, ResultShape, MineAccounts, At
<1> QED
  BY <1>1, <1>2, <1>3, InitType DEF RecordInv, Alone, CommandShape, NoOrphans

\* Commands that do not overlap keep the record and the cluster together.
LEMMA RecordHolds ==
  ASSUME ~Overlap, Disjoint
  PROVE  Spec => []RecordInv
<1>1. RecordInv /\ [Next]_vars => RecordInv'
  BY NextKeepsRecord
<1> QED
  BY <1>1, InitRecord, PTL DEF Spec

\* A deploy that ended has deployed what the checkout says, of the images it looked at,
\* whatever it skipped because it was there already: for any number of deployments, users
\* and earlier commands, failed and killed ones among them (deploy.go, helm/deploy.go).
THEOREM DeliveredTheorem ==
  ASSUME ~Overlap, Disjoint
  PROVE  Spec => []Delivered
<1>1. ImageInv /\ RecordInv => Delivered
  <2> SUFFICES ASSUME ImageInv, RecordInv, NEW u \in Users, phase[u] = "deploy", DeploysDone(u), NEW d \in Deployments
               PROVE  /\ (loaded[u][d].method = "helm" /\ (d \in gone => At(u, d, "upgraded"))) => Result(u, d)
                      /\ loaded[u][d].method = "kubectl" => \A o \in loaded[u][d].objects : applied[o] = Manifest(u, d)
                      /\ loaded[u][d].image \in Built(u) => At(u, d, "upgraded")
                      /\ (/\ loaded[u][d].image \notin Pinned /\ cache[u][loaded[u][d].image].sure
                          /\ cache[u][loaded[u][d].image].tag # None)
                         => stored[cache[u][loaded[u][d].image].store][loaded[u][d].image][cache[u][loaded[u][d].image].tag]
                               \in {read[u][loaded[u][d].image]}
                                   \cup (IF cache[u][loaded[u][d].image].store = "local" THEN {None} ELSE {})
    BY DEF Delivered, Result
  <2>0. /\ MineInv(u, d) /\ steps[u][d] \in {"upgraded", "skipped"} /\ BuildsDone(u)
        /\ loaded[u][d] \in Config
    BY EntryTypes DEF RecordInv, DeploysDone, CommandShape
  <2>1. (loaded[u][d].method = "helm" /\ (d \in gone => At(u, d, "upgraded"))) => Result(u, d)
    BY <2>0 DEF MineInv, ResultShape, At
  <2>2. loaded[u][d].method = "kubectl" => \A o \in loaded[u][d].objects : applied[o] = Manifest(u, d)
    BY <2>0 DEF MineInv, StepShape, ResultShape, At
  <2>3. loaded[u][d].image \in Built(u) => At(u, d, "upgraded")
    BY <2>0 DEF MineInv, ResultShape, At
  <2>4. ASSUME NEW i \in Images \ Pinned, cache[u][i].sure, cache[u][i].tag # None
        PROVE  stored[cache[u][i].store][i][cache[u][i].tag]
                  \in {read[u][i]} \cup (IF cache[u][i].store = "local" THEN {None} ELSE {})
    <3>1. jobs[u][i].at \in {"finished", "skipped"}
      BY <2>0 DEF BuildsDone
    <3>2. cache[u][i].hash = read[u][i]
      BY <2>4, <3>1 DEF ImageInv, LookedAt
    <3>3. IsBuilt(cache[u][i], cache[u][i].tag, i)
      BY <3>1 DEF ImageInv, EntriesBuilt
    <3> QED
      BY <2>4, <3>2, <3>3 DEF IsBuilt
  <2> QED
    BY <2>0, <2>1, <2>2, <2>3, <2>4 DEF Config
<1> QED
  BY <1>1, ImagesHold, RecordHolds, PTL

\* Between commands the secret has what is in the cluster and who deployed it, however many
\* projects deployed, purged, failed and were killed before, except after what tidy names
\* (remotecache/schema.go, deploy.go: Purge).
THEOREM RecordAgreesTheorem ==
  ASSUME ~Overlap, Disjoint
  PROVE  Spec => []RecordAgrees
<1>1. RecordInv => RecordAgrees
  <2> SUFFICES ASSUME RecordInv, Idle, tidy PROVE Recorded /\ StillThere
    BY DEF RecordAgrees, Recorded, StillThere
  <2>1. \A d \in Deployments : /\ Matches(InSecret(d), d) /\ uses[d] \subseteq InSecret(d).projects
                               /\ OwnObjects(InSecret(d), d)
    <3>1. \A u \in Users : \A d \in Deployments : steps[u][d] = "todo"
      BY DEF RecordInv, Idle, MineInv, StepShape, At
    <3> QED
      BY <3>1 DEF RecordInv, DeploymentInv, SecretAccounts
  <2>2. Recorded
    BY <2>1 DEF Recorded, RecordInv, NoOrphans, Matches, SameObjects, InSecret
  <2>3. StillThere
    BY <2>1 DEF StillThere, Matches, SameObjects, OwnObjects, InSecret, NewDeployment
  <2> QED
    BY <2>2, <2>3
<1> QED
  BY <1>1, RecordHolds, PTL
=============================================================================
