------------------------------- MODULE Delivery -------------------------------
(***************************************************************************)
(* The commands of several users that build, deploy and purge one project: *)
(* a command loads the configuration and both caches, builds, deploys or   *)
(* purges, and saves what it did. Any call may fail and any process may    *)
(* end at any point.                                                       *)
(***************************************************************************)
EXTENDS Deployments

CONSTANTS
    Overlap,        \* may commands of several users run at the same time?
    MaxCommands, MaxEdits, MaxFaults  \* bounds

ASSUME DeliveryAssumption ==
    Overlap \in BOOLEAN /\ MaxCommands \in Nat /\ MaxEdits \in Nat /\ MaxFaults \in Nat

\* devspace build, deploy (and dev), purge, purge --force-purge.
Kinds  == {"build", "deploy", "purge", "force"}
Phases == {"idle", "build", "deploy", "purge"}

VARIABLES
    kind,       \* the command a user runs
    phase,      \* ... and where it is
    used,       \* commands, edits and faults so far
    tidy,       \* history: nothing happened after which the record is known to be incomplete
    uses,       \* history: who deployed a deployment and did not purge it since
    gone        \* history: deployments a purge cut short deleted, and left in the record

commandVars == <<kind, phase, used, tidy, uses, gone>>
vars == <<buildVars, deployVars, commandVars>>

Init ==
    /\ BuildInit /\ DeployInit
    /\ kind = [u \in Users |-> "build"] /\ phase = [u \in Users |-> "idle"]
    /\ used = [commands |-> 0, edits |-> 0, faults |-> 0]
    /\ tidy = TRUE /\ uses = [d \in Deployments |-> {}] /\ gone = {}

Idle == \A u \in Users : phase[u] = "idle"

Spend(what) == used' = [used EXCEPT ![what] = @ + 1]
MayFail == used.faults < MaxFaults

-----------------------------------------------------------------------------
(* A command begins and ends.                                              *)

\* initialize: the local cache, the configuration and the remote cache.
Begin(u, k) ==
    /\ phase[u] = "idle" /\ used.commands < MaxCommands /\ (Overlap \/ Idle)
    /\ kind' = [kind EXCEPT ![u] = k]
    /\ phase' = [phase EXCEPT ![u] = IF k \in {"build", "deploy"} THEN "build" ELSE "purge"]
    /\ LoadImages(u)
    /\ \/ Load(u, FALSE) /\ Spend("commands") /\ UNCHANGED tidy
       \/ /\ MayFail /\ secret # None /\ Load(u, TRUE) /\ tidy' = FALSE
          /\ used' = [used EXCEPT !.commands = @ + 1, !.faults = @ + 1]
    /\ UNCHANGED <<uses, gone>>

\* The process of u ends.
Leave(u) ==
    /\ phase' = [phase EXCEPT ![u] = "idle"] /\ kind' = [kind EXCEPT ![u] = "build"]
    /\ DropImages(u) /\ DropRemote(u)

\* What a command did in the cluster and has not recorded.
Touched(u) == \E d \in Deployments : steps[u][d] \in {"list", "upgraded", "purged", "failed"}

\* A purge that is cut short leaves in the record what it deleted.
CutShort(u) ==
    /\ tidy' = (tidy /\ ~Touched(u))
    /\ gone' = gone \cup {d \in Deployments : At(u, d, "purged") /\ remote[u][d] = None}

\* The process is killed, by the user or by another command of the user.
Crash(u) ==
    /\ phase[u] # "idle" /\ MayFail /\ Spend("faults")
    /\ Leave(u) /\ CutShort(u)
    /\ UNCHANGED <<file, secret, uses>>

-----------------------------------------------------------------------------
(* Building.                                                               *)

BuildStep(u, i) ==
    /\ phase[u] = "build"
    /\ CheckImage(u, i) \/ PushImage(u, i) \/ CollectBuild(u, i)
    /\ UNCHANGED <<deployVars, commandVars>>

BuildError(u, i) ==
    /\ phase[u] = "build" /\ MayFail /\ Spend("faults")
    /\ BuildFails(u, i)
    /\ UNCHANGED <<deployVars, kind, phase, tidy, uses, gone>>

\* The end of Build and of build_images.
ImagesBuilt(u) ==
    /\ phase[u] = "build" /\ BuildsDone(u)
    /\ SaveImages(u)
    /\ IF kind[u] = "deploy"
       THEN /\ phase' = [phase EXCEPT ![u] = "deploy"]
            /\ UNCHANGED <<kind, deployVars, sources, mayPush, reachable, stored, lastTag, cache, jobs, read>>
       ELSE Leave(u) /\ UNCHANGED secret
    /\ UNCHANGED <<used, tidy, uses, gone>>

\* Mutant: the cache is saved when a build failed, too.
BuildEndsSaved(u) ==
    /\ phase[u] = "build" /\ JobsAt(u, "failed") # {}
    /\ file' = [file EXCEPT ![u] = cache[u]]
    /\ Leave(u)
    /\ UNCHANGED <<secret, used, tidy, uses, gone>>

\* waitForBuild returns the error of one build; the others go on until the process ends.
BuildEnds(u) ==
    /\ phase[u] = "build" /\ JobsAt(u, "failed") # {}
    /\ Leave(u)
    /\ UNCHANGED <<file, secret, used, tidy, uses, gone>>

-----------------------------------------------------------------------------
(* Deploying.                                                              *)

\* deployOne of the deployments, side by side. Objects that a changed configuration no
\* longer has leave the record and stay in the cluster.
DeployStep(u, d) ==
    /\ phase[u] = "deploy"
    /\ CheckRelease(u, d) \/ Upgrade(u, d, TRUE) \/ RecordRelease(u, d) \/ ApplyManifests(u, d)
    /\ tidy' = (tidy /\ (remote[u][d] # None /\ remote[u][d].kubectl # None
                            => remote[u][d].kubectl \subseteq remote'[u][d].kubectl))
    /\ UNCHANGED <<buildVars, kind, phase, used, uses, gone>>

DeployError(u, d) ==
    /\ phase[u] = "deploy" /\ MayFail /\ Spend("faults")
    /\ ApplyFails(u, d) \/ Upgrade(u, d, FALSE) \/ DeployFails(u, d)
    /\ UNCHANGED <<buildVars, kind, phase, tidy, uses, gone>>

\* The end of Deploy.
Deployed(u) ==
    /\ phase[u] = "deploy" /\ DeploysDone(u)
    /\ SaveRemote(u)
    /\ Leave(u)
    /\ uses' = [d \in Deployments |-> uses[d] \cup {u}]
    /\ gone' = {d \in gone : loaded[u][d].method = "kubectl" \/ At(u, d, "skipped")}
    /\ UNCHANGED <<file, used, tidy>>

\* The first error ends Deploy without a record of any deployment.
DeployEnds(u) ==
    /\ phase[u] = "deploy" /\ \E d \in Deployments : At(u, d, "failed")
    /\ Leave(u)
    /\ tidy' = FALSE
    /\ UNCHANGED <<file, secret, used, uses, gone>>

-----------------------------------------------------------------------------
(* Purging.                                                                *)

\* A record of both methods loses its release, of which no record remains.
PurgeStep(u, d) ==
    /\ phase[u] = "purge"
    /\ \E survivors \in SUBSET (Objects \cup {d}) :
          /\ Purge(u, d, kind[u] = "force", survivors)
          /\ survivors # {} => MayFail
          /\ IF survivors = {} THEN UNCHANGED used ELSE Spend("faults")
          /\ tidy' = (tidy /\ survivors = {} /\ (remote'[u][d] # None \/ remote[u][d].helm = None
                                                \/ remote[u][d].kubectl = None))
    /\ uses' = [uses EXCEPT ![d] = IF kind[u] = "force" THEN {} ELSE @ \ {u}]
    /\ UNCHANGED <<buildVars, kind, phase, gone>>

\* purge_deployments --all of an empty record ends before Purge.
Purged(u) ==
    /\ phase[u] = "purge" /\ PurgeDone(u)
    /\ IF \A d \in Deployments : At(u, d, "todo") THEN UNCHANGED secret ELSE SaveRemote(u)
    /\ Leave(u)
    /\ gone' = {d \in gone : secret' # None /\ secret'[d] # None}
    /\ UNCHANGED <<file, used, tidy, uses>>

\* A hook or the request that saves the record fails.
PurgeError(u) ==
    /\ phase[u] = "purge" /\ MayFail /\ Spend("faults")
    /\ Leave(u) /\ CutShort(u)
    /\ UNCHANGED <<file, secret, uses>>

-----------------------------------------------------------------------------
(* The users and the cluster.                                              *)

\* An idle user edits between the commands of the others: it makes no difference to them.
Edit(u) ==
    /\ used.edits < MaxEdits /\ Spend("edits")
    /\ phase[u] = "idle" => (Idle /\ used.commands < MaxCommands)
    /\ \/ \E i \in Images : EditSources(u, i) /\ UNCHANGED deployVars
       \/ phase[u] = "idle" /\ \E d \in Deployments : EditConfig(u, d) /\ UNCHANGED buildVars
       \/ phase[u] = "idle" /\ ChangeLogin(u) /\ UNCHANGED deployVars
    /\ UNCHANGED <<kind, phase, tidy, uses, gone>>

RegistryRestarts ==
    /\ MayFail /\ Spend("faults") /\ LoseLocalImages
    /\ UNCHANGED <<deployVars, kind, phase, tidy, uses, gone>>

\* The bounds are used up.
Finished ==
    /\ Idle /\ used.commands = MaxCommands
    /\ UNCHANGED vars

Next ==
    \/ \E u \in Users :
          \/ \E k \in Kinds : Begin(u, k)
          \/ Crash(u) \/ ImagesBuilt(u) \/ BuildEnds(u) \/ Deployed(u) \/ DeployEnds(u)
          \/ Purged(u) \/ PurgeError(u) \/ Edit(u)
          \/ \E i \in Images : BuildStep(u, i) \/ BuildError(u, i)
          \/ \E d \in Deployments : DeployStep(u, d) \/ DeployError(u, d) \/ PurgeStep(u, d)
    \/ RegistryRestarts \/ Finished

Spec == Init /\ [][Next]_vars

-----------------------------------------------------------------------------
(* Properties.                                                             *)

\* Type invariant: the users, and what builds and deployments keep.
TypeOK ==
    /\ BuildTypeOK /\ DeployTypeOK
    /\ kind \in [Users -> Kinds] /\ phase \in [Users -> Phases]
    /\ used \in [commands : 0..MaxCommands, edits : 0..MaxEdits, faults : 0..MaxFaults]
    /\ tidy \in BOOLEAN /\ uses \in [Deployments -> SUBSET Users] /\ gone \subseteq Deployments

\* The local cache on disk names, for the sources it has the hashes of, an image that
\* was built from them and pushed (build.go: the hashes are noted in memory before the
\* build, the tag after it, the file is written at the end), whatever failed or crashed.
\* Images with a configured tag may be built again by others, those in the registry of
\* the cluster may be lost; for the rest see sure.
CachedImageIsBuilt ==
    \A u \in Users, i \in Images \ Pinned :
        LET known == file[u][i] IN
        (known.tag # None /\ known.sure)
            => stored[known.store][i][known.tag] \in {known.hash} \cup (IF known.store = "local" THEN {None} ELSE {})

\* When Deploy has done its last deployment, each of them is in the cluster as configured
\* and with the image of this checkout, whether it was deployed or skipped (ShouldRebuild
\* and helm/deploy.go: a skipped build or upgrade is one whose result is there already).
\* After a purge that was cut short the record has a revision that a new release may get
\* again (gone).
Delivered ==
    \A u \in Users : (phase[u] = "deploy" /\ DeploysDone(u)) =>
        \A d \in Deployments :
            LET c == loaded[u][d]
                known == cache[u][c.image] IN
            /\ (c.method = "helm" /\ (d \in gone => At(u, d, "upgraded"))) =>
                  /\ releases[d] # None /\ releases[d].ok
                  /\ releases[d].version = c.version /\ releases[d].values = Values(u, d)
            /\ c.method = "kubectl" => \A o \in c.objects : applied[o] = Manifest(u, d)
            /\ c.image \in Built(u) => At(u, d, "upgraded")
            /\ (c.image \notin Pinned /\ known.sure /\ known.tag # None)
                  => stored[known.store][c.image][known.tag] \in
                        {read[u][c.image]} \cup (IF known.store = "local" THEN {None} ELSE {})

\* Between commands everything in the cluster is in the record, so that purge can remove
\* it (Deploy and Purge save the remote cache at their end); lost are only the cases of
\* tidy.
Recorded ==
    (Idle /\ tidy) =>
        LET known(d) == IF secret = None \/ secret[d] = None THEN NewDeployment ELSE secret[d] IN
        /\ \A d \in Deployments : releases[d] # None => known(d).helm # None
        /\ \A o \in Objects : applied[o] # None =>
              \E d \in Deployments : known(d).kubectl # None /\ o \in known(d).kubectl

\* What a project deployed and did not purge is still there and recorded for it, however
\* many other projects deployed and purged it meanwhile (Purge: "Skip purging deployment
\* as it is still in use by other DevSpace project(s)").
StillThere ==
    (Idle /\ tidy) =>
        \A d \in Deployments : uses[d] # {} =>
            /\ secret # None /\ secret[d] # None /\ uses[d] \subseteq secret[d].projects
            /\ secret[d].helm # None => releases[d] # None
            /\ secret[d].kubectl # None => \A o \in secret[d].kubectl : applied[o] # None

\* The record in the cluster and the cluster agree: nothing deployed is unknown to it, and
\* nothing it has for a project is gone.
RecordAgrees == Recorded /\ StillThere
=============================================================================
