------------------------------ MODULE Deployments ------------------------------
(***************************************************************************)
(* Deploying and purging the deployments of a project with helm or         *)
(* kubectl, and the remote cache: a secret in the cluster in which every   *)
(* command records what it deployed and for which top level projects.      *)
(*                                                                         *)
(* The project is a dependency that the top level projects of all users    *)
(* share, each with a checkout and configuration of its own; the secret    *)
(* and the cluster are one. A release has the name of its deployment. What *)
(* the hashes of chart, values files and configuration cover is one        *)
(* version per deployment; the hash of the values is the image they name.  *)
(***************************************************************************)
EXTENDS ImageBuilds

CONSTANTS
    Deployments,
    Objects,        \* what manifests may contain
    Configs,        \* Configs[d]: the configurations deployment d may have
    MaxRevisions    \* bound: helm revisions of a release

Methods == {"helm", "kubectl"}
Config  == [method : Methods, version : Nat, image : Images, objects : SUBSET Objects]

ImageRef == [store : Stores, tag : Tags \cup {None}]

\* HelmCache and KubectlCache of a DeploymentCache, its projects and its hash.
HelmCache    == [values : ImageRef, revision : 1..MaxRevisions \cup {None}]
Deployment   == [projects : SUBSET Users, hash : Nat \cup {None},
                 helm : HelmCache \cup {None}, kubectl : (SUBSET Objects) \cup {None}]
RemoteCache  == [Deployments -> Deployment \cup {None}]

Release == [version : Nat, values : ImageRef, revision : 1..MaxRevisions, ok : BOOLEAN]

\* What is applied of an object.
Applied == [version : Nat, values : ImageRef]

\* The hash of a configuration tells which one it is (DeploymentConfigHash covers all of it).
ASSUME DeployAssumption ==
    /\ Configs \in [Deployments -> SUBSET Config] /\ MaxRevisions \in Nat
    /\ \A d \in Deployments : \A b, c \in Configs[d] : b.version = c.version => b = c
    /\ None \notin HelmCache \cup Deployment \cup RemoteCache \cup Release \cup Applied
    /\ \A objs \in SUBSET Objects : objs # None

VARIABLES
    configs,    \* the configuration in the checkout of a user
    releases,   \* helm's releases in the cluster
    applied,    \* objects in the cluster: the version and image they were applied with
    secret,     \* the remote cache in the cluster, None before the first command saved it
    loaded,     \* the configuration of a running command
    remote,     \* its remote cache
    raw,        \* ... as it was loaded
    steps       \* how far it is with each deployment

deployVars == <<configs, releases, applied, secret, loaded, remote, raw, steps>>

NoDeployments == [d \in Deployments |-> None]
NewDeployment == [projects |-> {}, hash |-> None, helm |-> None, kubectl |-> None]
Checkouts == {c \in [Deployments -> UNION {Configs[d] : d \in Deployments}] : \A d \in Deployments : c[d] \in Configs[d]}
Steps == {"todo", "upgrade", "list", "upgraded", "skipped", "purged", "failed"}

DeployInit ==
    /\ configs \in [Users -> Checkouts]
    /\ releases = NoDeployments /\ applied = [o \in Objects |-> None] /\ secret = None
    /\ loaded = configs
    /\ remote = [u \in Users |-> NoDeployments] /\ raw = [u \in Users |-> None]
    /\ steps = [u \in Users |-> [d \in Deployments |-> "todo"]]

-----------------------------------------------------------------------------
(* The remote cache.                                                       *)

\* Load: a missing secret, and one that cannot be read because the connection is
\* refused, is an empty cache.
Load(u, refused) ==
    /\ loaded' = [loaded EXCEPT ![u] = configs[u]]
    /\ raw' = [raw EXCEPT ![u] = IF refused THEN None ELSE secret]
    /\ remote' = [remote EXCEPT ![u] = IF refused \/ secret = None THEN NoDeployments ELSE secret]
    /\ UNCHANGED <<configs, releases, applied, secret, steps>>

\* The process ends; what it held in memory is gone.
DropRemote(u) ==
    /\ loaded' = [loaded EXCEPT ![u] = configs[u]]
    /\ remote' = [remote EXCEPT ![u] = NoDeployments]
    /\ raw' = [raw EXCEPT ![u] = None]
    /\ steps' = [steps EXCEPT ![u] = [d \in Deployments |-> "todo"]]
    /\ UNCHANGED <<configs, releases, applied>>

\* Save compares with what was loaded and then replaces the whole secret; an empty
\* cache creates none.
SaveRemote(u) ==
    IF remote[u] = raw[u] \/ (secret = None /\ remote[u] = NoDeployments)
    THEN UNCHANGED secret ELSE secret' = remote[u]

\* GetDeployment and SetDeployment.
GetDeployment(u, d) == IF remote[u][d] = None THEN NewDeployment ELSE remote[u][d]
SetDeployment(u, d, known) == remote' = [remote EXCEPT ![u][d] = known]
ForProject(known, u) == [known EXCEPT !.projects = @ \cup {u}]

At(u, d, s) == steps[u][d] = s
Go(u, d, s) == steps' = [steps EXCEPT ![u][d] = s]

-----------------------------------------------------------------------------
(* helm.                                                                   *)

\* resolveImage: the image of a deployment as the image cache of the command has it.
Values(u, d) == LET known == cache[u][loaded[u][d].image] IN [store |-> known.store, tag |-> known.tag]

\* Mutant: the revision is not compared.
UpgradeNeededUnlessKnown(u, d) ==
    LET known == GetDeployment(u, d) IN
    \/ loaded[u][d].image \in Built(u) \/ known.helm = None
    \/ known.hash # loaded[u][d].version \/ known.helm.values # Values(u, d)
    \/ releases[d] = None

\* An image was built, configuration or values are not the recorded ones, or the list
\* of releases lacks the recorded revision.
UpgradeNeeded(u, d) ==
    LET known == GetDeployment(u, d) IN
    \/ loaded[u][d].image \in Built(u) \/ known.helm = None
    \/ known.hash # loaded[u][d].version \/ known.helm.values # Values(u, d)
    \/ releases[d] = None \/ releases[d].revision # known.helm.revision

\* DeployConfig.Deploy of helm up to internalDeploy, or its end.
CheckRelease(u, d) ==
    /\ At(u, d, "todo") /\ loaded[u][d].method = "helm"
    /\ IF UpgradeNeeded(u, d) THEN Go(u, d, "upgrade") /\ UNCHANGED remote
       ELSE Go(u, d, "skipped") /\ SetDeployment(u, d, ForProject(GetDeployment(u, d), u))
    /\ UNCHANGED <<configs, releases, applied, secret, loaded, raw>>

NextRevision(d) == IF releases[d] = None THEN 1 ELSE releases[d].revision + 1

\* helm upgrade --install; a failed one leaves a revision too, if it got that far.
Upgrade(u, d, ok) ==
    /\ At(u, d, "upgrade") /\ NextRevision(d) <= MaxRevisions
    /\ releases' = [releases EXCEPT ![d] = [version |-> loaded[u][d].version, values |-> Values(u, d),
                                            revision |-> NextRevision(d), ok |-> ok]]
    /\ Go(u, d, IF ok THEN "list" ELSE "failed")
    /\ UNCHANGED <<configs, applied, secret, loaded, remote, raw>>

\* InstallChart asks for the list of releases again to learn the revision.
RecordRelease(u, d) ==
    /\ At(u, d, "list")
    /\ Go(u, d, "upgraded")
    /\ LET known == GetDeployment(u, d)
           found == IF releases[d] # None THEN releases[d].revision
                    ELSE IF known.helm # None THEN known.helm.revision ELSE None
       IN  SetDeployment(u, d, ForProject([known EXCEPT !.hash = loaded[u][d].version,
                                           !.helm = [values |-> Values(u, d), revision |-> found]], u))
    /\ UNCHANGED <<configs, releases, applied, secret, loaded, raw>>

-----------------------------------------------------------------------------
(* kubectl.                                                                *)

Manifest(u, d) == [version |-> loaded[u][d].version, values |-> Values(u, d)]

Apply(u, d, objs) == applied' = [o \in Objects |-> IF o \in objs THEN Manifest(u, d) ELSE applied[o]]

\* Manifests are always applied. What the configuration no longer contains stays in the
\* cluster and leaves the record.
ApplyManifests(u, d) ==
    /\ At(u, d, "todo") /\ loaded[u][d].method = "kubectl"
    /\ Apply(u, d, loaded[u][d].objects)
    /\ SetDeployment(u, d, ForProject([GetDeployment(u, d) EXCEPT !.hash = loaded[u][d].version,
                                       !.kubectl = loaded[u][d].objects], u))
    /\ Go(u, d, "upgraded")
    /\ UNCHANGED <<configs, releases, secret, loaded, raw>>

\* One of the manifests cannot be applied.
ApplyFails(u, d) ==
    /\ At(u, d, "todo") /\ loaded[u][d].method = "kubectl"
    /\ \E objs \in SUBSET loaded[u][d].objects : objs # loaded[u][d].objects /\ Apply(u, d, objs)
    /\ Go(u, d, "failed")
    /\ UNCHANGED <<configs, releases, secret, loaded, remote, raw>>

\* Anything else that fails: helm before it got to the cluster, a list of releases, a hook.
DeployFails(u, d) ==
    /\ steps[u][d] \in {"todo", "upgrade", "list", "upgraded", "skipped"}
    /\ Go(u, d, "failed")
    /\ UNCHANGED <<configs, releases, applied, secret, loaded, remote, raw>>

DeploysDone(u) == \A d \in Deployments : steps[u][d] \in {"upgraded", "skipped"}

-----------------------------------------------------------------------------
(* Purge.                                                                  *)

\* Mutant: only a deployment several projects use is kept.
InUseBySeveral(known, u) == Cardinality(known.projects) > 1

\* A deployment that another project uses is kept for it, whether or not this one uses it.
InUseByOthers(known, u) == known.projects # {} /\ known.projects # {u}

ReleaseFor(u, d) ==
    /\ remote[u][d] # None /\ InUseByOthers(remote[u][d], u)
    /\ SetDeployment(u, d, [remote[u][d] EXCEPT !.projects = @ \ {u}])
    /\ UNCHANGED <<releases, applied>>

\* kubectl.Delete or helm.Delete, never both. An error of either is logged, and the
\* entry is deleted in every case. survivors: what could not be deleted.
Delete(u, d, survivors) ==
    LET known == remote[u][d] IN
    /\ known # None
    /\ IF known.kubectl # None
       THEN /\ survivors \subseteq known.kubectl
            /\ applied' = [o \in Objects |-> IF o \in known.kubectl \ survivors THEN None ELSE applied[o]]
            /\ UNCHANGED releases
       ELSE /\ survivors \subseteq {d}
            /\ releases' = [releases EXCEPT ![d] = IF d \in survivors THEN @ ELSE None]
            /\ UNCHANGED applied
    /\ SetDeployment(u, d, None)

\* The entries one after the other, in some order.
Purge(u, d, force, survivors) ==
    /\ At(u, d, "todo") /\ remote[u][d] # None
    /\ Go(u, d, "purged")
    /\ \/ ~force /\ survivors = {} /\ ReleaseFor(u, d)
       \/ (force \/ ~InUseByOthers(remote[u][d], u)) /\ Delete(u, d, survivors)
    /\ UNCHANGED <<configs, secret, loaded, raw>>

PurgeDone(u) == \A d \in Deployments : remote[u][d] = None \/ At(u, d, "purged")

-----------------------------------------------------------------------------
(* The user changes the configuration.                                     *)

EditConfig(u, d) ==
    /\ configs' \in {[configs EXCEPT ![u][d] = c] : c \in Configs[d] \ {configs[u][d]}}
    /\ loaded' = [loaded EXCEPT ![u] = configs'[u]]
    /\ UNCHANGED <<releases, applied, secret, remote, raw, steps>>

DeployTypeOK ==
    /\ configs \in [Users -> Checkouts] /\ loaded \in [Users -> Checkouts]
    /\ releases \in [Deployments -> Release \cup {None}]
    /\ applied \in [Objects -> Applied \cup {None}]
    /\ secret \in RemoteCache \cup {None}
    /\ remote \in [Users -> RemoteCache] /\ raw \in [Users -> RemoteCache \cup {None}]
    /\ steps \in [Users -> [Deployments -> Steps]]
=============================================================================
