----------------------------- MODULE PodReplace -----------------------------
(***************************************************************************)
(* How `devspace dev` replaces the pod of an application by a dev pod and  *)
(* how it is put back. Several DevSpace commands, each a process with a    *)
(* copy of the remote cache, work on the same objects of the cluster; every *)
(* call of the API server is a step.                                       *)
(*                                                                         *)
(* Level 0 is the application, a deployment or a stateful set "app". Level *)
(* n + 1 is the deployment that replaces level n, named after it with the  *)
(* suffix "-devspace". An entry of the remote cache names the level of the *)
(* replacing deployment; its target is one level below.                    *)
(***************************************************************************)
EXTENDS PodTemplate, FiniteSets

CONSTANTS
    Procs,          \* processes that run a command at a time
    Roots,          \* names of the projects at the top, which share the dev pod
    Confs,          \* dev pods, with the kind and the containers of the application
    Budget(_),      \* bounds for a dev pod: commands, those at the same time (parallel),
                    \* deploys, and faults (crashes and errors)
    MaxReplicas,    \* bound: replicas of the application
    MaxLevel        \* bound: replacements of replacements

Levels  == 0 .. MaxLevel
Absent  == [absent |-> TRUE]
NoEntry == [projects |-> {}, deployment |-> 0]
Entries == [projects : SUBSET Roots, deployment : Levels]
NoSecret == [projects |-> {}, deployment |-> -1]   \* the secret does not exist

NoFrame   == [entry |-> NoEntry, deployment |-> Absent, target |-> Absent]
NoCommand == [name |-> "none", root |-> "none", force |-> FALSE]
ResetPods == [NoCommand EXCEPT !.name = "reset"]

Budgets == [commands : Nat, parallel : Nat, deploys : Nat, faults : Nat]

\* A dev pod, with what it is about.
DevPod == [kind : {"Deployment", "StatefulSet"}, app : Seq(Container), imageSelector : BOOLEAN,
           patches : BOOLEAN, containers : Seq(DevContainer)]

ASSUME PodReplaceAssumption ==
    /\ IsFiniteSet(Procs) /\ IsFiniteSet(Roots) /\ Roots # {}
    /\ MaxReplicas \in Nat \ {0} /\ MaxLevel \in Nat \ {0}
    /\ \A c \in Confs : Budget(c) \in Budgets
    /\ \A c \in Confs : c \in DevPod /\ AppContainers(c.app) /\ DevContainers(c.containers)

VARIABLES
    conf,       \* the configuration, chosen once
    apps,       \* the workload of every level
    claims,     \* the persistent volume claim of every level's deployment
    secret,     \* the remote cache in the cluster
    pc,         \* where the command of every process is
    command,    \* "pipeline" (dev, deploy, purge) or "reset" (reset pods), and its project
    mem,        \* the remote cache of every process
    raw,        \* RemoteCache.raw: what the process loaded or saved last
    unread,     \* history: processes whose cache lost the dev pod because its parent, which
                \* is there, could not be read
    forgotten,  \* history: was the cache in the cluster last written by one of them?
    frame,      \* what a command has in hand: devPodCache, the deployment and the target
                \* it has read
    budget,     \* what may still happen
    wanted,     \* replicas the application was deployed with, or was set back to by a
                \* reset that found it deployed anew
    inUse,      \* projects that use the dev pod
    overlapped  \* have two commands run at the same time?

cluster == <<apps, claims, wanted>>
cache   == <<secret, mem, raw, unread, forgotten>>
ghosts  == <<budget, inUse, overlapped>>
vars    == <<conf, cluster, cache, pc, command, frame, ghosts>>

Steps == {"getDeployment", "getTarget", "deleteOld", "scaleTarget", "patch", "claimPatched", "save",
          "find", "saveTarget", "scaleDown", "create", "claimCreated",
          "deleteReplaced", "getParent", "scaleUp", "forget"}
AtRest(p)  == pc[p] \in {"none", "ready", "replaced"}
IsWorkload(w) == DOMAIN w = {"replicas", "saved", "pod", "selector", "of"}
                 /\ w.replicas \in 0 .. MaxReplicas /\ w.saved \in 0 .. MaxReplicas /\ w.of \in -1 .. MaxLevel

\* Type invariant: the workloads of the cluster, the cache and what the commands hold of it.
TypeOK ==
    /\ \A l \in Levels : apps[l] = Absent \/ IsWorkload(apps[l])
    /\ claims \in [Levels -> {"none", "owned", "orphaned"}]
    /\ secret \in Entries \cup {NoSecret}
    /\ pc \in [Procs -> Steps \cup {"none", "ready", "replaced"}]
    /\ mem \in [Procs -> Entries] /\ raw \in [Procs -> Entries \cup {NoSecret}]
    /\ unread \subseteq Procs /\ forgotten \in BOOLEAN
    /\ \A p \in Procs : frame[p].entry \in Entries
    /\ wanted \in 0 .. MaxReplicas /\ inUse \subseteq Roots /\ overlapped \in BOOLEAN

AppPod(version) == AppTemplate(conf.app, version)
App(replicas, version, selector) ==
    [replicas |-> replicas, saved |-> 0, pod |-> AppPod(version), selector |-> selector, of |-> -1]

Init ==
    /\ conf \in Confs
    /\ apps = [l \in Levels |-> IF l = 0 THEN App(MaxReplicas, 1, 1) ELSE Absent]
    /\ claims = [l \in Levels |-> "none"] /\ secret = NoSecret
    /\ pc = [p \in Procs |-> "none"]
    /\ command = [p \in Procs |-> NoCommand]
    /\ mem = [p \in Procs |-> NoEntry] /\ raw = [p \in Procs |-> NoSecret]
    /\ unread = {} /\ forgotten = FALSE
    /\ frame = [p \in Procs |-> NoFrame]
    /\ budget = Budget(conf) /\ wanted = MaxReplicas /\ inUse = {} /\ overlapped = FALSE

\* Going on with a frame in hand; a call that returns drops it.
At(p, step, f) ==
    /\ pc' = [pc EXCEPT ![p] = step]
    /\ frame' = [frame EXCEPT ![p] = IF step \in {"none", "ready", "replaced"} THEN NoFrame ELSE f]
Goto(p, step)  == At(p, step, frame[p])
Spend(what)    == budget[what] > 0 /\ budget' = [budget EXCEPT ![what] = @ - 1]
SetApp(l, w)   == apps' = [apps EXCEPT ![l] = w]

\* A merge patch changes what differs between the object read and the object wanted.
Merge(current, read, want) ==
    [f \in DOMAIN current |-> IF want[f] = read[f] THEN current[f] ELSE want[f]]

\* The cache in memory. The dev pod that is noted again is not lost.
Noted(p, data) ==
    /\ mem' = [mem EXCEPT ![p] = data]
    /\ unread' = IF data.deployment = 0 THEN unread ELSE unread \ {p}

\* RemoteCache.Save: nothing if the cache is as it was last loaded or saved;
\* otherwise the secret is overwritten, whatever it holds by now. An empty
\* cache makes no secret.
Save(p, data) ==
    /\ Noted(p, data)
    /\ IF data = raw[p] THEN UNCHANGED <<secret, raw, forgotten>>
       ELSE /\ raw' = [raw EXCEPT ![p] = data]
            /\ secret' = IF secret = NoSecret /\ data = NoEntry THEN NoSecret ELSE data
            /\ forgotten' = (p \in unread')
SetInMemory(p, data) == Noted(p, data) /\ UNCHANGED <<secret, raw, forgotten>>

-----------------------------------------------------------------------------
(* Commands.                                                               *)

\* `reset pods` has no project at the top in its context.
Commands == [name : {"pipeline"}, root : Roots, force : BOOLEAN] \cup {ResetPods}

\* A command loads the remote cache once, at its start.
Load(p) ==
    /\ pc[p] = "none" /\ Spend("commands")
    /\ Cardinality({q \in Procs : pc[q] # "none"}) < budget.parallel
    /\ \E c \in Commands : command' = [command EXCEPT ![p] = c]
    /\ mem' = [mem EXCEPT ![p] = IF secret = NoSecret THEN NoEntry ELSE secret]
    /\ raw' = [raw EXCEPT ![p] = secret]
    /\ unread' = IF forgotten THEN unread \cup {p} ELSE unread
    /\ overlapped' = (overlapped \/ \E q \in Procs : pc[q] # "none")
    /\ Goto(p, "ready") /\ UNCHANGED <<conf, cluster, secret, forgotten, inUse>>

Ended(p) ==
    /\ Goto(p, "none")
    /\ mem' = [mem EXCEPT ![p] = NoEntry] /\ raw' = [raw EXCEPT ![p] = NoSecret]
    /\ unread' = unread \ {p}
    /\ command' = [command EXCEPT ![p] = NoCommand]
    /\ UNCHANGED <<conf, cluster, secret, forgotten, inUse, overlapped>>

End(p)   == pc[p] \in {"ready", "replaced"} /\ Ended(p) /\ UNCHANGED budget
Crash(p) == ~AtRest(p) /\ Spend("faults") /\ Ended(p)

\* The cache also has the other dev pods and the deployments: while one of these is worked on
\* (deploy, purge, another dev pod, by `reset pods` one after the other) the process saves
\* the whole of it, this dev pod as it has it in memory.
SaveElse(p) ==
    /\ pc[p] # "none" /\ (command[p].name = "reset" => AtRest(p))
    /\ raw' = [raw EXCEPT ![p] = mem[p]] /\ secret' = mem[p]
    /\ forgotten' = (p \in unread)
    /\ UNCHANGED <<conf, cluster, mem, unread, pc, command, frame, ghosts>>

-----------------------------------------------------------------------------
(* ReplacePod.                                                             *)

Built(p) == BuildPod(frame[p].target.pod, conf)

\* Nothing but the place and what is in hand changes.
Reads(p) == UNCHANGED <<conf, cluster, cache, command, ghosts>>
\* An error returns; the caller may start again with the cache in memory.
Fails(p) == Goto(p, "ready") /\ UNCHANGED <<cluster, cache>>

Replaced(p) ==
    /\ Goto(p, "replaced")
    /\ inUse' = inUse \cup {command[p].root}

ReplacePod(p) ==
    LET e == [mem[p] EXCEPT !.projects = @ \cup {command[p].root}]
    IN  At(p, IF e.deployment = 0 THEN "find" ELSE "getDeployment", [NoFrame EXCEPT !.entry = e])

\* The dev pod starts, or starts again because its pod is gone.
Replace(p) ==
    /\ pc[p] \in {"ready", "replaced"} /\ command[p].name = "pipeline" /\ NeedPodReplace(conf)
    /\ ReplacePod(p) /\ Reads(p)

GetDeployment(p) ==
    /\ pc[p] = "getDeployment"
    /\ LET found == apps[frame[p].entry.deployment]
       IN  At(p, IF found = Absent THEN "find" ELSE "getTarget", [frame[p] EXCEPT !.deployment = found])
    /\ Reads(p)

\* updateNeeded: the replacement of a target that is gone is deleted.
GetTarget(p) ==
    /\ pc[p] = "getTarget"
    /\ LET found == apps[frame[p].deployment.of]
       IN  At(p, IF found = Absent THEN "deleteOld"
                 ELSE IF BuildPod(found.pod, conf).ok THEN "scaleTarget" ELSE "ready",
              [frame[p] EXCEPT !.target = found])
    /\ Reads(p)

Deleted(p) ==
    /\ SetApp(frame[p].entry.deployment, Absent)
    /\ claims' = [claims EXCEPT ![frame[p].entry.deployment] = IF @ = "owned" THEN "orphaned" ELSE @]

DeleteOld(p) ==
    /\ pc[p] = "deleteOld" /\ Deleted(p) /\ Goto(p, "find")
    /\ UNCHANGED <<conf, wanted, cache, command, ghosts>>

ScaledDown(t) == IF t.replicas = 0 THEN t ELSE [t EXCEPT !.saved = t.replicas, !.replicas = 0]

\* Scaling down a target: a patch of its replicas and of the annotation that keeps them.
ScaleDownTarget(p, level) ==
    IF apps[level] = Absent THEN UNCHANGED apps
    ELSE SetApp(level, Merge(apps[level], frame[p].target, ScaledDown(frame[p].target)))

\* ... whose failure is only a warning if the deployment exists.
ScaleTarget(p) ==
    /\ pc[p] = "scaleTarget"
    /\ ScaleDownTarget(p, frame[p].deployment.of)
    /\ Goto(p, "patch")
    /\ UNCHANGED <<conf, claims, wanted, cache, command, ghosts>>

\* A variant of Updated that leaves the pod template as it is.
UpdatedButPod(p) == [frame[p].deployment EXCEPT !.replicas = 1, !.selector = frame[p].target.selector,
                                                !.saved = frame[p].target.saved]

Updated(p) == [frame[p].deployment EXCEPT !.replicas = 1, !.selector = frame[p].target.selector,
                                    !.pod = Built(p).pod, !.saved = frame[p].target.saved]

\* A changed selector is invalid, and the deployment that was to be deleted for
\* it is the empty result of the failed patch.
PatchDeployment(p) ==
    LET level == frame[p].entry.deployment
    IN  /\ pc[p] = "patch"
        /\ \/ Updated(p) = frame[p].deployment /\ Goto(p, "save") /\ UNCHANGED cluster
           \/ /\ Updated(p) # frame[p].deployment
              /\ \/ apps[level] = Absent \/ frame[p].target.selector # frame[p].deployment.selector
              /\ Goto(p, "ready") /\ UNCHANGED cluster
           \/ /\ Updated(p) # frame[p].deployment /\ apps[level] # Absent
              /\ frame[p].target.selector = frame[p].deployment.selector
              /\ SetApp(level, Merge(apps[level], frame[p].deployment, Updated(p)))
              /\ Goto(p, "claimPatched") /\ UNCHANGED <<claims, wanted>>
        /\ UNCHANGED <<conf, cache, command, ghosts>>

\* updatePVC: a claim that exists is left as it is, whoever owns it.
UpdatePVC(p) ==
    claims' = IF ~Persists(conf) THEN claims
              ELSE [claims EXCEPT ![frame[p].entry.deployment] =
                       IF @ # "none" THEN @
                       ELSE IF apps[frame[p].entry.deployment] = Absent THEN "orphaned" ELSE "owned"]

ClaimPatched(p) ==
    /\ pc[p] = "claimPatched" /\ UpdatePVC(p) /\ Goto(p, "save")
    /\ UNCHANGED <<conf, apps, wanted, cache, command, ghosts>>

SaveReplaced(p) ==
    /\ pc[p] = "save" /\ Save(p, frame[p].entry) /\ Replaced(p)
    /\ UNCHANGED <<conf, cluster, command, budget, overlapped>>

Matches(w) == ~conf.imageSelector \/ Matched(w.pod, conf) # {}

\* findTargetBySelector: deployments by name, then stateful sets. Nothing
\* keeps it from finding a deployment that is a replacement itself.
Candidates   == {l \in Levels : apps[l] # Absent /\ Matches(apps[l])}
Before(k, l) == IF conf.kind = "Deployment" THEN k < l ELSE k # 0 /\ (l = 0 \/ k < l)

Find(p) ==
    /\ pc[p] = "find"
    /\ \/ Candidates = {} /\ Fails(p)
       \/ \E found \in Candidates :
             /\ \A l \in Candidates \ {found} : Before(found, l)
             /\ found < MaxLevel
             /\ At(p, "saveTarget", [frame[p] EXCEPT !.entry.deployment = found + 1, !.target = apps[found]])
             /\ UNCHANGED <<cluster, cache>>
    /\ UNCHANGED <<conf, command, ghosts>>

\* A variant of SaveTarget that leaves saving for later.
SaveTargetLater(p) ==
    /\ pc[p] = "saveTarget" /\ SetInMemory(p, frame[p].entry)
    /\ Goto(p, IF Built(p).ok THEN "scaleDown" ELSE "ready")
    /\ UNCHANGED <<conf, cluster, command, ghosts>>

\* The cache is saved before anything is changed in the cluster.
SaveTarget(p) ==
    /\ pc[p] = "saveTarget" /\ Save(p, frame[p].entry)
    /\ Goto(p, IF Built(p).ok THEN "scaleDown" ELSE "ready")
    /\ UNCHANGED <<conf, cluster, command, ghosts>>

ScaleDown(p) ==
    LET level == frame[p].entry.deployment - 1
    IN  /\ pc[p] = "scaleDown"
        /\ ScaleDownTarget(p, level)
        /\ Goto(p, IF apps[level] = Absent /\ frame[p].target.replicas # 0 THEN "ready" ELSE "create")
        /\ UNCHANGED <<conf, claims, wanted, cache, command, ghosts>>

Create(p) ==
    LET level == frame[p].entry.deployment
    IN  /\ pc[p] = "create"
        /\ IF apps[level] # Absent THEN ReplacePod(p) /\ UNCHANGED <<apps, inUse>>
           ELSE /\ SetApp(level, [replicas |-> 1, saved |-> frame[p].target.saved, pod |-> Built(p).pod,
                                  selector |-> frame[p].target.selector, of |-> level - 1])
                /\ Goto(p, "claimCreated") /\ UNCHANGED inUse
        /\ UNCHANGED <<conf, claims, wanted, cache, command, budget, overlapped>>

ClaimCreated(p) ==
    /\ pc[p] = "claimCreated" /\ UpdatePVC(p) /\ Replaced(p)
    /\ UNCHANGED <<conf, apps, wanted, cache, command, budget, overlapped>>

-----------------------------------------------------------------------------
(* RevertReplacePod.                                                       *)

\* A variant of InUseByOthers that only counts the projects.
InUseBySeveral(p) ==
    command[p].name = "pipeline" /\ ~command[p].force /\ Cardinality(mem[p].projects) > 1

InUseByOthers(p) ==
    /\ command[p].name = "pipeline" /\ ~command[p].force
    /\ mem[p].projects \notin {{}, {command[p].root}}

Revert(p) ==
    /\ pc[p] \in {"ready", "replaced"} /\ mem[p].deployment # 0
    /\ IF InUseByOthers(p)
       THEN /\ Save(p, [mem[p] EXCEPT !.projects = @ \ {command[p].root}])
            /\ Goto(p, "ready")
       ELSE /\ At(p, "deleteReplaced", [NoFrame EXCEPT !.entry = mem[p]])
            /\ UNCHANGED cache
    /\ inUse' = inUse \ {command[p].root}
    /\ UNCHANGED <<conf, cluster, command, budget, overlapped>>

DeleteReplaced(p) ==
    /\ pc[p] = "deleteReplaced" /\ Deleted(p) /\ Goto(p, "getParent")
    /\ inUse' = {}
    /\ UNCHANGED <<conf, wanted, cache, command, budget, overlapped>>

\* A parent that cannot be read is given up, whether it is gone or not, without saving that.
GiveUpParent(p) ==
    /\ mem' = [mem EXCEPT ![p] = NoEntry] /\ Goto(p, "ready")
    /\ unread' = IF apps[frame[p].entry.deployment - 1] = Absent THEN unread ELSE unread \cup {p}
    /\ UNCHANGED <<conf, cluster, secret, raw, forgotten, command>>

GetParent(p) ==
    LET parent == apps[frame[p].entry.deployment - 1]
    IN  /\ pc[p] = "getParent"
        /\ \/ parent = Absent /\ GiveUpParent(p)
           \/ /\ parent # Absent
              /\ At(p, IF parent.saved = 0 THEN "forget" ELSE "scaleUp",
                    [frame[p] EXCEPT !.target = parent])
              /\ UNCHANGED <<conf, cluster, cache, command>>
        /\ UNCHANGED ghosts

\* The annotation wins over the replicas of a deployment made meanwhile.
ScaleUp(p) ==
    LET level == frame[p].entry.deployment - 1
        up    == [frame[p].target EXCEPT !.replicas = frame[p].target.saved, !.saved = 0]
    IN  /\ pc[p] = "scaleUp"
        /\ IF apps[level] = Absent THEN Goto(p, "ready") /\ UNCHANGED <<apps, wanted>>
           ELSE /\ SetApp(level, Merge(apps[level], frame[p].target, up))
                /\ wanted' = IF level = 0 /\ frame[p].target.replicas # 0 THEN up.replicas ELSE wanted
                /\ Goto(p, "forget")
        /\ UNCHANGED <<conf, claims, cache, command, ghosts>>

Forget(p) ==
    /\ pc[p] = "forget" /\ Save(p, NoEntry) /\ Goto(p, "ready")
    /\ UNCHANGED <<conf, cluster, command, ghosts>>

-----------------------------------------------------------------------------
(* The cluster.                                                            *)

\* The next call of the API server fails.
ApiError(p) ==
    /\ ~AtRest(p) /\ Spend("faults")
    /\ CASE pc[p] = "scaleTarget" -> Goto(p, "patch") /\ UNCHANGED <<conf, cluster, cache, command>>
         [] pc[p] = "getParent"   -> GiveUpParent(p)
         [] pc[p] \in {"save", "saveTarget"} ->
                SetInMemory(p, frame[p].entry) /\ Goto(p, "ready") /\ UNCHANGED <<conf, cluster, command>>
         [] pc[p] = "forget" ->
                SetInMemory(p, NoEntry) /\ Goto(p, "ready") /\ UNCHANGED <<conf, cluster, command>>
         [] OTHER -> Fails(p) /\ UNCHANGED <<conf, command>>
    /\ UNCHANGED <<inUse, overlapped>>

\* The application is upgraded: its replicas and its pods are set, an
\* annotation the chart does not know and the immutable selector stay.
Deploy ==
    /\ apps[0] # Absent /\ \A p \in Procs : AtRest(p)
    /\ Spend("deploys")
    /\ \E n \in 1 .. MaxReplicas, v \in 1 .. 2 :
         /\ SetApp(0, [apps[0] EXCEPT !.replicas = n, !.pod = AppPod(v)])
         /\ wanted' = n
    /\ UNCHANGED <<conf, claims, cache, pc, command, frame, inUse, overlapped>>

Install ==
    /\ apps[0] = Absent /\ \A p \in Procs : AtRest(p)
    /\ Spend("deploys")
    /\ \E n \in 1 .. MaxReplicas, s \in 1 .. 2 : SetApp(0, App(n, 2, s)) /\ wanted' = n
    /\ UNCHANGED <<conf, claims, cache, pc, command, frame, inUse, overlapped>>

Uninstall ==
    /\ apps[0] # Absent /\ \A p \in Procs : AtRest(p)
    /\ Spend("deploys") /\ SetApp(0, Absent) /\ wanted' = 0
    /\ UNCHANGED <<conf, claims, cache, pc, command, frame, inUse, overlapped>>

\* The garbage collector deletes a claim whose owner is gone.
CollectClaim(l) ==
    /\ claims[l] = "orphaned" /\ claims' = [claims EXCEPT ![l] = "none"]
    /\ UNCHANGED <<conf, apps, wanted, cache, pc, command, frame, ghosts>>

Finished == (\A p \in Procs : pc[p] = "none") /\ UNCHANGED vars

Step(p) ==
    \/ Load(p) \/ End(p) \/ Crash(p) \/ ApiError(p) \/ SaveElse(p)
    \/ Replace(p) \/ GetDeployment(p) \/ GetTarget(p) \/ DeleteOld(p) \/ ScaleTarget(p)
    \/ PatchDeployment(p) \/ ClaimPatched(p) \/ SaveReplaced(p)
    \/ Find(p) \/ SaveTarget(p) \/ ScaleDown(p) \/ Create(p) \/ ClaimCreated(p)
    \/ Revert(p) \/ DeleteReplaced(p) \/ GetParent(p) \/ ScaleUp(p) \/ Forget(p)

Next == (\E p \in Procs : Step(p)) \/ Deploy \/ Install \/ Uninstall
        \/ (\E l \in Levels : CollectClaim(l)) \/ Finished

Spec == Init /\ [][Next]_vars

-----------------------------------------------------------------------------
(* Properties.                                                             *)

\* The replicas of an application that is scaled down are never lost, however
\* often it is replaced and by whom: the annotation has the number it was
\* deployed with (scaleDownTarget leaves it alone if there is nothing to scale).
\* Commands may even do so at the same time, if no deployment comes between.
ReplicasKept ==
    /\ apps[0] # Absent /\ apps[0].replicas = 0
    /\ overlapped => budget.deploys = Budget(conf).deploys
    => apps[0].saved = wanted

\* Whatever commands run one after the other, wherever they fail or crash and whatever else
\* they save, the remote cache knows of the dev pod of a scaled down application, so that
\* it can be reset (ReplacePod saves the cache before it changes the cluster): but for a
\* revert that could not read the application, and so dropped the dev pod, and a later
\* save of that cache (RevertReplacePod).
NotStranded ==
    /\ ~overlapped /\ apps[0] # Absent /\ apps[0].replicas = 0
    /\ \A p \in Procs : pc[p] = "none"
    => secret.deployment = 1 \/ forgotten

\* The same without that exception, which the save of the next dev pod of a command violates.
NeverStranded ==
    /\ ~overlapped /\ apps[0] # Absent /\ apps[0].replicas = 0
    /\ \A p \in Procs : pc[p] = "none"
    => secret.deployment = 1

\* An application that is scaled down can be brought back: its replicas are noted on it
\* and its dev pod is in the cache, whatever fails but that one.
Recoverable == ReplicasKept /\ NotStranded

\* Commands that run one after the other never take a dev pod for the
\* application and replace it once more.
NoDevOfDev == overlapped \/ \A l \in Levels : l > 1 => apps[l] = Absent

\* A command that succeeds to start the dev pod leaves a deployment made of the
\* application and the dev pod as they are now (updateNeeded compares and
\* patches), and the application scaled down unless that call failed.
UpToDate ==
    [][\A p \in Procs :
         pc[p] # "replaced" /\ pc'[p] = "replaced" /\ ~overlapped =>
           LET dev == apps[frame[p].entry.deployment]
           IN  /\ dev # Absent /\ dev.replicas = 1
               /\ Ok(dev.pod) = BuildPod(apps[0].pod, conf)
               /\ apps[0].replicas = 0 \/ budget.faults < Budget(conf).faults]_vars

\* A pipeline that is not forced to does not delete the dev pod another project
\* still uses (the projects in the cache entry).
SharedKept(p) ==
    /\ pc[p] = "deleteReplaced" /\ pc'[p] = "getParent"
    /\ command[p].name = "pipeline" /\ ~command[p].force /\ ~overlapped
    => inUse = {}

\* A reset that finds the application scaled down and reaches its end leaves it
\* with the replicas it was deployed with, and no dev pod beside it.
ResetRestores(p) ==
    /\ pc[p] = "forget" /\ pc'[p] = "ready" /\ frame[p].target.replicas = 0 /\ ~overlapped
    => apps[0] # Absent /\ apps[0].replicas = wanted /\ apps[1] = Absent

\* Giving up a dev pod (RevertReplacePod) takes it from nobody else and brings the
\* application back.
RevertedAsAsked == [][\A p \in Procs : SharedKept(p) /\ ResetRestores(p)]_vars

-----------------------------------------------------------------------------
(* The pod template, as the documentation of the dev section has it.       *)

\* The container of the application a dev container is about: the one it names, or the
\* only one, or the one with the image that is selected.
About(c, app, i) == IF c.container # Unnamed THEN app[i].name = c.container
                    ELSE Len(app) = 1 \/ app[i].image = AppImage

\* A dev container that leaves out the name of its container has only one to mean: the
\* image that is selected is that of one container.
Unambiguous(d) ==
    \/ \A k \in DOMAIN d.containers : d.containers[k].container # Unnamed
    \/ \A i, j \in DOMAIN d.app : d.app[i].image = AppImage /\ d.app[j].image = AppImage => i = j

\* What becomes of a container of the application.
Asked(k, own, c) ==
    /\ k.name = own.name /\ k.image = (IF c.devImage THEN DevImage ELSE own.image)
    /\ k.command = (IF Restarts(c) THEN "restart" ELSE IF c.command THEN "config"
                    ELSE IF c.terminal THEN "sleep" ELSE "own")
    /\ k.args = (IF c.args THEN "config" ELSE IF c.terminal THEN "none" ELSE "own")
    /\ k.interactive = c.attach /\ k.env = (IF c.env THEN {"config"} ELSE {})
    /\ k.workingDir = (IF c.workingDir THEN "config" ELSE "own")
    /\ k.resources = (IF c.resources THEN "config" ELSE "own")
    /\ k.readOnlyRoot = (c.sync = "none")
    /\ k.mounts = (IF c.persist # "none" THEN {Persistence} ELSE {})
                  \cup (IF Restarts(c) THEN {RestartHelper(own)} ELSE {})
    /\ k.probes = ~(c.devImage \/ c.terminal \/ c.attach \/ c.command \/ c.args \/ c.workingDir)

\* Does a dev container ask for a change of its container?
Modifies(c) == \/ c.devImage \/ c.terminal \/ c.attach \/ c.env \/ c.command \/ c.args
               \/ c.workingDir \/ c.resources \/ c.sync # "none"

\* Every dev container gets all it asks for, in its own container and in no
\* other, whatever other modifications come before (modifyDevContainer looks
\* for the container anew at every modification).
TemplateAsAsked ==
    apps[1] # Absent /\ apps[1].of = 0 =>
        LET made == apps[1].pod.containers
        IN  /\ DOMAIN made = DOMAIN conf.app
            /\ \A k \in DOMAIN conf.containers : Modifies(conf.containers[k]) =>
                  \E i \in DOMAIN conf.app : About(conf.containers[k], conf.app, i)
            /\ \A i \in DOMAIN conf.app :
                  LET about == {k \in DOMAIN conf.containers : About(conf.containers[k], conf.app, i)}
                  IN  /\ \A k \in about : Asked(made[i], conf.app[i], conf.containers[k])
                      /\ about = {} => made[i] = conf.app[i]

\* Without a replacement (needPodReplace) the pod of the application is as the
\* dev pod asks for already, but for a root file system that is read only.
UnreplacedAsAsked ==
    ~NeedPodReplace(conf) =>
        LET built == BuildPod(AppPod(1), conf)
        IN  built.ok => \A i \in DOMAIN conf.app :
                            [built.pod.containers[i] EXCEPT !.readOnlyRoot = TRUE] = conf.app[i]

\* The dev pod is one of the application, never of a dev pod, and has what is asked for;
\* where nothing is replaced the application has it.
BuiltAsAsked == NoDevOfDev /\ TemplateAsAsked /\ UnreplacedAsAsked
=============================================================================
