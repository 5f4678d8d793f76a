# DevSpace in TLA+

DevSpace (`devspace dev`, `build`, `deploy`, `purge`) loads a configuration,
builds images, deploys them to a Kubernetes cluster, replaces pods by development
versions and keeps those connected to the local machine: it synchronises files in
both directions, forwards ports, opens a terminal, and restores all of it when a
pod or a connection is lost. Projects depend on each other and several DevSpace
processes share a namespace. This directory holds TLA+ models of the parts of it
in which concurrency, failures, ordering or long chains of rules matter, the TLC
runs that check them and TLAPS proofs about them.

`PROJECT.json` lists the components, the runs, the mutants (a plausible slip in
the code for every checked property, which the run must detect), the source
lines behind every definition, the hazards and the theorems.

    tlc -workers 4 -config sync.cfg MCSyncEngine      # any run
    tlapm PipelinesProofs.tla                               # the proofs of a module

Contents: 1 inventory, 2 modules, 3 runs, 4 where code and documentation part,
5 proofs, 6 not modelled.

## 1. Inventory

Modelled parts, with the state each keeps. "Hard" is what makes the part
difficult to test, "right" what its properties say.

| Component | State | Operations | Hard | Right |
|---|---|---|---|---|
| sync engine, helper server (`pkg/devspace/sync`, `helper/server`) | file index, gathered changes, the helper's last reported state, both file systems | evaluate an event, apply removes, filter by checksum, upload, count and collect changes, remove, download, untar | two loops and two users change the same files and one index; calls fail half done; times are seconds on one side and nanoseconds on the other | both sides meet, no echoes, nothing written against an exclude list, no older file over the one that was looked at |
| helper watcher mode (`helper/server/downstream.go`) | events, changed paths, the state last told | watch, ChangesCount, Changes | events are dropped, late or overtake each other; files change while a call reads them | nothing is forgotten, everything is told |
| initial sync (`sync/initial.go`) | local state, index, upload and download lists | collect, delta, upload half, download half | concurrent halves; seven strategies times exclude lists times one-way options | the documented merge, an index that is true, nothing else touched |
| upload queue (`sync/upstream.go`, `sync/sync.go`) | event channel, buffer, `isBusy`, put off commands | post, send, drain, gather, apply, run commands, start the container | a blocking send under a mutex, two flags that decide when the initial sync is over | commands run in time, nothing is stuck |
| tomb (`util/tomb`) | number of goroutines, reason, dead | Go, Kill, return | Go after the last return panics | dead means returned |
| dev pod (`devpod/devpod.go`) | tomb, `selectedPod`, `done`, context | start, services, watcher, restart, stop | the watcher goroutine of every attempt decides alone whether to restart or to close `done` | attempts in turn, keeps its promise, recovers |
| sync controller (`services/sync`, `sync/starter.go`) | channels of a client, starter count | start, wait, watch, restart, stop | `select` over error, end and cancellation; one tomb for all services | no silent end, the container waits, the tomb dies |
| dev pod manager, lock factory (`devpod/manager.go`, `util/lockfactory`) | map of dev pods, cancel functions, lock per name | start_dev, stop_dev, restart, Wait, Close | a start racing a stop or Close; errors collected by `select` | one dev pod per name, nothing survives Close, all or nothing, no hang |
| pod replacement (`services/podreplace`) | deployments, replicas, annotations, claims, cache entry | replace, update, revert, reset | a crash between scaling down and saving; projects that share a dev pod; eight modifications in a row | recoverable, built as asked, up to date, reverted as asked |
| remote cache (`config/remotecache`) | a secret in the cluster, a copy per process | Load, Save | saved as a whole, compared with what was loaded | part of the properties of pod replacement and delivery |
| dependency registry (`dependency/registry`, `server/dependency.go`) | lock types, config map with resource versions | TryLockDependencies, ping, exclude | several processes, optimistic updates, lost pings | one owner at a time |
| dependency resolver (`dependency/resolver.go`, `graph`) | graph, children | Resolve | circular declarations | part of the order of pipelines |
| pipelines and jobs (`pipeline`, `cmd/run_pipeline.go`) | pipelines by name, jobs, contexts | run, start dependencies, wait, close | waiting for a pipeline that another one starts; a takeover at any time | dependencies first and once, a takeover stops, no circular wait |
| image builds, local cache (`build`, `config/localcache`) | image cache in memory and on disk, build channels | shouldRebuild, build, save | hashes noted before the build, tags after it; a crash in between | a cached image is the image it claims |
| deployments (`deploy`) | releases, objects, remote cache | deploy, purge | skips decided by records that others wrote; partial failures | delivered, record agrees with the cluster |
| config loader, variables, profiles, imports (`config/loader`) | raw map, resolver's definitions and values, local cache | imports, profiles, patches, variables | the order of everything; values resolved before definitions change | merged in order, variables resolved, repeatable, ends |
| config versions (`config/versions`) | a configuration of each version | Parse, 11 upgrades, adjust, validate | hundreds of fields renamed and moved by hand | no setting lost, still accepted |

How they interact. Services share nothing but the tomb of their dev pod and the
context derived from it: a service that ends, or finds its pod gone, kills the
tomb; the dying tomb cancels the context of all of them; when the last goroutine
has returned the tomb is dead and the watcher of the dev pod decides what to do.
The sync controller is such a service. It starts a sync client and listens to its
channels; the client runs the initial sync and the two loops, which share the
file index; the upstream loop is fed by a channel that the file watcher and the
initial sync both write to; both loops talk to helpers in the container. The
manager starts and stops dev pods for the commands of a pipeline, under a lock
per name; starting one replaces the pod, and stopping with a purge reverts it,
both through an entry in the remote cache. A pipeline runs its dependencies first
and builds, deploys and starts dev pods in its script; between processes the
registry decides who runs a dependency. All commands start by loading the
configuration, which upgrades files of older versions first.

Parts that are not modelled are in section 6 and, one by one, in PROJECT.json.

## 2. Modules

Every module has one action per handler or atomic section of the code, and keeps
the names of the code. A definition whose comment starts with "Mutant" or "Slip"
is a plausible bug: it is used by nothing, and takes the place of the definition
it is named after when the properties are tested against it.

**SyncEngine** - the running sync. A file is `Absent` or a record of a time in
ticks and a content; contents have sizes, so that what the code compares (time,
size, checksum) is kept and the bytes are not. `fileMap` is the index, `watched`
the state the helper last reported (`Downstream.watchedFiles`), `events` the
event buffer of the upstream. Conversions are modelled by what they do: the
helper compares ticks, the client whole seconds, a transfer truncates to the
second. Sections under the lock of the index are single actions but for two. The
upload with its retries holds the lock over several steps (`IndexLocked`). So does
untarNext, which writes a downloaded file in three: it looks at the local file
(`OpenLocal`), replaces it (`CopyLocal`) and gives it its time (`CloseLocal`), or leaves it
(`KeepNewer`). The lock keeps the other loop out, not the user, who may edit the
file between any two of them. Between `ApplyRemoves` and the first `FilterChanges` nobody
has the lock (phase `create`).
Failing calls take effect on any subset of their files. A directory appears in one
place: the files of `folder` may be deleted in the container with their directory, whose
report makes `deleteSafeRecursive` delete local files that were not reported (`Sweep`).
The four actions of the
users are the environment, and `Init` chooses one of `Environments`: the exclude
lists, and whether a file may change on the other side before it settled
(`concurrent`), be edited again while its change is gathered (`repeated`) or get
the time 0 (`epoch`), with the bounds on edits and failing calls. The helper
polls here. Left out: all else about directories, symlinks, permissions.

**HelperWatcher** - the helper that watches instead, with directories. `fs` are
the files; users write, make and remove them, and move a directory with all it
holds out and back. The library posts an event per change if the directory is
watched (`Emit`, `Dispatch`), in any order, and watches new directories later
(`InstallWatch`); nothing waits for it, neither the first list nor a rescan, as
WatchWithFilter runs in a goroutine of its own. What the code loses by that is kept in
two history variables: `missed`, the edits where nothing watches, until the path or all
is read again, and `left`, what a look leaves in the list although it is gone.
`WatchReceive` and `WatchNote` are the goroutine `watch`, parted where it waits for
the mutex; `GetWatchState`, `WalkDir`, `ApplyChange` and `StateCollected` are a call
of Changes, one path after the other, while files change; `MainLoop` is the loop of
the client, with its two equal counts in a row. Reading a directory's entry and its
names is one step. The end of `rescanPeriod` is a choice at every call. A broken
stream ends the sync and the helper, so nothing goes on from it.

**InitialSync** - the initial sync; every strategy, `compareBy`, combination of
disabled directions and exclude list of `ExcludeLists` is chosen in `Init`.
`decide` and `CalculateDelta` are the decision,
`SendRemoves`/`SendUploads`/`ApplyUpstream` the upload half,
`RemoveLocal`/`Download`/`DownloadError` the download half. No edits during the
initial sync; files of the same time and size are assumed equal (that is the
code's own assumption).

**UploadLoop** - the goroutines around the events channel, from the end of the
local scan to the closing of `onInitUploadDone` and the start of the container.
An attempt to upload is one step
here: it succeeds (`ApplyChanges`), fails and is retried with what is not in the index yet
(`RetryUpload`), or ends the loop. `Known` are the files that may be compared by
checksum, which are noted in the index before they are sent. Its `QueueInit`, `QueueNext` and `QueueSpec` are
named apart from those of InitialSync, as the proofs of both are in one module.

**Tomb** - the tomb as functions on its state, used by DevPod and SyncController.

**DevPodLife** - what a dev pod promises to whoever starts and stops it: `Start`
returns once, `done` is closed when and only when nothing of it runs or will run
again, and a cancelled dev pod closes `done` in the end. After a restart that failed and
is tried again (`Retry`) only the last is promised.

**DevPod** - `devPod.Start`, `startWithRetry`, `start`, `restart`, `Stop` and the
services, per attempt; the cluster deletes pods and creates successors. An attempt of
the restart loop may fail like the first; its own watcher and the loop that made it
then both go on, and the history variable `retried` counts how often. A second
close of `done` panics, after which nothing runs. `KeepsPromise` is the
refinement: `Life == INSTANCE DevPodLife WITH life <- ...`, `Life!Spec`.

**DevPodManager** - `StartMultiple`, `Start`, `Reset`, `stop`, `Wait` and `Close`
of the manager and the commands `start_dev` and `stop_dev` of several jobs, down
to each lock and channel operation. Its dev pods are members of `Lives` of
DevPodLife and step as `DevPodLife!Step` allows: the module is the composition of
the manager with the promise DevPod is shown to keep, not with DevPod itself; a dev pod
is `Over` when `done` is closed and nothing of it is known to run. Its
`ManagerInit`, `ManagerNext`, `ManagerSpec` and `ManagerTypeOK` are named apart from
those of DevPod, as the proofs of both are in one module.

**SyncController** - all sync paths of one container with their controllers,
clients and the delayed container starter, beside one other service.

**PodTemplate** - `buildDeployment` as a chain of operators on pod templates
(`BuildPod`): patches, then a round through the dev containers (`EachDevContainer`)
with image, terminal, attach, environment, command and restart helper, working
directory, security context and resources, then one for the persistent paths. Every
modification looks for its container anew, as `getPodTemplateContainer` does. A value
is the application's own or the configured one.

**PodReplace** - commands that start (`dev`), purge or reset the dev pod of an
application, with a step per call of the API server: `findTarget*`, `ReplacePod`,
`updateNeeded`, `replace`, `RevertReplacePod`, `scaleUp`, `Load` and `Save` of
the remote cache. The application is level 0, its replacement level 1, the
replacement of that level 2. Crashes, failing calls and new deployments of the
application happen in between. The cache holds other dev pods and the deployments
too, and every save of theirs writes all of it: `SaveElse` is such a save by a
process that has a command under way, with the entry of this dev pod as the process
has it in memory. `Budget(conf)` bounds commands, commands at the
same time, deployments and faults per dev pod.

**Dependencies** - the graph and the resolver as operators on records: reachability is
stated with sets of nodes (`HasPath`), and the recursion of `resolveRecursive` is a
path of names with what is left to look at below each, stepped through by
`ResolveChild` and `ResolveReturns` in the order of the names (`First`, from `Rank`).
**Pipelines** - processes in one namespace, each with a root project: resolving
(`Start`, `Resolve`, `ResolveFails`, `Run`), locking
(`TryLockDependencies` with every read and update of the config map, pings and
takeovers), the pipelines of a process with their jobs and dev pods, the handlers
of `server/dependency.go`, crashes, failing calls and lost pings.

**ImageBuilds**, **Deployments**, **Delivery** - the images of a project with the
local cache; its deployments with the releases and objects in the cluster and the
remote cache; and the commands of several users that use both. ImageBuilds is
extended by Deployments and that by Delivery, whose `Next` interleaves the
commands of all users. Versions stand for hashes: two equal versions have equal
hashes. Tags are random and never collide, but for images with a configured one.
Four history variables name what the properties except: `sure` of an image cache (an
edit between the look at the sources and the build, a change of the registry), `tidy`
(after which the record is known to be incomplete), `gone` (deployments that an
interrupted purge deleted and left in the record) and `uses` (who deployed what).

**Variables**, **ConfigLoad** - the resolver of variables with its sources, the
expressions and the memory of answers; and a load of the configuration around it:
imports, the chain of profiles, replace, merge and patches, the filling of
variables, and the local cache across commands. A text is a sequence of tokens.

**Schema**, **SchemaV1**, **SchemaV1Late**, **SchemaLatest** - the structs of all
twelve versions of the configuration, each version as the changes to the one
before. **Upgrade**, **UpgradeLatest** - the eleven `Upgrade` functions.
**ConfigUpgrade** - `Parse`: strict reading, the upgrade loop, `adjust` and
`Validate`. A configuration is a function from the paths it sets to the set of
the user's settings that went into the value, so that "no setting is lost" can be
said without modelling what a value means. Lists and maps of structs have one
element; all sections of a file select the same pod; an empty struct is none.

**SyncEngineProofs**, **InitialSyncProofs**, **HelperWatcherProofs**,
**DevPodProofs**, **SyncControllerProofs**, **PodReplaceProofs**, **DeliveryProofs**,
**PipelinesProofs** - the theorems and lemmas of section 5, each module for the
one it is named after, InitialSyncProofs also for UploadLoop and DevPodProofs also
for DevPodManager.

The MC modules give the constants of their instances: contents and sizes,
scenarios of dependencies, scripts of jobs, dev pods, configurations and files.

## 3. Runs

| Run | Question | Instance | Distinct states |
|---|---|---|---|
| `sync` | do files that change sides only when settled stay in sync, without echoes, and converge (`Quiet`)? what holds with everything at once: conflicting edits, epoch times, failing calls, broken copies, edits of a file that is being written, the deletion of its directory (`Excluding`)? | `Quiet(...)`: 2 files, 3 edits after the start, once with 2 contents of one size, so that checksums matter, and once of different sizes; `Excluding`: 2 files of one directory, one on each exclude list, 2 contents, 2 edits, 2 upload errors and 1 download error against 2 tries | 520 000 |
| `helper_watch` | does the watching helper ever forget a change? | a directory with a file and a file beside it, 2 edits; the directory alone, 4 edits; exclude lists, 3 edits; a channel of 3, a rescan above 2 changed paths | 1 048 000 |
| `initial` | is the result the documented merge, for every strategy and every pair of file systems, with and without exclude lists? | 2 files, 3 contents (one empty), 2 times, all options, 1 failing download | 4 285 000 |
| `upload_loop` | deadlock, lost commands, end of the initial upload, container start | 3 initial files in batches of 2 through a channel of 1, one edit, two files may be compared by checksum, failed attempts of an upload, failures and stop anywhere | 340 000 |
| `devpod_life` | restart, stop and end of a dev pod; does it implement DevPodLife? | 2 services, 4 attempts, 2 deleted pods or failed restarts; stop and failure anywhere | 154 000 |
| `controller_restart` | restart loops, stop and container start of two sync paths | 2 failures, a deleted pod and a stop anywhere | 173 000 |
| `devpod_manager` | do commands of two jobs and Close keep dev pods apart and end? | 2 dev pods, 4 pairs of scripts, Close, failures and retried restarts anywhere | 158 500 |
| `podreplace` | is the application always restored, the dev pod what was asked for? | 3 commands with 1 fault and up to 2 deployments; 2 commands at the same time; 2 359 dev pods with 1 command | 2 255 000 |
| `pipelines` | who runs which dependency, when; does anything wait for ever? | 2 processes, 4 names, 5 scenarios (shared, diamond, circle, sequential, partial), 1 fault, 4 retries | 665 000 |
| `delivery` | do the caches agree with registries and cluster? | 2 users, 2 images, 2 deployments, 3 commands, 2 edits, 1 fault | 4 205 000 |
| `config_load` | merge order, variables, repeated commands, termination | 9 files, 95 commands in all, 3 loads in a row, answers and interrupts between | 307 000 |
| `config_upgrade` | does any upgrade lose a setting or refuse what was accepted? | every single setting of every version, every pair of settings of `dev`, `hooks` and `deployments` where they are rewritten | 50 000 |

A run takes between a few seconds and three minutes with two workers.

What they show: the properties below hold in every reachable state, or every
behaviour, of these instances.

- `sync`: **SettledInSync** a file that nothing is under way for is equal on both
  sides, and **NoEcho** neither loop takes the other's write for a user's (both say
  something of `Quiet` only: in `Excluding` every file is on a list); **LoopsGoOn**
  the retries give the index back, and under fair loops everything is in sync in
  the end. Two matter in `Excluding`: **ExcludesHonoured**, no loop writes a file the
  exclude list for its direction names, and which deletions cross the lists (the
  remote file of an upload-excluded one goes when the local one is gone; a
  download-excluded one goes with its directory, if it is no newer than the index
  has it); and **NeverOlder**, a download leaves nothing of an earlier second than the
  file it looked at, and touches no other. What a user writes after that look is not
  covered by it; see EditsKept in section 4.
- `helper_watch`: **NothingForgotten** whatever the client does not know rightly is
  about to be looked at (an event of it or of a directory above is under way, or a
  rescan is asked for); **EverythingTold** once the users stop, the client is told.
  Both but for what is `Lost`, which can happen in two ways that section 4 shows: an
  edit where nothing watches yet, of a path that is not looked at again (`missed`), and
  a path below a directory that applyChange looks at when the list does not have it as a
  directory (`left`). Calls come before the watches, events overtake each other and
  directories reappear in all environments.
- `initial`: **SidesMerged** (the merge, and the index describes the container),
  **NothingElseTouched** (a preferred or one-way side keeps its files; excluded
  files are left alone). Exceptions are named: a newer local file that
  `preferRemote` or `mirrorRemote` should overwrite (`Shielded`), and runs with a
  failed download.
- `upload_loop`: **CommandsInTime** (the commands of every file run that an attempt
  returns as written, and in time), **UploadGoesOn** (initial upload ends, the
  container starts, what is queued is uploaded). Of both, what a retry leaves out
  (`dropped`) is the exception; section 4 says what happens to it.
- `devpod_life`: **DeadMeansReturned**, **AttemptsInTurn** (done closed once, when
  nothing runs; no two live attempts; one of these more per retry of a failed restart,
  `retried`), **KeepsPromise** (implements
  DevPodLife, its liveness included), **Recovers** (a lost pod is replaced).
- `controller_restart`: **NoSilentEnd**, **TombDies**, **ContainerWaits** (every path
  the container does not wait for is made up for by a call of the starter that a
  restarted client repeated, `recounted`).
- `devpod_manager`: **OnlyDevPod** (a name has one dev pod that is not `Over` and is not reverted
  under a running one), **NothingSurvivesClose**, **AllOrNothing** (a failed start
  ends the others and is reported), **ManagerGoesOn**. An error sent before the
  command reaches its `select` can be lost; the history variable `unheard` marks
  it and it is the exception of AllOrNothing.
- `podreplace`: **Recoverable** (whenever replicas are taken from the application
  they are recorded with the entry that lets a later command restore them, whatever
  fails or crashes and whatever other entries are saved in between, but for one failure: a
  revert that cannot read an application that is there drops the entry in memory, and
  the next save of that process makes it last. The history variables `unread` and
  `forgotten` mark it; section 4 has the claim without the exception),
  **BuiltAsAsked** (every dev container has what is asked for in its own container,
  no other container is touched), **UpToDate**, **RevertedAsAsked** (a purge keeps the dev pod
  of another project; a reset restores the replicas).
- `pipelines`: **DependenciesInOrder** (once, after their own dependencies),
  **LockHeld** (two processes never run the same name), **TakeoverStops** (an
  allowed takeover has stopped the job and its dev pods), **NoCircularWait**.
- `delivery`: **CachedImageIsBuilt**, **Delivered** (a deploy that reports success
  deployed what the checkout asks for), **RecordAgrees** (the record describes the
  cluster, purges included).
- `config_load`: **MergedInOrder**, **VariablesResolved**, **Repeatable** (the same
  command again gets the same configuration and asks nothing), **LoadEnds**.
- `config_upgrade`: **SettingsKept** and **StillAccepted** (an upgrade fails only for a
  selector that does not exist or an image without a proper name), up to the tables
  `Unsupported` (announced in the code) and `Forgotten` (not announced; section 4).

The type invariants of modules whose runs do not list `TypeOK` hold in the same
instances; they are in the modules as documentation.

**Why the bounds are enough.** The sync properties relate the two copies of one
file, or one path, attempt or event to one other; the second is there because
locks, archives, batches, tombs and counters are shared. Three edits allow an
edit on one side, its transfer, and an edit, deletion or recreation on either
side that meets every phase of that transfer. For the helper, five edits of a
directory and its file take it away, bring it back, change it and take it away again
(with each assumption lifted the counterexample needs at most five); three events
overflow the channel. Two errors against two tries
exhaust the retries. A channel of one with batches of two makes the sender block.
Four attempts and two faults let a restarted dev pod be restarted, a restart fail
twice, and a failed restart be repeated while its own watcher starts the dev pod too;
the error of a lost connection is the same value as other errors in that run, as no guard
and no property tells them apart. Three commands of two
projects let each of replace, second use and reset follow each other, and one
fault stops any of them anywhere. Two processes are what a takeover needs, and
four names give a shared dependency of two others and circles through the root.
Three commands of two users with two edits give deploy by one, change and deploy
by the other, purge by the first. Three loads are a first answer, its reuse and
what a reset leaves. Upgrades treat every section on its own but for the pairs
listed in `PairsIn`; those pairs are all checked.

**Deadlock** is checked, by an explicit step when everything has ended, in all
runs but `sync`, where both loops may be idle for good
once the bounded users stop, and `devpod_manager`, where a session may wait for
its user for ever. `pipelines` does not need liveness for hangs: its state graph
is acyclic, every wait is a guard, and `NoCircularWait` says that what is waited
for can still move.

**Fairness.** Loops are driven by timers and goroutines by the scheduler, so
their steps are weakly fair, each goroutine on its own (`UpStep`, `DownStep`,
`SenderStep`, `WatchStep`, `Dispatch(p)`, `ControlStep(p)`, `WatcherStep(a)`, ...). Edits, failures, pod
deletions, stops, Close and broken calls are never fair. Facts outside DevSpace
that are assumed: a connection to a deleted pod breaks, and an initial sync that
neither fails nor is stopped ends. In ConfigLoad the fairness is written as
`[]<>Idle \/ []<><<~Idle>>_vars`, a load under way takes a step: the same as weak
fairness of its steps, and cheaper to check.

**Environment assumptions** of the runs are constants or named bounds, so that
each can be lifted: the fields of `Environment` and `TicksPerSecond`
(SyncEngine), `MaxDownloadErrors` (InitialSync), `NoWatch` (SyncController), `Budget`
(PodReplace), `tolerant` (Pipelines), `Overlap` (Delivery).

## 4. Where code and documentation part

Lifting one assumption of a run at a time shows behaviour that a doc, a comment
or a test of the repository does not describe. These changes of constants (or the
named property instead of the run's) reproduce it. `Quiet(...)` is `Quiet({"a", "b"})`,
for failed downloads `Quiet({"a", "cc"})` and for empty files `Quiet({"empty", "a"})`.

| Run, change | Property | What happens |
|---|---|---|
| `sync`, `Quiet(...)` with `maxUploadErrors = 1` | SettledInSync | the index is updated before the upload (`upstream.go:877`), so the retry (`:686`) drops the file |
| `sync`, `Quiet(...)` with `concurrent = TRUE` | SettledInSync | a file uploaded and deleted in the container between two reports of the helper is never reported as deleted (`streamChanges` compares states); it stays locally |
| `sync`, `Quiet(...)` with `maxDownloadErrors = 1` | SettledInSync | a broken copy leaves a truncated file that the retry takes for a newer edit (`untarNext`) |
| `sync`, `Quiet(...)` with `TicksPerSecond = 2` | SettledInSync | two edits of one size within a second: the second is never uploaded (`shouldUpload`) |
| `sync`, `Quiet(...)` with `epoch = TRUE` | SettledInSync | a file with the time 0 is taken for a removal (`applyChanges`) |
| `sync`, `Quiet(...)` with `repeated = TRUE`, contents `EmptyContents` of `EmptySize` | SettledInSync | of two gathered changes only the first is looked at, and if it is empty and of unchanged size the file is skipped (`filterChanges`) |
| `sync`, `Quiet(...)` with `concurrent = TRUE` | DeletesOnlyUnchanged | a deletion reported with an outdated time deletes a newer local edit (`shouldRemoveLocal`, against its comment) |
| `sync`, `Excluding` | DeletionExcluded | the local deletion of an upload-excluded file deletes the remote one (`shouldRemoveRemote` consults the other list) |
| `sync`, `Excluding` | IgnoredNotDeleted | a download-excluded file that was uploaded is in the index, so `deleteSafeRecursive` deletes it with its directory; the comment in `shouldRemoveLocal` (`evaluater.go:124`) says that an ignored path is never in the index |
| `sync`, `Excluding` | EditsKept | untarNext asks whether the local file is newer (`tar.go:85`) and replaces it later (`:121`, after five seconds if that fails at first); an edit in between is overwritten by the older version, and one made before `os.Chtimes` (`:153`) keeps its content with the time of the archive, which the index has too, so it is not uploaded if the size is the same. With users who take turns (`Quiet(...)`) it does not happen |
| `helper_watch`: an edit before its watch | NothingLost, EverythingHeard | an edit of a directory that has been read, made before the watcher is installed there (at the start, or in a new directory), is never told: `WatchWithFilter` runs in its own goroutine (`helper/server/downstream.go:80`), and the rescan that should come "from time to time" (`:141`) is only made by Changes, which is only called when `ChangesCount` counts something |
| `helper_watch`: a file listed without its directory | NothingLost, EverythingHeard | `applyChange` lists a file whose directory is not listed, because the event of the file comes first, because the directory was made anew while events of an earlier one were under way, or because it is hidden by an exclude list with a negated pattern; a later event of that directory then neither deletes the file from the list (`:370`) nor lets the file's own event be noted (`:350`), and its removal is never told |
| `initial` | LocalPreferred | `preferLocal` and `mirrorLocal` download over an upload-excluded local file (`CalculateLocalState` leaves it out) |
| `initial`, without the exception `Shielded` | MergedAsDocumented | `preferRemote` keeps a newer local file (`forceOverride` is always false), and the index takes its time and size for the container's |
| `initial`, without `downErrors = 0` | MergedAsDocumented | a failed download is not retried and counts as success |
| `upload_loop` | InitialUploadComplete | an event between channel and buffer is seen by neither test of `isBusy` (`upstream.go:247`); `onInitUploadDone` is closed with a file not uploaded |
| `upload_loop` | CommandsForAll | a file noted in the index (`upstream.go:877`) by an attempt that fails is left out by the retry (`:686`), so its commands never run, though the attempt may have brought it to the container |
| `devpod_life` | DoneMeansStopped, ClosedOnce, OneAtATime | the watcher of a failed attempt of the restart loop closes `done` while the loop goes on (`devpod.go:184`); the next end closes it again and panics |
| `controller_restart` | ContainerWaitsForAll | `Starter.Done` is called once per client, not once per path (`starter.go:33`); a restart in the initial phase starts the container too early |
| `controller_restart` with `NoWatch = {"p"}` | NoWatchEndsAlone | the end of a `noWatch` path kills the tomb of the whole dev pod (`controller.go:240`) |
| `pipelines` with `Scenarios <- MCTolerant` | OnlyInstance | the error of the exclude check is not kept (`pipeline.go:87`, `:107`); a script that continues on errors goes on in a namespace it did not get |
| `podreplace` | NeverStranded | when the application cannot be read for a moment, `RevertReplacePod` drops the dev pod from the cache in memory (`revert.go:65-70`); the next save of that cache, by the next dev pod that the command reverts or by a deployment (`deploy.go:147`), makes it last, and the application stays scaled down with no entry to reset it by |
| `podreplace` with `parallel` and `faults` for `Shared` raised | Recoverable | overlapping commands overwrite each other's entry and strand the scaled-down application |
| `delivery` with `Overlap = TRUE` | Delivered, RecordAgrees | the last writer of the whole secret wins; CachedImageIsBuilt still holds |

Further observations made while modelling. None of them is claimed not to happen;
where a property would be touched, the case is its named exception.

*Sync.* A file that is edited locally and uploaded after its directory was reported as
deleted, and before the report is applied, is deleted with the directory, as the index
describes it by then. The watcher drops an edit when the channel is full. An edit between the
scan of the local files and the installation of the watcher is noticed by neither.

*Helper.* A directory that takes the place of one moved away is not watched, as the
library keeps the node of the old one (`recFunc` of `tree_nonrecursive.go` finds
nothing to add); neither is one that is removed and made again when the library
handles the second event first. With `NoRecursiveWatch`, `applyChange` lists the
files of a changed subdirectory, which the next scan does not, so they are told as
removed. The count of `ChangesCount` for a rescan that is asked for is not needed:
after an overflow there are always events that get noted.

*Dev pod manager.* The snapshot of `Close` can miss a dev pod that is created
later; it is cancelled all the same, so `NothingSurvivesClose` holds. The context
of `StartMultiple` is that of the dev pods, so killing a job does not interrupt it.

*Pod replacement.* `scaleUp` of a reset restores the replicas of the annotation
over those of a newer deployment. When a patch is refused as invalid, `deleteDeployment`
is called with the empty result (`replace.go:178`), so the deployment is never
recreated. The claim of a recreated deployment is orphaned. With several
containers and a dev container that leaves out the name of its container, `devImage`
changes what the later modifications look for (`matchesImageSelector` is called anew
by each): they fail, or go to a second container that has the selected image. The
second is what `Unambiguous` excludes, which BuiltAsAsked holds under. `needPodReplace` ignores
`sync.startContainer` and the read-only root file system. `devspace reset pods`
without `--force` resets pods other projects use (`cmd/reset/pods.go:51` says
otherwise). With overlapping commands a stateful set can get a dev pod of a dev pod.

*Pipelines.* A script killed by a takeover replaces the reason, so `dep.Close`
returns before the manager's `Close`. The answer 500 counts as allowed. A takeover
of a dependency that is locked but not registered yet is allowed and both run it
(`late`). With `sequential`, a dependency is started before one it needs and waits
a second for it. Background pipelines are cancelled when the main one ends, and
the dev pods of children are not waited for. Entries of the config map are never
removed; the owner on another machine cannot be pinged and is taken over.

*Images and deployments.* `IsImageAvailableRemotely` asks without a tag, so images
in the registry of the cluster are always rebuilt. A changed permission to push
flips the cached store without a build. Parallel `build_images` jobs share the
cache, so one saves the hashes of another's unfinished build. A crash between a
build with a pinned tag and the save, or an edit between hashing and sending the
context, leaves a deployment that is not updated. A failed deployment leaves the
others deployed and unrecorded, and goroutines blocked on unbuffered channels. A
switch from kubectl to helm, an error when releases are listed after an upgrade, or
a refused connection at `Load` leave the record incomplete (`tidy`), and so do
objects that a changed configuration of kubectl no longer has: they stay in the
cluster and leave the record (`kubectl.go:199`). A release deleted by hand and
installed again has revision 1 and may match the record; so may one that an
interrupted purge deleted and a later deploy, failed or unrecorded, installed anew
(two faults; `gone`). An image that is found missing is built again without a look at
the hashes, so an edit before its build leaves it with the hashes of the old sources
(`sure`). These three came out of the attempt to prove Delivered and RecordAgrees: the
run, with one fault and two edits, is too small for them.

*Configuration.* An import cycle recurses without bound (`imports.go`). Variables
that imports, activations and profiles given as text need are resolved early and
keep the value of the definition before profiles (`NeededEarly`). A parent shared
by two profiles is applied twice and overrides the first child. Patches decide
whether to add by the configuration before any patch of the profile
(`profile.go:250`). The escape `$${NAME}` is undone by the second pass of filling
(`util/vars/parse_test.go:45`). `alwaysResolve` is documented as false by default;
nil counts as true (`resolver.go:149`). A comment says that the remote cache takes
precedence (`default_variable.go`); it is not consulted. `vars` of an activation
are evaluated though its environment does not match. A cached answer that does not
fit the type of the default fails every load until `reset vars`.

*Upgrades.* Lost without a word (`Forgotten`): `cluster.*` of v1beta1, the
`profiles.replace.*` sections moved between v1beta3 and v1beta7, the name of the
image of a hook's container, `profileParents` of dependencies, `dev.open`, the
architecture of a sync path, `patches.from`, the container of persisted paths,
the configuration of a parent profile's source, and four settings of helm. The
comment `// move dev.open -> open` (`v1beta11/upgrade.go:553`) has no code.
`disablePull` is taken from `disableShallow`. Names in generated pipelines are not
converted as the keys of the maps they name. Dev sections of one name overwrite
each other (all log selectors are called `logs`). Which container a section is
merged into depends on the random order of a map, and all but the last merged
section lose their namespace.

## 5. Proofs

All theorems hold for every value of the constants that satisfies the named
assumptions of the module.

`SyncEngineProofs`, for any files, contents, clocks, numbers of tries and errors:

- **TypeCorrect**: `Spec => []TypeOK`, with `OpenOK`: a file that is being written comes
  from the archive, and the upload does not hold the index meanwhile. Each action is a case; lemmas type the
  operators (`InfoType`, `StatType`, `ArchivedType`, `FirstType`: every name
  among the creates has a first change, so the `CHOOSE` is defined).
- **DownloadExcludeTheorem**: the sync never writes a local path on the download
  exclude list, and deletes one only with its directory and only if the index has it
  no older. The property speaks of what a step writes, so it is not inductive by
  itself; the invariant is `DownloadCarriesNone`: neither the collected changes, nor the
  helper's list, nor the archive holds such a path, and the file that is being written
  is one of the archive (`OpenOK`). Retries and broken copies are included.
- **UploadExcludeTheorem**: a path on the upload exclude list never gets content or
  time from this side; all that happens to it is a deletion. Invariant
  `UploadCarriesNone`: such a path occurs among the changes as a removal only, the
  creates have a positive time, hence no excluded path is checked or uploaded.
- **ExcludesTheorem**: both, as the run `sync` checks them.
- **NeverOlderTheorem**: what untarNext leaves is of no earlier second than the file
  it looked at. Its invariant `SeenOlder` keeps, while the file is open, the result of
  that look about the archived file, whatever users do to the local one.
- **NoEchoTheorem**: neither loop takes a write of the other one for a change of
  the user's, in every environment where the sides do not edit the same file at the
  same time, no file is dated back to 0 and no transfer fails. The invariant
  `EchoInv` splits by the last writer of a file (`FromLocal`, `FromRemote`): what the
  index, the helper's state, the changes in hand and the archive may then say of it,
  with an exception while its local copy is written but not yet dated (`Copied`).
- **SettledTheorem**: a file that nobody has anything left to do about is the same
  on both sides. It holds under what the code relies on, and each hypothesis is
  needed (TLC has a counterexample without any one of them): clocks in seconds
  (`TicksPerSecond = 1`), no empty files, careful users, no failing transfer. The
  invariant `SettledInv` adds `Cared(f)` to `EchoInv`: the last writer's copy is
  `Dated` after everything known of it, and either the other side has it or an
  event, a change, a transfer or a poll that will carry it is pending.

`InitialSyncProofs`, for any files, contents, strategies and exclude lists:

- **InitialSyncTypeCorrect**, **SidesMergedTheorem**, **NothingElseTouchedTheorem**.
  The three rest on one invariant: before the decision the sides are as in `Init`
  and the queues empty (`Undecided`); after it every file is, by itself, where the
  decision and the two halves can have brought it (`FileOK`), what is queued and
  fetched is what was decided, and the index differs from the container only in
  files still queued. `NothingElseTouched` compares with the initial contents and
  `SidesMerged` with the end, so both follow file by file.

`InitialSyncProofs` also proves of UploadLoop, the queue the initial upload goes
through, for any files, channel capacity and size of a batch:

- **UploadLoopTypeCorrect** (the channel never holds more than its capacity) and
  **CommandsInTimeTheorem**, which is inductive with the types.
- **NothingLost**, the safety half of `UploadGoesOn`: no step drops a file on its
  way, and every file of the initial upload is still with the sender, on its way,
  uploaded or left out by a retry (`InitialAccounted`, with the invariants `AppliedUploaded` and `BatchCut`).

`HelperWatcherProofs`, for any tree of paths, capacity of the channel and edits:

- **HelperTypeCorrect**: with `Shape`, what is there is always a tree (`TreeLemma`:
  what is there lies in directories that are there), and what was moved away comes
  back as one.
- **NothingForgottenTheorem**. `Sure` says, while no rescan is due, that whatever was
  told wrongly has a turn ahead, its own or that of a directory above, in one of six
  places (waiting to be dispatched, in the channel, in the watch loop, among the changed
  paths, in getWatchState or in walkDir), or is lost in one of the two ways. It is
  inductive with `Scan` (getWatchState reads only within a call, and what is `left` is in
  the list) and needs no assumption about the scheduler: `LookLemma` is what one stat and
  ReadDir achieve, and `EnteredLemma` why what lies below has its turn with a name of the
  directory that was read.

The proofs of the two modules that use tombs begin with what `Go`, `Kill` and `Return`
do to the type and the count of a tomb.

`DevPodProofs`, for any services, bounds and errors:

- **DevPodTypeCorrect** and **DeadMeansReturnedTheorem**: a dead tomb has no
  goroutine left. The invariant is the count `TombCounts`: the number of
  goroutines of a tomb is that of `start`, the starting and the running
  services, and a tomb with a goroutine left is not dead. It also shows that no
  `Go` panics, as `Go` is only called by counted goroutines.

`DevPodProofs` also proves, whatever attempts fail:

- **AttemptsInTurnTheorem**: without retries `done` is closed at most once and only when
  nothing runs, and no two attempts are live; every retry adds one. The invariant is a
  count, `OpenCounts` in `Turns`: there is one token, which is the right to close `done`; it
  passes from a watcher to the attempt its restart loop makes, and only a retry makes
  another one. The tokens held and spent are one more than `retried`. Besides, a tomb whose
  watcher went on is dead (`Watched`), and the caller of `Start` waits for the first
  attempt only (`CallerWaits`).
- **KeepsPromiseSafety**: the safety half of the refinement: the initial state of
  DevPod is one of DevPodLife under the mapping, and every step is a step of
  DevPodLife or leaves the dev pod's life alone. Actions are classed by what they
  change of the life (`QuietStep` and the lemmas after it). The liveness half,
  that a cancelled dev pod closes `done`, is checked by TLC in `devpod_life`.

`SyncControllerProofs`, for any paths, bounds and errors:

- **SyncControllerTypeCorrect** and **ControllersReturned** (the safety half of
  `TombDies`): the same count for the tomb of the dev pod, `TombCounts`, over the
  controllers of all paths, the goroutines that watch their clients and the other
  service; hence `Go` never finds a dead tomb and no path is counted off twice.
- **ContainerWaitsTheorem**. Invariant `StarterCounts`: what the starter still expects,
  the paths that have called it and the calls that were repeated make up for all the
  paths the container waits for, and a path calls after its initial sync.

`DevPodProofs` ends with the proofs about DevPodManager, for any jobs, dev pods and
scripts of commands:

- **ManagerTypeCorrect**: with `UnderWay`, the state of a job fits the command at the
  head of its script, so that every `Head` and function application is defined.
- **OnlyDevPodTheorem**, **NothingSurvivesTheorem**, **AllOrNothingTheorem**. The
  invariant has a part per mechanism: `LocksHeld` (who holds the lock of a name, at
  which step), `Current` (only the dev pod that is registered can be undone),
  `Sound` (a dev pod that is done runs nothing unless a restart of it was retried), `RevertDone`
  (a revert is under way only for a dev pod that is over), `Groups` (a cancelled group has cancelled all its dev pods, also
  those created after), `ErrorsHeard` (an error of a member is in the channel, received
  or `unheard`).

`DeliveryProofs`, for any users, images, deployments, configurations and bounds:

- **DeliveryTypeCorrect**, **CachedImageTheorem**, for commands that may overlap. The
  invariant `ImageInv` follows an entry of the cache through a build: its tag is one
  that was handed out and is no one else's build (`TagsFresh`), the hash is what the
  command looked at (`LookedAt`), and the image with the tag was built from it once the
  tag is in the cache, or will be the tag of a finished build (`EntriesBuilt`).
- **DeliveredTheorem**, **RecordAgreesTheorem**, under two hypotheses: commands do not
  overlap (`~Overlap`; false without, see section 4), and deployments have no objects in
  common (`Disjoint`; two deployments that apply one object overwrite each other, and
  purging one takes it from the other). The invariant `RecordInv` says, of each
  deployment, what the record and what the running command may claim: a recorded
  release exists, its revision is not beyond the cluster's, and if it is the cluster's
  the release is the recorded one (`Fresh`: this is why an equal revision justifies
  skipping the upgrade); while `tidy`, the record has exactly what is in the cluster
  (`Matches`) and everyone who uses it. A step of one deployment leaves the others
  alone (`OthersKeepRecord`), so each action is argued for its own deployment.

`PodReplaceProofs`, for any processes, projects, dev pods, replicas, depth of
replacements and budgets:

- **PodReplaceTypeCorrect**: a workload of a level replaces the level below, and what
  a command has in hand fits its step (`Hand`), so that no level below 0 is ever read.
- **RecoverableTheorem**. Two invariants, for its two halves. `CalmInv` holds however
  commands overlap, as long as nothing is deployed: the application has all its replicas
  or has them noted, and so has every copy of it a command has read. The merge patches
  of scaleDownTarget and scaleUpTarget keep that although they are computed from such
  copies. `Sequential` holds for commands that run one after the other: the cache in the
  cluster knows of the dev pod and the application tells its replicas (`Agrees`), and
  the running command knows what is in the cluster (`Follows`), wherever calls fail,
  processes crash and applications are deployed anew, installed and removed between, and
  whatever else of the cache is saved meanwhile (`SaveElse`): as a command has its dev pod
  in memory whenever there is one, such a save cannot lose it. The exception is part of the
  invariant: a command without the dev pod in memory while the application is down is
  one that could not read it (`unread`), and only its save leaves the cluster without
  the entry (`forgotten`).
- **RevertedAsAskedTheorem**, an action property. Its invariant `UsersInv`, for commands
  one after the other: the projects that use the dev pod are in the cache of the cluster,
  in that of the command and in the entry it works on; where the dev pod is deleted
  unforced, or is gone, nobody uses it. With `Sequential` this is why
  RevertReplacePod may trust the projects in its copy of the cache.
- **UpToDateTheorem**, an action property. Its invariant `MadeInv`: a command that
  makes or patches the dev pod has the pod of the application as it is and could build
  from it (`BuiltOk`), and the application is scaled down or a fault has been spent.
  A patch is computed from the dev pod read before, which is the one that is there.
- **NoDevOfDevTheorem**: no dev pod is made of a dev pod, from `Sequential`.
- **BuiltAsAskedTheorem**, for any number of containers and dev containers and all their
  settings. Its hypothesis `Unambiguous`: a dev container that leaves out the name of its
  container has one container at most with the selected image (see section 4). While
  the template is modified its containers keep their names and have their own image or
  that of the dev pod (`TemplateOf`), so the container that getPodTemplateContainer finds
  is the one the dev container is about, whatever has been modified before
  (`FindsContainer`). Each modification changes only that one (`ImageModifies` ...
  `CommandModifies`), a round through the dev containers all they are about, each
  once (`ModifyRound`, `PersistRound`), and together they make what is asked for
  (`AskedAll`). In the cluster, by the invariant `PodsInv`, a command that goes on has in
  hand the pod of a version of the application and can build from it, and the dev pod is
  what was built, even if commands overlap.

`PipelinesProofs`, for any processes, names, scenarios of dependencies, retries and
faults:

- **PipelinesTypeCorrect**, from **PipelinesInvariant**: the types and the inductive
  invariant `IInv`. It is `Local(p)` for every process and `Owned`, which relates the
  processes to the config map; both were checked by TLC, with tolerant scenarios too,
  before they were proved.
- **DependenciesInOrderTheorem**, from `Local`. The resolver has done with a name only
  when all that is declared below it is among its children or still to be looked at
  (`Resolved`), and its graph is reachable from the root (`Rooted`), so a name is only
  ever refused as a circle where it is one. The pipelines of a process are a tree
  whose parents wait for their children (`Tree`); what the registry takes for in use
  has been started or is about to be (`KnownOK`, `CallKnown`, `Early`); and a pipeline
  whose script goes on has, of every name it asked for, waited to its end, given up
  waiting, or is being cancelled (`InTurn`). `Lost` says why a pipeline that is not
  registered after all cannot be overlooked: the group of its siblings is killed.
- **NoCircularWaitTheorem**: pipelines wait along the edges of the registry's graph
  only (`Edges`, `Asked`), and `Insert` never closes a circle: a set of names each of
  which has an edge into the set would have had one before, or contain a path back to
  the parent, which is what `Cyclic` looks for.
- **LockHeldTheorem**, between processes: what a process occupies (`Occupies`: has
  locked, is about to run, runs, or still has dev pods of), it owns in the config map,
  but for what was given away before its owner had started it (`Late`) and after a lost
  ping. That is only inductive together with `CallOK`: a call that has read the config
  map either has a copy of the current version, and then every name it has decided on
  is taken from a process that does not occupy it, or its update will fail on the
  version: this is what makes a stale copy harmless.
- **TakeoverStopsTheorem**: with `Handled` (what the handler of excludeDependency has
  done at each of its steps), an answer is given only when the dev pods have stopped.

Assumptions. The theorems use the named `ASSUME`s of the modules, which TLC
evaluates in the runs. They say that bounds are numbers, that model values are
distinct, that the names of projects are ordered, and five facts worth naming: the
directories above a path lie in one another, each the parent of the next (HelperWatcher);
the containers of a pod have different names, and so have the dev containers of a dev pod,
which are the entries of a map (PodReplace); an empty file has one content (InitialSync);
a command of a script names at least one dev pod (DevPodManager: with `--all` and
none, `start_dev` and `stop_dev` do nothing); and the version of a configuration tells
which one it is, as its hash covers all of it (Deployments).

Only model-checked: liveness, which needs fairness (LoopsGoOn, EverythingTold,
UploadGoesOn, the liveness half of KeepsPromise, Recovers, TombDies, ManagerGoesOn,
LoadEnds); and what chains of folds and recursive functions compute (VariablesResolved,
MergedInOrder, Repeatable of ConfigLoad; SettingsKept and StillAccepted of ConfigUpgrade).
The induction theorems of the library take the induction hypothesis as an
operator, which none of the provers can instantiate. Where an induction was needed it
is stated with sets instead: reachability quantifies over closed sets of names, and
the least element of a set (`LeastNumber`, `FirstIn`) comes from the well-foundedness of
the numbers; and of the rounds through the dev containers the first step that would go
wrong is looked at, which the one before it excludes.

## 6. Not modelled

Of modelled parts: in the sync engine directories but for the deletion of one
in the container (and that one as one step: `remove` and `deleteSafeRecursive` look at
a file and remove it right away), symlinks and permissions, and the steps
in which the helper writes a file;
in the helper's watcher `NoRecursiveWatch` and events of the root directory; in the initial sync edits meanwhile; in pod replacement
replica sets as targets and namespaces; in the resolver the download of
dependencies and their overwrites; in pipelines `run_pipelines`, `--only`,
`--except`, purge and build pipelines and a namespace per dependency; in image
builds the builders themselves, `--force-build`, several tags and changes of the
kube context; in deployments rendering, charts and patches; in the remote and
local cache the encryption; in the loader downloads, plugins and requirements.
Values of configurations, templates and images are never looked into.

Not modelled at all:

- *without state of their own, or pure I/O*: helper injection, terminal, attach,
  logs, ssh and proxy commands, kubectl and helm clients, compose, init, analyze,
  upgrade, the command line and the UI server;
- *external interpreters*: the shell of pipelines, hooks and plugins, which run
  commands of the user; they are taken to succeed or fail where they are called;
- *outcomes only*: the target selector (its results are choices of DevPod and
  SyncController) and port forwarding (its restart loop has the shape of the sync
  controller's, and is a service of DevPod);
- *left for later*: symlinks, whose watchers rewrite the
  paths of events; the reverse tunnel, whose sessions share one stream; the
  restart helper in the container, whose counterpart is a shell script; and the
  global interrupt handler.
