------------------------------ MODULE Pipelines ------------------------------
(***************************************************************************)
(* Runs of DevSpace in one namespace: each process runs the pipeline of    *)
(* its project, which runs the pipelines of its dependencies. A dependency *)
(* is locked before it is run: within a process by the registry's map,     *)
(* between processes by an entry of the config map devspace-dependencies,  *)
(* updated optimistically, whose owner is pinged over HTTP and can be      *)
(* asked to give the dependency up.                                        *)
(***************************************************************************)
EXTENDS Dependencies

CONSTANTS
    Procs,      \* the runs of DevSpace, each with a run id and a server
    None,       \* no run, no pipeline
    Scenarios,  \* what is declared and what each process runs
    MaxRetries, \* the retries of an optimistic update (4 in the code)
    MaxFaults   \* bound on crashes, failed API calls and lost pings

\* What each process runs; the dependencies each configuration declares; the
\* ones whose own are ignored and the ones to skip; the options --sequential and
\* continue on error; the dependencies with dev pods.
Scenario ==
    [project : [Procs -> Names], declared : [Names -> SUBSET Names], ignore : SUBSET Names,
     skip : SUBSET Names, sequential : BOOLEAN, tolerant : BOOLEAN, dev : SUBSET Names]

ASSUME PipelinesAssumption ==
    /\ None \notin Procs /\ None \notin Names \cup {"exclude"}
    /\ "exclude" \notin Names
    /\ Scenarios \subseteq Scenario
    /\ MaxRetries \in Nat /\ MaxFaults \in Nat

VARIABLES
    scenario,   \* what this run of the model is about
    configMap,  \* the config map: [exists, version, owner]
    proc,       \* what has become of each process
    resolver,   \* the resolver of each process: its graph and the children of each dependency
    reg,        \* dependencyRegistry: its graph, its lock types and the call that holds its mutex
    excluded,   \* pipeline.excluded and excludedErr of the root pipeline
    pipe,       \* the pipelines of each process, by name
    handler,    \* the dependencies excludeDependency is closing in a process
    faults      \* history: faults so far
    
vars == <<scenario, configMap, proc, resolver, reg, excluded, pipe, handler, faults>>

Locks == {"InUse", "InUseByOtherInstance", "InUseCyclic", "Locked"}

\* A name that is not in a map of lock types.
Absent == "absent"

NoLocks == [n \in Names |-> Absent]

Root(p) == scenario.project[p]

ConfigMap == [exists : BOOLEAN, version : Nat, owner : [Names -> Procs \cup {None}]]

NoConfigMap == [exists |-> FALSE, version |-> 0, owner |-> [n \in Names |-> None]]

\* A call of TryLockDependencies in progress; it holds the mutex of the registry.
RegistryCall ==
    [pc      : {"free", "get", "create", "names", "excluding", "return", "error"},
     by      : Names \cup {None, "exclude"},           \* the pipeline, or Exclude
     locks   : [Names -> Locks \cup {Absent}],         \* lockedDependencies of the call
     left    : SUBSET Names,                           \* the names still to be looked at
     copy    : ConfigMap,                              \* the config map it has read and changes
     changed : BOOLEAN,                                \* shouldUpdate
     failed  : SUBSET Procs,                           \* failedPings
     retries : Nat]

FreeCall == [pc |-> "free", by |-> None, locks |-> NoLocks, left |-> {}, copy |-> NoConfigMap,
             changed |-> FALSE, failed |-> {}, retries |-> 0]

NewRegistry(root) == [graph |-> NewGraph(root), known |-> NoLocks, call |-> FreeCall]

\* A pipeline and its job. History: gaveUp, a dependency was not waited for;
\* starts, how often it was started.
Pipeline ==
    [st        : {"none", "queued", "registered", "running", "dead", "lost", "unstarted"},
     parent    : Names \cup {None},
     pc        : {"none", "run_dependencies", "locking", "waiting", "joining",
                  "create_deployments", "start_dev", "end"},
     waits     : SUBSET Names,      \* dependencies to wait for
     launch    : SUBSET Names,      \* dependencies to start
     joining   : SUBSET Names,      \* dependencies that have been started
     killed    : BOOLEAN,           \* the tomb of the job is
     group     : BOOLEAN,           \* an error has killed the tomb of the dependencies
     failed    : BOOLEAN,
     dev       : {"none", "active", "ended"},
     devClosed : BOOLEAN,           \* the context of its dev pods is cancelled
     gaveUp    : BOOLEAN,
     starts    : Nat]

NoPipeline == [st |-> "none", parent |-> None, pc |-> "none", waits |-> {}, launch |-> {},
               joining |-> {}, killed |-> FALSE, group |-> FALSE, failed |-> FALSE,
               dev |-> "none", devClosed |-> FALSE, gaveUp |-> FALSE, starts |-> 0]

\* The enabled dependencies of a configuration that the options do not exclude.
WantedBelow == [n \in Names |-> scenario.declared[n] \ scenario.skip]

Init ==
    /\ scenario \in Scenarios
    /\ configMap = NoConfigMap
    /\ proc = [p \in Procs |-> "idle"]
    /\ resolver = [p \in Procs |-> NewResolver(Root(p), WantedBelow[Root(p)])]
    /\ reg = [p \in Procs |-> NewRegistry(Root(p))]
    /\ excluded = [p \in Procs |-> "no"]
    /\ pipe = [p \in Procs |-> [n \in Names |-> NoPipeline]]
    /\ handler = [p \in Procs |-> [n \in Names |-> "none"]]
    /\ faults = [count |-> 0, pingLost |-> FALSE, late |-> {}]

-----------------------------------------------------------------------------
\* Pipelines and their contexts.

Running(p) == proc[p] = "running"

Deps(p, n) == ChildrenOf(resolver[p], Root(p), n)

\* A pipeline of the tree below the root (p.dependencies), which findDependency finds.
Registered(p, n) == pipe[p][n].st \in {"registered", "running", "dead", "lost"}

\* main.Done() is closed when the tomb of the main job is dead.
Done(p, n) == pipe[p][n].st = "dead"

\* The pipelines above one: its parent, the parent of that one, up to the root.
Above(pipes, n) ==
    {m \in Names : \A names \in SUBSET Names :
        (\A k \in names \cup {n} : pipes[k].parent \in names \cup {None}) => m \in names}

\* The context a pipeline was started with: the one of the job of its parent
\* and, when it was started concurrently, of the group of its siblings.
StartDone(p, n) == \E m \in Above(pipe[p], n) : pipe[p][m].killed \/ pipe[p][m].group

\* The context of the commands of a job.
CtxDone(p, n) == pipe[p][n].killed \/ StartDone(p, n)

\* The dev context is cancelled by closing the manager of the pipeline or of one above.
DevDone(p, n) == \E m \in Above(pipe[p], n) \cup {n} : pipe[p][m].devClosed

\* A step of the script of a pipeline.
AtCommand(p, n, command) ==
    /\ Running(p) /\ pipe[p][n].st = "running" /\ pipe[p][n].pc = command

NextCommand(command) ==
    CASE command = "run_dependencies" -> "create_deployments"
      [] command = "create_deployments" -> "start_dev"
      [] command = "start_dev" -> "end"

\* The command that is in progress, whatever it waits for.
Command(pc) == IF pc \in {"locking", "waiting", "joining"} THEN "run_dependencies" ELSE pc

\* executeJob ends: the tomb of the job is dead, err is its reason.
Ended(r, err) == [r EXCEPT !.st = "dead", !.pc = "end", !.failed = err, !.waits = {},
                           !.launch = {}, !.joining = {}]

\* A command succeeds; after the last one the job ends.
Succeeded(r) ==
    LET next == NextCommand(Command(r.pc)) IN
    IF next = "end" THEN Ended(r, FALSE)
    ELSE [r EXCEPT !.pc = next, !.waits = {}, !.launch = {}, !.joining = {}]

\* A command fails: the shell runs with -e, unless the pipeline continues on error.
Failed(r) == IF scenario.tolerant THEN Succeeded(r) ELSE Ended(r, TRUE)

Update(p, n, r) == pipe' = [pipe EXCEPT ![p][n] = r]

-----------------------------------------------------------------------------
\* A process.

\* initialize: the configuration is loaded, its dependencies are resolved.
Start(p) ==
    /\ proc[p] = "idle"
    /\ proc' = [proc EXCEPT ![p] = "resolving"]
    /\ UNCHANGED <<scenario, configMap, resolver, reg, excluded, pipe, handler, faults>>

Resolving(p) == proc[p] = "resolving" /\ resolver[p].path # <<>>

Resolve(p) ==
    /\ Resolving(p)
    /\ resolver' = [resolver EXCEPT ![p] =
            IF More(@) THEN ResolveChild(@, WantedBelow, scenario.ignore) ELSE ResolveReturns(@)]
    /\ UNCHANGED <<scenario, configMap, proc, reg, excluded, pipe, handler, faults>>

\* A dependency cannot be downloaded or loaded.
ResolveFails(p) ==
    /\ Resolving(p) /\ More(resolver[p]) /\ faults.count < MaxFaults
    /\ proc' = [proc EXCEPT ![p] = "ended"]
    /\ faults' = [faults EXCEPT !.count = @ + 1]
    /\ UNCHANGED <<scenario, configMap, resolver, reg, excluded, pipe, handler>>

\* runPipeline: the root pipeline runs in a job of its own.
Run(p) ==
    /\ proc[p] = "resolving" /\ ~Resolving(p)
    /\ proc' = [proc EXCEPT ![p] = "running"]
    /\ Update(p, Root(p), [NoPipeline EXCEPT !.st = "running", !.pc = "run_dependencies", !.starts = 1])
    /\ UNCHANGED <<scenario, configMap, resolver, reg, excluded, handler, faults>>

\* The process is gone; its entries in the config map stay.
Gone(p, how) ==
    /\ proc' = [proc EXCEPT ![p] = how]
    /\ reg' = [reg EXCEPT ![p] = NewRegistry(Root(p))]
    /\ pipe' = [pipe EXCEPT ![p] = [n \in Names |-> NoPipeline]]
    /\ handler' = [handler EXCEPT ![p] = [n \in Names |-> "none"]]
    /\ excluded' = [excluded EXCEPT ![p] = "no"]

Crash(p) ==
    /\ Running(p) /\ faults.count < MaxFaults
    /\ Gone(p, "crashed")
    /\ faults' = [faults EXCEPT !.count = @ + 1]
    /\ UNCHANGED <<scenario, configMap, resolver>>

\* runPipeline closes the manager of the root when the pipeline failed: this
\* cancels the dev pods of the dependencies too.
CloseRoot(p) ==
    LET n == Root(p) IN
    /\ Running(p) /\ Done(p, n) /\ pipe[p][n].failed /\ ~pipe[p][n].devClosed
    /\ Update(p, n, [pipe[p][n] EXCEPT !.devClosed = TRUE])
    /\ UNCHANGED <<scenario, configMap, proc, resolver, reg, excluded, handler, faults>>

\* The process exits after WaitDev, which waits for the dev pods of every
\* pipeline, or, when the pipeline failed, after closing the manager of the root.
Exit(p) ==
    LET n == Root(p) IN
    /\ Running(p) /\ Done(p, n)
    /\ IF pipe[p][n].failed
       THEN pipe[p][n].devClosed /\ pipe[p][n].dev # "active"
       ELSE \A m \in Names : Registered(p, m) => pipe[p][m].dev # "active"
    /\ Gone(p, "ended")
    /\ UNCHANGED <<scenario, configMap, resolver, faults>>

-----------------------------------------------------------------------------
\* TryLockDependencies.

\* The caller gets the lock types, the registry remembers what is locked as in use.
Remember(p, locks) ==
    [n \in Names |-> IF locks[n] = Absent THEN reg[p].known[n]
                     ELSE IF locks[n] \in {"Locked", "InUseCyclic"} THEN "InUse"
                     ELSE locks[n]]

\* What the registry knows of a name: one it does not know is locked.
LockKnown(p, n) == IF reg[p].known[n] = Absent THEN "Locked" ELSE reg[p].known[n]

\* Mutant: a circle is not told from a dependency in use.
LockTypeInUse(p, from, n) == LockKnown(p, n)

LockType(p, from, n) == IF Cyclic(reg[p].graph, from, n) THEN "InUseCyclic" ELSE LockKnown(p, n)

\* The root locks itself without an edge.
LocksOf(p, by, from, names) ==
    IF by = "exclude"
    THEN [NoLocks EXCEPT ![from] = LockKnown(p, from)]
    ELSE [n \in Names |-> IF n \in names THEN LockType(p, from, n) ELSE Absent]

Wanted(locks) == {n \in Names : locks[n] = "Locked"}

\* Exclude asks with forceLeader.
ForceLeader(call) == call.by = "exclude"

\* The call gets the mutex. Without a name to lock it returns without a call to the cluster.
Begin(p, by, from, names) ==
    LET locks == LocksOf(p, by, from, names)
        call == [FreeCall EXCEPT !.by = by, !.locks = locks, !.retries = MaxRetries]
    IN /\ reg[p].call.pc = "free"
       /\ reg' = [reg EXCEPT
              ![p].graph = IF by = "exclude" THEN @ ELSE Insert(@, from, names),
              ![p].call = [call EXCEPT !.pc = IF Wanted(locks) = {} THEN "return" ELSE "get"]]

Call(p, pc) == Running(p) /\ reg[p].call.pc = pc

SetCall(p, call) == reg' = [reg EXCEPT ![p].call = call]

\* The config map is read.
RegistryGet(p) ==
    LET call == reg[p].call IN
    /\ Call(p, "get")
    /\ SetCall(p, IF configMap.exists
                  THEN [call EXCEPT !.pc = "names", !.left = Wanted(call.locks), !.copy = configMap,
                                    !.changed = FALSE, !.failed = {}]
                  ELSE [call EXCEPT !.pc = "create"])
    /\ UNCHANGED <<scenario, configMap, proc, resolver, excluded, pipe, handler, faults>>

\* The names this call takes over in its copy of the config map.
Taken(p, owner, names) == [n \in Names |-> IF n \in names THEN p ELSE owner[n]]

\* An optimistic update that lost is tried again from the start.
Retry(call) == IF call.retries = 0 THEN [call EXCEPT !.pc = "error"]
               ELSE [call EXCEPT !.pc = "get", !.retries = @ - 1]

\* The config map is created with the names, unless another process was faster.
RegistryCreate(p) ==
    LET call == reg[p].call IN
    /\ Call(p, "create")
    /\ IF configMap.exists
       THEN SetCall(p, Retry(call)) /\ UNCHANGED configMap
       ELSE /\ SetCall(p, [call EXCEPT !.pc = "return"])
            /\ configMap' = [exists |-> TRUE, version |-> 1,
                             owner |-> Taken(p, configMap.owner, Wanted(call.locks))]
    /\ UNCHANGED <<scenario, proc, resolver, excluded, pipe, handler, faults>>

TakeOver(call, p, n) ==
    [call EXCEPT !.left = @ \ {n}, !.copy.owner[n] = p, !.changed = TRUE, !.pc = "names"]

Refuse(call, n, lockType) == [call EXCEPT !.left = @ \ {n}, !.locks[n] = lockType, !.pc = "names"]

\* A name nobody owns, one of the process itself, and one of a process that
\* failed to answer for an earlier name.
RegistryName(p, n) ==
    LET call == reg[p].call
        owner == call.copy.owner[n]
    IN /\ Call(p, "names") /\ n \in call.left
       /\ \/ /\ owner = None \/ owner \in call.failed
             /\ SetCall(p, TakeOver(call, p, n))
          \/ /\ owner = p
             /\ SetCall(p, Refuse(call, n, "InUse"))
       /\ UNCHANGED <<scenario, configMap, proc, resolver, excluded, pipe, handler, faults>>

\* A name of another process, which does not answer the ping in two seconds: it
\* is gone, or the ping was lost.
RegistryPingFails(p, n) ==
    LET call == reg[p].call
        owner == call.copy.owner[n]
    IN /\ Call(p, "names") /\ n \in call.left
       /\ owner \notin {None, p} \cup call.failed
       /\ IF Running(owner)
          THEN /\ faults.count < MaxFaults
               /\ faults' = [faults EXCEPT !.count = @ + 1, !.pingLost = TRUE]
          ELSE UNCHANGED faults
       /\ SetCall(p, [TakeOver(call, p, n) EXCEPT !.failed = @ \cup {owner}])
       /\ UNCHANGED <<scenario, configMap, proc, resolver, excluded, pipe, handler>>

\* The owner answers; a dependency is then in use by another instance.
RegistryInUse(p, n) ==
    LET call == reg[p].call
        owner == call.copy.owner[n]
    IN /\ Call(p, "names") /\ n \in call.left /\ ~ForceLeader(call)
       /\ owner \notin {None, p} \cup call.failed /\ Running(owner)
       /\ SetCall(p, Refuse(call, n, "InUseByOtherInstance"))
       /\ UNCHANGED <<scenario, configMap, proc, resolver, excluded, pipe, handler, faults>>

\* The owner answers and is asked to give its dependency up. excludeDependency
\* forbids its own project, allows what it does not run (yet), and closes the
\* pipeline it finds: main.Stop kills the job.
RegistryExclude(p, n) ==
    LET call == reg[p].call
        owner == call.copy.owner[n]
    IN /\ Call(p, "names") /\ n \in call.left /\ ForceLeader(call)
       /\ owner \notin {None, p} \cup call.failed /\ Running(owner)
       /\ \/ /\ Root(owner) = n
             /\ SetCall(p, Refuse(call, n, "InUseByOtherInstance"))
             /\ UNCHANGED <<pipe, handler, faults>>
          \/ /\ Root(owner) # n /\ ~Registered(owner, n)
             /\ SetCall(p, TakeOver(call, p, n))
             /\ faults' = [faults EXCEPT !.late = @ \cup {<<owner, n>>}]
             /\ UNCHANGED <<pipe, handler>>
          \/ /\ Root(owner) # n /\ Registered(owner, n)
             /\ SetCall(p, [call EXCEPT !.pc = "excluding"])
             /\ Update(owner, n, [pipe[owner][n] EXCEPT !.killed = TRUE])
             /\ handler' = [handler EXCEPT ![owner][n] = "main"]
             /\ UNCHANGED faults
       /\ UNCHANGED <<scenario, configMap, proc, resolver, excluded>>

\* Mutant: the dev pods are left to the job, which has ended.
HandlerLeavesDev(p, n) ==
    /\ Running(p) /\ handler[p][n] = "main" /\ Done(p, n)
    /\ handler' = [handler EXCEPT ![p][n] = "replied"]
    /\ UNCHANGED <<scenario, configMap, proc, resolver, reg, excluded, pipe, faults>>

\* Close: the manager of the dev pods is closed when the job ended without an
\* error; a job with an error is an answer too, and the dev pods stay.
HandlerClose(p, n) ==
    /\ Running(p) /\ handler[p][n] = "main" /\ Done(p, n)
    /\ IF pipe[p][n].failed
       THEN handler' = [handler EXCEPT ![p][n] = "replied"] /\ UNCHANGED pipe
       ELSE /\ handler' = [handler EXCEPT ![p][n] = "dev"]
            /\ Update(p, n, [pipe[p][n] EXCEPT !.devClosed = TRUE])
    /\ UNCHANGED <<scenario, configMap, proc, resolver, reg, excluded, faults>>

HandlerReply(p, n) ==
    /\ Running(p) /\ handler[p][n] = "dev" /\ pipe[p][n].dev # "active"
    /\ handler' = [handler EXCEPT ![p][n] = "replied"]
    /\ UNCHANGED <<scenario, configMap, proc, resolver, reg, excluded, pipe, faults>>

\* The answer arrives, or none does: the owner is gone, or ten seconds are over,
\* which is certain when the job never runs.
RegistryExcluded(p, n) ==
    LET call == reg[p].call
        owner == call.copy.owner[n]
    IN /\ Call(p, "excluding") /\ n \in call.left
       /\ \/ ~Running(owner) /\ UNCHANGED faults
          \/ Running(owner) /\ handler[owner][n] = "replied" /\ UNCHANGED faults
          \/ /\ Running(owner) /\ pipe[owner][n].st = "lost"
             /\ faults' = [faults EXCEPT !.late = @ \cup {<<owner, n>>}]
          \/ /\ Running(owner) /\ handler[owner][n] # "replied" /\ faults.count < MaxFaults
             /\ faults' = [faults EXCEPT !.count = @ + 1, !.late = @ \cup {<<owner, n>>}]
       /\ SetCall(p, TakeOver(call, p, n))
       /\ UNCHANGED <<scenario, configMap, proc, resolver, excluded, pipe, handler>>

\* Mutant: the update does not carry the version that was read.
RegistryUpdateAlways(p) ==
    LET call == reg[p].call IN
    /\ Call(p, "names") /\ call.left = {}
    /\ SetCall(p, [call EXCEPT !.pc = "return"])
    /\ configMap' = IF call.changed
                    THEN [call.copy EXCEPT !.version = configMap.version + 1] ELSE configMap
    /\ UNCHANGED <<scenario, proc, resolver, excluded, pipe, handler, faults>>

\* The copy is written back if it changed; a conflict starts over, with the lock
\* types of this attempt.
RegistryUpdate(p) ==
    LET call == reg[p].call IN
    /\ Call(p, "names") /\ call.left = {}
    /\ IF ~call.changed
       THEN SetCall(p, [call EXCEPT !.pc = "return"]) /\ UNCHANGED configMap
       ELSE IF call.copy.version # configMap.version
       THEN SetCall(p, Retry(call)) /\ UNCHANGED configMap
       ELSE /\ SetCall(p, [call EXCEPT !.pc = "return"])
            /\ configMap' = [call.copy EXCEPT !.version = @ + 1]
    /\ UNCHANGED <<scenario, proc, resolver, excluded, pipe, handler, faults>>

\* A call to the cluster fails, or its context is done.
RegistryFails(p) ==
    LET call == reg[p].call IN
    /\ Running(p)
    /\ \/ call.pc \in {"get", "create"}
       \/ call.pc = "names" /\ call.left = {} /\ call.changed
    /\ \/ /\ faults.count < MaxFaults
          /\ faults' = [faults EXCEPT !.count = @ + 1]
       \/ /\ call.by # "exclude" /\ CtxDone(p, call.by)
          /\ UNCHANGED faults
    /\ SetCall(p, [call EXCEPT !.pc = "error"])
    /\ UNCHANGED <<scenario, configMap, proc, resolver, excluded, pipe, handler>>

-----------------------------------------------------------------------------
\* The commands of a pipeline.

\* The shell does not start a command when the context of the job is done: the
\* job ends with an error.
Cancelled(p, n) ==
    /\ Running(p) /\ pipe[p][n].st = "running"
    /\ pipe[p][n].pc \in {"run_dependencies", "create_deployments", "start_dev"}
    /\ CtxDone(p, n)
    /\ Update(p, n, Ended(pipe[p][n], TRUE))
    /\ UNCHANGED <<scenario, configMap, proc, resolver, reg, excluded, handler, faults>>

\* Exclude: the first command of a process, one of the root, locks the project.
Exclude(p) ==
    /\ AtCommand(p, Root(p), "run_dependencies")
    /\ excluded[p] = "no"
    /\ excluded' = [excluded EXCEPT ![p] = "pending"]
    /\ Begin(p, "exclude", Root(p), {})
    /\ UNCHANGED <<scenario, configMap, proc, resolver, pipe, handler, faults>>

Admitted(lockType) == lockType = "Locked"

\* Exclude returns: an error of the registry is kept in excludedErr; that the
\* project is in use is an error of this command only.
ExcludeReturns(p) ==
    LET call == reg[p].call
        n == Root(p)
        refused == call.pc = "return" /\ ~Admitted(call.locks[n])
    IN /\ Running(p) /\ call.by = "exclude" /\ call.pc \in {"return", "error"}
       /\ excluded' = [excluded EXCEPT ![p] = IF call.pc = "error" THEN "error"
                                              ELSE IF refused THEN "refused" ELSE "yes"]
       /\ reg' = [reg EXCEPT ![p].call = FreeCall,
              ![p].known = IF call.pc = "error" THEN @ ELSE Remember(p, call.locks)]
       /\ Update(p, n, IF refused THEN Failed(pipe[p][n]) ELSE pipe[p][n])
       /\ UNCHANGED <<scenario, configMap, proc, resolver, handler, faults>>

\* Exclude was called before.
MayRun(p) == excluded[p] \in {"yes", "refused"}

ExcludedBefore(p, n) ==
    /\ Running(p) /\ pipe[p][n].st = "running" /\ ~CtxDone(p, n)
    /\ pipe[p][n].pc \in {"run_dependencies", "create_deployments", "start_dev"}
    /\ excluded[p] = "error"
    /\ Update(p, n, Failed(pipe[p][n]))
    /\ UNCHANGED <<scenario, configMap, proc, resolver, reg, excluded, handler, faults>>

\* run_dependencies --all: TryLockDependencies.
RunDependencies(p, n) ==
    /\ AtCommand(p, n, "run_dependencies") /\ ~CtxDone(p, n) /\ MayRun(p)
    /\ IF Deps(p, n) = {}
       THEN Update(p, n, Succeeded(pipe[p][n])) /\ UNCHANGED reg
       ELSE /\ Begin(p, n, n, Deps(p, n))
            /\ Update(p, n, [pipe[p][n] EXCEPT !.pc = "locking"])
    /\ UNCHANGED <<scenario, configMap, proc, resolver, excluded, handler, faults>>

\* StartNewDependencies: the dependencies that are locked are deployed, after
\* waiting for the ones that are in use in this process.
DependenciesLocked(p, n) ==
    LET call == reg[p].call IN
       /\ AtCommand(p, n, "locking") /\ call.by = n /\ call.pc \in {"return", "error"}
       /\ reg' = [reg EXCEPT ![p].call = FreeCall,
              ![p].known = IF call.pc = "error" THEN @ ELSE Remember(p, call.locks)]
       /\ Update(p, n, IF call.pc = "error" THEN Failed(pipe[p][n])
                       ELSE [pipe[p][n] EXCEPT !.pc = "waiting",
                                !.waits = {d \in Names : call.locks[d] = "InUse"},
                                !.launch = Wanted(call.locks)])
       /\ UNCHANGED <<scenario, configMap, proc, resolver, excluded, handler, faults>>

\* Mutant: a pipeline that is found is not waited for.
WaitForDependencyNot(p, n) ==
    LET r == pipe[p][n]
        d == First(r.waits)
    IN /\ AtCommand(p, n, "waiting") /\ r.waits # {}
       /\ Update(p, n, [r EXCEPT !.waits = @ \ {d}, !.gaveUp = ~Registered(p, d) \/ @])
       /\ UNCHANGED <<scenario, configMap, proc, resolver, reg, excluded, handler, faults>>

\* waitForDependency: a pipeline that is found is waited for; one that is not
\* registered within a second is not.
WaitForDependency(p, n) ==
    LET r == pipe[p][n]
        d == First(r.waits)
    IN /\ AtCommand(p, n, "waiting") /\ r.waits # {}
       /\ \/ /\ Registered(p, d) /\ (Done(p, d) \/ CtxDone(p, n))
             /\ Update(p, n, [r EXCEPT !.waits = @ \ {d}])
          \/ /\ ~Registered(p, d)
             /\ Update(p, n, [r EXCEPT !.waits = @ \ {d}, !.gaveUp = TRUE])
       /\ UNCHANGED <<scenario, configMap, proc, resolver, reg, excluded, handler, faults>>

\* The dependencies are started, all at once or one after the other.
Launch(p, n) ==
    LET r == pipe[p][n]
        now == IF scenario.sequential /\ r.launch # {} THEN {First(r.launch)} ELSE r.launch
    IN /\ AtCommand(p, n, "waiting") /\ r.waits = {}
       /\ pipe' = [pipe EXCEPT ![p] = [m \in Names |->
              IF m = n THEN [r EXCEPT !.pc = "joining", !.joining = now, !.launch = r.launch \ now]
              ELSE IF m \in now
              THEN [NoPipeline EXCEPT !.st = "queued", !.parent = n, !.starts = pipe[p][m].starts]
              ELSE pipe[p][m]]]
       /\ UNCHANGED <<scenario, configMap, proc, resolver, reg, excluded, handler, faults>>

\* startNewDependency: the pipeline is registered with its parent; before that
\* the namespace of the dependency is ensured, which may fail.
Register(p, n) ==
    /\ Running(p) /\ pipe[p][n].st = "queued"
    /\ \/ /\ Update(p, n, [pipe[p][n] EXCEPT !.st = "registered", !.starts = @ + 1])
          /\ UNCHANGED faults
       \/ /\ faults.count < MaxFaults
          /\ Update(p, n, [pipe[p][n] EXCEPT !.st = "unstarted", !.failed = TRUE])
          /\ faults' = [faults EXCEPT !.count = @ + 1]
    /\ UNCHANGED <<scenario, configMap, proc, resolver, reg, excluded, handler>>

\* Run: a job is not started on a cancelled context; then its tomb never dies.
RunJob(p, n) ==
    /\ Running(p) /\ pipe[p][n].st = "registered"
    /\ Update(p, n, IF StartDone(p, n)
                    THEN [pipe[p][n] EXCEPT !.st = "lost"]
                    ELSE [pipe[p][n] EXCEPT !.st = "running", !.pc = "run_dependencies"])
    /\ UNCHANGED <<scenario, configMap, proc, resolver, reg, excluded, handler, faults>>

\* A started dependency returns; the first error cancels the others.
Returned(p, n, d) ==
    LET r == pipe[p][n]
        error == pipe[p][d].failed
    IN /\ AtCommand(p, n, "joining") /\ d \in r.joining
       /\ pipe[p][d].st \in {"dead", "lost", "unstarted"}
       /\ Update(p, n, [r EXCEPT !.joining = @ \ {d}, !.group = @ \/ error])
       /\ UNCHANGED <<scenario, configMap, proc, resolver, reg, excluded, handler, faults>>

\* All have returned: the command ends, or the next one is started. The group is
\* killed by an error and, with one, by the end of the context of the job.
Joined(p, n) ==
    LET r == pipe[p][n] IN
    /\ AtCommand(p, n, "joining") /\ r.joining = {}
    /\ IF r.group \/ (CtxDone(p, n) /\ ~scenario.sequential)
       THEN Update(p, n, [Failed(r) EXCEPT !.group = FALSE])
       ELSE IF r.launch # {}
       THEN Update(p, n, [r EXCEPT !.pc = "waiting"])
       ELSE Update(p, n, Succeeded(r))
    /\ UNCHANGED <<scenario, configMap, proc, resolver, reg, excluded, handler, faults>>

\* create_deployments (and building images): the work of the pipeline itself,
\* which may fail.
CreateDeployments(p, n) ==
    /\ AtCommand(p, n, "create_deployments") /\ ~CtxDone(p, n) /\ MayRun(p)
    /\ \/ /\ Update(p, n, Succeeded(pipe[p][n]))
          /\ UNCHANGED faults
       \/ /\ faults.count < MaxFaults
          /\ Update(p, n, Failed(pipe[p][n]))
          /\ faults' = [faults EXCEPT !.count = @ + 1]
    /\ UNCHANGED <<scenario, configMap, proc, resolver, reg, excluded, handler>>

\* start_dev --all: nothing is started on a cancelled dev context.
StartDev(p, n) ==
    /\ AtCommand(p, n, "start_dev") /\ ~CtxDone(p, n) /\ MayRun(p)
    /\ Update(p, n, IF n \notin scenario.dev THEN Succeeded(pipe[p][n])
                    ELSE IF DevDone(p, n) THEN Failed(pipe[p][n])
                    ELSE [Succeeded(pipe[p][n]) EXCEPT !.dev = "active"])
    /\ UNCHANGED <<scenario, configMap, proc, resolver, reg, excluded, handler, faults>>

\* Dev pods end by themselves or with their context.
DevEnds(p, n) ==
    /\ Running(p) /\ pipe[p][n].dev = "active"
    /\ Update(p, n, [pipe[p][n] EXCEPT !.dev = "ended"])
    /\ UNCHANGED <<scenario, configMap, proc, resolver, reg, excluded, handler, faults>>

-----------------------------------------------------------------------------
Registry(p) ==
    \/ RegistryGet(p)
    \/ RegistryCreate(p)
    \/ RegistryUpdate(p)
    \/ RegistryFails(p)
    \/ \E n \in Names :
        \/ RegistryName(p, n)
        \/ RegistryPingFails(p, n)
        \/ RegistryInUse(p, n)
        \/ RegistryExclude(p, n)
        \/ RegistryExcluded(p, n)

Job(p, n) ==
    \/ Cancelled(p, n)
    \/ ExcludedBefore(p, n)
    \/ RunDependencies(p, n)
    \/ DependenciesLocked(p, n)
    \/ WaitForDependency(p, n)
    \/ Launch(p, n)
    \/ Register(p, n)
    \/ RunJob(p, n)
    \/ \E d \in Names : Returned(p, n, d)
    \/ Joined(p, n)
    \/ CreateDeployments(p, n)
    \/ StartDev(p, n)

Server(p, n) == HandlerClose(p, n) \/ HandlerReply(p, n)

Next ==
    \/ \E p \in Procs :
        \/ Start(p)
        \/ Resolve(p)
        \/ ResolveFails(p)
        \/ Run(p)
        \/ Crash(p)
        \/ CloseRoot(p)
        \/ Exit(p)
        \/ Exclude(p)
        \/ ExcludeReturns(p)
        \/ Registry(p)
        \/ \E n \in Names : Job(p, n) \/ Server(p, n) \/ DevEnds(p, n)
    \/ (\A p \in Procs : proc[p] \in {"ended", "crashed"}) /\ UNCHANGED vars

Spec == Init /\ [][Next]_vars

-----------------------------------------------------------------------------
\* Type invariant: the processes, their pipelines and the config map they share.
TypeOK ==
    /\ scenario \in Scenarios
    /\ configMap \in ConfigMap
    /\ proc \in [Procs -> {"idle", "resolving", "running", "ended", "crashed"}]
    /\ resolver \in [Procs -> Resolver]
    /\ reg \in [Procs -> [graph : Graph, known : [Names -> (Locks \ {"Locked", "InUseCyclic"}) \cup {Absent}],
                          call : RegistryCall]]
    /\ excluded \in [Procs -> {"no", "pending", "yes", "refused", "error"}]
    /\ pipe \in [Procs -> [Names -> Pipeline]]
    /\ handler \in [Procs -> [Names -> {"none", "main", "dev", "replied"}]]
    /\ faults \in [count : Nat, pingLost : BOOLEAN, late : SUBSET (Procs \X Names)]

\* A set of names each of which has a successor in the set.
Circular(edges) ==
    \E names \in (SUBSET Names) \ {{}} : \A n \in names : \E m \in names : <<n, m>> \in edges

\* The dependencies of a process form no circle in the registry, and the
\* children of a resolved dependency are the ones its configuration declares:
\* a circle costs the edge, never the dependency.
ResolvedAsDeclared ==
    \A p \in Procs : Running(p) =>
        LET reached == {n \in Names : n = Root(p) \/ \E m \in Names : n \in Deps(p, m)}
        IN /\ \A n \in reached \ (scenario.ignore \ {Root(p)}) :
                Deps(p, n) = WantedBelow[n] \ {d \in {n} : n = Root(p)}
           /\ ~Circular(reg[p].graph.edges)

\* Process p runs project n as its own, or as a dependency.
Holds(p, n) == Running(p) /\ Root(p) = n /\ excluded[p] = "yes"

Runs(p, n) == n # Root(p) /\ pipe[p][n].st \in {"queued", "registered", "running"}

\* A project or dependency is run by one process at a time: by the one admitted
\* to its project (pipeline.Exclude) or by one that locked it as a dependency,
\* whoever wins the update of the config map, as long as its owner answers. The
\* exception is a dependency given away before its owner had started it.
LockHeld ==
    faults.pingLost \/
    \A p, q \in Procs : \A n \in Names :
        (Holds(p, n) \/ Runs(p, n)) /\ (Holds(q, n) \/ Runs(q, n))
        => p = q \/ {<<p, n>>, <<q, n>>} \cap faults.late # {}

\* A process that has taken over its project from a process that runs it as a
\* dependency starts after the dev pods of that pipeline have stopped too, unless
\* the pipeline was interrupted, which ends the whole process.
TakeoverStops ==
    faults.pingLost \/
    \A p, q \in Procs : \A n \in Names :
        /\ Holds(q, n) /\ Running(p) /\ Root(p) # n /\ <<p, n>> \notin faults.late
        /\ pipe[p][n].dev = "active"
        => pipe[p][n].failed

\* Every dependency runs at most once in a process, whoever declares it.
StartedOnce == \A p \in Procs, n \in Names : pipe[p][n].starts <= 1

\* A pipeline works after its dependencies are done: it waits for the ones that
\* another pipeline of the process runs. The exceptions are a dependency in use
\* elsewhere, a circle, and one not started within the second it is waited for.
DependenciesFirst ==
    \A p \in Procs, n \in Names :
        /\ Running(p) /\ pipe[p][n].pc \in {"create_deployments", "start_dev"}
        /\ ~CtxDone(p, n) /\ ~pipe[p][n].gaveUp /\ ~scenario.tolerant
        => \A d \in Deps(p, n) :
            \/ Done(p, d)
            \/ reg[p].known[d] = "InUseByOtherInstance"
            \/ <<n, d>> \notin reg[p].graph.edges

\* What is declared is resolved, run once, and run before what depends on it.
DependenciesInOrder == ResolvedAsDeclared /\ StartedOnce /\ DependenciesFirst

\* A parent waits for the dependencies it started, any pipeline for the next
\* dependency it needs when another pipeline started it.
WaitsFor(p, n) ==
    IF pipe[p][n].pc = "joining" THEN pipe[p][n].joining
    ELSE IF pipe[p][n].pc = "waiting" /\ pipe[p][n].waits # {}
    THEN {d \in {First(pipe[p][n].waits)} : Registered(p, d)}
    ELSE {}

\* The pipelines of a process never wait for each other in a circle.
NoCircularWait ==
    \A p \in Procs :
        ~Circular({e \in Names \X Names : e[2] \in WaitsFor(p, e[1])})

\* A session of a project is the only one in its namespace, also for a project
\* another session runs as a dependency, and for scripts that go on after an error.
OnlyInstance ==
    \A p, q \in Procs : \A n \in Names :
        /\ p # q /\ ~faults.pingLost /\ Running(p) /\ Running(q)
        /\ Root(p) = n /\ pipe[p][n].st = "running" /\ pipe[p][n].pc \in {"create_deployments", "start_dev"}
        /\ Root(q) = n /\ pipe[q][n].st = "running" /\ pipe[q][n].pc \in {"create_deployments", "start_dev"}
        => FALSE
=============================================================================
