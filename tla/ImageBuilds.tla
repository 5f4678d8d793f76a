------------------------------ MODULE ImageBuilds ------------------------------
(***************************************************************************)
(* Building the images of a project (build_images): which of them are      *)
(* built again, the builds side by side, and the local cache that          *)
(* remembers from what the last image was built and what it is called.     *)
(*                                                                         *)
(* Every user has a checkout of the project with a local cache; registries *)
(* are shared. What an image is built from (Dockerfile, context, image     *)
(* configuration, entrypoint) is one version, and so are its four hashes.  *)
(* A tag is a number: 0 is the configured tag of a Pinned image, the       *)
(* others are the random ones, which never collide. Images are pushed to   *)
(* their registry or, without the permission to, built into the registry   *)
(* DevSpace runs in the cluster. Changes of the kube context, images kept  *)
(* in a local docker daemon and --force-build are left out.                *)
(***************************************************************************)
EXTENDS Integers, FiniteSets

CONSTANTS
    Users,          \* who run commands, each for a top level project of the same name
    Images,
    Pinned,         \* the images with a configured tag
    Versions,       \* what an image may be built from
    MaxConcurrent,  \* MaxConcurrentBuilds, 0 for no limit
    MaxTags,        \* bound: random tags per image
    None

ASSUME BuildAssumption ==
    /\ Pinned \subseteq Images /\ MaxConcurrent \in Nat /\ MaxTags \in Nat
    /\ None \notin Versions \cup Nat

Stores == {"registry", "local"}
Tags   == 0..MaxTags

\* ImageCache: from what it was built last, the tag, and where it was pushed to
\* (LocalRegistryImageName is set for the registry in the cluster). sure is history:
\* neither an edit between the look at the sources and the build nor a change of the
\* store made the entry describe another image.
ImageCache == [hash : Versions \cup {None}, tag : Tags \cup {None}, store : Stores, sure : BOOLEAN]

\* Where the build of an image is: not looked at, built with a tag, done or failed
\* and not yet seen by the main loop, finished, skipped.
Job == [at : {"todo", "building", "built", "failed", "finished", "skipped"}, tag : Tags \cup {None}]

VARIABLES
    sources,    \* what the checkout of a user holds per image
    mayPush,    \* HasPushPermission of a user
    reachable,  \* the registry in the cluster answers under its localhost address
    stored,     \* from what the image with a tag in a store was built
    lastTag,    \* random tags handed out per image
    file,       \* the local cache of a user on disk
    cache,      \* ... of the user's running command in memory
    jobs,       \* the builds of the running command
    read        \* history: what the running command looked at

buildVars == <<sources, mayPush, reachable, stored, lastTag, file, cache, jobs, read>>

NewImage == [hash |-> None, tag |-> None, store |-> "registry", sure |-> TRUE]
Todo     == [at |-> "todo", tag |-> None]

BuildInit ==
    /\ sources \in [Users -> [Images -> Versions]] /\ mayPush \in [Users -> BOOLEAN] /\ reachable \in BOOLEAN
    /\ stored = [s \in Stores |-> [i \in Images |-> [t \in Tags |-> None]]]
    /\ lastTag = [i \in Images |-> 0]
    /\ file = [u \in Users |-> [i \in Images |-> NewImage]]
    /\ cache = file
    /\ jobs = [u \in Users |-> [i \in Images |-> Todo]]
    /\ read = [u \in Users |-> [i \in Images |-> None]]

-----------------------------------------------------------------------------
(* The caches.                                                             *)

\* cacheLoader.Load, and createBuilder for every image: it notes in memory which
\* registry the image is for, whether or not it will be built.
StoreFor(u) == IF mayPush[u] THEN "registry" ELSE "local"

ForStore(known, s) == [known EXCEPT !.store = s, !.sure = @ /\ (known.tag = None \/ known.store = s)]

LoadImages(u) ==
    /\ cache' = [cache EXCEPT ![u] = [i \in Images |-> ForStore(file[u][i], StoreFor(u))]]
    /\ UNCHANGED <<sources, mayPush, reachable, stored, lastTag, file, jobs, read>>

\* The process ends; what it held in memory is gone.
DropImages(u) ==
    /\ cache' = [cache EXCEPT ![u] = [i \in Images |-> NewImage]]
    /\ jobs' = [jobs EXCEPT ![u] = [i \in Images |-> Todo]]
    /\ read' = [read EXCEPT ![u] = [i \in Images |-> None]]
    /\ UNCHANGED <<sources, mayPush, reachable, stored, lastTag>>

JobsAt(u, s) == {i \in Images : jobs[u][i].at = s}

\* builtImages of the running command.
Built(u) == JobsAt(u, "finished")

-----------------------------------------------------------------------------
(* Is a rebuild needed?                                                    *)

\* The builder for the registry in the cluster looks for the image first. It asks the
\* registry for the image without its tag, so that an answer is always "not found".
MissingLocally(u, i) ==
    LET known == cache[u][i] IN
    /\ known.store = "local" /\ known.tag # None
    /\ reachable \/ stored["local"][i][known.tag] = None

\* BuildHelper.ShouldRebuild: never built, or from something else.
MustRebuild(u, i) == cache[u][i].tag = None \/ cache[u][i].hash # sources[u][i]

\* A build may start: the main loop waits while MaxConcurrentBuilds are not collected.
Room(u) == MaxConcurrent = 0 \/ Cardinality({i \in Images : jobs[u][i].at \in {"building", "built", "failed"}}) < MaxConcurrent

NextTag(i) == IF i \in Pinned THEN 0 ELSE lastTag[i] + 1

\* The main loop of Build for one image. ShouldRebuild notes the hashes in memory
\* before anything is built, and not at all for an image it found missing.
CheckImage(u, i) ==
    /\ jobs[u][i].at = "todo"
    /\ read' = [read EXCEPT ![u][i] = sources[u][i]]
    /\ IF MissingLocally(u, i) \/ MustRebuild(u, i)
       THEN /\ Room(u) /\ NextTag(i) \in Tags
            /\ jobs' = [jobs EXCEPT ![u][i] = [at |-> "building", tag |-> NextTag(i)]]
            /\ lastTag' = [lastTag EXCEPT ![i] = NextTag(i)]
            /\ cache' = IF MissingLocally(u, i) THEN cache
                        ELSE [cache EXCEPT ![u][i].hash = sources[u][i]]
       ELSE /\ jobs' = [jobs EXCEPT ![u][i].at = "skipped"]
            /\ UNCHANGED <<cache, lastTag>>
    /\ UNCHANGED <<sources, mayPush, reachable, stored, file>>

-----------------------------------------------------------------------------
(* The builds, goroutines of their own, and the main loop that collects    *)
(* their results.                                                          *)

\* builder.Build sends the sources as they are now, and pushes the image.
PushImage(u, i) ==
    /\ jobs[u][i].at = "building"
    /\ stored' = [stored EXCEPT ![cache[u][i].store][i][jobs[u][i].tag] = sources[u][i]]
    /\ jobs' = [jobs EXCEPT ![u][i].at = "built"]
    /\ cache' = [cache EXCEPT ![u][i].sure = sources[u][i] = cache[u][i].hash /\ sources[u][i] = read[u][i]]
    /\ UNCHANGED <<sources, mayPush, reachable, lastTag, file, read>>

BuildFails(u, i) ==
    /\ jobs[u][i].at = "building"
    /\ jobs' = [jobs EXCEPT ![u][i].at = "failed"]
    /\ UNCHANGED <<sources, mayPush, reachable, stored, lastTag, file, cache, read>>

\* waitForBuild receives from cacheChan.
CollectBuild(u, i) ==
    /\ jobs[u][i].at = "built"
    /\ jobs' = [jobs EXCEPT ![u][i].at = "finished"]
    /\ cache' = [cache EXCEPT ![u][i].tag = jobs[u][i].tag]
    /\ UNCHANGED <<sources, mayPush, reachable, stored, lastTag, file, read>>

\* Every image was built or skipped.
BuildsDone(u) == \A i \in Images : jobs[u][i].at \in {"finished", "skipped"}

\* At the end of Build the cache is saved if an image was built.
SaveImages(u) == file' = IF Built(u) # {} THEN [file EXCEPT ![u] = cache[u]] ELSE file

-----------------------------------------------------------------------------
(* What happens around the commands.                                       *)

EditSources(u, i) ==
    /\ sources' \in {[sources EXCEPT ![u][i] = v] : v \in Versions \ {sources[u][i]}}
    /\ UNCHANGED <<mayPush, reachable, stored, lastTag, file, cache, jobs, read>>

\* The user logs in to the registry, or the login expires.
ChangeLogin(u) ==
    /\ mayPush' = [mayPush EXCEPT ![u] = ~@]
    /\ UNCHANGED <<sources, reachable, stored, lastTag, file, cache, jobs, read>>

\* The registry in the cluster is restarted without persistent storage.
LoseLocalImages ==
    /\ stored["local"] # [i \in Images |-> [t \in Tags |-> None]]
    /\ stored' = [stored EXCEPT !["local"] = [i \in Images |-> [t \in Tags |-> None]]]
    /\ UNCHANGED <<sources, mayPush, reachable, lastTag, file, cache, jobs, read>>

BuildTypeOK ==
    /\ sources \in [Users -> [Images -> Versions]] /\ mayPush \in [Users -> BOOLEAN] /\ reachable \in BOOLEAN
    /\ stored \in [Stores -> [Images -> [Tags -> Versions \cup {None}]]]
    /\ file \in [Users -> [Images -> ImageCache]] /\ cache \in [Users -> [Images -> ImageCache]]
    /\ jobs \in [Users -> [Images -> Job]] /\ lastTag \in [Images -> Tags]
    /\ read \in [Users -> [Images -> Versions \cup {None}]]
=============================================================================
