--------------------------- MODULE HelperWatcher ---------------------------
(***************************************************************************)
(* The helper in the container when it watches (src/helper/server/         *)
(* downstream.go without Polling): a goroutine turns the events of the     *)
(* file system into a set of changed paths, and the calls ChangesCount and *)
(* Changes of the client turn these into the list of changes the client is *)
(* told.  The list must not miss anything, although events overtake the    *)
(* files they speak of, are dropped when the channel is full, and come     *)
(* while Changes reads one path after the other.                           *)
(*                                                                         *)
(* The events come from a vendored library (github.com/loft-sh/notify): a  *)
(* goroutine per event, in any order, a watch per directory, and for a new *)
(* directory a watch once its event was dispatched.  The library starts in *)
(* a goroutine of its own: a call of the client may come before it is      *)
(* ready, and a directory may be read before it is watched.                *)
(***************************************************************************)
EXTENDS Integers, Sequences, FiniteSets

CONSTANTS
    Paths,          \* files and directories below RemotePath
    Above,          \* the directories a path lies in, RemotePath left out
    Versions,       \* what a file may hold: size and time
    Absent,         \* no file
    NoEvent,        \* the watch loop holds no event
    Capacity,       \* of the channel of events (1000)
    MaxChanges,     \* changed paths that are looked at one by one (100)
    Environments    \* exclude lists, and what users may do

Below(d) == {p \in Paths : d \in Above[p]}

\* paths: what is there and edited; hidden: what the exclude lists name; fullScan: a pattern is
\* negated, so hidden directories are entered; maxEdits is a bound.
Environment == [paths : SUBSET Paths, hidden : SUBSET Paths, fullScan : BOOLEAN, maxEdits : Nat]

ASSUME PathAssumption ==
    /\ Above \in [Paths -> SUBSET Paths]
    /\ \A p \in Paths : p \notin Above[p] /\ \A d \in Above[p] : Above[d] \subseteq Above[p]
    /\ \A p \in Paths : \A d, e \in Above[p] : d = e \/ d \in Above[e] \/ e \in Above[d]
    /\ \A p \in Paths : Above[p] # {} => \E d \in Above[p] : Above[d] = {}
    /\ \A p \in Paths : \A d \in Above[p] : \E c \in Above[p] \cup {p} : Above[c] = Above[d] \cup {d}
    /\ {Absent, "dir"} \cap Versions = {} /\ Absent # "dir" /\ NoEvent \notin Paths
ASSUME CapacityAssumption == Capacity \in Nat \ {0} /\ MaxChanges \in Nat
ASSUME EnvironmentAssumption ==
    /\ Environments \subseteq Environment
    /\ \A e \in Environments : ~e.fullScan => \A p \in e.hidden : Below(p) \subseteq e.hidden

VARIABLES
    fs,             \* the files: Absent, "dir" or a version
    away,           \* what was moved out of RemotePath and may come back
    edits,          \* number of edits, for the bound
    env,            \* the environment, chosen once
    root,           \* is RemotePath watched?
    watches,        \* the watched directories below it
    dispatching,    \* events on their way to the channel
    events,         \* Downstream.events
    held,           \* the event the watch loop has taken
    changes,        \* Downstream.changes
    rescan,         \* Downstream.lastRescan = nil
    watchedFiles,   \* Downstream.watchedFiles: what the client was told
    call,           \* "none", "read" (in getWatchState) or "stream"
    newState,       \* the state getWatchState collects
    toApply,        \* changed paths not looked at yet
    visit,          \* names of directories walkDir has not come to yet
    last,           \* lastAmountChanges of the client; -1: it did not ask yet
    missed,         \* history: paths edited where nothing watches, and not looked at since
    left            \* history: paths still in the list after a look at them, or at a directory
                    \* above that the list did not have as one, and not read since

userVars  == <<fs, away, edits, env>>
eventVars == <<root, watches, dispatching, events>>
watchVars == <<held, changes, rescan>>
callVars  == <<watchedFiles, call, newState, toApply, visit, last>>
history   == <<missed, left>>
vars      == <<userVars, eventVars, watchVars, callVars, history>>

Nodes    == Versions \cup {Absent, "dir"}
Nothing  == [p \in Paths |-> Absent]
Within(d) == Below(d) \cup {d}
Upward(p) == Above[p] \cup {p}

\* The names ReadDir returns for a directory, and for RemotePath.
Names(d)  == {p \in Paths : fs[p] # Absent /\ Above[p] = Above[d] \cup {d}}
RootNames == {p \in Paths : fs[p] # Absent /\ Above[p] = {}}

Tree(f) == \A p \in Paths : f[p] # Absent => \A d \in Above[p] : f[d] = "dir"

Init ==
    /\ env \in Environments /\ edits = 0 /\ away = Nothing
    /\ fs \in {f \in [Paths -> Nodes] : Tree(f) /\ \A p \in Paths \ env.paths : f[p] = Absent}
    /\ root = FALSE /\ watches = {} /\ dispatching = {} /\ events = <<>>
    /\ held = NoEvent /\ changes = {} /\ rescan = TRUE
    /\ watchedFiles = Nothing /\ call = "none" /\ newState = Nothing
    /\ toApply = {} /\ visit = {} /\ last = -1
    /\ missed = {} /\ left = {}

-----------------------------------------------------------------------------
(* Users, programs and uploads change files; the kernel tells the library. *)

\* An event of p reaches the library if the directory of p is watched.
Emit(p) ==
    IF root /\ Above[p] \subseteq watches
    THEN dispatching' = dispatching \cup {p} /\ UNCHANGED missed
    ELSE missed' = missed \cup {p} /\ UNCHANGED dispatching

Edit(p, f) ==
    /\ edits < env.maxEdits /\ edits' = edits + 1
    /\ fs' = f /\ Emit(p)
    /\ UNCHANGED <<env, root, events, watchVars, callVars, left>>

Write(p) ==
    /\ fs[p] # "dir" /\ \A d \in Above[p] : fs[d] = "dir"
    /\ \E v \in Versions \ {fs[p]} : Edit(p, [fs EXCEPT ![p] = v])
    /\ UNCHANGED <<away, watches>>

Mkdir(p) ==
    /\ fs[p] = Absent /\ away[p] = Absent /\ \A d \in Above[p] : fs[d] = "dir"
    /\ Edit(p, [fs EXCEPT ![p] = "dir"])
    /\ UNCHANGED <<away, watches>>

Remove(p) ==
    /\ fs[p] # Absent /\ \A q \in Below(p) : fs[q] = Absent
    /\ Edit(p, [fs EXCEPT ![p] = Absent])
    /\ watches' = watches \ {p}
    /\ UNCHANGED away

\* One event for all that a directory holds; its watches stay.
MoveOut(d) ==
    /\ fs[d] = "dir" /\ \A p \in Within(d) : away[p] = Absent
    /\ Edit(d, [p \in Paths |-> IF p \in Within(d) THEN Absent ELSE fs[p]])
    /\ away' = [p \in Paths |-> IF p \in Within(d) THEN fs[p] ELSE away[p]]
    /\ UNCHANGED watches

MoveBack(d) ==
    /\ away[d] = "dir" /\ \A p \in Above[d] : fs[p] = "dir"
    /\ fs[d] = Absent
    /\ Edit(d, [p \in Paths |-> IF p \in Within(d) THEN away[p] ELSE fs[p]])
    /\ away' = [p \in Paths |-> IF p \in Within(d) THEN Absent ELSE away[p]]
    /\ UNCHANGED watches

User == \E p \in env.paths : Write(p) \/ Mkdir(p) \/ Remove(p) \/ MoveOut(p) \/ MoveBack(p)

-----------------------------------------------------------------------------
(* The library.                                                            *)

InstallRoot ==
    /\ ~root /\ root' = TRUE
    /\ UNCHANGED <<userVars, watches, dispatching, events, watchVars, callVars, history>>

\* nonrecursiveTree.internal and AddDir: after the event of the directory was dispatched.
InstallWatch(d) ==
    /\ root /\ fs[d] = "dir" /\ d \notin watches /\ d \notin dispatching
    /\ Above[d] \subseteq watches
    /\ watches' = watches \cup {d}
    /\ UNCHANGED <<userVars, root, dispatching, events, watchVars, callVars, history>>

\* watchpoint.Dispatch: an event is dropped when the channel is full.
Dispatch(p) ==
    /\ p \in dispatching /\ dispatching' = dispatching \ {p}
    /\ events' = IF Len(events) < Capacity THEN Append(events, p) ELSE events
    /\ UNCHANGED <<userVars, root, watches, watchVars, callVars, history>>

-----------------------------------------------------------------------------
(* The goroutine watch.  getWatchState holds the mutex it takes.           *)

WatchReceive ==
    /\ held = NoEvent /\ events # <<>>
    /\ held' = Head(events) /\ events' = Tail(events)
    /\ UNCHANGED <<userVars, root, watches, dispatching, changes, rescan, callVars, history>>

\* Slip: only a full channel counts.
OverflowAtFull == Len(events) >= Capacity

Overflow == Len(events) >= Capacity - 1

WatchNote ==
    /\ held # NoEvent /\ call # "read"
    /\ held' = NoEvent
    /\ IF Overflow THEN rescan' = TRUE /\ UNCHANGED changes
       ELSE /\ changes' = IF Above[held] \cap changes = {} THEN changes \cup {held} ELSE changes
            /\ UNCHANGED rescan
    /\ UNCHANGED <<userVars, eventVars, callVars, history>>

-----------------------------------------------------------------------------
(* The calls of the client.                                                *)

\* Slip: only paths the client knows count.
ChangesKnown == IF rescan THEN 1 ELSE Cardinality({p \in changes : watchedFiles[p] # Absent})

ChangesCount == IF rescan THEN 1 ELSE Cardinality(changes)

\* getWatchState up to the first file it reads; "expired": rescanPeriod is over.  Without
\* changes the code returns nil, which streams as little as an unchanged copy does.
GetWatchState(expired) ==
    /\ call' = "read"
    /\ changes' = {}
    /\ IF rescan \/ expired \/ Cardinality(changes) > MaxChanges
       THEN /\ rescan' = FALSE /\ missed' = {} /\ left' = {}
            /\ newState' = Nothing /\ visit' = RootNames /\ toApply' = {}
       ELSE /\ newState' = watchedFiles /\ visit' = {} /\ toApply' = changes
            /\ UNCHANGED <<rescan, history>>
    /\ UNCHANGED <<userVars, eventVars, held, watchedFiles>>

\* downstream.populateFileMap of the client.
PopulateFileMap ==
    /\ last = -1 /\ last' = 0
    /\ GetWatchState(FALSE)

\* A round of downstream.mainLoop of the client; "waited": changeTimer is over.
MainLoop ==
    /\ call = "none" /\ last >= 0
    /\ \E waited, expired \in BOOLEAN :
         IF last > 0 /\ (waited \/ ChangesCount = last)
         THEN last' = 0 /\ GetWatchState(expired)
         ELSE /\ last' = ChangesCount
              /\ UNCHANGED <<userVars, eventVars, watchVars, watchedFiles, call, newState, toApply, visit, history>>

\* What the exclude lists leave: for the list, and for walkDir to descend into.
Visible(p) == IF p \in env.hidden THEN Absent ELSE fs[p]
Entered(p) == fs[p] = "dir" /\ (env.fullScan \/ p \notin env.hidden)

\* What a look at p may leave in the list: nothing, if deletePathFromState clears it.
Uncleared(p) == IF p \in toApply /\ watchedFiles[p] = "dir" THEN {} ELSE Within(p)

\* The stat and ReadDir of one path by walkDir or applyChange.
Look(state, p) ==
    /\ newState' = IF Visible(p) # Absent THEN [state EXCEPT ![p] = Visible(p)] ELSE state
    /\ visit' = (visit \ {p}) \cup (IF Entered(p) THEN Names(p) ELSE {})
    /\ missed' = missed \ {p}
    /\ left' = {q \in left \cup Uncleared(p) : newState'[q] # Absent} \ (IF Visible(p) # Absent THEN {p} ELSE {})

WalkDir(p) ==
    /\ call = "read" /\ p \in visit
    /\ Look(newState, p)
    /\ UNCHANGED <<userVars, eventVars, watchVars, watchedFiles, call, toApply, last>>

\* deletePathFromState if the path was a directory.
Cleaned(p) ==
    [q \in Paths |-> IF \/ q = p /\ watchedFiles[p] # Absent
                        \/ watchedFiles[p] = "dir" /\ q \in Below(p) THEN Absent ELSE newState[q]]

ApplyChange(p) ==
    /\ call = "read" /\ visit = {} /\ p \in toApply
    /\ toApply' = toApply \ {p}
    /\ Look(Cleaned(p), p)
    /\ UNCHANGED <<userVars, eventVars, watchVars, watchedFiles, call, last>>

\* getWatchState returns and gives the mutex back.
StateCollected ==
    /\ call = "read" /\ visit = {} /\ toApply = {}
    /\ call' = "stream"
    /\ UNCHANGED <<userVars, eventVars, watchVars, watchedFiles, newState, toApply, visit, last, history>>

\* streamChanges, and the state that was streamed is kept.
StreamChanges ==
    /\ call = "stream" /\ call' = "none"
    /\ watchedFiles' = newState /\ newState' = Nothing
    /\ UNCHANGED <<userVars, eventVars, watchVars, toApply, visit, last, history>>

HelperStep == StateCollected \/ StreamChanges \/ \E p \in Paths : WalkDir(p) \/ ApplyChange(p)
ClientStep == PopulateFileMap \/ MainLoop
WatchStep  == WatchReceive \/ WatchNote
LibraryStep == InstallRoot \/ \E p \in Paths : InstallWatch(p) \/ Dispatch(p)

Next == User \/ LibraryStep \/ WatchStep \/ ClientStep \/ HelperStep

Spec == Init /\ [][Next]_vars

Fairness ==
    /\ WF_vars(InstallRoot) /\ \A p \in Paths : WF_vars(InstallWatch(p)) /\ WF_vars(Dispatch(p))
    /\ WF_vars(WatchStep) /\ WF_vars(ClientStep) /\ WF_vars(HelperStep)

FairSpec == Spec /\ Fairness

-----------------------------------------------------------------------------
\* What the variables of the helper (Downstream) and the library may hold.
TypeOK ==
    /\ fs \in [Paths -> Nodes] /\ Tree(fs) /\ away \in [Paths -> Nodes] /\ edits \in Nat /\ env \in Environments
    /\ root \in BOOLEAN /\ watches \subseteq Paths /\ dispatching \subseteq Paths
    /\ events \in Seq(Paths) /\ Len(events) <= Capacity
    /\ held \in Paths \cup {NoEvent} /\ changes \subseteq Paths /\ rescan \in BOOLEAN
    /\ watchedFiles \in [Paths -> Nodes] /\ newState \in [Paths -> Nodes]
    /\ call \in {"none", "read", "stream"} /\ toApply \subseteq Paths /\ visit \subseteq Paths
    /\ last \in Int /\ last >= -1 /\ missed \subseteq Paths /\ left \subseteq Paths

\* A dropped event is noticed by the next WatchNote.
OverflowAhead == Len(events) >= Capacity \/ (held # NoEvent /\ Len(events) >= Capacity - 1)

\* What the client was told, or is about to be.
Told == IF call = "none" THEN watchedFiles ELSE newState

\* Paths whose events, or whose turn in getWatchState, are still to come.
UnderWay == dispatching \cup {events[i] : i \in DOMAIN events} \cup {held} \cup changes
            \cup (IF call = "read" THEN toApply \cup visit ELSE {})

\* Nothing tells of p any more: it, or a directory above, was edited where nothing watches,
\* after it was looked at (WatchWithFilter comes too late), or it is still in the list after
\* applyChange of a directory above, which the list did not have as one.
Lost(p) == Upward(p) \cap missed # {} \/ p \in left

\* Whatever the client was told wrongly or not at all is about to be looked at: an event of
\* the path or of a directory above it is under way, or a rescan is (streamChanges, watch);
\* or it is lost in one of the two ways there are.
NothingForgotten ==
    rescan \/ OverflowAhead \/ \A p \in Paths :
        Told[p] # Visible(p) => Upward(p) \cap UnderWay # {} \/ Lost(p)

\* Once the users stop, the client hears of all they did (Changes, mainLoop), but for that.
EverythingTold == <>[](call = "none" => \A p \in Paths : watchedFiles[p] = Visible(p) \/ Lost(p))

\* The same without the two exceptions, which the code violates.
NothingLost ==
    rescan \/ OverflowAhead \/ \A p \in Paths : Told[p] # Visible(p) => Upward(p) \cap UnderWay # {}
EverythingHeard == <>[](call = "none" => \A p \in Paths : watchedFiles[p] = Visible(p))
=============================================================================
