------------------------- MODULE HelperWatcherProofs -------------------------
(***************************************************************************)
(* What the helper cannot forget while it watches, and the two ways in     *)
(* which it can.                                                           *)
(*                                                                         *)
(* A change travels along a line: the event is dispatched, waits in the    *)
(* channel, is held by the watch loop, waits among the changed paths, is   *)
(* taken by getWatchState and read there.  The proof follows three parts:  *)
(*                                                                         *)
(*   Shape    what is there, and what was moved away, are trees;           *)
(*   Scan     getWatchState reads only within a call of the client;        *)
(*   Sure     unless all is read anew, whatever the client was told        *)
(*            wrongly has its own event or turn, or that of a directory    *)
(*            above, ahead, or is lost in one of the two ways.             *)
(***************************************************************************)
EXTENDS HelperWatcher, FiniteSetTheorems, TLAPS

-----------------------------------------------------------------------------
(* Paths, environments and sequences.                                      *)

\* The directories above a path are other paths, and what is above them is above it.
LEMMA AboveLemma ==
    ASSUME NEW p \in Paths
    PROVE  /\ Above[p] \subseteq Paths /\ p \notin Above[p]
           /\ \A d \in Above[p] : Above[d] \subseteq Above[p] /\ d # p /\ p \notin Above[d]
BY PathAssumption

\* What is within a directory is what has it above it or is it, and is closed downwards.
LEMMA WithinLemma ==
    ASSUME NEW p \in Paths
    PROVE  /\ Within(p) = {q \in Paths : p \in Upward(q)} /\ Upward(p) \subseteq Paths
           /\ p \in Within(p) /\ p \notin Below(p) /\ Above[p] \cap Within(p) = {}
           /\ \A q \in Within(p) : Within(q) \subseteq Within(p) /\ Upward(p) \subseteq Upward(q)
           /\ \A q \in Paths \ Within(p) : Upward(q) \cap Within(p) = {}
BY AboveLemma DEF Within, Below, Upward

\* Every path is or lies in one that is directly below RemotePath.
LEMMA TopLemma ==
    ASSUME NEW p \in Paths
    PROVE  \E d \in Upward(p) : d \in Paths /\ Above[d] = {}
BY PathAssumption DEF Upward

\* On the way from a directory to a path below it comes a name of that directory.
LEMMA NextLemma ==
    ASSUME NEW p \in Paths, NEW d \in Above[p]
    PROVE  \E c \in Upward(p) : c \in Paths /\ Above[c] = Above[d] \cup {d}
BY PathAssumption DEF Upward

\* What an environment is made of.
LEMMA EnvLemma ==
    ASSUME NEW e \in Environments
    PROVE  e.paths \subseteq Paths /\ e.hidden \subseteq Paths
BY EnvironmentAssumption DEF Environment

\* Append adds one element at the end.
LEMMA AppendLemma ==
    ASSUME NEW s \in Seq(Paths), NEW p \in Paths
    PROVE  /\ Append(s, p) \in Seq(Paths) /\ Len(Append(s, p)) = Len(s) + 1
           /\ \A i \in 1 .. Len(s) : Append(s, p)[i] = s[i]
           /\ Append(s, p)[Len(s) + 1] = p
OBVIOUS

\* Tail leaves out the first element.
LEMMA TailLemma ==
    ASSUME NEW s \in Seq(Paths), s # <<>>
    PROVE  /\ Head(s) \in Paths /\ Head(s) = s[1] /\ Len(s) \in Nat /\ Len(s) >= 1
           /\ Tail(s) \in Seq(Paths) /\ Len(Tail(s)) = Len(s) - 1
           /\ \A i \in 1 .. Len(s) - 1 : Tail(s)[i] = s[i + 1]
OBVIOUS

-----------------------------------------------------------------------------
(* What is there, and what was moved away.                                 *)

\* What was moved away is not there as a directory, and comes back complete.
Away ==
    \A q \in Paths : away[q] # Absent =>
        /\ fs[q] # "dir"
        /\ \A d \in Above[q] : away[d] # Absent =>
               \A e \in Above[q] \cap Below(d) : away[e] = "dir"

Shape == TypeOK /\ Away /\ IsFiniteSet(changes)

\* Every path has a directory above it if it is there.
LEMMA TreeLemma ==
    ASSUME TypeOK, NEW p \in Paths, fs[p] # Absent, NEW d \in Above[p]
    PROVE  fs[d] = "dir" /\ d \in Paths
BY AboveLemma DEF TypeOK, Tree

\* An edit of what is within p below directories that are there leaves a tree if what is
\* within p is one.
LEMMA EditedTree ==
    ASSUME TypeOK, NEW p \in Paths, NEW f \in [Paths -> Nodes],
           \A d \in Above[p] : fs[d] = "dir",
           \A q \in Paths \ Within(p) : f[q] = fs[q],
           \A q \in Below(p) : f[q] # Absent =>
               f[p] = "dir" /\ \A e \in Above[q] \cap Below(p) : f[e] = "dir"
    PROVE  Tree(f)
<1> SUFFICES ASSUME NEW q \in Paths, f[q] # Absent, NEW d \in Above[q] PROVE f[d] = "dir"
    BY DEF Tree
<1>0. d \in Paths BY AboveLemma
<1>1. CASE q \notin Within(p)
    <2>1. fs[q] # Absent BY <1>1
    <2>2. fs[d] = "dir" BY <2>1, TreeLemma
    <2>3. d \notin Within(p) BY <1>1, WithinLemma DEF Upward
    <2> QED BY <1>0, <2>2, <2>3
<1>2. CASE q = p BY <1>2, <1>0, WithinLemma
<1>3. CASE q \in Below(p)
    <2>1. CASE d \in Within(p) BY <2>1, <1>3 DEF Within
    <2>2. CASE d \notin Within(p)
        <3>1. p \in Above[q] BY <1>3 DEF Below
        <3>2. d \in Above[p] BY <3>1, <2>2, <1>0, PathAssumption DEF Within, Below
        <3> QED BY <3>2, <2>2, <1>0
    <2> QED BY <2>1, <2>2
<1> QED BY <1>1, <1>2, <1>3 DEF Within
\* What every edit of p does.
EditOf(p) ==
    /\ UNCHANGED <<env, root, events, watchVars, callVars, left>> /\ Emit(p)
    /\ fs' \in [Paths -> Nodes] /\ \A q \in Paths \ Within(p) : fs'[q] = fs[q]
    /\ \A d \in Above[p] : fs[d] = "dir"
    /\ watches' \subseteq watches

\* An edit keeps the shape of what is there and of what was moved away, and is an EditOf.
LEMMA WriteLemma ==
    ASSUME Shape, NEW p \in Paths, Write(p)
    PROVE  EditOf(p) /\ Tree(fs') /\ away' \in [Paths -> Nodes] /\ Away'
<1>1. PICK v \in Versions \ {fs[p]} : Edit(p, [fs EXCEPT ![p] = v]) BY DEF Write
<1>2. /\ fs \in [Paths -> Nodes] /\ v \in Nodes /\ v # Absent /\ v # "dir"
      /\ fs' = [fs EXCEPT ![p] = v]
    BY <1>1, PathAssumption DEF Edit, Shape, TypeOK, Nodes
<1>3. EditOf(p) BY <1>1, <1>2, WithinLemma DEF EditOf, Edit, Write, watchVars, callVars
<1>4. ASSUME NEW q \in Below(p) PROVE fs[q] = Absent
    BY TreeLemma DEF Write, Below, Shape
<1>5. Tree(fs')
    <2>1. \A q \in Below(p) : fs'[q] = Absent BY <1>2, <1>4, WithinLemma DEF Below
    <2> QED BY <2>1, <1>3, EditedTree DEF EditOf, Shape
<1>6. Away'
    <2> SUFFICES ASSUME NEW q \in Paths, away[q] # Absent PROVE fs'[q] # "dir"
        BY DEF Away, Shape, Write
    <2> QED BY <1>2 DEF Shape, Away
<1> QED BY <1>3, <1>5, <1>6 DEF Write, Shape, TypeOK

LEMMA MkdirLemma ==
    ASSUME Shape, NEW p \in Paths, Mkdir(p)
    PROVE  EditOf(p) /\ Tree(fs') /\ away' \in [Paths -> Nodes] /\ Away'
<1>1. /\ fs \in [Paths -> Nodes] /\ "dir" \in Nodes /\ fs' = [fs EXCEPT ![p] = "dir"]
    BY DEF Mkdir, Edit, Shape, TypeOK, Nodes
<1>3. EditOf(p) BY <1>1, WithinLemma DEF EditOf, Edit, Mkdir, watchVars, callVars
<1>4. ASSUME NEW q \in Below(p) PROVE fs[q] = Absent
    BY TreeLemma, PathAssumption DEF Mkdir, Below, Shape
<1>5. Tree(fs')
    <2>1. \A q \in Below(p) : fs'[q] = Absent BY <1>1, <1>4, WithinLemma DEF Below
    <2> QED BY <2>1, <1>3, EditedTree DEF EditOf, Shape
<1>6. Away'
    <2> SUFFICES ASSUME NEW q \in Paths, away[q] # Absent PROVE fs'[q] # "dir"
        BY DEF Away, Shape, Mkdir
    <2> QED BY <1>1 DEF Shape, Away, Mkdir
<1> QED BY <1>3, <1>5, <1>6 DEF Mkdir, Shape, TypeOK

LEMMA RemoveLemma ==
    ASSUME Shape, NEW p \in Paths, Remove(p)
    PROVE  EditOf(p) /\ Tree(fs') /\ away' \in [Paths -> Nodes] /\ Away'
<1>1. /\ fs \in [Paths -> Nodes] /\ Absent \in Nodes /\ Absent # "dir"
      /\ fs' = [fs EXCEPT ![p] = Absent]
    BY PathAssumption DEF Remove, Edit, Shape, TypeOK, Nodes
<1>2. \A d \in Above[p] : fs[d] = "dir" BY TreeLemma DEF Remove, Shape
<1>3. EditOf(p) BY <1>1, <1>2, WithinLemma DEF EditOf, Edit, Remove, watchVars, callVars
<1>5. Tree(fs')
    <2>1. \A q \in Below(p) : fs'[q] = Absent BY <1>1, WithinLemma DEF Below, Remove
    <2> QED BY <2>1, <1>2, <1>3, EditedTree DEF EditOf, Shape
<1>6. Away'
    <2> SUFFICES ASSUME NEW q \in Paths, away[q] # Absent PROVE fs'[q] # "dir"
        BY DEF Away, Shape, Remove
    <2> QED BY <1>1 DEF Shape, Away
<1> QED BY <1>3, <1>5, <1>6 DEF Remove, Shape, TypeOK

LEMMA MoveOutLemma ==
    ASSUME Shape, NEW p \in Paths, MoveOut(p)
    PROVE  EditOf(p) /\ Tree(fs') /\ away' \in [Paths -> Nodes] /\ Away'
<1>1. /\ fs \in [Paths -> Nodes] /\ Absent \in Nodes /\ Absent # "dir"
      /\ away \in [Paths -> Nodes]
      /\ fs' = [q \in Paths |-> IF q \in Within(p) THEN Absent ELSE fs[q]]
      /\ away' = [q \in Paths |-> IF q \in Within(p) THEN fs[q] ELSE away[q]]
    BY PathAssumption DEF MoveOut, Edit, Shape, TypeOK, Nodes
<1>2. \A d \in Above[p] : fs[d] = "dir" BY TreeLemma, PathAssumption DEF MoveOut, Shape
<1>3. EditOf(p) BY <1>1, <1>2, WithinLemma DEF EditOf, Edit, MoveOut, watchVars, callVars
<1>5. Tree(fs')
    <2>1. \A q \in Below(p) : fs'[q] = Absent BY <1>1, WithinLemma DEF Below, Within
    <2> QED BY <2>1, <1>2, <1>3, EditedTree DEF EditOf, Shape
<1>6. Away'
    <2> SUFFICES ASSUME NEW q \in Paths, away'[q] # Absent
                 PROVE  /\ fs'[q] # "dir"
                        /\ \A d \in Above[q] : away'[d] # Absent =>
                              \A e \in Above[q] \cap Below(d) : away'[e] = "dir"
        BY DEF Away
    <2>1. fs'[q] # "dir" BY <1>1 DEF Shape, Away
    <2>2. ASSUME NEW d \in Above[q], away'[d] # Absent, NEW e \in Above[q] \cap Below(d)
          PROVE  away'[e] = "dir"
        <3>0. d \in Paths /\ e \in Paths BY AboveLemma
        <3>1. CASE q \in Within(p)
            <4>1. fs[q] # Absent BY <3>1, <1>1
            <4>2. fs[d] = "dir" /\ fs[e] = "dir" BY <4>1, TreeLemma DEF Shape
            <4>3. d \in Within(p) BY <4>2, <2>2, <1>1, <3>0 DEF Shape, Away
            <4>4. e \in Within(p) BY <4>3, WithinLemma, <3>0 DEF Within
            <4> QED BY <4>4, <4>2, <1>1, <3>0
        <3>2. CASE q \notin Within(p)
            <4>1. d \notin Within(p) /\ e \notin Within(p) BY <3>2, WithinLemma DEF Upward
            <4> QED BY <4>1, <3>2, <1>1, <3>0, <2>2 DEF Shape, Away
        <3> QED BY <3>1, <3>2
    <2> QED BY <2>1, <2>2
<1> QED BY <1>1, <1>3, <1>5, <1>6

LEMMA MoveBackLemma ==
    ASSUME Shape, NEW p \in Paths, MoveBack(p)
    PROVE  EditOf(p) /\ Tree(fs') /\ away' \in [Paths -> Nodes] /\ Away'
<1>1. /\ fs \in [Paths -> Nodes] /\ Absent \in Nodes /\ Absent # "dir"
      /\ away \in [Paths -> Nodes]
      /\ fs' = [q \in Paths |-> IF q \in Within(p) THEN away[q] ELSE fs[q]]
      /\ away' = [q \in Paths |-> IF q \in Within(p) THEN Absent ELSE away[q]]
    BY PathAssumption DEF MoveBack, Edit, Shape, TypeOK, Nodes
<1>3. EditOf(p) BY <1>1, WithinLemma DEF EditOf, Edit, MoveBack, watchVars, callVars
<1>5. Tree(fs')
    <2>1. ASSUME NEW q \in Below(p), fs'[q] # Absent
          PROVE  fs'[p] = "dir" /\ \A e \in Above[q] \cap Below(p) : fs'[e] = "dir"
        <3>1. q \in Paths /\ p \in Above[q] /\ q \in Within(p) BY DEF Below, Within
        <3>2. away[q] # Absent BY <2>1, <3>1, <1>1
        <3>3. away[p] = "dir" /\ fs'[p] = "dir" BY <1>1, WithinLemma DEF MoveBack
        <3>4. \A e \in Above[q] \cap Below(p) : away[e] = "dir"
            BY <3>1, <3>2, <3>3, <1>1 DEF Shape, Away
        <3>5. \A e \in Above[q] \cap Below(p) : fs'[e] = "dir"
            BY <3>4, <1>1 DEF Below, Within
        <3> QED BY <3>3, <3>5
    <2> QED BY <2>1, <1>3, EditedTree DEF EditOf, Shape
<1>6. Away'
    <2> SUFFICES ASSUME NEW q \in Paths, away'[q] # Absent
                 PROVE  /\ fs'[q] # "dir"
                        /\ \A d \in Above[q] : away'[d] # Absent =>
                              \A e \in Above[q] \cap Below(d) : away'[e] = "dir"
        BY DEF Away
    <2>1. q \notin Within(p) /\ away[q] # Absent BY <1>1
    <2>2. fs'[q] # "dir" BY <1>1, <2>1 DEF Shape, Away
    <2>3. ASSUME NEW d \in Above[q], away'[d] # Absent, NEW e \in Above[q] \cap Below(d)
          PROVE  away'[e] = "dir"
        <3>0. d \in Paths /\ e \in Paths BY AboveLemma
        <3>1. d \notin Within(p) /\ e \notin Within(p) BY <2>1, WithinLemma DEF Upward
        <3> QED BY <3>0, <3>1, <2>1, <1>1, <2>3 DEF Shape, Away
    <2> QED BY <2>2, <2>3
<1> QED BY <1>1, <1>3, <1>5, <1>6

\* Every edit is an EditOf, and keeps the shape.
LEMMA UserLemma ==
    ASSUME Shape, User
    PROVE  /\ \E p \in Paths : EditOf(p)
           /\ edits' \in Nat /\ Tree(fs') /\ away' \in [Paths -> Nodes] /\ Away'
<1>1. PICK p \in env.paths : Write(p) \/ Mkdir(p) \/ Remove(p) \/ MoveOut(p) \/ MoveBack(p)
    BY DEF User
<1>2. p \in Paths BY EnvLemma DEF Shape, TypeOK
<1>3. EditOf(p) /\ Tree(fs') /\ away' \in [Paths -> Nodes] /\ Away'
    BY <1>1, <1>2, WriteLemma, MkdirLemma, RemoveLemma, MoveOutLemma, MoveBackLemma
<1>4. edits' \in Nat
    BY <1>1 DEF Write, Mkdir, Remove, MoveOut, MoveBack, Edit, Shape, TypeOK
<1> QED BY <1>2, <1>3, <1>4

\* The rest of the types after an edit.
LEMMA UserShape ==
    ASSUME Shape, User PROVE Shape'
<1>1. PICK p \in Paths : EditOf(p) BY UserLemma
<1>2. /\ fs' \in [Paths -> Nodes] /\ watches' \subseteq Paths /\ dispatching' \subseteq Paths
      /\ missed' \subseteq Paths
    BY <1>1 DEF EditOf, Emit, Shape, TypeOK
<1> QED BY <1>1, <1>2, UserLemma DEF EditOf, Shape, TypeOK, watchVars, callVars

\* The library keeps the shape.
LEMMA LibraryShape ==
    ASSUME Shape, LibraryStep PROVE Shape'
<1> USE DEF Shape, TypeOK, userVars, watchVars, callVars, history
<1>1. CASE InstallRoot BY <1>1 DEF InstallRoot, Away
<1>2. ASSUME NEW p \in Paths, InstallWatch(p) PROVE Shape' BY <1>2 DEF InstallWatch, Away
<1>3. ASSUME NEW p \in Paths, Dispatch(p) PROVE Shape'
    <2>1. events' \in Seq(Paths) /\ Len(events') <= Capacity
        BY <1>3, AppendLemma, CapacityAssumption DEF Dispatch
    <2> QED BY <1>3, <2>1 DEF Dispatch, Away
<1> QED BY <1>1, <1>2, <1>3 DEF LibraryStep

\* So does the goroutine watch.
LEMMA WatchShape ==
    ASSUME Shape, WatchStep PROVE Shape'
<1>1. CASE WatchReceive
    <2>1. events' \in Seq(Paths) /\ Len(events') <= Capacity /\ held' \in Paths
        BY <1>1, TailLemma, CapacityAssumption DEF WatchReceive, Shape, TypeOK
    <2> QED BY <1>1, <2>1 DEF WatchReceive, Shape, TypeOK, userVars, callVars, history, Away
<1>2. CASE WatchNote
    <2>1. IsFiniteSet(changes \cup {held}) BY FS_AddElement DEF Shape
    <2>2. changes' \subseteq Paths /\ IsFiniteSet(changes') /\ rescan' \in BOOLEAN
        BY <1>2, <2>1 DEF WatchNote, Shape, TypeOK
    <2> QED BY <1>2, <2>2 DEF WatchNote, Shape, TypeOK, userVars, eventVars, callVars, history, Away
<1> QED BY <1>1, <1>2 DEF WatchStep

\* And a call that begins.
LEMMA GetWatchShape ==
    ASSUME Shape, NEW expired \in BOOLEAN, GetWatchState(expired), last' \in Int, last' >= -1
    PROVE  Shape'
<1>1. changes' \subseteq Paths /\ IsFiniteSet(changes') /\ rescan' \in BOOLEAN
    BY FS_EmptySet DEF GetWatchState, Shape, TypeOK
<1>2. newState' \in [Paths -> Nodes] /\ visit' \subseteq Paths /\ toApply' \subseteq Paths
    BY DEF GetWatchState, Shape, TypeOK, Nothing, Nodes, RootNames
<1>3. missed' \subseteq Paths /\ left' \subseteq Paths
    BY DEF GetWatchState, Shape, TypeOK, history
<1> QED BY <1>1, <1>2, <1>3 DEF GetWatchState, Shape, TypeOK, userVars, eventVars, Away

LEMMA ClientShape ==
    ASSUME Shape, ClientStep PROVE Shape'
<1>1. CASE PopulateFileMap
    <2>1. GetWatchState(FALSE) /\ last' = 0 BY <1>1 DEF PopulateFileMap
    <2>2. FALSE \in BOOLEAN /\ last' \in Int /\ last' >= -1 BY <2>1
    <2> QED BY <2>1, <2>2, GetWatchShape
<1>2. CASE MainLoop
    <2>1. PICK waited, expired \in BOOLEAN :
             IF last > 0 /\ (waited \/ ChangesCount = last)
             THEN last' = 0 /\ GetWatchState(expired)
             ELSE /\ last' = ChangesCount
                  /\ UNCHANGED <<userVars, eventVars, watchVars, watchedFiles, call, newState, toApply, visit, history>>
        BY <1>2 DEF MainLoop
    <2>2. ChangesCount \in Nat BY FS_CardinalityType DEF ChangesCount, Shape
    <2>3. CASE last' = 0 /\ GetWatchState(expired) BY <2>3, GetWatchShape
    <2>4. CASE /\ last' = ChangesCount
               /\ UNCHANGED <<userVars, eventVars, watchVars, watchedFiles, call, newState, toApply, visit, history>>
        BY <2>2, <2>4 DEF Shape, TypeOK, userVars, eventVars, watchVars, history, Away
    <2> QED BY <2>1, <2>3, <2>4
<1> QED BY <1>1, <1>2 DEF ClientStep

LEMMA HelperShape ==
    ASSUME Shape, HelperStep PROVE Shape'
<1>1. ASSUME NEW p \in Paths, NEW s \in [Paths -> Nodes], Look(s, p)
      PROVE  /\ newState' \in [Paths -> Nodes] /\ visit' \subseteq Paths
             /\ missed' \subseteq Paths /\ left' \subseteq Paths
    <2>1. Visible(p) \in Nodes BY DEF Visible, Shape, TypeOK, Nodes
    <2>2. Names(p) \subseteq Paths BY DEF Names
    <2>3. Uncleared(p) \subseteq Paths BY DEF Uncleared, Within, Below
    <2> QED BY <1>1, <2>1, <2>2, <2>3 DEF Look, Shape, TypeOK
<1>2. ASSUME NEW p \in Paths PROVE Cleaned(p) \in [Paths -> Nodes]
    BY DEF Cleaned, Shape, TypeOK, Nodes
<1> USE DEF Shape, TypeOK, userVars, eventVars, watchVars, history
<1>3. CASE StateCollected BY <1>3 DEF StateCollected, Away
<1>4. CASE StreamChanges
    <2>1. Nothing \in [Paths -> Nodes] BY DEF Nothing, Nodes
    <2> QED BY <1>4, <2>1 DEF StreamChanges, Away
<1>5. ASSUME NEW p \in Paths, WalkDir(p) PROVE Shape'
    <2>1. /\ newState' \in [Paths -> Nodes] /\ visit' \subseteq Paths
          /\ missed' \subseteq Paths /\ left' \subseteq Paths
        BY <1>5, <1>1 DEF WalkDir
    <2> QED BY <1>5, <2>1 DEF WalkDir, Away
<1>6. ASSUME NEW p \in Paths, ApplyChange(p) PROVE Shape'
    <2>1. /\ newState' \in [Paths -> Nodes] /\ visit' \subseteq Paths
          /\ missed' \subseteq Paths /\ left' \subseteq Paths
        BY <1>6, <1>1, <1>2 DEF ApplyChange
    <2> QED BY <1>6, <2>1 DEF ApplyChange, Away
<1> QED BY <1>3, <1>4, <1>5, <1>6 DEF HelperStep

LEMMA ShapeInvariant == Spec => []Shape
<1>1. Init => Shape
    <2> SUFFICES ASSUME Init PROVE Shape OBVIOUS
    <2>1. Nothing \in [Paths -> Nodes] BY DEF Nothing, Nodes
    <2>2. Away BY DEF Init, Away, Nothing
    <2>3. IsFiniteSet(changes) BY FS_EmptySet DEF Init
    <2>4. fs \in [Paths -> Nodes] /\ Tree(fs) BY DEF Init
    <2>5. events \in Seq(Paths) /\ Len(events) <= Capacity BY CapacityAssumption DEF Init
    <2>6. /\ away \in [Paths -> Nodes] /\ edits \in Nat /\ env \in Environments /\ root \in BOOLEAN
          /\ watches \subseteq Paths /\ dispatching \subseteq Paths
        BY <2>1 DEF Init
    <2>7. /\ held \in Paths \cup {NoEvent} /\ changes \subseteq Paths /\ rescan \in BOOLEAN
          /\ watchedFiles \in [Paths -> Nodes] /\ newState \in [Paths -> Nodes]
        BY <2>1 DEF Init
    <2>8. /\ call \in {"none", "read", "stream"} /\ toApply \subseteq Paths /\ visit \subseteq Paths
          /\ last \in Int /\ last >= -1 /\ missed \subseteq Paths /\ left \subseteq Paths
        BY DEF Init
    <2> QED BY <2>2, <2>3, <2>4, <2>5, <2>6, <2>7, <2>8 DEF Shape, TypeOK
<1>2. Shape /\ [Next]_vars => Shape'
    <2> SUFFICES ASSUME Shape, [Next]_vars PROVE Shape' OBVIOUS
    <2>1. CASE Next
        BY <2>1, UserShape, LibraryShape, WatchShape, ClientShape, HelperShape DEF Next
    <2>2. CASE UNCHANGED vars
        BY <2>2 DEF vars, userVars, eventVars, watchVars, callVars, history, Shape, TypeOK, Away
    <2> QED BY <2>1, <2>2
<1> QED BY <1>1, <1>2, PTL DEF Spec

\* The variables of the helper and the library hold what they should (Downstream in
\* downstream.go), and what is there is always a tree.
THEOREM HelperTypeCorrect == Spec => []TypeOK
<1>1. Shape => TypeOK BY DEF Shape
<1> QED BY <1>1, ShapeInvariant, PTL
-----------------------------------------------------------------------------
(* The line of a change.                                                   *)

\* getWatchState reads within a call, and the client asks for changes after its first list;
\* what is left in the list is in it.
Scan ==
    /\ last = -1 => call = "none"
    /\ call # "read" => toApply = {} /\ visit = {}
    /\ \A q \in left : Told[q] # Absent

\* All that waits for its turn.
Held   == {held} \ {NoEvent}
Queued == {events[i] : i \in DOMAIN events}
Pipe   == toApply \cup visit \cup changes \cup Held \cup Queued \cup dispatching

\* All that leads to a look at p, or was lost on the way.
Covered(p) == Upward(p) \cap (Pipe \cup missed) # {}

\* No rescan is due.
Calm == ~rescan /\ ~OverflowAhead

Sure == Calm => \A p \in Paths : Told[p] # Visible(p) => Covered(p) \/ p \in left
LEMMA PipeLemma ==
    ASSUME Shape, Scan PROVE Pipe \subseteq UnderWay
BY DEF Shape, TypeOK, Scan, Pipe, UnderWay, Held, Queued

\* Steps that change neither files nor what is told, and lose nobody's turn.
LEMMA KeptSure ==
    ASSUME Shape, Sure, fs' = fs, env' = env, Told' = Told, left' = left,
           Calm' => Calm, Calm' => \A p \in Paths : Covered(p) => Covered(p)'
    PROVE  Sure'
BY DEF Sure, Visible

\* An edit has an event, or is missed.
LEMMA UserSure ==
    ASSUME Shape, Scan, Sure, User PROVE Scan' /\ Sure'
<1>1. PICK p \in Paths : EditOf(p) BY UserLemma
<1>2. Calm' = Calm BY <1>1 DEF EditOf, Calm, OverflowAhead, watchVars
<1>3. env' = env /\ Told' = Told /\ left' = left BY <1>1 DEF EditOf, Told, callVars
<1>4. Scan' BY <1>1, <1>3 DEF Scan, EditOf, callVars
<1> SUFFICES ASSUME Calm, NEW q \in Paths, Told[q] # Visible(q)'
             PROVE  Covered(q)' \/ q \in left
    BY <1>2, <1>3, <1>4 DEF Sure
<1>5. Covered(q) => Covered(q)'
    BY <1>1 DEF EditOf, Emit, Covered, Pipe, Held, Queued, watchVars, callVars
<1>6. CASE Visible(q)' = Visible(q) BY <1>5, <1>6 DEF Sure
<1>7. CASE Visible(q)' # Visible(q)
    <2>1. q \in Within(p) BY <1>1, <1>3, <1>7 DEF Visible, EditOf
    <2>2. p \in Upward(q) BY <2>1, WithinLemma
    <2>3. p \in dispatching' \/ p \in missed' BY <1>1 DEF EditOf, Emit
    <2> QED BY <2>2, <2>3 DEF Covered, Pipe
<1> QED BY <1>6, <1>7

LEMMA LibrarySure ==
    ASSUME Shape, Scan, Sure, LibraryStep PROVE Scan' /\ Sure'
<1>0. /\ fs' = fs /\ env' = env /\ Told' = Told /\ toApply' = toApply /\ visit' = visit
      /\ held' = held /\ changes' = changes /\ rescan' = rescan /\ call' = call /\ last' = last
      /\ missed' = missed /\ left' = left
    BY DEF LibraryStep, InstallRoot, InstallWatch, Dispatch, userVars, watchVars, callVars,
       history, Told
<1>1. Scan' BY <1>0 DEF Scan
<1>2. CASE events' = events /\ dispatching' = dispatching
    BY <1>0, <1>1, <1>2, KeptSure DEF Calm, OverflowAhead, Covered, Pipe, Held, Queued
<1>3. ASSUME NEW p \in Paths, Dispatch(p) PROVE Sure'
    <2>0. events \in Seq(Paths) /\ Len(events) \in Nat /\ Capacity \in Nat
        BY CapacityAssumption DEF Shape, TypeOK
    <2>1. CASE Len(events) < Capacity
        <3>1. events' = Append(events, p) /\ dispatching' = dispatching \ {p}
            BY <1>3, <2>1 DEF Dispatch
        <3>2. Len(events') = Len(events) + 1 BY <3>1, <2>0, AppendLemma
        <3>3. Calm' => Calm BY <3>2, <2>0, <1>0 DEF Calm, OverflowAhead
        <3>4. /\ DOMAIN events = 1 .. Len(events) /\ DOMAIN events' = 1 .. Len(events) + 1
              /\ \A i \in DOMAIN events : events'[i] = events[i]
              /\ events'[Len(events) + 1] = p
            BY <3>1, <2>0, AppendLemma
        <3>5. Queued \cup {p} \subseteq Queued' BY <3>4, <2>0 DEF Queued
        <3>6. Pipe \subseteq Pipe' BY <3>1, <3>5, <1>0 DEF Pipe, Held
        <3>7. \A q \in Paths : Covered(q) => Covered(q)' BY <3>6, <1>0 DEF Covered
        <3> QED BY <3>3, <3>7, <1>0, KeptSure
    <2>2. CASE Len(events) >= Capacity
        <3>1. events' = events BY <1>3, <2>2, <2>0 DEF Dispatch
        <3> QED BY <3>1, <2>2 DEF Sure, Calm, OverflowAhead
    <2> QED BY <2>0, <2>1, <2>2
<1> QED BY <1>1, <1>2, <1>3 DEF LibraryStep, InstallRoot, InstallWatch

\* The first event of the channel is taken when no other is held.
LEMMA ReceiveLemma ==
    ASSUME Shape, WatchReceive
    PROVE  Held' \cup Queued' = Held \cup Queued
<1>0. /\ held = NoEvent /\ held' = Head(events) /\ events' = Tail(events)
      /\ events \in Seq(Paths) /\ events # <<>>
    BY DEF WatchReceive, Shape, TypeOK
<1>1. /\ DOMAIN events = 1 .. Len(events) /\ Len(events) \in Nat /\ Len(events) >= 1
      /\ DOMAIN events' = 1 .. Len(events) - 1
    BY <1>0, TailLemma
<1>2. /\ held' = events[1] /\ held' \in Paths
      /\ \A i \in DOMAIN events' : i + 1 \in DOMAIN events /\ events'[i] = events[i + 1]
    BY <1>0, <1>1, TailLemma
<1>3. Held = {} /\ Held' = {events[1]} BY <1>0, <1>2, PathAssumption DEF Held
<1>4. Queued' \subseteq Queued BY <1>2 DEF Queued
<1>5. ASSUME NEW i \in DOMAIN events PROVE i = 1 \/ events[i] \in Queued'
    <2>1. CASE i # 1
        <3>1. i - 1 \in DOMAIN events' /\ (i - 1) + 1 = i BY <1>1, <2>1
        <3> QED BY <3>1, <1>2 DEF Queued
    <2> QED BY <2>1
<1>6. events[1] \in Queued BY <1>1 DEF Queued
<1> QED BY <1>3, <1>4, <1>5, <1>6 DEF Queued

LEMMA WatchSure ==
    ASSUME Shape, Scan, Sure, WatchStep PROVE Scan' /\ Sure'
<1>0. /\ fs' = fs /\ env' = env /\ Told' = Told /\ toApply' = toApply /\ visit' = visit
      /\ dispatching' = dispatching /\ call' = call /\ last' = last
      /\ missed' = missed /\ left' = left
    BY DEF WatchStep, WatchReceive, WatchNote, userVars, eventVars, callVars, history, Told
<1>1. events \in Seq(Paths) /\ Len(events) \in Nat /\ Capacity \in Nat
    BY CapacityAssumption DEF Shape, TypeOK
<1>2. Scan' BY <1>0 DEF Scan
<1>3. CASE WatchReceive
    <2>1. Len(events') = Len(events) - 1 /\ held = NoEvent /\ held' # NoEvent
        BY <1>3, <1>1, TailLemma, PathAssumption DEF WatchReceive
    <2>2. Calm' => Calm BY <2>1, <1>1, <1>3 DEF Calm, OverflowAhead, WatchReceive
    <2>3. Pipe' = Pipe BY <1>3, <1>0, ReceiveLemma DEF Pipe, WatchReceive
    <2> QED BY <2>2, <2>3, <1>0, <1>2, KeptSure DEF Covered
<1>4. CASE WatchNote
    <2>1. CASE Overflow
        <3>1. rescan' = TRUE BY <1>4, <2>1, Zenon DEF WatchNote
        <3>2. ~Calm' BY <3>1, Zenon DEF Calm
        <3> QED BY <3>2, <1>2 DEF Sure
    <2>2. CASE ~Overflow
        <3>1. Calm' => Calm
            <4>1. rescan' = rescan BY <1>4, <2>2, Zenon DEF WatchNote
            <4>2. ~OverflowAhead BY <1>4, <2>2, <1>1 DEF WatchNote, Overflow, OverflowAhead
            <4> QED BY <4>1, <4>2 DEF Calm
        <3>2. ASSUME NEW p \in Paths, Covered(p) PROVE Covered(p)'
            <4>0. /\ Queued' = Queued /\ Held = {held} /\ held \in Paths
                  /\ changes \subseteq changes'
                  /\ held \in changes' \/ Above[held] \cap changes # {}
                BY <1>4, <2>2 DEF WatchNote, Shape, TypeOK, eventVars, Held, Queued
            <4>1. CASE held \notin Upward(p)
                BY <3>2, <4>0, <4>1, <1>0 DEF Covered, Pipe
            <4>2. CASE held \in Upward(p)
                <5>1. Above[held] \subseteq Upward(p) BY <4>2, AboveLemma DEF Upward
                <5> QED BY <4>0, <4>2, <5>1 DEF Covered, Pipe
            <4> QED BY <4>1, <4>2
        <3> QED BY <3>1, <3>2, <1>0, <1>2, KeptSure
    <2> QED BY <2>1, <2>2
<1> QED BY <1>3, <1>4 DEF WatchStep

\* A call that begins reads all anew, or takes the changed paths along.
LEMMA GetWatchSure ==
    ASSUME Shape, Scan, Sure, call = "none", NEW expired \in BOOLEAN, GetWatchState(expired),
           last' = 0
    PROVE  Scan' /\ Sure'
<1>0. /\ fs' = fs /\ env' = env
      /\ Held' = Held /\ Queued' = Queued /\ dispatching' = dispatching
      /\ call' = "read" /\ Told' = newState' /\ Told = watchedFiles
      /\ toApply = {} /\ visit = {}
    BY DEF GetWatchState, userVars, eventVars, Held, Queued, Told, Scan
<1>1. CASE newState' = Nothing /\ visit' = RootNames /\ left' = {}
    <2>1. ASSUME NEW p \in Paths, fs[p] # Absent PROVE Covered(p)'
        <3>1. PICK d \in Upward(p) : d \in Paths /\ Above[d] = {} BY TopLemma
        <3>2. fs[d] # Absent BY <2>1, <3>1, TreeLemma, PathAssumption DEF Upward, Shape
        <3>3. d \in visit' BY <1>1, <3>1, <3>2 DEF RootNames
        <3> QED BY <3>1, <3>3 DEF Covered, Pipe
    <2>2. Scan' BY <1>0, <1>1 DEF Scan
    <2> QED BY <2>1, <2>2, <1>0, <1>1 DEF Sure, Visible, Nothing
<1>2. CASE /\ newState' = watchedFiles /\ visit' = {} /\ toApply' = changes /\ rescan' = rescan
           /\ missed' = missed /\ left' = left
    <2>1. Calm' = Calm BY <1>2 DEF GetWatchState, Calm, OverflowAhead, eventVars
    <2>2. Pipe \subseteq Pipe' BY <1>0, <1>2 DEF Pipe
    <2>3. Scan' BY <1>0, <1>2 DEF Scan
    <2> QED BY <2>1, <2>2, <2>3, <1>0, <1>2, KeptSure DEF Covered
<1> QED BY <1>1, <1>2 DEF GetWatchState, history

LEMMA ClientSure ==
    ASSUME Shape, Scan, Sure, ClientStep PROVE Scan' /\ Sure'
<1>1. CASE PopulateFileMap
    <2>1. GetWatchState(FALSE) /\ call = "none" /\ last' = 0 BY <1>1 DEF PopulateFileMap, Scan
    <2> QED BY <2>1, GetWatchSure
<1>2. CASE MainLoop
    <2>1. PICK waited, expired \in BOOLEAN :
             IF last > 0 /\ (waited \/ ChangesCount = last)
             THEN last' = 0 /\ GetWatchState(expired)
             ELSE /\ last' = ChangesCount
                  /\ UNCHANGED <<userVars, eventVars, watchVars, watchedFiles, call, newState, toApply, visit, history>>
        BY <1>2 DEF MainLoop
    <2>2. call = "none" BY <1>2 DEF MainLoop
    <2>3. CASE last' = 0 /\ GetWatchState(expired) BY <2>2, <2>3, GetWatchSure
    <2>4. CASE UNCHANGED <<userVars, eventVars, watchVars, watchedFiles, call, newState, toApply, visit, history>>
        BY <2>2, <2>4 DEF Scan, Sure, Calm, OverflowAhead, Covered, Pipe, Held, Queued, Told,
           Visible, userVars, eventVars, watchVars, history
    <2> QED BY <2>1, <2>3, <2>4
<1> QED BY <1>1, <1>2 DEF ClientStep

\* What lies below a directory and is not hidden has its turn with a name of that directory.
LEMMA EnteredLemma ==
    ASSUME Shape, NEW p \in Paths, NEW q \in Below(p), Visible(q) # Absent
    PROVE  Entered(p) /\ Upward(q) \cap Names(p) # {}
<1>1. /\ p \in Above[q] /\ q \in Paths /\ q \in Below(p)
      /\ fs[q] # Absent /\ q \notin env.hidden
    BY DEF Below, Visible
<1>2. fs[p] = "dir" BY <1>1, TreeLemma DEF Shape
<1>3. env.fullScan \/ p \notin env.hidden BY <1>1, EnvironmentAssumption DEF Shape, TypeOK
<1>4. PICK c \in Upward(q) : c \in Paths /\ Above[c] = Above[p] \cup {p} BY <1>1, NextLemma
<1>5. fs[c] # Absent BY <1>1, <1>4, TreeLemma, PathAssumption DEF Upward, Shape
<1> QED BY <1>2, <1>3, <1>4, <1>5 DEF Entered, Names

\* After the look at p, what lies below p is right, is in the list and was left there, or has
\* its turn with a name of p; what else had a turn ahead still has it.
LEMMA LookLemma ==
    ASSUME Shape, Sure, Calm, \A q \in left : Told[q] # Absent,
           NEW p \in Paths, NEW state, state \in [Paths -> Nodes], Look(state, p),
           fs' = fs, env' = env, Told = newState, Told' = newState',
           Pipe \ {p} \subseteq Pipe', visit' \subseteq Pipe',
           \A q \in Paths \ Within(p) : state[q] = newState[q],
           p \in Pipe' \/ \A q \in Within(p) \ Uncleared(p) : state[q] = Absent
    PROVE  \A q \in Paths : newState'[q] # Visible(q) => Covered(q)' \/ q \in left'
<1>0. /\ newState' = IF Visible(p) # Absent THEN [state EXCEPT ![p] = Visible(p)] ELSE state
      /\ Entered(p) => Names(p) \subseteq visit'
      /\ missed' = missed \ {p}
      /\ left' = {q \in left \cup Uncleared(p) : newState'[q] # Absent}
                     \ (IF Visible(p) # Absent THEN {p} ELSE {})
    BY DEF Look
<1> SUFFICES ASSUME NEW q \in Paths, newState'[q] # Visible(q)
             PROVE  Covered(q)' \/ q \in left'
    OBVIOUS
<1>1. CASE q \in Within(p) /\ p \in Pipe'
    BY <1>1, WithinLemma DEF Covered
<1>2. CASE q = p /\ p \notin Pipe'
    <2>1. Visible(p) = Absent /\ newState' = state BY <1>0, <1>2
    <2>2. q \in Uncleared(p) BY <1>2, <2>1, WithinLemma
    <2> QED BY <1>2, <2>1, <2>2, <1>0
<1>3. CASE q \in Below(p) /\ p \notin Pipe'
    <2>1. q # p /\ q \in Within(p) BY <1>3, WithinLemma DEF Within
    <2>2. CASE Visible(q) # Absent
        <3>1. Upward(q) \cap visit' # {} BY <1>0, <1>3, <2>2, EnteredLemma
        <3> QED BY <3>1 DEF Covered
    <2>3. CASE Visible(q) = Absent
        <3>1. newState'[q] = state[q] BY <1>0, <2>1
        <3>2. q \in Uncleared(p) BY <1>3, <2>1, <2>3, <3>1
        <3> QED BY <1>0, <2>1, <2>3, <3>2
    <2> QED BY <2>2, <2>3
<1>4. CASE q \notin Within(p)
    <2>1. q # p /\ p \notin Upward(q) BY <1>4, WithinLemma
    <2>2. newState'[q] = newState[q] BY <1>0, <1>4, <2>1
    <2>3. Covered(q) \/ q \in left BY <2>2 DEF Sure
    <2>4. Covered(q) => Covered(q)' BY <2>1, <1>0 DEF Covered
    <2>5. q \in left => q \in left' BY <2>1, <2>2, <1>0
    <2> QED BY <2>3, <2>4, <2>5
<1> QED BY <1>1, <1>2, <1>3, <1>4 DEF Within

\* walkDir, and applyChange, which leaves out what was told of p, and of what lies below it
\* if p was told as a directory.
LEMMA WalkSure ==
    ASSUME Shape, Scan, Sure, NEW p \in Paths, WalkDir(p) \/ ApplyChange(p)
    PROVE  Scan' /\ Sure'
<1> DEFINE state == IF WalkDir(p) THEN newState ELSE Cleaned(p)
<1>0. /\ fs' = fs /\ env' = env /\ changes' = changes /\ Held' = Held /\ Queued' = Queued
      /\ dispatching' = dispatching /\ call = "read" /\ call' = "read" /\ last' = last
      /\ Told = newState /\ Told' = newState' /\ newState \in [Paths -> Nodes]
      /\ rescan' = rescan /\ events' = events /\ held' = held
    BY DEF WalkDir, ApplyChange, userVars, eventVars, watchVars, Held, Queued, Shape, TypeOK, Told
<1>1. Calm' = Calm BY <1>0 DEF Calm, OverflowAhead
<1>2. \A q \in left' : newState'[q] # Absent BY DEF WalkDir, ApplyChange, Look
<1>3. Scan' BY <1>0, <1>2 DEF Scan
<1>4. /\ Look(state, p) /\ state \in [Paths -> Nodes]
      /\ \A q \in Paths \ Within(p) : state[q] = newState[q]
      /\ p \in toApply' \/ \A q \in Within(p) \ Uncleared(p) : state[q] = Absent
    <2>1. CASE WalkDir(p)
        <3>1. state = newState BY <2>1
        <3>2. Look(newState, p) /\ toApply' = toApply BY <2>1 DEF WalkDir
        <3>3. p \in toApply \/ Within(p) \subseteq Uncleared(p) BY DEF Uncleared
        <3> QED BY <3>1, <3>2, <3>3, <1>0
    <2>2. CASE ~WalkDir(p)
        <3>1. state = Cleaned(p) /\ ApplyChange(p) /\ p \in toApply BY <2>2 DEF ApplyChange
        <3>2. Look(Cleaned(p), p) BY <3>1 DEF ApplyChange
        <3>3. Cleaned(p) \in [Paths -> Nodes] BY <1>0 DEF Cleaned, Nodes
        <3>4. \A q \in Paths \ Within(p) : Cleaned(p)[q] = newState[q] BY DEF Cleaned, Within
        <3>5. \A q \in Within(p) \ Uncleared(p) : Cleaned(p)[q] = Absent
            BY <3>1, WithinLemma, PathAssumption DEF Cleaned, Within, Uncleared
        <3> QED BY <3>1, <3>2, <3>3, <3>4, <3>5
    <2> QED BY <2>1, <2>2
<1> HIDE DEF state
<1> SUFFICES ASSUME Calm
             PROVE  \A q \in Paths : newState'[q] # Visible(q) => Covered(q)' \/ q \in left'
    BY <1>0, <1>1, <1>3 DEF Sure, Visible
<1>5. Pipe \ {p} \subseteq Pipe' /\ visit' \subseteq Pipe'
    <2>1. visit \ {p} \subseteq visit' /\ toApply \ {p} \subseteq toApply'
        BY DEF WalkDir, ApplyChange, Look
    <2> QED BY <2>1, <1>0 DEF Pipe
<1>6. toApply' \subseteq Pipe' BY DEF Pipe
<1> QED BY <1>0, <1>4, <1>5, <1>6, LookLemma DEF Scan

LEMMA HelperSure ==
    ASSUME Shape, Scan, Sure, HelperStep PROVE Scan' /\ Sure'
<1>1. ASSUME StateCollected \/ StreamChanges PROVE Scan' /\ Sure'
    <2>0. /\ fs' = fs /\ env' = env /\ last' = last /\ missed' = missed /\ left' = left
          /\ toApply = {} /\ visit = {} /\ toApply' = {} /\ visit' = {}
          /\ Told' = newState /\ Told = newState
        BY <1>1 DEF StateCollected, StreamChanges, Told, Scan, userVars, eventVars, history
    <2>1. Calm' = Calm /\ Pipe' = Pipe
        BY <1>1, <2>0 DEF StateCollected, StreamChanges, Calm, OverflowAhead, Pipe, Held, Queued,
           eventVars, watchVars
    <2>2. Scan' BY <1>1, <2>0 DEF Scan, StateCollected, StreamChanges
    <2> QED BY <2>0, <2>1, <2>2, KeptSure DEF Covered
<1> QED BY <1>1, WalkSure DEF HelperStep

\* Whatever the client was told wrongly or not at all is about to be looked at (streamChanges
\* and watch in downstream.go), but for what was edited where nothing watches yet and not
\* looked at since (WatchWithFilter starts in a goroutine), and for what applyChange of a
\* directory has left in the list that did not have it as one.
THEOREM NothingForgottenTheorem == Spec => []NothingForgotten
<1>1. Init => Scan /\ Sure BY DEF Init, Scan, Sure, Calm
<1>2. Shape /\ Scan /\ Sure /\ [Next]_vars => Scan' /\ Sure'
    <2> SUFFICES ASSUME Shape, Scan, Sure, [Next]_vars PROVE Scan' /\ Sure' OBVIOUS
    <2>1. CASE Next
        BY <2>1, UserSure, LibrarySure, WatchSure, ClientSure, HelperSure DEF Next
    <2>2. CASE UNCHANGED vars
        BY <2>2 DEF vars, userVars, eventVars, watchVars, callVars, history, Scan, Sure, Calm,
           OverflowAhead, Covered, Pipe, Held, Queued, Told, Visible
    <2> QED BY <2>1, <2>2
<1>3. Shape /\ Scan /\ Sure => NothingForgotten
    <2> SUFFICES ASSUME Shape, Scan, Sure, Calm, NEW p \in Paths, Told[p] # Visible(p)
                 PROVE  Upward(p) \cap UnderWay # {} \/ Lost(p)
        BY DEF NothingForgotten, Calm
    <2>1. Covered(p) \/ p \in left BY DEF Sure
    <2> QED BY <2>1, PipeLemma DEF Covered, Lost
<1> QED BY <1>1, <1>2, <1>3, ShapeInvariant, PTL DEF Spec
=============================================================================
