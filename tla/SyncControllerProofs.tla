------------------------ MODULE SyncControllerProofs ------------------------
(***************************************************************************)
(* Proofs about SyncController for any sync paths and bounds: its type     *)
(* invariant, that the tomb of the dev pod is dead only when every         *)
(* controller has returned, and that the container waits for the initial   *)
(* syncs, but for those that restarted clients are counted for.            *)
(***************************************************************************)
EXTENDS SyncController, FiniteSetTheorems, TLAPS

-----------------------------------------------------------------------------
(* What the methods of a tomb return: its type, the number of goroutines   *)
(* and that it is not declared dead while one is left.                     *)

\* A tomb whose count fits: it is only dead without goroutines.
Fits(t) == t.dead => t.alive = 0

\* Go keeps the type of a tomb and counts its goroutines.
LEMMA GoType ==
  ASSUME NEW t \in TombState, NEW n \in Nat
  PROVE  /\ Go(t, n) \in TombState
         /\ Go(t, n).alive = t.alive + n /\ Go(t, n).dead = t.dead
  BY DEF Go, TombState

\* Kill changes the reason only.
LEMMA KillType ==
  ASSUME NEW t \in TombState, NEW e \in Reason
  PROVE  /\ Kill(t, e) \in TombState
         /\ Kill(t, e).alive = t.alive /\ Kill(t, e).dead = t.dead
  BY DEF Kill, TombState

\* The return of a goroutine that was counted.
LEMMA ReturnType ==
  ASSUME NEW t \in TombState, NEW e \in Reason, t.alive > 0, Fits(t)
  PROVE  /\ Return(t, e) \in TombState
         /\ Return(t, e).alive = t.alive - 1 /\ Fits(Return(t, e))
<1> DEFINE u == [t EXCEPT !.alive = @ - 1]
<1>1. u \in TombState /\ u.alive = t.alive - 1 /\ u.dead = FALSE
  BY DEF TombState, Fits
<1>2. Kill(u, e) \in TombState /\ Kill(u, e).alive = u.alive /\ Kill(u, e).dead = u.dead
  BY <1>1, KillType
<1> HIDE DEF u
<1>3. CASE u.alive = 0 \/ e # NoError
  <2>1. Return(t, e) = [Kill(u, e) EXCEPT !.dead = (u.alive = 0)]
    BY <1>3 DEF Return, u
  <2> QED
    BY <1>1, <1>2, <2>1 DEF Fits, TombState
<1>4. CASE ~(u.alive = 0 \/ e # NoError)
  <2>1. Return(t, e) = u
    BY <1>4 DEF Return, u
  <2> QED
    BY <1>1, <2>1 DEF Fits
<1> QED
  BY <1>3, <1>4

\* A new tomb has no goroutine and is not dead.
LEMMA NewTombType == NewTomb \in TombState /\ NewTomb.alive = 0 /\ NewTomb.dead = FALSE
  BY DEF NewTomb, TombState, Reason

-----------------------------------------------------------------------------
\* What controllers return are reasons of a tomb.
LEMMA ReasonType == NoError \in Reason /\ SyncError \in Reason /\ LostConnection \in Reason
  BY SyncControllerAssumption DEF Reason

-----------------------------------------------------------------------------
(* The tomb counts the controllers and the other service.                  *)

ControlStates == {"start", "waiting", "watching", "backoff", "returned"}

\* The paths with a goroutine: of Start, of the restart loop, or watching a client.
Tracked == {p \in Paths : control[p] # "returned"}

TombCounts ==
    /\ tomb.alive = Cardinality(Tracked) + (IF other THEN 1 ELSE 0)
    /\ Fits(tomb)

\* The types of what the tomb counts, and those of the other variables.
CountedTypes == control \in [Paths -> ControlStates] /\ tomb \in TombState /\ other \in BOOLEAN

ClientTypes ==
    /\ client \in [Paths -> {"none", "initial", "synced", "stopping", "stopped"}]
    /\ initDone \in [Paths -> BOOLEAN] /\ onError \in [Paths -> BOOLEAN] /\ onDone \in [Paths -> BOOLEAN]
    /\ touched \in [Paths -> BOOLEAN]

OtherTypes ==
    /\ restarted \in [Paths -> BOOLEAN] /\ pathDone \in [Paths -> BOOLEAN]
    /\ amount \in 0 .. Cardinality(StartContainer) /\ container \in BOOLEAN
    /\ synced \subseteq Paths /\ counted \subseteq StartContainer /\ recounted \in Nat
    /\ cancelled \in BOOLEAN /\ podGone \in BOOLEAN /\ failures \in 0 .. MaxFailures

\* The type invariant is the three together.
LEMMA TypeParts == TypeOK <=> CountedTypes /\ ClientTypes /\ OtherTypes
  BY DEF TypeOK, CountedTypes, ClientTypes, OtherTypes, ControlStates

\* The sizes of sets of paths.
LEMMA PathSets ==
  ASSUME NEW S \in SUBSET Paths
  PROVE  /\ IsFiniteSet(S) /\ Cardinality(S) \in Nat /\ (Cardinality(S) = 0 => S = {})
         /\ \A p \in S : Cardinality(S \ {p}) = Cardinality(S) - 1 /\ Cardinality(S) > 0
<1>1. IsFiniteSet(S) /\ Cardinality(S) \in Nat
  BY FS_Subset, FS_CardinalityType, SyncControllerAssumption
<1>2. ASSUME NEW p \in S PROVE Cardinality(S \ {p}) = Cardinality(S) - 1 /\ Cardinality(S) > 0
  <2>1. Cardinality(S \ {p}) = Cardinality(S) - 1
    BY <1>1, FS_RemoveElement, Zenon
  <2>2. Cardinality(S) # 0
    BY <1>1, FS_EmptySet
  <2> QED
    BY <1>1, <2>1, <2>2
<1> QED
  BY <1>1, <1>2, FS_EmptySet

\* A step with which nobody returns.
LEMMA NobodyReturns ==
  ASSUME CountedTypes, TombCounts, UNCHANGED other, NEW c \in ControlStates \ {"returned"}, NEW p \in Paths,
         \/ UNCHANGED control
         \/ control[p] # "returned" /\ control' = [control EXCEPT ![p] = c],
         tomb' \in TombState, tomb'.alive = tomb.alive, Fits(tomb')
  PROVE  CountedTypes' /\ TombCounts'
<1>1. Tracked' = Tracked
  BY DEF CountedTypes, Tracked
<1>2. control' \in [Paths -> ControlStates]
  BY DEF CountedTypes
<1> QED
  BY <1>1, <1>2 DEF CountedTypes, TombCounts

\* A step that leaves controllers and tomb alone.
LEMMA NothingCounted ==
  ASSUME CountedTypes, TombCounts, UNCHANGED <<control, tomb, other>>
  PROVE  CountedTypes' /\ TombCounts'
  BY DEF CountedTypes, TombCounts, Tracked

\* A tomb with a tracked path counts it, and is not dead.
LEMMA CountsTracked ==
  ASSUME CountedTypes, TombCounts, NEW p \in Paths, control[p] # "returned"
  PROVE  tomb \in TombState /\ tomb.alive > 0 /\ tomb.dead = FALSE
<1>1. Tracked \in SUBSET Paths /\ p \in Tracked
  BY DEF Tracked
<1>2. Cardinality(Tracked) \in Nat /\ Cardinality(Tracked) > 0
  BY <1>1, PathSets
<1>3. tomb.alive > 0
  BY <1>2 DEF TombCounts
<1> QED
  BY <1>3 DEF TombCounts, CountedTypes, Fits, TombState

\* A controller returns, after it may have killed the tomb.
LEMMA ControllerReturns ==
  ASSUME CountedTypes, TombCounts, UNCHANGED other, NEW p \in Paths, control[p] # "returned",
         control' = [control EXCEPT ![p] = "returned"], NEW e \in Reason, NEW k \in Reason,
         tomb' \in {Return(tomb, e), Return(Kill(tomb, k), e)}
  PROVE  CountedTypes' /\ TombCounts'
<1>1. tomb \in TombState /\ tomb.alive > 0 /\ tomb.dead = FALSE
  BY CountsTracked
<1>2. Kill(tomb, k) \in TombState /\ Kill(tomb, k).alive = tomb.alive /\ Kill(tomb, k).dead = FALSE
  BY <1>1, KillType
<1>3. Fits(tomb) /\ Fits(Kill(tomb, k)) /\ Kill(tomb, k).alive > 0
  BY <1>1, <1>2 DEF Fits
<1>4. Return(tomb, e) \in TombState /\ Return(tomb, e).alive = tomb.alive - 1 /\ Fits(Return(tomb, e))
  BY <1>1, <1>3, ReturnType
<1>5. /\ Return(Kill(tomb, k), e) \in TombState /\ Fits(Return(Kill(tomb, k), e))
      /\ Return(Kill(tomb, k), e).alive = tomb.alive - 1
  <2>1. Return(Kill(tomb, k), e).alive = Kill(tomb, k).alive - 1
    BY <1>2, <1>3, ReturnType
  <2> QED
    BY <1>2, <1>3, <2>1, ReturnType
<1>6. tomb' \in TombState /\ tomb'.alive = tomb.alive - 1 /\ Fits(tomb')
  BY <1>4, <1>5
<1>7. Tracked' = Tracked \ {p} /\ p \in Tracked /\ Tracked \in SUBSET Paths
  BY DEF Tracked, CountedTypes
<1>8. Cardinality(Tracked') = Cardinality(Tracked) - 1 /\ Cardinality(Tracked) \in Nat
  BY <1>7, PathSets
<1>9. control' \in [Paths -> ControlStates]
  BY DEF CountedTypes, ControlStates
<1> QED
  BY <1>6, <1>8, <1>9 DEF CountedTypes, TombCounts

-----------------------------------------------------------------------------
(* Every step keeps the count.                                             *)

\* startWithWait returns.
LEMMA StartCounts ==
  ASSUME CountedTypes, TombCounts, NEW p \in Paths,
         StartNothing(p) \/ SelectFails(p) \/ StartSyncFails(p) \/ WaitingGetsError(p)
  PROVE  CountedTypes' /\ TombCounts'
<1> USE DEF StartNothing, SelectFails, StartSyncFails, WaitingGetsError
<1>1. control[p] # "returned" /\ other' = other
  BY DEF worldVars
<1>2. CASE ReturnNil(p, tomb)
  BY <1>1, <1>2, ReasonType, ControllerReturns DEF ReturnNil
<1>3. PICK t \in {tomb, Kill(tomb, LostConnection)}, e \in Reason : ReturnError(p, t, e) \/ ReturnNil(p, tomb)
  BY ReasonType
<1>4. CASE ReturnError(p, t, e) /\ ~restarted[p]
  BY <1>1, <1>3, <1>4, ReasonType, ControllerReturns DEF ReturnError
<1>5. CASE ReturnError(p, t, e) /\ restarted[p]
  <2>1. tomb \in TombState /\ tomb.dead = FALSE
    BY <1>1, CountsTracked
  <2>2. t \in TombState /\ t.alive = tomb.alive /\ Fits(t)
    BY <2>1, ReasonType, KillType DEF Fits
  <2>3. control' = [control EXCEPT ![p] = "backoff"] /\ tomb' = t
    BY <1>5 DEF ReturnError
  <2> QED
    BY <1>1, <2>2, <2>3, NobodyReturns DEF ControlStates
<1> QED
  BY <1>2, <1>3, <1>4, <1>5

\* A client is started, or its controller goes on to watch it or to start it again.
LEMMA GoesOnCounts ==
  ASSUME CountedTypes, TombCounts, NEW p \in Paths, StartSync(p) \/ InitialSyncWaited(p)
  PROVE  CountedTypes' /\ TombCounts'
<1>1. other' = other /\ control[p] # "returned"
  BY DEF StartSync, InitialSyncWaited, worldVars
<1>2. tomb \in TombState /\ tomb.alive > 0 /\ tomb.dead = FALSE
  BY <1>1, CountsTracked
<1>3. CASE StartSync(p)
  <2>1. Fits(tomb')
    BY <1>2, <1>3 DEF StartSync, Fits
  <2> QED
    BY <1>1, <1>2, <1>3, <2>1, NobodyReturns DEF StartSync, ControlStates
<1>4. CASE InitialSyncWaited(p)
  <2> DEFINE g == Go(tomb, 1)
  <2>1. g \in TombState /\ g.alive = tomb.alive + 1 /\ g.dead = FALSE
    BY <1>2, GoType
  <2> HIDE DEF g
  <2>2. g.alive > 0 /\ Fits(g)
    BY <1>2, <2>1 DEF Fits, TombState
  <2>3. Return(g, NoError) \in TombState /\ Return(g, NoError).alive = g.alive - 1 /\ Fits(Return(g, NoError))
    BY <2>1, <2>2, ReasonType, ReturnType
  <2>4. Return(g, NoError).alive = tomb.alive
    BY <1>2, <2>1, <2>3 DEF TombState
  <2>5. tomb' = Return(g, NoError) /\ control' = [control EXCEPT ![p] = "watching"]
    BY <1>4 DEF InitialSyncWaited, g
  <2> QED
    BY <1>1, <2>3, <2>4, <2>5, NobodyReturns DEF ControlStates
<1> QED
  BY <1>3, <1>4

\* The end of a client ends its controller, or starts it again.
LEMMA WatchCounts ==
  ASSUME CountedTypes, TombCounts, NEW p \in Paths,
         \/ WaitingGetsDone(p) \/ WaitingCancelled(p)
         \/ WatchGetsError(p) \/ WatchGetsDone(p) \/ WatchCancelled(p) \/ BackoffEnds(p)
  PROVE  CountedTypes' /\ TombCounts'
<1> USE DEF WaitingGetsDone, WaitingCancelled, WatchGetsError, WatchGetsDone, WatchCancelled, BackoffEnds
<1>1. other' = other /\ control[p] # "returned"
  BY DEF worldVars
<1>2. CASE ReturnNil(p, tomb) \/ ReturnNil(p, Kill(tomb, NoError))
  BY <1>1, <1>2, ReasonType, ControllerReturns DEF ReturnNil
<1>3. CASE control' = [control EXCEPT ![p] = "start"] /\ UNCHANGED tomb
  <2>1. tomb \in TombState /\ Fits(tomb)
    BY DEF CountedTypes, TombCounts
  <2> QED
    BY <1>1, <1>3, <2>1, NobodyReturns DEF ControlStates
<1> QED
  BY <1>2, <1>3

\* The clients, the user and the cluster touch neither controller nor tomb.
LEMMA ClientCounts ==
  ASSUME CountedTypes, TombCounts,
         \/ \E p \in Paths : ClientStep(p) \/ ClientFails(p) \/ SyncStep(p)
         \/ Cancel \/ DeletePod
  PROVE  CountedTypes' /\ TombCounts'
<1>1. UNCHANGED <<control, tomb, other>>
  BY DEF ClientStep, ClientFailed, ClientStops, ClientFails, SyncStep, InitialSyncDone, TouchContainer,
         Cancel, DeletePod, worldVars
<1> QED
  BY <1>1, NothingCounted

\* The other service returns.
LEMMA OtherCounts ==
  ASSUME CountedTypes, TombCounts, OtherStops PROVE CountedTypes' /\ TombCounts'
<1>1. Tracked' = Tracked /\ Cardinality(Tracked) \in Nat
  BY PathSets DEF OtherStops, Tracked
<1>2. tomb.alive = Cardinality(Tracked) + 1 /\ Fits(tomb) /\ tomb \in TombState
  BY DEF OtherStops, TombCounts, CountedTypes
<1>3. Return(tomb, NoError) \in TombState /\ Return(tomb, NoError).alive = tomb.alive - 1 /\ Fits(Return(tomb, NoError))
  BY <1>1, <1>2, ReasonType, ReturnType
<1>4. tomb' = Return(tomb, NoError) /\ other' = FALSE /\ control' = control
  BY DEF OtherStops
<1>5. CountedTypes'
  BY <1>3, <1>4 DEF CountedTypes
<1>6. tomb'.alive = Cardinality(Tracked') + 0
  BY <1>1, <1>2, <1>3, <1>4
<1> QED
  BY <1>3, <1>4, <1>5, <1>6 DEF TombCounts

\* Every step does.
LEMMA NextCounts ==
  ASSUME CountedTypes, TombCounts, [Next]_vars PROVE CountedTypes' /\ TombCounts'
<1>1. CASE UNCHANGED vars
  BY <1>1, NothingCounted DEF vars
<1>2. ASSUME NEW p \in Paths, ControlStep(p) \/ StartSyncFails(p) PROVE CountedTypes' /\ TombCounts'
  BY <1>2, StartCounts, GoesOnCounts, WatchCounts DEF ControlStep
<1> QED
  BY <1>1, <1>2, ClientCounts, OtherCounts DEF Next, Ended

\* At first the tomb counts a goroutine for every path and one for the other service.
LEMMA InitCounts == ASSUME Init PROVE CountedTypes /\ TombCounts
<1>1. Cardinality(Paths) \in Nat
  BY FS_CardinalityType, SyncControllerAssumption
<1>2. NewTomb \in TombState /\ NewTomb.alive = 0 /\ NewTomb.dead = FALSE
  BY NewTombType
<1>3. tomb \in TombState /\ tomb.alive = Cardinality(Paths) + 1 /\ tomb.dead = FALSE
  <2>1. Cardinality(Paths) + 1 \in Nat
    BY <1>1
  <2> DEFINE n == Cardinality(Paths) + 1
  <2>2. Go(NewTomb, n) \in TombState /\ Go(NewTomb, n).alive = 0 + n /\ Go(NewTomb, n).dead = FALSE
    BY <1>2, <2>1, GoType
  <2> QED
    BY <1>1, <2>2 DEF Init
<1>4. Tracked = Paths /\ other = TRUE
  BY DEF Init, Tracked
<1> QED
  BY <1>3, <1>4 DEF Init, CountedTypes, TombCounts, ControlStates, Fits

-----------------------------------------------------------------------------
(* Type correctness.                                                       *)

\* The channels and the state of a client.
LEMMA NextClientTypes ==
  ASSUME TypeOK, [Next]_vars PROVE ClientTypes'
<1> USE DEF TypeOK, ClientTypes
<1>1. CASE UNCHANGED clientVars
  BY <1>1 DEF clientVars
<1>2. ASSUME NEW p \in Paths, StartSync(p) PROVE ClientTypes'
  BY <1>2 DEF StartSync
<1>3. ASSUME NEW p \in Paths, WaitingGetsError(p) \/ WatchGetsError(p) PROVE ClientTypes'
  BY <1>3 DEF WaitingGetsError, WatchGetsError
<1>4. ASSUME NEW p \in Paths, Stopped(p) PROVE ClientTypes'
  <2>1. onDone' \in [Paths -> BOOLEAN]
    BY <1>4, Zenon DEF Stopped
  <2>2. client' \in [Paths -> {"none", "initial", "synced", "stopping", "stopped"}]
    BY <1>4 DEF Stopped
  <2> QED
    BY <1>4, <2>1, <2>2 DEF Stopped
<1>5. ASSUME NEW p \in Paths,
             InitialSyncDone(p) \/ TouchContainer(p) \/ ClientFails(p) \/ ClientFailed(p)
      PROVE  ClientTypes'
  BY <1>5 DEF InitialSyncDone, TouchContainer, ClientFails, ClientFailed
<1>6. ASSUME NEW p \in Paths,
             \/ StartNothing(p) \/ SelectFails(p) \/ StartSyncFails(p) \/ InitialSyncWaited(p)
             \/ WaitingGetsDone(p) \/ WatchGetsDone(p) \/ BackoffEnds(p)
      PROVE  UNCHANGED clientVars
  BY <1>6 DEF StartNothing, SelectFails, StartSyncFails, InitialSyncWaited, WaitingGetsDone, WatchGetsDone,
              BackoffEnds
<1>7. ASSUME NEW p \in Paths, WaitingCancelled(p) \/ WatchCancelled(p) \/ ClientStops(p) PROVE Stopped(p)
  BY <1>7 DEF WaitingCancelled, WatchCancelled, ClientStops
<1>8. CASE OtherStops \/ Cancel \/ DeletePod \/ UNCHANGED vars
  BY <1>1, <1>8 DEF OtherStops, Cancel, DeletePod, vars, clientVars
<1> QED
  BY <1>1, <1>2, <1>3, <1>4, <1>5, <1>6, <1>7, <1>8 DEF Next, ControlStep, ClientStep, SyncStep, Ended

\* Failures stay within their bound, the counter of the starter within the paths it counts.
LEMMA NextOtherTypes ==
  ASSUME TypeOK, [Next]_vars PROVE OtherTypes'
<1> USE DEF TypeOK, OtherTypes
<1>0. Cardinality(StartContainer) \in Nat
  BY PathSets, SyncControllerAssumption
<1>1. CASE UNCHANGED <<restarted, pathDone, startVars, cancelled, podGone, failures>>
  BY <1>1 DEF startVars
<1>2. ASSUME NEW p \in Paths, InitialSyncWaited(p) PROVE OtherTypes'
  <2>1. pathDone' \in [Paths -> BOOLEAN]
    BY <1>2, Zenon DEF InitialSyncWaited
  <2> QED
    BY <1>2, <2>1 DEF InitialSyncWaited, startVars, worldVars
<1>3. ASSUME NEW p \in Paths, WatchGetsError(p) PROVE OtherTypes'
  BY <1>3 DEF WatchGetsError, startVars, worldVars
<1>4. ASSUME NEW p \in Paths, TouchContainer(p) PROVE OtherTypes'
  <2>1. amount' \in 0 .. Cardinality(StartContainer)
    BY <1>0, <1>4 DEF TouchContainer
  <2>2. container' \in BOOLEAN
    BY <1>4, Zenon DEF TouchContainer
  <2>3. counted' \subseteq StartContainer /\ recounted' \in Nat
    BY <1>4 DEF TouchContainer, Counts
  <2> QED
    BY <1>4, <2>1, <2>2, <2>3 DEF TouchContainer, worldVars
<1>5. ASSUME NEW p \in Paths, InitialSyncDone(p) PROVE OtherTypes'
  BY <1>5 DEF InitialSyncDone, worldVars
<1>6. ASSUME NEW p \in Paths, StartSyncFails(p) \/ ClientFails(p) PROVE OtherTypes'
  <2>1. failures' \in 0 .. MaxFailures
    BY <1>6, SyncControllerAssumption DEF StartSyncFails, ClientFails, MayFail
  <2> QED
    BY <1>6, <2>1 DEF StartSyncFails, ClientFails, startVars, worldVars
<1>7. CASE OtherStops \/ Cancel \/ DeletePod
  BY <1>7 DEF OtherStops, Cancel, DeletePod, startVars
<1>8. ASSUME NEW p \in Paths,
             \/ StartNothing(p) \/ SelectFails(p) \/ StartSync(p)
             \/ WaitingGetsError(p) \/ WaitingGetsDone(p) \/ WaitingCancelled(p)
             \/ WatchGetsDone(p) \/ WatchCancelled(p) \/ BackoffEnds(p)
             \/ ClientFailed(p) \/ ClientStops(p)
      PROVE  UNCHANGED <<restarted, pathDone, startVars, cancelled, podGone, failures>>
  BY <1>8 DEF StartNothing, SelectFails, StartSync, WaitingGetsError, WaitingGetsDone, WaitingCancelled,
              WatchGetsDone, WatchCancelled, BackoffEnds, ClientFailed, ClientStops, startVars, worldVars
<1>9. CASE UNCHANGED vars
  BY <1>1, <1>9 DEF vars, startVars
<1> QED
  BY <1>1, <1>2, <1>3, <1>4, <1>5, <1>6, <1>7, <1>8, <1>9 DEF Next, ControlStep, ClientStep, SyncStep, Ended

\* The invariant of the following theorems.
LEMMA Inductive ==
  /\ Init => TypeOK /\ TombCounts
  /\ TypeOK /\ TombCounts /\ [Next]_vars => (TypeOK /\ TombCounts)'
<1>1. ASSUME Init PROVE ClientTypes /\ OtherTypes
  <2>1. Cardinality(StartContainer) \in Nat
    BY PathSets, SyncControllerAssumption
  <2>2. ClientTypes
    BY <1>1 DEF Init, ClientTypes
  <2>3. amount \in 0 .. Cardinality(StartContainer) /\ failures \in 0 .. MaxFailures
    BY <1>1, <2>1, SyncControllerAssumption DEF Init
  <2> QED
    BY <1>1, <2>2, <2>3 DEF Init, OtherTypes
<1>2. Init => TypeOK /\ TombCounts
  BY <1>1, InitCounts, TypeParts
<1>3. ASSUME TypeOK, TombCounts, [Next]_vars PROVE CountedTypes' /\ TombCounts' /\ ClientTypes' /\ OtherTypes'
  BY <1>3, NextCounts, NextClientTypes, NextOtherTypes, TypeParts
<1>4. CountedTypes' /\ ClientTypes' /\ OtherTypes' => TypeOK'
  BY DEF TypeOK, CountedTypes, ClientTypes, OtherTypes, ControlStates
<1> QED
  BY <1>2, <1>3, <1>4

\* Type correctness of the controllers of any sync paths; no tomb counts below zero
\* goroutines, and the starter never counts below zero paths.
THEOREM SyncControllerTypeCorrect == Spec => []TypeOK
<1>1. Init => TypeOK /\ TombCounts
  BY Inductive
<1>2. TypeOK /\ TombCounts /\ [Next]_vars => (TypeOK /\ TombCounts)'
  BY Inductive
<1> QED
  BY <1>1, <1>2, PTL DEF Spec

\* The tomb of the dev pod is dead only when the controller of every path and the other
\* service have returned: a controller counts the goroutine that watches its client
\* before it returns itself (startWithWait), so no Go finds a dead tomb.
THEOREM ControllersReturned == Spec => []DeadMeansReturned
<1>1. Init => TypeOK /\ TombCounts
  BY Inductive
<1>2. TypeOK /\ TombCounts /\ [Next]_vars => (TypeOK /\ TombCounts)'
  BY Inductive
<1>3. ASSUME TypeOK, TombCounts, tomb.dead PROVE ~other /\ \A p \in Paths : control[p] = "returned"
  <2>1. Tracked \in SUBSET Paths
    BY DEF Tracked
  <2>2. Cardinality(Tracked) \in Nat /\ (Cardinality(Tracked) = 0 => Tracked = {})
    BY <2>1, PathSets
  <2>3. 0 = Cardinality(Tracked) + (IF other THEN 1 ELSE 0)
    BY <1>3 DEF TombCounts, Fits
  <2>4. ~other /\ Cardinality(Tracked) = 0
    BY <2>2, <2>3
  <2> QED
    BY <2>2, <2>4 DEF Tracked
<1>4. TypeOK /\ TombCounts => DeadMeansReturned
  BY <1>3 DEF DeadMeansReturned
<1> QED
  BY <1>1, <1>2, <1>4, PTL DEF Spec

-----------------------------------------------------------------------------
(* The delayed start of the container.                                     *)

\* What the starter still expects, the paths that have called it and the calls that
\* were repeated make up for the paths that the container waits for; a path calls it
\* after its initial sync, and the last call that is expected starts the container.
StarterCounts ==
    /\ \A p \in Paths : client[p] = "synced" => p \in synced
    /\ counted \subseteq synced
    /\ Cardinality(StartContainer) <= amount + Cardinality(counted) + recounted
    /\ container => amount = 0

\* The sizes of the sets of paths the starter is about.
LEMMA StarterSets ==
  ASSUME TypeOK
  PROVE  /\ IsFiniteSet(StartContainer) /\ Cardinality(StartContainer) \in Nat
         /\ IsFiniteSet(counted) /\ Cardinality(counted) \in Nat
<1>1. StartContainer \in SUBSET Paths /\ counted \in SUBSET Paths
  BY SyncControllerAssumption DEF TypeOK
<1> QED
  BY <1>1, PathSets

\* A call of the starter, of a path that has called before or not.
LEMMA CountsCall ==
  ASSUME TypeOK, NEW p \in StartContainer, Counts(p)
  PROVE  Cardinality(counted') + recounted' = Cardinality(counted) + recounted + 1
<1>1. CASE p \in counted
  <2>1. counted' = counted /\ recounted' = recounted + 1
    BY <1>1 DEF Counts
  <2> QED
    BY <2>1, StarterSets DEF TypeOK
<1>2. CASE p \notin counted
  <2>1. Cardinality(counted \cup {p}) = Cardinality(counted) + 1
    BY <1>2, StarterSets, FS_AddElement
  <2>2. counted' = counted \cup {p} /\ recounted' = recounted
    BY <1>2 DEF Counts
  <2> QED
    BY <2>1, <2>2, StarterSets DEF TypeOK
<1> QED
  BY <1>1, <1>2

\* The client of a path calls the starter.
LEMMA TouchCounts ==
  ASSUME TypeOK, StarterCounts, NEW p \in Paths, TouchContainer(p)
  PROVE  StarterCounts'
<1>1. p \in StartContainer /\ p \in synced /\ Counts(p) /\ client' = client /\ synced' = synced
  BY DEF TouchContainer, StarterCounts
<1>2. Cardinality(counted') + recounted' = Cardinality(counted) + recounted + 1
  BY <1>1, CountsCall
<1>3. counted' \subseteq synced' /\ \A q \in Paths : client'[q] = "synced" => q \in synced'
  BY <1>1 DEF StarterCounts, Counts
<1>4. amount \in Nat /\ amount' \in Nat /\ amount <= amount' + 1
  BY StarterSets DEF TypeOK, TouchContainer
<1>5. /\ Cardinality(counted) \in Nat /\ recounted \in Nat /\ Cardinality(StartContainer) \in Nat
      /\ Cardinality(counted') \in Nat /\ recounted' \in Nat
  <2>1. counted' \subseteq StartContainer /\ recounted' \in Nat
    BY <1>1 DEF Counts, TypeOK
  <2>2. counted' \in SUBSET Paths
    BY <2>1, SyncControllerAssumption
  <2> QED
    BY <2>1, <2>2, PathSets, StarterSets DEF TypeOK
<1>6. Cardinality(StartContainer) <= amount' + Cardinality(counted') + recounted'
  <2>1. Cardinality(StartContainer) <= amount + Cardinality(counted) + recounted
    BY DEF StarterCounts
  <2>2. \A S, a, b, c, r, d, q \in Nat : S <= a + c + r /\ a <= b + 1 /\ d + q = c + r + 1 => S <= b + d + q
    OBVIOUS
  <2> QED
    BY <1>2, <1>4, <1>5, <2>1, <2>2
<1>7. container' => amount' = 0
  <2>1. CASE amount = 1
    BY <2>1 DEF TouchContainer
  <2>2. CASE amount # 1
    <3>1. container' = container
      BY <2>2, Zenon DEF TouchContainer, TypeOK
    <3> QED
      BY <3>1 DEF TouchContainer, StarterCounts
  <2> QED
    BY <2>1, <2>2
<1> QED
  BY <1>3, <1>6, <1>7 DEF StarterCounts

\* Every step keeps the count.
LEMMA NextStarterCounts ==
  ASSUME TypeOK, StarterCounts, [Next]_vars
  PROVE  StarterCounts'
<1> USE DEF StarterCounts
<1>1. ASSUME NEW p \in Paths, TouchContainer(p) PROVE StarterCounts'
  BY <1>1, TouchCounts
<1>2. ASSUME NEW p \in Paths, InitialSyncDone(p) PROVE StarterCounts'
  BY <1>2 DEF InitialSyncDone, TypeOK
<1>3. ASSUME UNCHANGED startVars, \A p \in Paths : client'[p] = "synced" => client[p] = "synced"
      PROVE  StarterCounts'
  BY <1>3 DEF startVars
<1>4. ASSUME NEW p \in Paths, StartSync(p) PROVE StarterCounts'
  BY <1>3, <1>4 DEF StartSync, TypeOK
<1>5. ASSUME NEW p \in Paths, ClientFails(p) \/ ClientFailed(p) PROVE StarterCounts'
  BY <1>3, <1>5 DEF ClientFails, ClientFailed, TypeOK
<1>6. ASSUME NEW p \in Paths, WaitingCancelled(p) \/ WatchCancelled(p) \/ ClientStops(p) PROVE StarterCounts'
  BY <1>3, <1>6 DEF WaitingCancelled, WatchCancelled, ClientStops, Stopped, TypeOK
<1>7. ASSUME NEW p \in Paths,
             \/ StartNothing(p) \/ SelectFails(p) \/ StartSyncFails(p) \/ InitialSyncWaited(p)
             \/ WaitingGetsError(p) \/ WaitingGetsDone(p)
             \/ WatchGetsError(p) \/ WatchGetsDone(p) \/ BackoffEnds(p)
      PROVE  StarterCounts'
  BY <1>3, <1>7 DEF StartNothing, SelectFails, StartSyncFails, InitialSyncWaited, WaitingGetsError,
                    WaitingGetsDone, WatchGetsError, WatchGetsDone, BackoffEnds, clientVars
<1>8. CASE OtherStops \/ Cancel \/ DeletePod \/ UNCHANGED vars
  BY <1>3, <1>8 DEF OtherStops, Cancel, DeletePod, vars, clientVars, startVars
<1> QED
  BY <1>1, <1>2, <1>4, <1>5, <1>6, <1>7, <1>8 DEF Next, ControlStep, ClientStep, SyncStep, Ended

\* The count of the starter is enough.
LEMMA StarterWaits ==
  ASSUME TypeOK, StarterCounts, container
  PROVE  Cardinality(StartContainer \ synced) <= recounted
<1>1. /\ IsFiniteSet(StartContainer \ counted)
      /\ Cardinality(StartContainer \ counted) = Cardinality(StartContainer) - Cardinality(StartContainer \cap counted)
  BY StarterSets, FS_Difference
<1>2. StartContainer \cap counted = counted
  BY DEF TypeOK
<1>3. StartContainer \ synced \subseteq StartContainer \ counted
  BY DEF StarterCounts
<1>4. Cardinality(StartContainer \ synced) <= Cardinality(StartContainer \ counted)
  BY <1>1, <1>3, FS_Subset
<1>5. Cardinality(StartContainer) <= Cardinality(counted) + recounted
  BY StarterSets DEF StarterCounts, TypeOK
<1>6. IsFiniteSet(StartContainer \ synced)
  BY <1>1, <1>3, FS_Subset
<1>7. Cardinality(StartContainer \ synced) \in Nat
  BY <1>6, FS_CardinalityType
<1>8. \A S, c, d, r \in Nat : d <= S - c /\ S <= c + r => d <= r
  OBVIOUS
<1> QED
  BY <1>1, <1>2, <1>4, <1>5, <1>7, <1>8, StarterSets DEF TypeOK

\* Whatever fails and is restarted, before the container is started or after, the container
\* is started early by at most as many paths as clients have called the starter again for
\* a path that was counted (delayedContainerStarter.Done): without such a call it
\* is started when every path that it waits for has finished an initial sync.
THEOREM ContainerWaitsTheorem == Spec => []ContainerWaits
<1>1. Init => StarterCounts
  BY SyncControllerAssumption, PathSets, FS_EmptySet DEF Init, StarterCounts
<1>2. TypeOK /\ StarterCounts /\ [Next]_vars => StarterCounts'
  BY NextStarterCounts
<1>3. TypeOK /\ StarterCounts => ContainerWaits
  BY StarterWaits DEF ContainerWaits
<1> QED
  BY <1>1, <1>2, <1>3, SyncControllerTypeCorrect, PTL DEF Spec
=============================================================================
