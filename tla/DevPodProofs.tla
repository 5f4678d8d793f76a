---------------------------- MODULE DevPodProofs ----------------------------
(***************************************************************************)
(* Proofs about DevPod for all services and bounds: its type invariant,    *)
(* that a dead tomb has no goroutine left, that the attempts take turns    *)
(* but for what failed attempts of the restart loop add, and that every    *)
(* step of the dev pod is one that DevPodLife promises.                    *)
(*                                                                         *)
(* The second part proves DevPodManager, the keeper of the dev pods, for   *)
(* all jobs and names: its type invariant, that a name has one dev pod     *)
(* (OnlyDevPod), that none outlives Close, and that start_dev starts all   *)
(* or leaves none. Its inductive invariant IInv is stated there.           *)
(***************************************************************************)
EXTENDS DevPod, DevPodManager, FiniteSetTheorems, SequenceTheorems, TLAPS

-----------------------------------------------------------------------------
(* What the methods of a tomb return: its type, the number of goroutines   *)
(* and that it is not declared dead while one is left.                     *)

\* A tomb whose count fits: it is only dead without goroutines.
Fits(t) == t.dead => t.alive = 0

\* Go keeps the type of a tomb and counts its goroutines.
LEMMA GoType ==
  ASSUME NEW t \in TombState, NEW n \in Nat
  PROVE  /\ Go(t, n) \in TombState
         /\ Go(t, n).alive = t.alive + n /\ Go(t, n).dead = t.dead
  BY DEF Go, TombState

\* Kill changes the reason only.
LEMMA KillType ==
  ASSUME NEW t \in TombState, NEW e \in Reason
  PROVE  /\ Kill(t, e) \in TombState
         /\ Kill(t, e).alive = t.alive /\ Kill(t, e).dead = t.dead
  BY DEF Kill, TombState

\* The return of a goroutine that was counted.
LEMMA ReturnType ==
  ASSUME NEW t \in TombState, NEW e \in Reason, t.alive > 0, Fits(t)
  PROVE  /\ Return(t, e) \in TombState
         /\ Return(t, e).alive = t.alive - 1 /\ Fits(Return(t, e))
<1> DEFINE u == [t EXCEPT !.alive = @ - 1]
<1>1. u \in TombState /\ u.alive = t.alive - 1 /\ u.dead = FALSE
  BY DEF TombState, Fits
<1>2. Kill(u, e) \in TombState /\ Kill(u, e).alive = u.alive /\ Kill(u, e).dead = u.dead
  BY <1>1, KillType
<1> HIDE DEF u
<1>3. CASE u.alive = 0 \/ e # NoError
  <2>1. Return(t, e) = [Kill(u, e) EXCEPT !.dead = (u.alive = 0)]
    BY <1>3 DEF Return, u
  <2> QED
    BY <1>1, <1>2, <2>1 DEF Fits, TombState
<1>4. CASE ~(u.alive = 0 \/ e # NoError)
  <2>1. Return(t, e) = u
    BY <1>4 DEF Return, u
  <2> QED
    BY <1>1, <2>1 DEF Fits
<1> QED
  BY <1>3, <1>4

\* A new tomb has no goroutine and is not dead.
LEMMA NewTombType == NewTomb \in TombState /\ NewTomb.alive = 0 /\ NewTomb.dead = FALSE
  BY DEF NewTomb, TombState, Reason

-----------------------------------------------------------------------------
(* The inductive invariant: the tomb counts what runs under it.            *)

\* What start and the services return are reasons of a tomb.
LEMMA ReasonType == NoError \in Reason /\ Failure \in Reason /\ LostConnection \in Reason
  BY DevPodAssumption DEF Reason

StartRuns(a) == start[a] \in {"replace", "select", "services"}

\* The tomb of an attempt counts start and every service that starts or runs.
Counted(a) ==
    /\ tomb[a].alive = (IF StartRuns(a) THEN 1 ELSE 0) + Cardinality(starting[a]) + Cardinality(running[a])
    /\ Fits(tomb[a])
    /\ starting[a] \cap running[a] = {}
    /\ start[a] \in {"none", "replace", "select"} => starting[a] = {} /\ running[a] = {}
    /\ start[a] = "none" => ~tomb[a].dead

\* ... and an attempt that was not made has nothing.
TombCounts ==
    /\ \A a \in Attempts : Counted(a)
    /\ \A a \in Attempts : a > attempts => start[a] = "none"
    /\ caller = "idle" => attempts = 0 /\ \A a \in Attempts : watcher[a] = "none"

\* The sizes of sets of services.
LEMMA ServiceSets ==
  ASSUME NEW S \in SUBSET Services, NEW s \in Services
  PROVE  /\ IsFiniteSet(S) /\ Cardinality(S) \in Nat
         /\ s \in S => Cardinality(S \ {s}) = Cardinality(S) - 1 /\ Cardinality(S) > 0
         /\ s \notin S => Cardinality(S \cup {s}) = Cardinality(S) + 1
         /\ Cardinality(S) = 0 => S = {}
<1>1. IsFiniteSet(S)
  BY FS_Subset, DevPodAssumption
<1>2. Cardinality(S) \in Nat
  BY <1>1, FS_CardinalityType
<1>3. ASSUME s \in S PROVE Cardinality(S \ {s}) = Cardinality(S) - 1 /\ Cardinality(S) > 0
  <2>1. Cardinality(S) # 0
    BY <1>1, <1>3, FS_EmptySet
  <2>2. Cardinality(S \ {s}) = Cardinality(S) - 1
    BY <1>1, <1>3, FS_RemoveElement, Zenon
  <2> QED
    BY <1>2, <2>1, <2>2
<1>4. ASSUME s \notin S PROVE Cardinality(S \cup {s}) = Cardinality(S) + 1
  BY <1>1, <1>4, FS_AddElement
<1> QED
  BY <1>1, <1>2, <1>3, <1>4, FS_EmptySet

\* The empty set counts nothing, and all services can be counted.
LEMMA ServicesFinite ==
  Cardinality({}) = 0 /\ Cardinality(Services) \in Nat
  BY FS_EmptySet, FS_CardinalityType, DevPodAssumption

\* An attempt that a step does not touch stays counted.
LEMMA Untouched ==
  ASSUME NEW a \in Attempts, Counted(a),
         tomb'[a] = tomb[a], start'[a] = start[a], starting'[a] = starting[a], running'[a] = running[a]
  PROVE  Counted(a)'
  BY DEF Counted, StartRuns

-----------------------------------------------------------------------------
(* The initial state.                                                      *)

\* Before Start is called no attempt has anything.
LEMMA InitCounts == ASSUME Init PROVE TypeOK /\ TombCounts
<1>1. tomb \in [Attempts -> TombState]
  BY NewTombType DEF Init
<1>3. /\ start \in [Attempts -> {"none", "replace", "select", "services", "returned"}]
      /\ starting \in [Attempts -> SUBSET Services] /\ running \in [Attempts -> SUBSET Services]
  BY DEF Init
<1>4. /\ podOf \in [Attempts -> NoPod .. LastPod] /\ child \in [Attempts -> 0 .. MaxAttempts]
      /\ retried \in Nat
      /\ pod \in 1 .. LastPod /\ selectedPod \in NoPod .. LastPod /\ attempts \in 0 .. MaxAttempts
  BY DevPodAssumption DEF Init, NoPod, LastPod
<1>5. /\ watcher \in [Attempts -> {"none", "select", "waitDead", "inspect", "poll", "finish",
                                    "restart", "awaiting", "backoff", "ended"}]
      /\ closes \in 0 .. 2 /\ caller \in {"idle", "starting", "stopping", "started", "failed"}
  BY DEF Init
<1>6. cancelled \in BOOLEAN /\ err \in Reason
  BY ReasonType, Zenon DEF Init
<1>2. ASSUME NEW a \in Attempts PROVE Counted(a) /\ start[a] = "none"
  BY <1>2, NewTombType, ServicesFinite DEF Init, Counted, StartRuns, Fits
<1> QED
  BY <1>1, <1>2, <1>3, <1>4, <1>5, <1>6 DEF Init, TypeOK, TombCounts

-----------------------------------------------------------------------------
(* A new attempt.                                                          *)

\* startWithRetry gives the next attempt a tomb that counts start.
LEMMA AttemptCounts ==
  ASSUME TypeOK, TombCounts, NEW n, n = attempts + 1, StartWithRetry(n),
         starting' = starting, running' = running, caller' # "idle"
  PROVE  /\ TombCounts'
         /\ attempts' \in 0 .. MaxAttempts /\ attempts' \in Attempts
         /\ tomb' \in [Attempts -> TombState]
         /\ start' \in [Attempts -> {"none", "replace", "select", "services", "returned"}]
<1>1. n \in Attempts /\ attempts' = n /\ start[n] = "none"
  BY DevPodAssumption DEF StartWithRetry, TypeOK, Attempts, TombCounts
<1>2. Go(NewTomb, 1) \in TombState /\ Go(NewTomb, 1).alive = 1 /\ Go(NewTomb, 1).dead = FALSE
  <2>1. NewTomb \in TombState /\ NewTomb.alive = 0 /\ NewTomb.dead = FALSE
    BY NewTombType
  <2>2. /\ Go(NewTomb, 1) \in TombState
        /\ Go(NewTomb, 1).alive = NewTomb.alive + 1 /\ Go(NewTomb, 1).dead = NewTomb.dead
    BY <2>1, GoType, Zenon
  <2> QED
    BY <2>1, <2>2
<1>3. /\ tomb' = [tomb EXCEPT ![n] = Go(NewTomb, 1)] /\ start' = [start EXCEPT ![n] = "replace"]
      /\ starting[n] = {} /\ running[n] = {}
  BY <1>1 DEF StartWithRetry, TombCounts, Counted
<1>4. /\ tomb' \in [Attempts -> TombState]
      /\ start' \in [Attempts -> {"none", "replace", "select", "services", "returned"}]
  BY <1>1, <1>2, <1>3 DEF TypeOK
<1>5. Counted(n)'
  <2>1. tomb'[n] = Go(NewTomb, 1) /\ start'[n] = "replace" /\ starting'[n] = {} /\ running'[n] = {}
    BY <1>1, <1>3 DEF TypeOK
  <2> QED
    BY <1>2, <2>1, ServicesFinite DEF Counted, StartRuns, Fits
<1>6. ASSUME NEW b \in Attempts, b # n PROVE Counted(b)'
  <2>1. tomb'[b] = tomb[b] /\ start'[b] = start[b]
    BY <1>3, <1>6 DEF TypeOK
  <2> QED
    BY <2>1, Untouched DEF TombCounts
<1>7. ASSUME NEW b \in Attempts, b > attempts' PROVE start'[b] = "none"
  <2>1. b # n /\ b > attempts
    BY <1>1, <1>7 DEF Attempts, TypeOK
  <2> QED
    BY <1>3, <2>1 DEF TombCounts, TypeOK
<1> QED
  BY <1>1, <1>4, <1>5, <1>6, <1>7 DEF TombCounts, Attempts
-----------------------------------------------------------------------------
(* A step of one attempt.                                                  *)

StartStates == {"none", "replace", "select", "services", "returned"}

\* The types of what the tombs count, and those of the other variables.
CountedTypes ==
    /\ tomb \in [Attempts -> TombState] /\ start \in [Attempts -> StartStates]
    /\ starting \in [Attempts -> SUBSET Services] /\ running \in [Attempts -> SUBSET Services]

OtherTypes ==
    /\ attempts \in 0 .. MaxAttempts
    /\ podOf \in [Attempts -> NoPod .. LastPod]
    /\ watcher \in [Attempts -> {"none", "select", "waitDead", "inspect", "poll", "finish",
                                 "restart", "awaiting", "backoff", "ended"}]
    /\ child \in [Attempts -> 0 .. MaxAttempts] /\ retried \in Nat
    /\ selectedPod \in NoPod .. LastPod
    /\ cancelled \in BOOLEAN /\ closes \in 0 .. 2 /\ err \in Reason
    /\ caller \in {"idle", "starting", "stopping", "started", "failed"}
    /\ pod \in 1 .. LastPod

\* The type invariant is the two together.
LEMMA TypeParts == CountedTypes' /\ OtherTypes' => TypeOK' 
  BY DEF TypeOK, CountedTypes, OtherTypes, StartStates

\* What a step of an attempt that was made leaves: the tomb has to count it.
LEMMA Touched ==
  ASSUME TypeOK, TombCounts, NEW a \in Attempts, NEW t \in TombState, NEW st \in StartStates,
         NEW S \in SUBSET Services, NEW R \in SUBSET Services,
         tomb' = [tomb EXCEPT ![a] = t], start' = [start EXCEPT ![a] = st],
         starting' = [starting EXCEPT ![a] = S], running' = [running EXCEPT ![a] = R],
         attempts' = attempts, caller' = caller,
         start[a] # "none", st # "none", Fits(t), S \cap R = {},
         st \in {"replace", "select"} => S = {} /\ R = {},
         t.alive = (IF st \in {"replace", "select", "services"} THEN 1 ELSE 0) + Cardinality(S) + Cardinality(R)
  PROVE  CountedTypes' /\ TombCounts'
<1>1. CountedTypes'
  BY DEF TypeOK, CountedTypes, StartStates
<1>2. tomb'[a] = t /\ start'[a] = st /\ starting'[a] = S /\ running'[a] = R
  BY DEF TypeOK
<1>3. Counted(a)'
  BY <1>2 DEF Counted, StartRuns
<1>4. ASSUME NEW b \in Attempts, b # a PROVE Counted(b)' /\ (b > attempts => start'[b] = "none")
  <2>1. tomb'[b] = tomb[b] /\ start'[b] = start[b] /\ starting'[b] = starting[b] /\ running'[b] = running[b]
    BY <1>4 DEF TypeOK
  <2> QED
    BY <2>1, Untouched DEF TombCounts
<1>5. ~(a > attempts) /\ caller' # "idle"
  BY DEF TombCounts, Attempts
<1> QED
  BY <1>1, <1>3, <1>4, <1>5 DEF TombCounts

\* A step that touches no tomb, no start and no service.
LEMMA NothingTouched ==
  ASSUME TypeOK, TombCounts, UNCHANGED <<tomb, start, starting, running, attempts>>,
         caller' = "idle" => caller = "idle" /\ watcher' = watcher
  PROVE  CountedTypes' /\ TombCounts'
  BY DEF TypeOK, CountedTypes, StartStates, TombCounts, Counted, StartRuns

\* What the tomb counts of an attempt with a service that starts or runs.
LEMMA HasService ==
  ASSUME TypeOK, TombCounts, NEW a \in Attempts, NEW s \in Services, s \in starting[a] \cup running[a]
  PROVE  /\ tomb[a] \in TombState /\ tomb[a].alive > 0 /\ tomb[a].dead = FALSE
         /\ start[a] \in StartStates /\ start[a] \notin {"none", "replace", "select"}
         /\ starting[a] \in SUBSET Services /\ running[a] \in SUBSET Services
         /\ starting[a] \cap running[a] = {}
         /\ tomb[a].alive = (IF start[a] \in {"replace", "select", "services"} THEN 1 ELSE 0)
                               + Cardinality(starting[a]) + Cardinality(running[a])
<1>1. /\ tomb[a] \in TombState /\ start[a] \in StartStates
      /\ starting[a] \in SUBSET Services /\ running[a] \in SUBSET Services
  BY DEF TypeOK, StartStates
<1>2. /\ start[a] \notin {"none", "replace", "select"} /\ starting[a] \cap running[a] = {}
      /\ tomb[a].alive = (IF start[a] \in {"replace", "select", "services"} THEN 1 ELSE 0)
                            + Cardinality(starting[a]) + Cardinality(running[a])
      /\ Fits(tomb[a])
  BY DEF TombCounts, Counted, StartRuns
<1>3. Cardinality(starting[a]) \in Nat /\ Cardinality(running[a]) \in Nat
  BY <1>1, ServiceSets
<1>4. Cardinality(starting[a]) > 0 \/ Cardinality(running[a]) > 0
  BY <1>1, ServiceSets
<1>5. tomb[a].alive > 0
  BY <1>2, <1>3, <1>4
<1>6. tomb[a].dead = FALSE
  BY <1>1, <1>2, <1>5 DEF Fits, TombState
<1> QED
  BY <1>1, <1>2, <1>5, <1>6
-----------------------------------------------------------------------------
(* start.                                                                  *)

\* What the tomb counts of an attempt whose start runs.
LEMMA HasStart ==
  ASSUME TypeOK, TombCounts, NEW a \in Attempts, StartRuns(a)
  PROVE  /\ tomb[a] \in TombState /\ tomb[a].alive > 0 /\ Fits(tomb[a]) /\ tomb[a].dead = FALSE
         /\ tomb[a].alive = 1 + Cardinality(starting[a]) + Cardinality(running[a])
         /\ starting[a] \in SUBSET Services /\ running[a] \in SUBSET Services
         /\ Cardinality(starting[a]) \in Nat /\ Cardinality(running[a]) \in Nat
         /\ starting[a] \cap running[a] = {} /\ start[a] # "none"
         /\ start[a] \in {"replace", "select"} => starting[a] = {} /\ running[a] = {}
<1>1. tomb[a] \in TombState /\ starting[a] \in SUBSET Services /\ running[a] \in SUBSET Services
  BY DEF TypeOK
<1>2. /\ tomb[a].alive = 1 + Cardinality(starting[a]) + Cardinality(running[a]) /\ Fits(tomb[a])
      /\ starting[a] \cap running[a] = {} /\ start[a] # "none"
      /\ start[a] \in {"replace", "select"} => starting[a] = {} /\ running[a] = {}
  BY DEF TombCounts, Counted, StartRuns
<1>3. Cardinality(starting[a]) \in Nat /\ Cardinality(running[a]) \in Nat
  BY <1>1, FS_Subset, FS_CardinalityType, DevPodAssumption
<1>4. tomb[a].alive > 0
  BY <1>2, <1>3
<1>5. tomb[a].dead = FALSE
  BY <1>1, <1>2, <1>4 DEF Fits, TombState
<1> QED
  BY <1>1, <1>2, <1>3, <1>4, <1>5

\* start returns, with an error or without.
LEMMA ReturnOfStart ==
  ASSUME TypeOK, TombCounts, NEW a \in Attempts, StartRuns(a), NEW e \in Reason,
         tomb' = [tomb EXCEPT ![a] = Return(@, e)], start' = [start EXCEPT ![a] = "returned"],
         UNCHANGED <<attempts, starting, running, caller>>
  PROVE  CountedTypes' /\ TombCounts'
<1> DEFINE t == Return(tomb[a], e)
<1>1. /\ tomb[a] \in TombState /\ tomb[a].alive > 0 /\ Fits(tomb[a])
      /\ tomb[a].alive = 1 + Cardinality(starting[a]) + Cardinality(running[a])
      /\ starting[a] \in SUBSET Services /\ running[a] \in SUBSET Services
      /\ Cardinality(starting[a]) \in Nat /\ Cardinality(running[a]) \in Nat
      /\ starting[a] \cap running[a] = {} /\ start[a] # "none"
  BY HasStart
<1>2. t \in TombState /\ t.alive = tomb[a].alive - 1 /\ Fits(t)
  BY <1>1, ReturnType
<1>3. /\ tomb' = [tomb EXCEPT ![a] = t]
      /\ starting' = [starting EXCEPT ![a] = starting[a]] /\ running' = [running EXCEPT ![a] = running[a]]
  BY DEF TypeOK
<1> HIDE DEF t
<1>4. t.alive = 0 + Cardinality(starting[a]) + Cardinality(running[a])
  BY <1>1, <1>2
<1> QED
  BY <1>1, <1>2, <1>3, <1>4, Touched DEF StartStates

\* start fails before the services.
LEMMA StartFailsCounts ==
  ASSUME TypeOK, TombCounts, NEW a \in Attempts, StartFails(a)
  PROVE  TypeOK' /\ TombCounts'
<1>1. CountedTypes' /\ TombCounts'
  BY ReturnOfStart, ReasonType DEF StartFails, StartRuns
<1>2. selectedPod' \in NoPod .. LastPod
  BY DevPodAssumption DEF StartFails, TypeOK, NoPod, LastPod
<1>3. OtherTypes'
  BY <1>2 DEF StartFails, TypeOK, OtherTypes
<1> QED
  BY <1>1, <1>3, TypeParts

\* The pod is replaced.
LEMMA ReplacePodCounts ==
  ASSUME TypeOK, TombCounts, NEW a \in Attempts, ReplacePod(a)
  PROVE  TypeOK' /\ TombCounts'
<1>1. /\ tomb[a] \in TombState /\ Fits(tomb[a]) /\ start[a] # "none"
      /\ tomb[a].alive = 1 + Cardinality(starting[a]) + Cardinality(running[a])
      /\ starting[a] \in SUBSET Services /\ running[a] \in SUBSET Services
      /\ starting[a] = {} /\ running[a] = {}
  BY HasStart DEF ReplacePod, StartRuns
<1>2. /\ tomb' = [tomb EXCEPT ![a] = tomb[a]] /\ start' = [start EXCEPT ![a] = "select"]
      /\ starting' = [starting EXCEPT ![a] = starting[a]] /\ running' = [running EXCEPT ![a] = running[a]]
      /\ attempts' = attempts /\ caller' = caller
  BY DEF TypeOK, ReplacePod
<1>3. CountedTypes' /\ TombCounts'
  BY <1>1, <1>2, Touched DEF StartStates
<1>4. OtherTypes'
  BY DEF ReplacePod, TypeOK, OtherTypes
<1> QED
  BY <1>3, <1>4, TypeParts

\* The pod is selected: every service is counted when its start begins.
LEMMA SelectPodCounts ==
  ASSUME TypeOK, TombCounts, NEW a \in Attempts, SelectPod(a)
  PROVE  TypeOK' /\ TombCounts'
<1> DEFINE t == Go(tomb[a], Cardinality(Services))
<1>1. /\ tomb[a] \in TombState /\ start[a] # "none" /\ tomb[a].dead = FALSE
      /\ tomb[a].alive = 1 + Cardinality(starting[a]) + Cardinality(running[a])
      /\ running[a] \in SUBSET Services /\ starting[a] = {} /\ running[a] = {}
  BY HasStart DEF SelectPod, StartRuns
<1>2. t \in TombState /\ t.alive = tomb[a].alive + Cardinality(Services) /\ t.dead = tomb[a].dead
  BY <1>1, ServicesFinite, GoType
<1>3. /\ tomb' = [tomb EXCEPT ![a] = t] /\ start' = [start EXCEPT ![a] = "services"]
      /\ starting' = [starting EXCEPT ![a] = Services] /\ running' = [running EXCEPT ![a] = running[a]]
      /\ attempts' = attempts /\ caller' = caller
  BY DEF TypeOK, SelectPod
<1> HIDE DEF t
<1>4. t.alive = 1 + Cardinality(Services) + Cardinality(running[a]) /\ Fits(t)
  <2>1. Cardinality(starting[a]) = 0 /\ Cardinality(running[a]) = 0 /\ Cardinality(Services) \in Nat
    BY <1>1, ServicesFinite
  <2>2. t.dead = FALSE
    BY <1>1, <1>2
  <2>3. tomb[a].alive = 1
    BY <1>1, <2>1
  <2>4. t.alive = 1 + Cardinality(Services) + Cardinality(running[a])
    BY <1>2, <2>1, <2>3
  <2> QED
    BY <2>2, <2>4 DEF Fits
<1>5. CountedTypes' /\ TombCounts'
  BY <1>1, <1>2, <1>3, <1>4, Touched DEF StartStates
<1>6. selectedPod' \in NoPod .. LastPod /\ podOf' \in [Attempts -> NoPod .. LastPod]
  BY DevPodAssumption DEF SelectPod, TypeOK, NoPod, LastPod
<1>7. OtherTypes'
  BY <1>6 DEF SelectPod, TypeOK, OtherTypes
<1> QED
  BY <1>5, <1>7, TypeParts

\* The services have been waited for.
LEMMA ServicesReadyCounts ==
  ASSUME TypeOK, TombCounts, NEW a \in Attempts, ServicesReady(a)
  PROVE  TypeOK' /\ TombCounts'
<1>1. PICK e \in Reason : tomb' = [tomb EXCEPT ![a] = Return(@, e)]
  BY ReasonType DEF ServicesReady
<1>2. CountedTypes' /\ TombCounts'
  BY <1>1, ReturnOfStart DEF ServicesReady, StartRuns
<1>3. OtherTypes'
  BY DEF ServicesReady, TypeOK, OtherTypes
<1> QED
  BY <1>2, <1>3, TypeParts
-----------------------------------------------------------------------------
(* The services.                                                           *)

\* A counted goroutine of a service returns, before or after it ran.
LEMMA ServiceReturned ==
  ASSUME TypeOK, TombCounts, NEW a \in Attempts, NEW s \in Services,
         NEW t \in TombState, t.alive = tomb[a].alive - 1, Fits(t),
         tomb' = [tomb EXCEPT ![a] = t], UNCHANGED <<attempts, start, caller>>,
         \/ s \in starting[a] /\ starting' = [starting EXCEPT ![a] = @ \ {s}] /\ running' = running
         \/ s \in running[a] /\ running' = [running EXCEPT ![a] = @ \ {s}] /\ starting' = starting
  PROVE  CountedTypes' /\ TombCounts'
<1>1. /\ tomb[a] \in TombState
      /\ start[a] \in StartStates /\ start[a] \notin {"none", "replace", "select"}
      /\ starting[a] \in SUBSET Services /\ running[a] \in SUBSET Services
      /\ starting[a] \cap running[a] = {}
      /\ tomb[a].alive = (IF start[a] \in {"replace", "select", "services"} THEN 1 ELSE 0)
                            + Cardinality(starting[a]) + Cardinality(running[a])
  BY HasService
<1>2. Cardinality(starting[a]) \in Nat /\ Cardinality(running[a]) \in Nat
  BY <1>1, ServiceSets
<1>3. start' = [start EXCEPT ![a] = start[a]]
  BY DEF TypeOK
<1>4. CASE s \in starting[a] /\ starting' = [starting EXCEPT ![a] = @ \ {s}] /\ running' = running
  <2>1. Cardinality(starting[a] \ {s}) = Cardinality(starting[a]) - 1
    BY <1>1, <1>4, ServiceSets
  <2>2. t.alive = (IF start[a] \in {"replace", "select", "services"} THEN 1 ELSE 0)
                     + Cardinality(starting[a] \ {s}) + Cardinality(running[a])
    BY <1>1, <1>2, <2>1
  <2>3. /\ starting' = [starting EXCEPT ![a] = starting[a] \ {s}]
        /\ running' = [running EXCEPT ![a] = running[a]]
    BY <1>4 DEF TypeOK
  <2>4. starting[a] \ {s} \in SUBSET Services /\ (starting[a] \ {s}) \cap running[a] = {}
    BY <1>1
  <2> QED
    BY <1>1, <1>3, <2>2, <2>3, <2>4, Touched
<1>5. CASE s \in running[a] /\ running' = [running EXCEPT ![a] = @ \ {s}] /\ starting' = starting
  <2>1. Cardinality(running[a] \ {s}) = Cardinality(running[a]) - 1
    BY <1>1, <1>5, ServiceSets
  <2>2. t.alive = (IF start[a] \in {"replace", "select", "services"} THEN 1 ELSE 0)
                     + Cardinality(starting[a]) + Cardinality(running[a] \ {s})
    BY <1>1, <1>2, <2>1
  <2>3. /\ running' = [running EXCEPT ![a] = running[a] \ {s}]
        /\ starting' = [starting EXCEPT ![a] = starting[a]]
    BY <1>5 DEF TypeOK
  <2>4. running[a] \ {s} \in SUBSET Services /\ starting[a] \cap (running[a] \ {s}) = {}
    BY <1>1
  <2> QED
    BY <1>1, <1>3, <2>2, <2>3, <2>4, Touched
<1> QED
  BY <1>4, <1>5

\* The tomb after such a return, when the service may have killed it first.
LEMMA ReturnOfService ==
  ASSUME TypeOK, TombCounts, NEW a \in Attempts, NEW s \in Services, s \in starting[a] \cup running[a],
         NEW e \in Reason, NEW k \in Reason
  PROVE  /\ Return(tomb[a], e) \in TombState /\ Return(tomb[a], e).alive = tomb[a].alive - 1
         /\ Fits(Return(tomb[a], e))
         /\ Return(Kill(tomb[a], k), e) \in TombState
         /\ Return(Kill(tomb[a], k), e).alive = tomb[a].alive - 1
         /\ Fits(Return(Kill(tomb[a], k), e))
<1>1. tomb[a] \in TombState /\ tomb[a].alive > 0 /\ tomb[a].dead = FALSE
  BY HasService
<1>2. Kill(tomb[a], k) \in TombState /\ Kill(tomb[a], k).alive = tomb[a].alive /\ Kill(tomb[a], k).dead = FALSE
  BY <1>1, KillType
<1>3. Fits(tomb[a]) /\ Fits(Kill(tomb[a], k)) /\ Kill(tomb[a], k).alive > 0
  BY <1>1, <1>2 DEF Fits
<1>4. Return(tomb[a], e) \in TombState /\ Return(tomb[a], e).alive = tomb[a].alive - 1 /\ Fits(Return(tomb[a], e))
  BY <1>1, <1>3, ReturnType
<1>5. /\ Return(Kill(tomb[a], k), e) \in TombState
      /\ Return(Kill(tomb[a], k), e).alive = Kill(tomb[a], k).alive - 1
      /\ Fits(Return(Kill(tomb[a], k), e))
  BY <1>2, <1>3, ReturnType
<1> QED
  BY <1>2, <1>4, <1>5

\* A service runs: its goroutine is counted before its start function returns.
LEMMA ServiceStartedCounts ==
  ASSUME TypeOK, TombCounts, NEW a \in Attempts, NEW s \in Services, ServiceStarted(a, s)
  PROVE  TypeOK' /\ TombCounts'
<1> DEFINE g == Go(tomb[a], 1)
           t == Return(g, NoError)
           S == starting[a] \ {s}
           R == running[a] \cup {s}
<1>1. s \in starting[a]
  BY DEF ServiceStarted
<1>2. /\ tomb[a] \in TombState /\ tomb[a].alive > 0 /\ tomb[a].dead = FALSE
      /\ start[a] \in StartStates /\ start[a] \notin {"none", "replace", "select"}
      /\ starting[a] \in SUBSET Services /\ running[a] \in SUBSET Services
      /\ starting[a] \cap running[a] = {}
      /\ tomb[a].alive = (IF start[a] \in {"replace", "select", "services"} THEN 1 ELSE 0)
                            + Cardinality(starting[a]) + Cardinality(running[a])
  BY <1>1, HasService
<1>3. g \in TombState /\ g.alive = tomb[a].alive + 1 /\ g.dead = FALSE
  BY <1>2, GoType
<1> HIDE DEF g
<1>4. g.alive > 0 /\ tomb[a].alive \in Nat /\ Fits(g)
  BY <1>2, <1>3 DEF TombState, Fits
<1>5. t \in TombState /\ t.alive = g.alive - 1 /\ Fits(t)
  BY <1>3, <1>4, ReturnType, ReasonType
<1>6. /\ tomb' = [tomb EXCEPT ![a] = t] /\ start' = [start EXCEPT ![a] = start[a]]
      /\ starting' = [starting EXCEPT ![a] = S] /\ running' = [running EXCEPT ![a] = R]
      /\ attempts' = attempts /\ caller' = caller
  BY DEF TypeOK, ServiceStarted, g
<1>7. S \in SUBSET Services /\ R \in SUBSET Services /\ S \cap R = {}
  BY <1>2
<1>8. /\ Cardinality(S) = Cardinality(starting[a]) - 1 /\ Cardinality(R) = Cardinality(running[a]) + 1
      /\ Cardinality(starting[a]) \in Nat /\ Cardinality(running[a]) \in Nat
  <2>1. s \notin running[a]
    BY <1>1, <1>2
  <2> QED
    BY <1>1, <1>2, <2>1, ServiceSets
<1> HIDE DEF t, S, R
<1>9. t.alive = (IF start[a] \in {"replace", "select", "services"} THEN 1 ELSE 0) + Cardinality(S) + Cardinality(R)
  BY <1>2, <1>3, <1>4, <1>5, <1>8
<1>10. CountedTypes' /\ TombCounts'
  BY <1>2, <1>5, <1>6, <1>7, <1>9, Touched
<1>11. OtherTypes'
  BY DEF ServiceStarted, TypeOK, OtherTypes
<1> QED
  BY <1>10, <1>11, TypeParts
\* The start function of a service returns an error.
LEMMA ServiceFailsCounts ==
  ASSUME TypeOK, TombCounts, NEW a \in Attempts, NEW s \in Services, ServiceFails(a, s)
  PROVE  TypeOK' /\ TombCounts'
<1>1. PICK e \in Reason : tomb' = [tomb EXCEPT ![a] = Return(tomb[a], e)]
  BY ReasonType DEF ServiceFails, TypeOK
<1>2. s \in starting[a] /\ starting' = [starting EXCEPT ![a] = @ \ {s}] /\ running' = running
  BY DEF ServiceFails
<1>3. CountedTypes' /\ TombCounts'
  BY <1>1, <1>2, ReturnOfService, ServiceReturned DEF ServiceFails
<1>4. OtherTypes'
  BY DEF ServiceFails, TypeOK, OtherTypes
<1> QED
  BY <1>3, <1>4, TypeParts

\* It returns nil without a service.
LEMMA ServiceSkippedCounts ==
  ASSUME TypeOK, TombCounts, NEW a \in Attempts, NEW s \in Services, ServiceSkipped(a, s)
  PROVE  TypeOK' /\ TombCounts'
<1>1. tomb' = [tomb EXCEPT ![a] = Return(tomb[a], NoError)]
  BY DEF ServiceSkipped, TypeOK
<1>2. s \in starting[a] /\ starting' = [starting EXCEPT ![a] = @ \ {s}] /\ running' = running
  BY DEF ServiceSkipped
<1>3. CountedTypes' /\ TombCounts'
  BY <1>1, <1>2, ReasonType, ReturnOfService, ServiceReturned DEF ServiceSkipped
<1>4. OtherTypes'
  BY DEF ServiceSkipped, TypeOK, OtherTypes
<1> QED
  BY <1>3, <1>4, TypeParts

\* A running service ends, for whatever reason.
LEMMA RunningCounts ==
  ASSUME TypeOK, TombCounts, NEW a \in Attempts, NEW s \in Services,
         ServiceStops(a, s) \/ ServiceLosesPod(a, s) \/ ServiceEnds(a, s)
  PROVE  TypeOK' /\ TombCounts'
<1>1. /\ s \in running[a] /\ running' = [running EXCEPT ![a] = @ \ {s}]
      /\ UNCHANGED <<attempts, start, starting, caller>>
  BY DEF ServiceStops, ServiceLosesPod, ServiceEnds
<1>2. PICK e \in Reason, k \in Reason :
        tomb' \in {[tomb EXCEPT ![a] = Return(tomb[a], e)], [tomb EXCEPT ![a] = Return(Kill(tomb[a], k), e)]}
  <2>1. CASE ServiceStops(a, s)
    BY <2>1, ReasonType DEF ServiceStops, TypeOK
  <2>2. CASE ServiceLosesPod(a, s)
    BY <2>2, ReasonType DEF ServiceLosesPod, TypeOK
  <2>3. CASE ServiceEnds(a, s)
    BY <2>3, ReasonType DEF ServiceEnds, TypeOK
  <2> QED
    BY <2>1, <2>2, <2>3
<1>3. CountedTypes' /\ TombCounts'
  <2>1. PICK t \in TombState : t.alive = tomb[a].alive - 1 /\ Fits(t) /\ tomb' = [tomb EXCEPT ![a] = t]
    BY <1>1, <1>2, ReturnOfService
  <2> QED
    BY <1>1, <2>1, ServiceReturned
<1>4. OtherTypes'
  <2>1. cancelled' \in BOOLEAN
    BY Zenon DEF ServiceStops, ServiceLosesPod, ServiceEnds, TypeOK
  <2> QED
    BY <2>1 DEF ServiceStops, ServiceLosesPod, ServiceEnds, TypeOK, OtherTypes
<1> QED
  BY <1>3, <1>4, TypeParts

-----------------------------------------------------------------------------
(* The caller, the cluster and the watchers.                               *)

\* Start makes the first attempt.
LEMMA StartCounts ==
  ASSUME TypeOK, TombCounts, Start
  PROVE  TypeOK' /\ TombCounts'
<1>1. attempts = 0 /\ caller' = "starting" /\ StartWithRetry(1)
  BY DEF Start, TombCounts
<1>2. /\ TombCounts' /\ attempts' \in 0 .. MaxAttempts /\ tomb' \in [Attempts -> TombState]
      /\ start' \in [Attempts -> {"none", "replace", "select", "services", "returned"}]
  BY <1>1, AttemptCounts DEF Start
<1>3. watcher' \in [Attempts -> {"none", "select", "waitDead", "inspect", "poll", "finish",
                                 "restart", "awaiting", "backoff", "ended"}]
  BY DEF Start, TypeOK
<1> QED
  BY <1>1, <1>2, <1>3 DEF Start, TypeOK

\* A restart makes the next one.
LEMMA RestartCounts ==
  ASSUME TypeOK, TombCounts, NEW a \in Attempts, Restart(a)
  PROVE  TypeOK' /\ TombCounts'
<1>1. caller' # "idle"
  BY DEF Restart, TombCounts
<1>2. PICK n : n = attempts + 1
  OBVIOUS
<1>3. StartWithRetry(n) /\ starting' = starting /\ running' = running
  BY <1>2 DEF Restart
<1>4. /\ TombCounts' /\ attempts' \in 0 .. MaxAttempts /\ attempts' \in Attempts
      /\ tomb' \in [Attempts -> TombState]
      /\ start' \in [Attempts -> {"none", "replace", "select", "services", "returned"}]
  BY <1>1, <1>2, <1>3, AttemptCounts
<1>5. attempts' = attempts + 1
  BY DEF Restart, StartWithRetry
<1>6. /\ child' \in [Attempts -> 0 .. MaxAttempts]
      /\ watcher' \in [Attempts -> {"none", "select", "waitDead", "inspect", "poll", "finish",
                                    "restart", "awaiting", "backoff", "ended"}]
  BY <1>4, <1>5 DEF Restart, TypeOK
<1> QED
  BY <1>4, <1>6 DEF Restart, TypeOK

\* The steps of the caller and the cluster that touch no attempt.
LEMMA OutsideCounts ==
  ASSUME TypeOK, TombCounts, StartReturns \/ StopReturns \/ Cancel \/ DeletePod
  PROVE  TypeOK' /\ TombCounts'
<1>1. CountedTypes' /\ TombCounts'
  BY NothingTouched DEF StartReturns, StopReturns, Cancel, DeletePod, startVars
<1>2. cancelled' \in BOOLEAN
  BY Zenon DEF StartReturns, StopReturns, Cancel, DeletePod, TypeOK
<1>3. pod' \in 1 .. LastPod /\ caller' \in {"idle", "starting", "stopping", "started", "failed"}
  BY DevPodAssumption DEF StartReturns, StopReturns, Cancel, DeletePod, MoreFaults, LastPod, TypeOK
<1>4. OtherTypes'
  BY <1>2, <1>3 DEF StartReturns, StopReturns, Cancel, DeletePod, startVars, TypeOK, OtherTypes
<1> QED
  BY <1>1, <1>4, TypeParts

\* The steps of a watcher other than Restart.
LEMMA WatcherCounts ==
  ASSUME TypeOK, TombCounts, ~Panicked, NEW a \in Attempts,
         \/ WatcherWakes(a) \/ WatcherStopped(a) \/ WatcherInspects(a) \/ WatcherPolls(a)
         \/ WatcherFinishes(a) \/ RestartReturns(a)
  PROVE  TypeOK' /\ TombCounts'
<1> USE DEF WatcherWakes, WatcherStopped, WatcherInspects, WatcherPolls, WatcherFinishes, RestartReturns
<1>1. UNCHANGED <<tomb, start, starting, running, attempts, caller>> /\ caller # "idle"
  BY DEF startVars, TombCounts
<1>2. CountedTypes' /\ TombCounts'
  BY <1>1, NothingTouched
<1>3. /\ watcher' \in [Attempts -> {"none", "select", "waitDead", "inspect", "poll", "finish",
                                    "restart", "awaiting", "backoff", "ended"}]
      /\ podOf' \in [Attempts -> NoPod .. LastPod] /\ selectedPod' \in NoPod .. LastPod
  BY DevPodAssumption DEF TypeOK, NoPod, LastPod, startVars
<1>4. closes' \in 0 .. 2
  BY DEF Panicked, TypeOK
<1>5. err' \in Reason
  BY DEF TypeOK, TombState
<1>6. UNCHANGED <<attempts, child, cancelled, caller, pod>> /\ retried' \in Nat
  BY DEF TypeOK
<1> HIDE DEF WatcherWakes, WatcherStopped, WatcherInspects, WatcherPolls, WatcherFinishes, RestartReturns
<1>7. OtherTypes'
  BY <1>3, <1>4, <1>5, <1>6 DEF TypeOK, OtherTypes
<1> QED
  BY <1>2, <1>7, TypeParts

-----------------------------------------------------------------------------
(* The theorems.                                                           *)

\* Every step keeps the types and the counts.
LEMMA NextCounts ==
  ASSUME TypeOK, TombCounts, [Next]_vars
  PROVE  TypeOK' /\ TombCounts'
<1>1. CASE UNCHANGED vars
  <2>1. CountedTypes' /\ TombCounts'
    BY <1>1, NothingTouched DEF vars
  <2>2. OtherTypes'
    BY <1>1 DEF vars, TypeOK, OtherTypes
  <2> QED
    BY <2>1, <2>2, TypeParts
<1>2. CASE CallerStep \/ Cancel \/ DeletePod
  BY <1>2, StartCounts, OutsideCounts DEF CallerStep
<1>3. ASSUME NEW a \in Attempts, StartStep(a) \/ StartFails(a) PROVE TypeOK' /\ TombCounts'
  BY <1>3, ReplacePodCounts, SelectPodCounts, ServicesReadyCounts, StartFailsCounts DEF StartStep
<1>4. ASSUME NEW a \in Attempts, ~Panicked, WatcherStep(a) PROVE TypeOK' /\ TombCounts'
  BY <1>4, WatcherCounts, RestartCounts DEF WatcherStep
<1>5. ASSUME NEW a \in Attempts, NEW s \in Services,
             StartingStep(a, s) \/ ServiceFails(a, s) \/ RunningStep(a, s) \/ ServiceEnds(a, s)
      PROVE  TypeOK' /\ TombCounts'
  BY <1>5, ServiceStartedCounts, ServiceSkippedCounts, ServiceFailsCounts, RunningCounts
     DEF StartingStep, RunningStep
<1> QED
  BY <1>1, <1>2, <1>3, <1>4, <1>5 DEF Next, Ended

\* Type correctness of the life of a dev pod, for any services and bounds.
THEOREM DevPodTypeCorrect == Spec => []TypeOK
<1>1. Init => TypeOK /\ TombCounts
  BY InitCounts
<1>2. TypeOK /\ TombCounts /\ [Next]_vars => (TypeOK /\ TombCounts)'
  BY NextCounts
<1> QED
  BY <1>1, <1>2, PTL DEF Spec

\* A counted tomb that is dead has nothing left to return.
LEMMA CountedReturned == TypeOK /\ TombCounts => DeadMeansReturned
<1> SUFFICES ASSUME TypeOK, TombCounts, NEW a \in Attempts, tomb[a].dead
             PROVE  start[a] = "returned" /\ starting[a] = {} /\ running[a] = {}
  BY DEF DeadMeansReturned
<1>1. Counted(a) /\ starting[a] \in SUBSET Services /\ running[a] \in SUBSET Services
      /\ start[a] \in StartStates
  BY DEF TombCounts, TypeOK, StartStates
<1>2. tomb[a].alive = 0 /\ start[a] # "none"
  BY <1>1 DEF Counted, Fits
<1>3. Cardinality(starting[a]) \in Nat /\ Cardinality(running[a]) \in Nat
  BY <1>1, FS_Subset, FS_CardinalityType, DevPodAssumption
<1>4. ~StartRuns(a) /\ Cardinality(starting[a]) = 0 /\ Cardinality(running[a]) = 0
  BY <1>1, <1>2, <1>3 DEF Counted
<1>5. starting[a] = {} /\ running[a] = {}
  BY <1>1, <1>4, FS_Subset, FS_EmptySet, DevPodAssumption
<1> QED
  BY <1>1, <1>2, <1>4, <1>5 DEF StartRuns, StartStates

\* The tomb of a dev pod is dead only when start and all services under it
\* have returned, whatever they returned and in whatever order.
THEOREM DeadMeansReturnedTheorem == Spec => []DeadMeansReturned
<1>1. Init => TypeOK /\ TombCounts
  BY InitCounts
<1>2. TypeOK /\ TombCounts /\ [Next]_vars => (TypeOK /\ TombCounts)'
  BY NextCounts
<1>3. TypeOK /\ TombCounts => DeadMeansReturned
  BY CountedReturned
<1> QED
  BY <1>1, <1>2, <1>3, PTL DEF Spec

-----------------------------------------------------------------------------
(* The inductive invariant. An attempt is open until its watcher ends or   *)
(* waits for the next attempt; a restart passes this on, and the end of    *)
(* the watcher turns it into a closing of done.                            *)

OpenStates == {"select", "waitDead", "inspect", "poll", "finish", "restart", "backoff"}

Opened == {a \in Attempts : watcher[a] \in OpenStates}

\* What the watcher of an attempt may do depends on its tomb.
Watched(a) ==
    /\ a > attempts => watcher[a] = "none"
    /\ a <= attempts /\ ~tomb[a].dead => watcher[a] \in {"select", "waitDead"}
    /\ watcher[a] = "waitDead" => cancelled

\* Where the caller is.
CallerWaits ==
    /\ caller = "idle" => ~cancelled /\ retried = 0
    /\ caller # "idle" => attempts > 0
    /\ caller = "stopping" => cancelled

\* Open attempts and closings are one, and one more for every retry.
OpenCounts == closes + Cardinality(Opened) <= (IF attempts = 0 THEN 0 ELSE 1) + retried

Turns == (\A a \in Attempts : Watched(a)) /\ CallerWaits /\ OpenCounts

Inv == TypeOK /\ TombCounts /\ Turns

\* The sizes of sets of attempts.
LEMMA AttemptSets ==
  ASSUME NEW S \in SUBSET Attempts, NEW a \in Attempts
  PROVE  /\ IsFiniteSet(S) /\ Cardinality(S) \in Nat
         /\ a \in S => Cardinality(S \ {a}) = Cardinality(S) - 1
         /\ a \notin S => Cardinality(S \cup {a}) = Cardinality(S) + 1
<1>1. IsFiniteSet(Attempts)
  BY FS_Interval, DevPodAssumption DEF Attempts
<1>2. IsFiniteSet(S)
  BY <1>1, FS_Subset
<1>3. a \in S => Cardinality(S \ {a}) = Cardinality(S) - 1
  BY <1>2, FS_RemoveElement, Zenon
<1>4. a \notin S => Cardinality(S \cup {a}) = Cardinality(S) + 1
  BY <1>2, FS_AddElement
<1> QED
  BY <1>2, <1>3, <1>4, FS_CardinalityType

\* One set that contains another has as many elements.
LEMMA MoreAttempts ==
  ASSUME NEW S \in SUBSET Attempts, NEW T \in SUBSET S
  PROVE  Cardinality(T) <= Cardinality(S) /\ Cardinality(T) \in Nat /\ Cardinality(S) \in Nat
<1>1. IsFiniteSet(Attempts)
  BY FS_Interval, DevPodAssumption DEF Attempts
<1>2. IsFiniteSet(S)
  BY <1>1, FS_Subset
<1> QED
  BY <1>2, FS_Subset, FS_CardinalityType

-----------------------------------------------------------------------------
(* start, the services, the caller and the cluster leave the watchers.     *)

\* A tomb that has died stays dead, and only the context may be cancelled.
LEMMA WatchersLeft ==
  ASSUME Inv, UNCHANGED <<attempts, watcher, closes, retried>>,
         \A b \in Attempts : tomb[b].dead => tomb'[b].dead,
         cancelled => cancelled', CallerWaits'
  PROVE  Turns'
<1>1. \A b \in Attempts : Watched(b)'
  BY DEF Inv, Turns, Watched
<1>2. OpenCounts'
  BY DEF Inv, Turns, OpenCounts, Opened
<1> QED
  BY <1>1, <1>2 DEF Turns

\* A tomb with something that runs under it is not dead.
LEMMA RunsAlive ==
  ASSUME Inv, NEW a \in Attempts, StartRuns(a) \/ starting[a] # {} \/ running[a] # {}
  PROVE  /\ ~tomb[a].dead /\ attempts # 0 /\ a \in 1 .. attempts /\ caller # "idle"
         /\ watcher[a] \in {"select", "waitDead"}
<1>1. ~tomb[a].dead
  <2>1. DeadMeansReturned
    BY CountedReturned DEF Inv
  <2> QED
    BY <2>1 DEF DeadMeansReturned, StartRuns
<1>2. start[a] # "none"
  BY DEF Inv, TombCounts, Counted, StartRuns
<1>3. a <= attempts /\ attempts # 0 /\ a \in 1 .. attempts
  BY <1>2 DEF Inv, TombCounts, Attempts, TypeOK
<1> QED
  BY <1>1, <1>3 DEF Inv, TombCounts, Turns, Watched

\* A step of start or of a service.
LEMMA RunStepTurns ==
  ASSUME Inv, NEW a \in Attempts, StartRuns(a) \/ starting[a] # {} \/ running[a] # {},
         NEW t, tomb' = [tomb EXCEPT ![a] = t],
         UNCHANGED <<attempts, watcher, closes, retried, caller>>, cancelled => cancelled'
  PROVE  Turns'
<1>1. ~tomb[a].dead /\ caller # "idle"
  BY RunsAlive
<1>2. \A b \in Attempts : tomb[b].dead => tomb'[b].dead
  BY <1>1 DEF Inv, TypeOK
<1>3. CallerWaits'
  BY <1>1 DEF Inv, Turns, CallerWaits
<1> QED
  BY <1>2, <1>3, WatchersLeft

LEMMA StartStepTurns ==
  ASSUME Inv, NEW a \in Attempts, StartStep(a) \/ StartFails(a)
  PROVE  Turns'
<1>1. StartRuns(a) /\ UNCHANGED <<attempts, watcher, closes, retried, caller, cancelled>>
  BY DEF StartStep, ReplacePod, SelectPod, ServicesReady, StartFails, StartRuns
<1>2. PICK t : tomb' = [tomb EXCEPT ![a] = t]
  <2>1. CASE ReplacePod(a)
    <3>1. tomb' = [tomb EXCEPT ![a] = tomb[a]]
      BY <2>1 DEF ReplacePod, Inv, TypeOK
    <3> QED
      BY <3>1
  <2>2. CASE ~ReplacePod(a)
    BY <2>2 DEF StartStep, SelectPod, ServicesReady, StartFails
  <2> QED
    BY <2>1, <2>2
<1> QED
  BY <1>1, <1>2, RunStepTurns

LEMMA ServiceStepTurns ==
  ASSUME Inv, NEW a \in Attempts, NEW s \in Services,
         StartingStep(a, s) \/ ServiceFails(a, s) \/ RunningStep(a, s) \/ ServiceEnds(a, s)
  PROVE  Turns'
<1>1. starting[a] # {} \/ running[a] # {}
  BY DEF StartingStep, ServiceStarted, ServiceSkipped, ServiceFails, RunningStep, ServiceStops,
         ServiceLosesPod, ServiceEnds
<1>2. UNCHANGED <<attempts, watcher, closes, retried, caller>> /\ (cancelled => cancelled')
  BY DEF StartingStep, ServiceStarted, ServiceSkipped, ServiceFails, RunningStep, ServiceStops,
         ServiceLosesPod, ServiceEnds
<1>3. PICK t : tomb' = [tomb EXCEPT ![a] = t]
  BY DEF StartingStep, ServiceStarted, ServiceSkipped, ServiceFails, RunningStep, ServiceStops,
         ServiceLosesPod, ServiceEnds
<1> QED
  BY <1>1, <1>2, <1>3, RunStepTurns

\* The caller goes on, the dev pod is stopped, or the pod is deleted.
LEMMA OutsideTurns ==
  ASSUME Inv, StartReturns \/ StopReturns \/ Cancel \/ DeletePod
  PROVE  Turns'
<1>1. UNCHANGED <<attempts, tomb, watcher, closes, retried>>
  BY DEF StartReturns, StopReturns, Cancel, DeletePod
<1>2. cancelled => cancelled'
  BY Zenon DEF StartReturns, StopReturns, Cancel, DeletePod
<1>3. CallerWaits'
  <2>1. attempts' = attempts /\ (caller = "idle" => ~cancelled /\ retried' = 0) /\ (caller # "idle" => attempts > 0)
        /\ (caller = "stopping" => cancelled)
    BY <1>1 DEF Inv, Turns, CallerWaits
  <2>2. CASE StartReturns
    BY <2>1, <2>2 DEF StartReturns, CallerWaits
  <2>3. CASE StopReturns \/ Cancel \/ DeletePod
    BY <2>1, <2>3 DEF StopReturns, Cancel, DeletePod, CallerWaits
  <2> QED
    BY <2>2, <2>3
<1> QED
  BY <1>1, <1>2, <1>3, WatchersLeft

-----------------------------------------------------------------------------
(* The watchers.                                                           *)

\* Start opens the first attempt.
LEMMA StartTurns ==
  ASSUME Inv, Start
  PROVE  Turns'
<1>1. attempts = 0 /\ attempts' = 1 /\ 1 \in Attempts /\ ~cancelled /\ caller = "idle"
  BY DevPodAssumption DEF Start, StartWithRetry, Inv, Turns, CallerWaits, TombCounts, Attempts
<1>2. \A a \in Attempts : watcher[a] = "none" /\ watcher'[a] = (IF a = 1 THEN "select" ELSE "none")
  BY <1>1 DEF Start, Inv, TypeOK, TombCounts
<1>3. \A a \in Attempts : Watched(a)'
  BY <1>1, <1>2 DEF Watched, Attempts
<1>4. CallerWaits'
  BY <1>1 DEF Start, CallerWaits
<1>5. OpenCounts'
  <2>1. Opened = {} /\ Opened' = {} \cup {1}
    BY <1>1, <1>2 DEF Opened, OpenStates
  <2>2. Cardinality(Opened') = Cardinality({}) + 1
    BY <1>1, <2>1, AttemptSets
  <2>3. closes' = closes /\ retried' = retried /\ closes \in Nat /\ retried \in Nat
    BY DEF Start, Inv, TypeOK
  <2> QED
    BY <1>1, <2>1, <2>2, <2>3, FS_EmptySet DEF Inv, Turns, OpenCounts
<1> QED
  BY <1>3, <1>4, <1>5 DEF Turns

\* A watcher goes on.
LEMMA StaysOpen ==
  ASSUME Inv, NEW a \in Attempts, NEW w \in OpenStates, watcher[a] \in OpenStates,
         watcher' = [watcher EXCEPT ![a] = w],
         w = "waitDead" => cancelled, w # "waitDead" => tomb[a].dead,
         UNCHANGED <<attempts, tomb, cancelled, closes, retried, caller>>
  PROVE  Turns'
<1>1. watcher'[a] = w /\ \A b \in Attempts : b # a => watcher'[b] = watcher[b]
  BY DEF Inv, TypeOK
<1>2. \A b \in Attempts : Watched(b)'
  BY <1>1 DEF Inv, Turns, Watched, OpenStates
<1>3. Opened' = Opened
  BY <1>1 DEF Opened
<1> QED
  BY <1>2, <1>3 DEF Inv, Turns, OpenCounts, CallerWaits

LEMMA WatcherGoesOnTurns ==
  ASSUME Inv, NEW a \in Attempts, WatcherWakes(a) \/ WatcherInspects(a) \/ WatcherPolls(a)
  PROVE  Turns'
<1>1. UNCHANGED <<attempts, tomb, cancelled, closes, retried, caller>>
  BY DEF WatcherWakes, WatcherInspects, WatcherPolls
<1>2. PICK w \in OpenStates : /\ watcher' = [watcher EXCEPT ![a] = w]
                              /\ w = "waitDead" => cancelled
                              /\ w # "waitDead" => tomb[a].dead
  <2>1. CASE WatcherWakes(a)
    BY <2>1 DEF WatcherWakes, OpenStates
  <2>2. CASE WatcherInspects(a) \/ WatcherPolls(a)
    <3>1. tomb[a].dead
      BY <2>2 DEF WatcherInspects, WatcherPolls, Inv, Turns, Watched, TypeOK, Attempts
    <3> QED
      BY <2>2, <3>1 DEF WatcherInspects, WatcherPolls, OpenStates
  <2> QED
    BY <2>1, <2>2
<1>3. watcher[a] \in OpenStates
  BY DEF WatcherWakes, WatcherInspects, WatcherPolls, OpenStates
<1> QED
  BY <1>1, <1>2, <1>3, StaysOpen

\* The tomb of an attempt whose watcher ends or restarts it is dead.
LEMMA EndedDead ==
  ASSUME Inv, NEW a \in Attempts, watcher[a] \notin {"none", "select", "waitDead"}
  PROVE  tomb[a].dead /\ a <= attempts
  BY DEF Inv, Turns, Watched, TypeOK, Attempts

\* A watcher closes done and ends.
LEMMA WatcherClosesTurns ==
  ASSUME Inv, NEW a \in Attempts, WatcherStopped(a) \/ WatcherFinishes(a)
  PROVE  Turns' /\ tomb[a].dead
<1>1. UNCHANGED <<attempts, tomb, cancelled, retried, caller>> /\ closes' = closes + 1
  BY DEF WatcherStopped, WatcherFinishes
<1>2. watcher[a] \in {"waitDead", "finish"} /\ watcher' = [watcher EXCEPT ![a] = "ended"]
  BY DEF WatcherStopped, WatcherFinishes
<1>3. tomb[a].dead
  BY <1>2, EndedDead DEF WatcherStopped, WatcherFinishes
<1>4. watcher'[a] = "ended" /\ \A b \in Attempts : b # a => watcher'[b] = watcher[b]
  BY <1>2 DEF Inv, TypeOK
<1>5. \A b \in Attempts : Watched(b)'
  <2>1. a <= attempts
    BY <1>2 DEF Inv, Turns, Watched, TypeOK, Attempts
  <2> QED
    BY <1>1, <1>3, <1>4, <2>1 DEF Inv, Turns, Watched, TypeOK, Attempts
<1>6. Opened' = Opened \ {a} /\ a \in Opened
  BY <1>2, <1>4 DEF Opened, OpenStates
<1>7. Cardinality(Opened') = Cardinality(Opened) - 1 /\ Cardinality(Opened) \in Nat
  BY <1>6, AttemptSets DEF Opened
<1>8. OpenCounts'
  BY <1>1, <1>7 DEF Inv, Turns, OpenCounts, TypeOK
<1> QED
  BY <1>1, <1>3, <1>5, <1>8 DEF Inv, Turns, CallerWaits

\* A restart opens the next attempt in place of this one.
LEMMA RestartTurns ==
  ASSUME Inv, NEW a \in Attempts, Restart(a)
  PROVE  Turns'
<1>1. watcher[a] \in {"restart", "backoff"} /\ tomb[a].dead /\ a <= attempts
  BY EndedDead DEF Restart
<1>2. PICK n \in Attempts : n = attempts + 1
  BY DEF Restart, StartWithRetry, Inv, TypeOK, Attempts
<1>3. /\ attempts' = n /\ n # a /\ attempts # 0
      /\ UNCHANGED <<cancelled, closes, retried, caller>>
  BY <1>1, <1>2 DEF Restart, StartWithRetry, Inv, TypeOK, Attempts
<1>4. /\ watcher'[n] = "select" /\ watcher'[a] = "awaiting" /\ watcher[n] = "none"
      /\ \A b \in Attempts : b \notin {a, n} => watcher'[b] = watcher[b]
  <2>1. watcher' = [watcher EXCEPT ![a] = "awaiting", ![n] = "select"]
    BY <1>2 DEF Restart
  <2>2. watcher[n] = "none"
    BY <1>2 DEF Inv, Turns, Watched, TypeOK
  <2> QED
    BY <1>3, <2>1, <2>2 DEF Inv, TypeOK
<1>5. \A b \in Attempts : b # n => tomb'[b] = tomb[b]
  BY <1>2 DEF Restart, StartWithRetry, Inv, TypeOK
<1>6. ASSUME NEW b \in Attempts PROVE Watched(b)'
  <2>1. CASE b = n
    BY <1>3, <1>4, <2>1 DEF Watched, Attempts
  <2>2. CASE b = a
    BY <1>1, <1>2, <1>3, <1>4, <1>5, <2>2 DEF Watched, Attempts, Inv, TypeOK
  <2>3. CASE b \notin {a, n}
    BY <1>2, <1>3, <1>4, <1>5, <2>3 DEF Inv, Turns, Watched, Attempts, TypeOK
  <2> QED
    BY <2>1, <2>2, <2>3
<1>7. Cardinality(Opened') = Cardinality(Opened)
  <2>1. Opened' = (Opened \ {a}) \cup {n} /\ a \in Opened /\ n \notin Opened
    BY <1>1, <1>3, <1>4 DEF Opened, OpenStates
  <2>2. Cardinality(Opened \ {a}) = Cardinality(Opened) - 1 /\ Cardinality(Opened) \in Nat
    BY <2>1, AttemptSets DEF Opened
  <2>3. Opened \ {a} \in SUBSET Attempts /\ n \notin Opened \ {a}
    BY <2>1 DEF Opened
  <2>4. Cardinality((Opened \ {a}) \cup {n}) = Cardinality(Opened \ {a}) + 1
    BY <2>3, AttemptSets
  <2> QED
    BY <2>1, <2>2, <2>4
<1>8. OpenCounts'
  BY <1>2, <1>3, <1>7 DEF Inv, Turns, OpenCounts, Attempts
<1>9. CallerWaits'
  BY <1>2, <1>3 DEF Inv, Turns, CallerWaits, Attempts
<1> QED
  BY <1>6, <1>8, <1>9 DEF Turns

\* The loop ends with an attempt that is up or with the dev pod; after an attempt
\* that failed it is open again.
LEMMA RestartReturnsTurns ==
  ASSUME Inv, NEW a \in Attempts, RestartReturns(a)
  PROVE  Turns'
<1>1. watcher[a] \in {"awaiting", "backoff"} /\ tomb[a].dead /\ a <= attempts
  BY EndedDead DEF RestartReturns
<1>2. UNCHANGED <<attempts, tomb, cancelled, closes, caller>> /\ attempts # 0
  BY <1>1 DEF RestartReturns, Attempts
<1>3. PICK w \in {"ended", "backoff"} :
        /\ watcher' = [watcher EXCEPT ![a] = w]
        /\ w = "backoff" => watcher[a] = "awaiting"
        /\ retried' = IF w = "backoff" THEN retried + 1 ELSE retried
  BY DEF RestartReturns
<1>4. watcher'[a] = w /\ \A b \in Attempts : b # a => watcher'[b] = watcher[b]
  BY <1>3 DEF Inv, TypeOK
<1>5. \A b \in Attempts : Watched(b)'
  BY <1>1, <1>2, <1>4 DEF Inv, Turns, Watched, TypeOK, Attempts
<1>6. closes \in Nat /\ retried \in Nat /\ Opened \in SUBSET Attempts
  BY DEF Inv, TypeOK, Opened
<1>7. OpenCounts'
  <2>1. CASE w = "backoff"
    <3>1. Opened' = Opened \cup {a} /\ a \notin Opened
      BY <1>3, <1>4, <2>1 DEF Opened, OpenStates
    <3>2. Cardinality(Opened') = Cardinality(Opened) + 1 /\ Cardinality(Opened) \in Nat
      BY <1>6, <3>1, AttemptSets
    <3> QED
      BY <1>2, <1>3, <1>6, <2>1, <3>2 DEF Inv, Turns, OpenCounts
  <2>2. CASE w = "ended"
    <3>1. Opened' \in SUBSET Opened
      BY <1>4, <2>2 DEF Opened, OpenStates
    <3>2. Cardinality(Opened') <= Cardinality(Opened) /\ Cardinality(Opened) \in Nat /\ Cardinality(Opened') \in Nat
      BY <1>6, <3>1, MoreAttempts
    <3> QED
      BY <1>2, <1>3, <1>6, <2>2, <3>2 DEF Inv, Turns, OpenCounts
  <2> QED
    BY <1>3, <2>1, <2>2
<1>8. CallerWaits'
  BY <1>2 DEF Inv, TombCounts, Turns, CallerWaits
<1> QED
  BY <1>5, <1>7, <1>8 DEF Turns

-----------------------------------------------------------------------------
(* The attempts take turns.                                                *)

\* The initial state.
LEMMA InitTurns == Init => Inv
<1> SUFFICES ASSUME Init PROVE Inv
  OBVIOUS
<1>1. TypeOK /\ TombCounts
  BY InitCounts
<1>2. attempts = 0 /\ closes = 0 /\ retried = 0 /\ caller = "idle" /\ ~cancelled
      /\ \A a \in Attempts : watcher[a] = "none"
  BY DEF Init
<1>3. Opened = {}
  BY <1>2 DEF Opened, OpenStates
<1>4. (\A a \in Attempts : Watched(a)) /\ CallerWaits
  BY <1>2 DEF Watched, CallerWaits, Attempts
<1>5. OpenCounts
  BY <1>2, <1>3, FS_EmptySet DEF OpenCounts
<1> QED
  BY <1>1, <1>4, <1>5 DEF Inv, Turns

\* Every step.
LEMMA NextTurns ==
  ASSUME Inv, [Next]_vars
  PROVE  Inv'
<1>1. TypeOK' /\ TombCounts'
  BY NextCounts DEF Inv
<1> SUFFICES Turns'
  BY <1>1 DEF Inv
<1>2. CASE UNCHANGED vars
  <2>1. UNCHANGED <<attempts, tomb, watcher, closes, retried, cancelled, caller>>
    BY <1>2 DEF vars
  <2>2. CallerWaits'
    BY <2>1 DEF Inv, Turns, CallerWaits
  <2> QED
    BY <2>1, <2>2, WatchersLeft
<1>3. CASE CallerStep \/ Cancel \/ DeletePod
  BY <1>3, StartTurns, OutsideTurns DEF CallerStep
<1>4. ASSUME NEW a \in Attempts, StartStep(a) \/ StartFails(a) PROVE Turns'
  BY <1>4, StartStepTurns
<1>5. ASSUME NEW a \in Attempts, WatcherStep(a) PROVE Turns'
  BY <1>5, WatcherGoesOnTurns, WatcherClosesTurns, RestartTurns, RestartReturnsTurns DEF WatcherStep
<1>6. ASSUME NEW a \in Attempts, NEW s \in Services,
             StartingStep(a, s) \/ ServiceFails(a, s) \/ RunningStep(a, s) \/ ServiceEnds(a, s)
      PROVE  Turns'
  BY <1>6, ServiceStepTurns
<1> QED
  BY <1>2, <1>3, <1>4, <1>5, <1>6 DEF Next, Ended

\* What is live is open.
LEMMA TurnsTaken == Inv => AttemptsInTurn
<1> SUFFICES ASSUME Inv PROVE AttemptsInTurn
  OBVIOUS
<1> DEFINE L == {a \in 1 .. attempts : Live(a)}
<1>1. Opened \in SUBSET Attempts
  BY DEF Opened
<1>2. L \in SUBSET Opened
  <2> SUFFICES ASSUME NEW a \in 1 .. attempts, Live(a) PROVE a \in Opened
    BY DEF L
  <2>1. a \in Attempts /\ a <= attempts
    BY DevPodAssumption DEF Inv, TypeOK, Attempts
  <2>2. watcher[a] \in OpenStates
    BY <2>1 DEF Live, OpenStates, Inv, Turns, Watched
  <2> QED
    BY <2>1, <2>2 DEF Opened
<1> HIDE DEF L
<1>3. Cardinality(L) <= Cardinality(Opened) /\ Cardinality(L) \in Nat /\ Cardinality(Opened) \in Nat
  BY <1>1, <1>2, MoreAttempts
<1>4. closes + Cardinality(L) <= 1 + retried
  BY <1>3 DEF Inv, Turns, OpenCounts, TypeOK
<1> QED
  BY <1>4 DEF AttemptsInTurn, L

\* However often the pod of a dev pod is deleted, whenever it is stopped and whatever
\* fails, one attempt at most is live until done is closed, which is done once; every
\* attempt of the restart loop that failed and is made again adds one.
THEOREM AttemptsInTurnTheorem == Spec => []AttemptsInTurn
<1>1. Init => Inv
  BY InitTurns
<1>2. Inv /\ [Next]_vars => Inv'
  BY NextTurns
<1>3. Inv => AttemptsInTurn
  BY TurnsTaken
<1> QED
  BY <1>1, <1>2, <1>3, PTL DEF Spec

-----------------------------------------------------------------------------
(* Every step is one that DevPodLife promises.                             *)

\* What the manager sees of Start.
SeenOf(c) == IF c = "idle" THEN "none" ELSE IF c = "stopping" THEN "starting" ELSE c

Seen(s, c, b, d) == [start |-> s, cancelled |-> c, runs |-> b, done |-> d]

SomeBusy == \E a \in 1 .. attempts : Busy(a)

Running == IF retried > 0 THEN "unknown" ELSE IF SomeBusy THEN "yes" ELSE "no"

\* What is seen, by its parts.
LEMMA LifeIs == Life = Seen(SeenOf(caller), cancelled, Running, closes > 0)
  BY Zenon DEF Life, Seen, SeenOf, SomeBusy, Running

\* Nothing begins before Start.
LEMMA SeenBegun == ASSUME Inv, caller # "idle" PROVE SeenOf(caller) # "none"
  BY DEF SeenOf, Inv, TypeOK

\* The attempts that were made are attempts.
LEMMA Attempted == ASSUME Inv, NEW a \in 1 .. attempts PROVE a \in Attempts
  BY DevPodAssumption DEF Inv, TypeOK, Attempts

\* The steps of DevPodLife on what is seen.
LEMMA QuietStep ==
  ASSUME NEW s, NEW c, NEW b, NEW d, NEW e
  PROVE  s # "none" /\ b = "yes" /\ e = "no" => Promise!Step(Seen(s, c, b, d), Seen(s, c, e, d))
<1>1. /\ Seen(s, c, b, d).start = s
      /\ Seen(s, c, b, d).cancelled = c
      /\ Seen(s, c, b, d).runs = b
      /\ Seen(s, c, b, d).done = d
  BY DEF Seen
<1>2. [Seen(s, c, b, d) EXCEPT !.runs = e] = Seen(s, c, e, d)
  BY DEF Seen
<1> SUFFICES ASSUME s # "none", b = "yes", e = "no"
             PROVE  Promise!Quiet(Seen(s, c, b, d), Seen(s, c, e, d))
  BY DEF Promise!Step
<1>3. [Seen(s, c, b, d) EXCEPT !.runs = "no"]
         = [Seen(s, c, b, d) EXCEPT !.runs = e]
  OBVIOUS
<1> QED
  BY <1>1, <1>2, <1>3 DEF Promise!Quiet, Promise!Begun

LEMMA CancelStep ==
  ASSUME NEW s, NEW c, NEW b, NEW d, NEW e
  PROVE  s # "none" /\ c = FALSE /\ e = TRUE => Promise!Step(Seen(s, c, b, d), Seen(s, e, b, d))
<1>1. /\ Seen(s, c, b, d).start = s
      /\ Seen(s, c, b, d).cancelled = c
      /\ Seen(s, c, b, d).runs = b
      /\ Seen(s, c, b, d).done = d
  BY DEF Seen
<1>2. [Seen(s, c, b, d) EXCEPT !.cancelled = e] = Seen(s, e, b, d)
  BY DEF Seen
<1> SUFFICES ASSUME s # "none", c = FALSE, e = TRUE
             PROVE  Promise!Cancel(Seen(s, c, b, d), Seen(s, e, b, d))
  BY DEF Promise!Step
<1>3. [Seen(s, c, b, d) EXCEPT !.cancelled = TRUE]
         = [Seen(s, c, b, d) EXCEPT !.cancelled = e]
  OBVIOUS
<1> QED
  BY <1>1, <1>2, <1>3 DEF Promise!Cancel, Promise!Begun

LEMMA UpStep ==
  ASSUME NEW s, NEW c, NEW b, NEW d, NEW e
  PROVE  s = "starting" /\ e = "started" => Promise!Step(Seen(s, c, b, d), Seen(e, c, b, d))
<1>1. /\ Seen(s, c, b, d).start = s
      /\ Seen(s, c, b, d).cancelled = c
      /\ Seen(s, c, b, d).runs = b
      /\ Seen(s, c, b, d).done = d
  BY DEF Seen
<1>2. [Seen(s, c, b, d) EXCEPT !.start = e] = Seen(e, c, b, d)
  BY DEF Seen
<1> SUFFICES ASSUME s = "starting", e = "started"
             PROVE  Promise!Up(Seen(s, c, b, d), Seen(e, c, b, d))
  BY DEF Promise!Step
<1>3. [Seen(s, c, b, d) EXCEPT !.start = "started"]
         = [Seen(s, c, b, d) EXCEPT !.start = e]
  OBVIOUS
<1> QED
  BY <1>1, <1>2, <1>3 DEF Promise!Up, Promise!Begun

LEMMA FailStep ==
  ASSUME NEW s, NEW c, NEW b, NEW d, NEW e
  PROVE  s = "starting" /\ c = TRUE /\ d = TRUE /\ e = "failed" => Promise!Step(Seen(s, c, b, d), Seen(e, c, b, d))
<1>1. /\ Seen(s, c, b, d).start = s
      /\ Seen(s, c, b, d).cancelled = c
      /\ Seen(s, c, b, d).runs = b
      /\ Seen(s, c, b, d).done = d
  BY DEF Seen
<1>2. [Seen(s, c, b, d) EXCEPT !.start = e] = Seen(e, c, b, d)
  BY DEF Seen
<1> SUFFICES ASSUME s = "starting", c = TRUE, d = TRUE, e = "failed"
             PROVE  Promise!Fail(Seen(s, c, b, d), Seen(e, c, b, d))
  BY DEF Promise!Step
<1>3. [Seen(s, c, b, d) EXCEPT !.start = "failed"]
         = [Seen(s, c, b, d) EXCEPT !.start = e]
  OBVIOUS
<1> QED
  BY <1>1, <1>2, <1>3 DEF Promise!Fail, Promise!Begun

LEMMA RetryStep ==
  ASSUME NEW s, NEW c, NEW b, NEW d, NEW e
  PROVE  s # "none" /\ c = FALSE /\ e = "unknown" => Promise!Step(Seen(s, c, b, d), Seen(s, c, e, d))
<1>1. /\ Seen(s, c, b, d).start = s
      /\ Seen(s, c, b, d).cancelled = c
      /\ Seen(s, c, b, d).runs = b
      /\ Seen(s, c, b, d).done = d
  BY DEF Seen
<1>2. [Seen(s, c, b, d) EXCEPT !.runs = e] = Seen(s, c, e, d)
  BY DEF Seen
<1> SUFFICES ASSUME s # "none", c = FALSE, e = "unknown"
             PROVE  Promise!Retry(Seen(s, c, b, d), Seen(s, c, e, d))
  BY DEF Promise!Step
<1>3. [Seen(s, c, b, d) EXCEPT !.runs = "unknown"]
         = [Seen(s, c, b, d) EXCEPT !.runs = e]
  OBVIOUS
<1> QED
  BY <1>1, <1>2, <1>3 DEF Promise!Retry, Promise!Begun

LEMMA EndStep ==
  ASSUME NEW s, NEW c, NEW b, NEW d, NEW e
  PROVE  s # "none" /\ b # "yes" /\ d = FALSE /\ e = TRUE => Promise!Step(Seen(s, c, b, d), Seen(s, c, b, e))
<1>1. /\ Seen(s, c, b, d).start = s
      /\ Seen(s, c, b, d).cancelled = c
      /\ Seen(s, c, b, d).runs = b
      /\ Seen(s, c, b, d).done = d
  BY DEF Seen
<1>2. [Seen(s, c, b, d) EXCEPT !.done = e] = Seen(s, c, b, e)
  BY DEF Seen
<1> SUFFICES ASSUME s # "none", b # "yes", d = FALSE, e = TRUE
             PROVE  Promise!End(Seen(s, c, b, d), Seen(s, c, b, e))
  BY DEF Promise!Step
<1>3. [Seen(s, c, b, d) EXCEPT !.done = TRUE]
         = [Seen(s, c, b, d) EXCEPT !.done = e]
  OBVIOUS
<1> QED
  BY <1>1, <1>2, <1>3 DEF Promise!End, Promise!Begun

LEMMA BeginStep ==
  ASSUME NEW s, NEW c, NEW b, NEW d, NEW e, NEW f
  PROVE  s = "none" /\ e = "starting" /\ f = "yes" => Promise!Step(Seen(s, c, b, d), Seen(e, c, f, d))
<1>1. /\ Seen(s, c, b, d).start = s
      /\ Seen(s, c, b, d).cancelled = c
      /\ Seen(s, c, b, d).runs = b
      /\ Seen(s, c, b, d).done = d
  BY DEF Seen
<1>2. [Seen(s, c, b, d) EXCEPT !.start = e, !.runs = f] = Seen(e, c, f, d)
  <2>1. [Seen(s, c, b, d) EXCEPT !.start = e] = Seen(e, c, b, d)
    BY DEF Seen
  <2>2. [Seen(e, c, b, d) EXCEPT !.runs = f] = Seen(e, c, f, d)
    BY DEF Seen
  <2>3. [Seen(s, c, b, d) EXCEPT !.start = e, !.runs = f] = [[Seen(s, c, b, d) EXCEPT !.start = e] EXCEPT !.runs = f]
    BY DEF Seen
  <2> QED
    BY <2>1, <2>2, <2>3
<1> SUFFICES ASSUME s = "none", e = "starting", f = "yes"
             PROVE  Promise!Begin(Seen(s, c, b, d), Seen(e, c, f, d))
  BY DEF Promise!Step
<1>3. [Seen(s, c, b, d) EXCEPT !.start = "starting", !.runs = "yes"]
         = [Seen(s, c, b, d) EXCEPT !.start = e, !.runs = f]
  OBVIOUS
<1> QED
  BY <1>1, <1>2, <1>3 DEF Promise!Begin, Promise!Begun

\* A step is judged by what is seen before and after it.
LEMMA Judged ==
  ASSUME \/ Promise!Step(Seen(SeenOf(caller), cancelled, Running, closes > 0),
                         Seen(SeenOf(caller'), cancelled', Running', closes' > 0))
         \/ Seen(SeenOf(caller), cancelled, Running, closes > 0)
               = Seen(SeenOf(caller'), cancelled', Running', closes' > 0)
  PROVE  [Promise!Next]_Life
<1>1. (Life = Seen(SeenOf(caller), cancelled, Running, closes > 0))'
  BY LifeIs, PTL
<1> QED
  BY <1>1, LifeIs DEF Promise!Next

\* A step that only concerns the attempts.
LEMMA Quieted ==
  ASSUME Inv, caller # "idle", UNCHANGED <<caller, cancelled, closes, retried>>, SomeBusy' => SomeBusy
  PROVE  [Promise!Next]_Life
<1>1. SeenOf(caller) # "none"
  BY SeenBegun
<1>2. CASE Running' = Running
  BY <1>2, Judged
<1>3. CASE Running = "yes" /\ Running' = "no"
  BY <1>1, <1>3, Judged, QuietStep
<1>4. Running' = Running \/ (Running = "yes" /\ Running' = "no")
  BY DEF Running
<1> QED
  BY <1>2, <1>3, <1>4

\* A step that changes nothing of what is seen.
LEMMA Unseen ==
  ASSUME UNCHANGED <<attempts, tomb, watcher, caller, cancelled, closes, retried>>
  PROVE  [Promise!Next]_Life
  BY DEF Life, Busy

\* The caller, and whoever cancels.
LEMMA CallerPromises ==
  ASSUME Inv, StartReturns \/ StopReturns \/ Cancel
  PROVE  [Promise!Next]_Life
<1>1. caller # "idle" /\ UNCHANGED <<attempts, tomb, watcher, closes, retried>>
  BY DEF StartReturns, StopReturns, Cancel
<1>2. Running' = Running
  BY <1>1 DEF Running, SomeBusy, Busy
<1>3. cancelled \in BOOLEAN /\ SeenOf(caller) # "none"
  BY <1>1, SeenBegun DEF Inv, TypeOK
<1>4. CASE StartReturns /\ Result(1) = NoError
  <2>1. SeenOf(caller) = "starting" /\ SeenOf(caller') = "started" /\ cancelled' = cancelled
    BY <1>3, <1>4 DEF StartReturns, SeenOf
  <2> QED
    BY <1>1, <1>2, <2>1, UpStep, Judged
<1>5. CASE StartReturns /\ Result(1) # NoError
  <2>1. SeenOf(caller) = SeenOf(caller') /\ cancelled' = TRUE
    BY <1>5 DEF StartReturns, SeenOf
  <2> QED
    BY <1>1, <1>2, <1>3, <2>1, CancelStep, Judged
<1>6. CASE StopReturns
  <2>1. SeenOf(caller) = "starting" /\ SeenOf(caller') = "failed" /\ cancelled' = cancelled
    BY <1>6 DEF StopReturns, SeenOf
  <2>2. cancelled = TRUE /\ (closes > 0) = TRUE
    BY <1>3, <1>6 DEF StopReturns, Inv, Turns, CallerWaits
  <2> QED
    BY <1>1, <1>2, <2>1, <2>2, FailStep, Judged
<1>7. CASE Cancel
  BY <1>1, <1>2, <1>3, <1>7, CancelStep, Judged DEF Cancel
<1> QED
  BY <1>4, <1>5, <1>6, <1>7

\* Start, before which nothing is seen.
LEMMA StartPromises ==
  ASSUME Inv, Inv', Start
  PROVE  [Promise!Next]_Life
<1>1. attempts = 0 /\ caller = "idle" /\ retried = 0
  BY DEF Inv, TombCounts, Turns, CallerWaits, Start
<1>2. attempts' = 1 /\ 1 \in Attempts /\ UNCHANGED <<cancelled, closes, retried>>
  BY <1>1, DevPodAssumption DEF Start, StartWithRetry, Attempts
<1>3. Running' = "yes"
  BY <1>1, <1>2 DEF Running, SomeBusy, Busy, Start, Inv, TypeOK
<1>4. SeenOf(caller) = "none" /\ SeenOf(caller') = "starting"
  BY <1>1 DEF Start, SeenOf
<1> QED
  BY <1>1, <1>2, <1>3, <1>4, BeginStep, Judged

\* The steps of start and the services: the attempt has not ended before them.
LEMMA ServicePromises ==
  ASSUME Inv, NEW a \in Attempts, NEW s \in Services,
         \/ SelectPod(a) \/ ServicesReady(a) \/ StartFails(a)
         \/ StartingStep(a, s) \/ ServiceFails(a, s) \/ RunningStep(a, s)
  PROVE  [Promise!Next]_Life
<1>1. UNCHANGED <<attempts, watcher, closes, retried, cancelled, caller>>
  BY DEF SelectPod, ServicesReady, StartFails, StartingStep, ServiceStarted, ServiceSkipped, ServiceFails,
         RunningStep, ServiceStops, ServiceLosesPod
<1>2. StartRuns(a) \/ starting[a] # {} \/ running[a] # {}
  BY DEF StartRuns, SelectPod, ServicesReady, StartFails, StartingStep, ServiceStarted, ServiceSkipped,
         ServiceFails, RunningStep, ServiceStops, ServiceLosesPod
<1>3. a \in 1 .. attempts /\ ~tomb[a].dead /\ caller # "idle"
  BY <1>2, RunsAlive
<1>4. SomeBusy
  BY <1>3 DEF SomeBusy, Busy
<1> QED
  BY <1>1, <1>3, <1>4, Quieted

\* The end of the terminal may end the dev pod.
LEMMA ServiceEndsPromises ==
  ASSUME Inv, NEW a \in Attempts, NEW s \in Services, ServiceEnds(a, s)
  PROVE  [Promise!Next]_Life
<1>1. UNCHANGED <<attempts, watcher, closes, retried, caller>> /\ cancelled = FALSE
  BY DEF ServiceEnds, Done, Inv, TypeOK
<1>2. running[a] # {}
  BY DEF ServiceEnds
<1>3. a \in 1 .. attempts /\ watcher[a] = "select" /\ caller # "idle"
  BY <1>1, <1>2, RunsAlive DEF Inv, Turns, Watched
<1>4. Running' = Running
  BY <1>1, <1>3 DEF Running, SomeBusy, Busy
<1>5. SeenOf(caller) # "none"
  BY <1>3, SeenBegun
<1>6. cancelled' = cancelled \/ cancelled' = TRUE
  BY DEF ServiceEnds
<1> QED
  BY <1>1, <1>4, <1>5, <1>6, CancelStep, Judged

\* An attempt whose watcher has moved on exists.
LEMMA WatcherBegun ==
  ASSUME Inv, NEW a \in Attempts, watcher[a] # "none"
  PROVE  a \in 1 .. attempts /\ caller # "idle"
  BY DEF Inv, Turns, Watched, TypeOK, TombCounts, Attempts

\* The watchers decide while the attempt is busy.
LEMMA WatcherPromises ==
  ASSUME Inv, NEW a \in Attempts, WatcherWakes(a) \/ WatcherInspects(a) \/ WatcherPolls(a) \/ Restart(a)
  PROVE  [Promise!Next]_Life
<1>1. UNCHANGED <<closes, retried, cancelled, caller>>
  BY DEF WatcherWakes, WatcherInspects, WatcherPolls, Restart
<1>2. watcher[a] \in {"select", "inspect", "poll", "restart", "backoff"}
  BY DEF WatcherWakes, WatcherInspects, WatcherPolls, Restart
<1>3. a \in 1 .. attempts /\ caller # "idle"
  BY <1>2, WatcherBegun
<1>4. SomeBusy
  BY <1>2, <1>3 DEF SomeBusy, Busy
<1> QED
  BY <1>1, <1>3, <1>4, Quieted

\* A restart loop ends, or goes round again after an attempt that failed.
LEMMA RestartReturnsPromises ==
  ASSUME Inv, NEW a \in Attempts, RestartReturns(a)
  PROVE  [Promise!Next]_Life
<1>1. UNCHANGED <<attempts, tomb, closes, cancelled, caller>>
  BY DEF RestartReturns
<1>2. watcher[a] \in {"awaiting", "backoff"}
  BY DEF RestartReturns
<1>3. a \in 1 .. attempts /\ caller # "idle" /\ SeenOf(caller) # "none"
  BY <1>2, WatcherBegun, SeenBegun
<1>4. CASE watcher' = [watcher EXCEPT ![a] = "ended"] /\ retried' = retried
  <2>1. tomb[a].dead
    BY <1>2, EndedDead
  <2>2. watcher'[a] = "ended" /\ \A b \in Attempts : b # a => watcher'[b] = watcher[b]
    BY <1>4 DEF Inv, TypeOK
  <2>3. \A b \in Attempts : Busy(b)' => Busy(b)
    BY <1>1, <2>1, <2>2 DEF Busy
  <2>4. SomeBusy' => SomeBusy
    BY <1>1, <2>3, Attempted DEF SomeBusy
  <2> QED
    BY <1>1, <1>3, <1>4, <2>4, Quieted
<1>5. CASE ~cancelled /\ watcher' = [watcher EXCEPT ![a] = "backoff"] /\ retried' = retried + 1
  <2>1. Running' = "unknown"
    BY <1>5 DEF Running, Inv, TypeOK
  <2>2. cancelled = FALSE
    BY <1>5 DEF Inv, TypeOK
  <2> QED
    BY <1>1, <1>3, <2>1, <2>2, RetryStep, Judged
<1> QED
  BY <1>4, <1>5 DEF RestartReturns

\* Without a retry the attempt whose watcher closes done is the only one open.
LEMMA AloneOpen ==
  ASSUME Inv, retried = 0, NEW a \in Attempts, a \in Opened
  PROVE  closes = 0 /\ Opened = {a}
<1>1. IsFiniteSet(Opened) /\ Cardinality(Opened) \in Nat /\ Cardinality(Opened \ {a}) = Cardinality(Opened) - 1
  BY AttemptSets DEF Opened
<1>2. closes + Cardinality(Opened) <= 1 /\ closes \in Nat
  BY <1>1 DEF Inv, Turns, OpenCounts, TypeOK
<1>3. IsFiniteSet(Opened \ {a}) /\ Cardinality(Opened \ {a}) \in Nat
  BY <1>1, FS_Subset, FS_CardinalityType
<1>4. Cardinality(Opened \ {a}) = 0 /\ closes = 0
  BY <1>1, <1>2, <1>3
<1>5. Opened \ {a} = {}
  BY <1>3, <1>4, FS_EmptySet
<1> QED
  BY <1>4, <1>5

\* done is closed when nothing is busy, unless there was a retry.
LEMMA EndPromises ==
  ASSUME Inv, NEW a \in Attempts, WatcherStopped(a) \/ WatcherFinishes(a)
  PROVE  [Promise!Next]_Life
<1>1. UNCHANGED <<attempts, tomb, cancelled, retried, caller>> /\ closes' = closes + 1
  BY DEF WatcherStopped, WatcherFinishes
<1>2. watcher[a] \in {"waitDead", "finish"} /\ watcher' = [watcher EXCEPT ![a] = "ended"]
  BY DEF WatcherStopped, WatcherFinishes
<1>3. tomb[a].dead
  BY WatcherClosesTurns
<1>4. a \in 1 .. attempts /\ SeenOf(caller) # "none"
  BY <1>2, WatcherBegun, SeenBegun
<1>5. watcher'[a] = "ended" /\ \A b \in Attempts : b # a => watcher'[b] = watcher[b]
  BY <1>2 DEF Inv, TypeOK
<1>6. \A b \in Attempts : Busy(b)' = Busy(b)
  <2>1. Busy(a) = FALSE /\ Busy(a)' = FALSE
    BY <1>1, <1>2, <1>3, <1>5 DEF Busy
  <2> QED
    BY <1>1, <1>5, <2>1 DEF Busy
<1>7. Running' = Running
  BY <1>1, <1>6, Attempted DEF Running, SomeBusy
<1>8. CASE closes > 0
  <2>1. (closes > 0) = (closes' > 0)
    BY <1>1, <1>8 DEF Inv, TypeOK
  <2> QED
    BY <1>1, <1>7, <2>1, Judged
<1>9. CASE ~(closes > 0)
  <2>1. (closes > 0) = FALSE /\ (closes' > 0) = TRUE
    BY <1>1, <1>9 DEF Inv, TypeOK
  <2>2. Running # "yes"
    <3> SUFFICES ASSUME ~(retried > 0), NEW b \in 1 .. attempts, Busy(b) PROVE FALSE
      BY DEF Running, SomeBusy
    <3>1. retried = 0 /\ b \in Attempts /\ b <= attempts
      BY DevPodAssumption DEF Inv, TypeOK, Attempts
    <3>2. Opened = {a}
      BY <1>2, <3>1, AloneOpen DEF Opened, OpenStates
    <3>3. b \in Opened
      BY <3>1 DEF Busy, Opened, OpenStates, Inv, Turns, Watched
    <3>4. b = a
      BY <3>2, <3>3
    <3> QED
      BY <1>2, <1>3, <3>4 DEF Busy
  <2> QED
    BY <1>1, <1>4, <1>7, <2>1, <2>2, EndStep, Judged
<1> QED
  BY <1>8, <1>9

\* Every step.
LEMMA NextPromises ==
  ASSUME Inv, Inv', [Next]_vars
  PROVE  [Promise!Next]_Life
<1>1. CASE UNCHANGED vars
  BY <1>1, Unseen DEF vars
<1>2. CASE CallerStep \/ Cancel
  BY <1>2, StartPromises, CallerPromises DEF CallerStep
<1>3. CASE DeletePod
  BY <1>3, Unseen DEF DeletePod
<1>4. ASSUME NEW a \in Attempts, StartStep(a) \/ StartFails(a) PROVE [Promise!Next]_Life
  <2>1. CASE ReplacePod(a)
    BY <2>1, Unseen DEF ReplacePod
  <2>2. PICK s \in Services : TRUE
    BY DevPodAssumption
  <2> QED
    BY <1>4, <2>1, <2>2, ServicePromises DEF StartStep
<1>5. ASSUME NEW a \in Attempts, WatcherStep(a) PROVE [Promise!Next]_Life
  BY <1>5, WatcherPromises, RestartReturnsPromises, EndPromises DEF WatcherStep
<1>6. ASSUME NEW a \in Attempts, NEW s \in Services,
             StartingStep(a, s) \/ ServiceFails(a, s) \/ RunningStep(a, s) \/ ServiceEnds(a, s)
      PROVE  [Promise!Next]_Life
  BY <1>6, ServicePromises, ServiceEndsPromises
<1> QED
  BY <1>1, <1>2, <1>3, <1>4, <1>5, <1>6 DEF Next, Ended

\* Whatever a dev pod does, the manager sees nothing of it but what DevPodLife
\* promises: Start returns once, done is closed for good and, unless an attempt of the
\* restart loop failed and was made again, only when nothing runs any more.
\* (The liveness part of the promise, KeepsPromise, is for the model checker.)
THEOREM KeepsPromiseSafety == Spec => Promise!Init /\ [][Promise!Next]_Life
<1>1. Init => Inv
  BY InitTurns
<1>2. Inv /\ [Next]_vars => Inv'
  BY NextTurns
<1>3. Init => Promise!Init
  <2> SUFFICES ASSUME Init PROVE Promise!Init
    OBVIOUS
  <2>1. attempts = 0 /\ closes = 0 /\ retried = 0 /\ caller = "idle" /\ cancelled = FALSE
    BY DEF Init
  <2>2. (\E a \in 1 .. attempts : Busy(a)) = FALSE /\ (closes > 0) = FALSE /\ (retried > 0) = FALSE
    BY <2>1
  <2> QED
    BY <2>1, <2>2, Zenon DEF Promise!Init, Promise!NewLife, Life
<1>4. Inv /\ Inv' /\ [Next]_vars => [Promise!Next]_Life
  BY NextPromises
<1> QED
  BY <1>1, <1>2, <1>3, <1>4, PTL DEF Spec

-----------------------------------------------------------------------------
(* DevPodManager. What it knows of a dev pod: only what DevPodLife         *)
(* promises, which KeepsPromiseSafety proves of every dev pod.             *)

\* When done is closed nothing runs, but for what a retry leaves.
Sound(l) == l.done => l.start # "none" /\ l.runs # "yes"

\* What is true of a dev pod stays true: it is not revived, not un-cancelled, and its
\* Start returns once.
Grows(l, m) ==
    /\ l.done => m.done
    /\ l.cancelled => m.cancelled
    /\ l.start = "started" => m.start = "started"
    /\ Sound(l) => Sound(m)

\* A step of a dev pod.
LEMMA StepGrows ==
  ASSUME NEW l \in DP!Lives, NEW m, DP!Step(l, m) PROVE Grows(l, m)
  BY DEF DP!Lives, DP!Step, DP!Begun, DP!Begin, DP!Up, DP!Fail, DP!Cancel, DP!Quiet, DP!Retry, DP!End, Grows, Sound

\* The dev pods after a step that creates none.
LivesGrow ==
    /\ life' \in Seq(DP!Lives) /\ Len(life') = Len(life)
    /\ \A o \in Ids : Grows(life[o], life'[o])

\* Cancelling dev pods does nothing else to any of them.
LEMMA CancelAllGrows ==
  ASSUME ManagerTypeOK, NEW os, life' = CancelAll(os)
  PROVE  LivesGrow /\ \A o \in Ids : o \in os => life'[o].cancelled
<1>1. life \in [Ids -> DP!Lives] /\ Len(life) \in Nat
  BY DEF ManagerTypeOK, Ids
<1>2. \A l \in DP!Lives : [l EXCEPT !.cancelled = TRUE] \in DP!Lives
  BY DEF DP!Lives
<1>3. life' \in [1 .. Len(life) -> DP!Lives]
  BY <1>1, <1>2 DEF CancelAll, Ids
<1>4. life' \in Seq(DP!Lives) /\ Len(life') = Len(life)
  BY <1>1, <1>3
<1>5. ASSUME NEW o \in Ids PROVE Grows(life[o], life'[o]) /\ (o \in os => life'[o].cancelled)
  BY <1>1 DEF CancelAll, Grows, Sound, DP!Lives
<1> QED
  BY <1>4, <1>5 DEF LivesGrow

\* So does a step of one of them.
LEMMA DevPodStepGrows ==
  ASSUME ManagerTypeOK, NEW o \in Ids, DevPodStep(o) PROVE LivesGrow
<1>2. life \in Seq(DP!Lives) /\ life[o] \in DP!Lives
  BY DEF ManagerTypeOK, Ids
<1>1. PICK m \in DP!Lives : DP!Step(life[o], m) /\ life' = [life EXCEPT ![o] = m]
  <2>1. \A m \in DP!OneChange(life[o]) : m \in DP!Lives
    BY <1>2 DEF DP!OneChange, DP!Lives
  <2> QED
    BY <2>1 DEF DevPodStep
<1>3. life' \in Seq(DP!Lives) /\ Len(life') = Len(life)
  BY <1>1, <1>2 DEF Ids
<1>4. Grows(life[o], m)
  BY <1>1, <1>2, StepGrows
<1>5. \A p \in Ids : Grows(life[p], life'[p])
  BY <1>1, <1>2, <1>4 DEF Ids, Grows
<1> QED
  BY <1>3, <1>5 DEF LivesGrow

\* Nothing happens to any of them.
LEMMA UnchangedGrows == ASSUME ManagerTypeOK, UNCHANGED life PROVE LivesGrow
  BY DEF LivesGrow, Grows, ManagerTypeOK

-----------------------------------------------------------------------------
(* A new dev pod.                                                          *)

NewLife(j) == [DP!NewLife EXCEPT !.start = "starting", !.runs = "yes", !.cancelled = GroupDone(j)]

\* It comes last, for the name, the job and the call that asked for it.
LEMMA Created ==
  ASSUME ManagerTypeOK, NEW j \in Jobs, NEW n \in Names, Create(j, n)
  PROVE  /\ life' \in Seq(DP!Lives) /\ Len(life') = Len(life) + 1 /\ Len(owner') = Len(life')
         /\ owner' \in Seq([name : Names, job : Jobs, call : Nat])
         /\ devPods' \in [Names -> 0 .. Len(life')]
         /\ \A o \in Ids : life'[o] = life[o] /\ owner'[o] = owner[o]
         /\ life'[Len(life) + 1] = NewLife(j)
         /\ owner'[Len(life) + 1] = [name |-> n, job |-> j, call |-> job[j].calls]
         /\ devPods'[n] = Len(life) + 1 /\ \A m \in Names \ {n} : devPods'[m] = devPods[m]
<1>1. NewLife(j) \in DP!Lives
  BY Zenon DEF NewLife, DP!NewLife, DP!Lives, DP!Starts, DP!Runs, GroupDone, ManagerTypeOK
<1>2. life' = Append(life, NewLife(j)) /\ owner' = Append(owner, [name |-> n, job |-> j, call |-> job[j].calls])
  BY DEF Create, NewLife
<1>3. [name |-> n, job |-> j, call |-> job[j].calls] \in [name : Names, job : Jobs, call : Nat]
  BY DEF ManagerTypeOK, JobState
<1>4. life \in Seq(DP!Lives) /\ owner \in Seq([name : Names, job : Jobs, call : Nat]) /\ Len(owner) = Len(life)
  BY DEF ManagerTypeOK
<1>5. /\ life' \in Seq(DP!Lives) /\ Len(life') = Len(life) + 1
      /\ \A o \in Ids : life'[o] = life[o]
      /\ life'[Len(life) + 1] = NewLife(j)
  BY <1>1, <1>2, <1>4 DEF Ids
<1>6. /\ owner' \in Seq([name : Names, job : Jobs, call : Nat]) /\ Len(owner') = Len(life) + 1
      /\ \A o \in Ids : owner'[o] = owner[o]
      /\ owner'[Len(life) + 1] = [name |-> n, job |-> j, call |-> job[j].calls]
  BY <1>2, <1>3, <1>4 DEF Ids
<1>7. devPods' = [devPods EXCEPT ![n] = Len(life) + 1] /\ Len(life) \in Nat
  BY <1>4 DEF Create
<1>8. /\ devPods' \in [Names -> 0 .. Len(life) + 1]
      /\ devPods'[n] = Len(life) + 1 /\ \A m \in Names \ {n} : devPods'[m] = devPods[m]
  BY <1>7 DEF ManagerTypeOK
<1> QED
  BY <1>5, <1>6, <1>8

-----------------------------------------------------------------------------
(* What the steps of the manager do to the dev pods.                       *)

\* A step creates a dev pod, removes one that has ended, or only lets them grow.
Rest == LivesGrow /\ owner' = owner /\ (devPods' = devPods \/ \E j \in Jobs : Stopped(j))

LEMMA PodSteps ==
  ASSUME ManagerTypeOK, [ManagerNext]_managerVars
  PROVE  Rest \/ \E j \in Jobs, n \in Names : StartLocked(j, n) /\ Create(j, n)
<1>1. ASSUME UNCHANGED <<life, owner, devPods>> PROVE Rest
  BY <1>1, UnchangedGrows DEF Rest
<1>2. ASSUME NEW os, life' = CancelAll(os), UNCHANGED <<owner, devPods>> PROVE Rest
  BY <1>2, CancelAllGrows DEF Rest
<1>3. ASSUME NEW o \in Ids, DevPodStep(o) PROVE Rest
  BY <1>3, DevPodStepGrows DEF DevPodStep, Rest
<1>4. CASE Wait \/ CloseWaits \/ CloseReturns \/ UNCHANGED managerVars
  <2>1. UNCHANGED <<life, owner, devPods>>
    BY <1>4 DEF Wait, CloseWaits, CloseReturns, managerVars
  <2> QED
    BY <1>1, <2>1
<1>5. CASE Close
  BY <1>2, <1>5 DEF Close
<1>6. ASSUME NEW j \in Jobs, NEW n \in Names, StarterStep(j, n), ~(StartLocked(j, n) /\ Create(j, n)) PROVE Rest
  <2>1. CASE Report(j, n) /\ job[j].pc = "blocked"
    BY <1>2, <2>1 DEF Report, CancelGroup
  <2>2. CASE ~(Report(j, n) /\ job[j].pc = "blocked")
    <3>1. UNCHANGED <<life, owner, devPods>>
      BY <1>6, <2>2 DEF StarterStep, StartLocked, StartReturned, CloseInit, Report
    <3> QED
      BY <1>1, <3>1
  <2> QED
    BY <2>1, <2>2
<1>7. ASSUME NEW j \in Jobs, JobStep(j) PROVE Rest
  <2>1. CASE Stop(j)
    BY <1>2, <2>1 DEF Stop
  <2>2. CASE Stopped(j)
    BY UnchangedGrows, <2>2 DEF Stopped, Rest
  <2>3. CASE \E n \in Names : SelectError(j, n)
    BY <1>2, <2>3 DEF SelectError, CancelGroup
  <2>4. CASE \/ EndJob(j) \/ StartMultiple(j) \/ Register(j) \/ Drain(j) \/ Collected(j)
             \/ \E failed \in BOOLEAN : Reverted(j, failed)
             \/ \E n \in Names : SelectInit(j, n) \/ SelectBlocks(j, n) \/ Reset(j, n)
    <3>1. UNCHANGED <<life, owner, devPods>>
      BY <2>4 DEF EndJob, StartMultiple, Register, Drain, Collected, Reverted, SelectInit, SelectBlocks, Reset
    <3> QED
      BY <1>1, <3>1
  <2> QED
    BY <1>7, <2>1, <2>2, <2>3, <2>4 DEF JobStep
<1> QED
  BY <1>3, <1>4, <1>5, <1>6, <1>7 DEF ManagerNext

\* A step of a job or of one of its goroutines leaves the other jobs alone; what is
\* left does not concern the jobs at all.
LEMMA OneJob ==
  ASSUME ManagerTypeOK, [ManagerNext]_managerVars, NEW j \in Jobs
  PROVE  \/ JobStep(j) \/ \E n \in Names : StarterStep(j, n)
         \/ job'[j] = job[j] /\ script'[j] = script[j] /\ starter'[j] = starter[j] /\ group'[j] = group[j]
<1> DEFINE Same == /\ job'[j] = job[j] /\ script'[j] = script[j] /\ starter'[j] = starter[j]
                   /\ group'[j] = group[j]
<1>1. ASSUME NEW i \in Jobs, i # j, JobStep(i) PROVE Same
  <2>1. CASE EndJob(i) \/ StartMultiple(i) \/ Register(i) \/ Drain(i) \/ Collected(i)
    BY <1>1, <2>1 DEF EndJob, StartMultiple, Register, Drain, Collected, NextCommand, ManagerTypeOK
  <2>2. CASE Stop(i) \/ Stopped(i) \/ \E failed \in BOOLEAN : Reverted(i, failed)
    BY <1>1, <2>2 DEF Stop, Stopped, Reverted, NextCommand, ManagerTypeOK
  <2>3. CASE \E n \in Names : SelectError(i, n) \/ SelectInit(i, n) \/ SelectBlocks(i, n) \/ Reset(i, n)
    <3>1. PICK n \in Names : SelectError(i, n) \/ SelectInit(i, n) \/ SelectBlocks(i, n) \/ Reset(i, n)
      BY <2>3
    <3>2. CASE SelectError(i, n)
      BY <1>1, <3>2 DEF SelectError, CancelGroup, ManagerTypeOK
    <3>3. CASE SelectInit(i, n) \/ SelectBlocks(i, n)
      BY <1>1, <3>3 DEF SelectInit, SelectBlocks, ManagerTypeOK
    <3>4. CASE Reset(i, n)
      BY <1>1, <3>4 DEF Reset, ManagerTypeOK
    <3> QED
      BY <3>1, <3>2, <3>3, <3>4
  <2> QED
    BY <1>1, <2>1, <2>2, <2>3 DEF JobStep
<1>2. ASSUME NEW i \in Jobs, i # j, NEW n \in Names, StarterStep(i, n) PROVE Same
  BY <1>2 DEF StarterStep, StartLocked, StartReturned, Report, CloseInit, CancelGroup, ManagerTypeOK
<1>3. ASSUME NEW o \in Ids, DevPodStep(o) PROVE Same
  BY <1>3 DEF DevPodStep
<1>4. CASE Wait \/ Close \/ CloseWaits \/ CloseReturns \/ UNCHANGED managerVars
  BY <1>4 DEF Wait, Close, CloseWaits, CloseReturns, managerVars
<1> QED
  BY <1>1, <1>2, <1>3, <1>4 DEF ManagerNext

-----------------------------------------------------------------------------
(* Type correctness.                                                       *)

PodTypes ==
    /\ life \in Seq(DP!Lives) /\ Len(owner) = Len(life)
    /\ owner \in Seq([name : Names, job : Jobs, call : Nat])
    /\ devPods \in [Names -> 0 .. Len(life)]

\* The dev pods and who owns them.
LEMMA NextPodTypes == ASSUME ManagerTypeOK, [ManagerNext]_managerVars PROVE PodTypes'
<1>1. ASSUME NEW j \in Jobs, NEW n \in Names, Create(j, n) PROVE PodTypes'
  BY <1>1, Created DEF PodTypes
<1>2. ASSUME LivesGrow, owner' = owner, devPods' = devPods PROVE PodTypes'
  BY <1>2 DEF LivesGrow, PodTypes, ManagerTypeOK
<1>3. ASSUME LivesGrow, owner' = owner, NEW j \in Jobs, Stopped(j) PROVE PodTypes'
  <2>1. Len(life) \in Nat /\ devPods \in [Names -> 0 .. Len(life)]
    BY DEF ManagerTypeOK
  <2>2. devPods' = [devPods EXCEPT ![job[j].current] = 0]
    BY <1>3 DEF Stopped
  <2>3. \A n \in Names : devPods'[n] \in 0 .. Len(life)
    BY <2>1, <2>2
  <2>4. devPods' \in [Names -> 0 .. Len(life)]
    BY <2>1, <2>2, <2>3
  <2> QED
    BY <1>3, <2>4 DEF LivesGrow, PodTypes, ManagerTypeOK
<1> QED
  BY <1>1, <1>2, <1>3, PodSteps DEF Rest

\* What a command that is under way needs: a script, and goroutines only while
\* StartMultiple waits for them.
Collects(j) == job[j].pc \in {"select", "blocked", "drain"}

Stops(j) == job[j].pc \in {"stop", "stopping", "revert"}

UnderWay ==
    \A j \in Jobs :
        /\ job[j].pc \notin {"next", "end"} => script[j] # <<>>
        /\ job[j].pending # {} => Collects(j)
        /\ \A n \in Names : starter[j][n] \notin {"none", "closed"} => n \in job[j].pending
        /\ Stops(j) => job[j].current \in Names

JobTypes ==
    /\ script \in [Jobs -> Seq(Command)] /\ job \in [Jobs -> JobState]
    /\ starter \in [Jobs -> [Names -> {"none", "lock", "starting", "report", "close", "closed"}]]

\* The record of a job after it has heard of the end of a start, and after a command.
LEMMA ReceivedType ==
  ASSUME NEW r \in JobState, NEW n
  PROVE  /\ Received(r, n) \in JobState /\ Received(r, n).pending = r.pending \ {n}
         /\ Received(r, n).pc = "select"
         /\ Received(r, n).got = r.got /\ Received(r, n).errors = r.errors /\ Received(r, n).unheard = r.unheard
         /\ Received(r, n).failed = r.failed /\ Received(r, n).calls = r.calls
  BY DEF JobState, Received

LEMMA IdleType == IdleJob \in JobState
  BY DEF JobState, IdleJob

\* A command ends.
LEMMA NextCommandTypes ==
  ASSUME JobTypes, UnderWay, NEW j \in Jobs, NEW failed \in {"no", "start", "stop"}, script[j] # <<>>,
         NextCommand(j, failed), starter' = starter, \A n \in Names : starter[j][n] \in {"none", "closed"}
  PROVE  /\ JobTypes' /\ UnderWay'
         /\ job'[j] = [IdleJob EXCEPT !.calls = job[j].calls, !.failed = failed,
                                      !.pc = IF failed = "no" THEN "next" ELSE "end"]
<1> DEFINE r == [IdleJob EXCEPT !.calls = job[j].calls, !.failed = failed,
                                !.pc = IF failed = "no" THEN "next" ELSE "end"]
<1>1. job[j].calls \in Nat
  BY DEF JobTypes, JobState
<1>2. r \in JobState /\ r.pending = {} /\ r.pc \in {"next", "end"}
  BY <1>1, IdleType DEF JobState, IdleJob
<1>3. job' = [job EXCEPT ![j] = r]
  BY DEF NextCommand
<1> HIDE DEF r
<1>4. job' \in [Jobs -> JobState] /\ job'[j] = r
  BY <1>2, <1>3 DEF JobTypes
<1>5. script' \in [Jobs -> Seq(Command)] /\ \A i \in Jobs \ {j} : script'[i] = script[i]
  BY DEF NextCommand, JobTypes
<1>6. UnderWay'
  BY <1>2, <1>3, <1>4, <1>5 DEF UnderWay, JobTypes, Collects, Stops
<1> QED
  BY <1>4, <1>5, <1>6 DEF JobTypes, r

\* A job goes on with a command.
LEMMA GoesOn ==
  ASSUME JobTypes, UnderWay, NEW j \in Jobs, NEW r \in JobState, job' = [job EXCEPT ![j] = r],
         UNCHANGED <<script, starter>>,
         r.pc \notin {"next", "end"} => script[j] # <<>>,
         r.pending # {} => r.pc \in {"select", "blocked", "drain"},
         \A n \in Names : starter[j][n] \notin {"none", "closed"} => n \in r.pending,
         r.pc \in {"stop", "stopping", "revert"} => r.current \in Names
  PROVE  JobTypes' /\ UnderWay'
  BY DEF JobTypes, UnderWay, Collects, Stops

\* The steps of a job.
LEMMA JobStepTypes ==
  ASSUME ManagerTypeOK, UnderWay, NEW j \in Jobs, JobStep(j) PROVE JobTypes' /\ UnderWay'
<1>1. JobTypes /\ job[j] \in JobState
  BY DEF ManagerTypeOK, JobTypes
<1>2. CASE EndJob(j)
  <2>1. [job[j] EXCEPT !.pc = "end"] \in JobState
    BY <1>1 DEF JobState
  <2>2. job[j].pending = {} /\ \A n \in Names : starter[j][n] \in {"none", "closed"}
    BY <1>1, <1>2 DEF EndJob, UnderWay, Collects, JobTypes
  <2>3. JobTypes'
    BY <1>1, <1>2, <2>1 DEF EndJob, JobTypes
  <2>4. UnderWay'
    BY <1>1, <1>2, <2>2 DEF EndJob, UnderWay, Collects, Stops, JobTypes, JobState
  <2> QED
    BY <2>3, <2>4
<1>3. CASE StartMultiple(j)
  <2>1. job[j].pc = "next" /\ script[j] # <<>> /\ starter' = starter
    BY <1>3 DEF StartMultiple, AtCommand
  <2>2. job[j].pending = {} /\ \A n \in Names : starter[j][n] \in {"none", "closed"}
    BY <1>1, <2>1 DEF UnderWay, Collects, JobTypes
  <2>3. CASE devCtx
    BY <1>1, <1>3, <2>1, <2>2, <2>3, NextCommandTypes DEF StartMultiple
  <2>4. CASE ~devCtx
    <3> DEFINE r == [job[j] EXCEPT !.pc = "register"]
    <3>1. r \in JobState /\ r.pending = {} /\ r.pc = "register"
      BY <1>1, <2>2 DEF JobState
    <3>2. job' = [job EXCEPT ![j] = r] /\ UNCHANGED script
      BY <1>3, <2>4 DEF StartMultiple
    <3> HIDE DEF r
    <3> QED
      BY <1>1, <2>1, <2>2, <3>1, <3>2, GoesOn
  <2> QED
    BY <2>3, <2>4
<1>4. CASE Register(j)
  <2> DEFINE names == Head(script[j]).names
             r == [IdleJob EXCEPT !.pc = "select", !.pending = names, !.calls = job[j].calls + 1]
  <2>1. script[j] \in Seq(Command) /\ script[j] # <<>>
    BY <1>1, <1>4 DEF Register, UnderWay, JobTypes
  <2>2. Head(script[j]) \in Command
    BY <2>1
  <2>a. names \in SUBSET Names
    BY <2>2 DEF Command
  <2>b. job[j].calls + 1 \in Nat
    BY <1>1 DEF JobState
  <2> HIDE DEF names
  <2>3. r \in JobState /\ r.pc = "select" /\ r.pending = names
    BY <2>a, <2>b, IdleType DEF JobState
  <2> USE DEF names
  <2>4. /\ job' = [job EXCEPT ![j] = r] /\ script' = script
        /\ starter' = [starter EXCEPT ![j] = [n \in Names |-> IF n \in names THEN "lock" ELSE "none"]]
    BY <1>4 DEF Register
  <2> HIDE DEF r
  <2>5. JobTypes'
    BY <1>1, <2>3, <2>4 DEF JobTypes
  <2>6. UnderWay'
    BY <1>1, <2>1, <2>3, <2>4 DEF JobTypes, UnderWay, Collects, Stops
  <2> QED
    BY <2>5, <2>6
<1>5. CASE Drain(j)
  <2> DEFINE n == job[j].current
             r == Received(job[j], n)
  <2>1. r \in JobState /\ r.pending = job[j].pending \ {n} /\ r.pc = "select"
    BY <1>1, ReceivedType
  <2>2. job' = [job EXCEPT ![j] = r] /\ UNCHANGED <<script, starter>> /\ job[j].pc = "drain" /\ starter[j][n] = "closed"
    BY <1>5 DEF Drain
  <2> HIDE DEF r
  <2>3. script[j] # <<>> /\ \A m \in Names : starter[j][m] \notin {"none", "closed"} => m \in r.pending
    BY <2>1, <2>2 DEF UnderWay
  <2> QED
    BY <1>1, <2>1, <2>2, <2>3, GoesOn
<1>6. CASE Collected(j)
  <2>1. script[j] # <<>> /\ starter' = starter
    BY <1>6 DEF Collected, UnderWay
  <2>2. \A n \in Names : starter[j][n] \in {"none", "closed"}
    BY <1>1, <1>6 DEF Collected, UnderWay, JobTypes
  <2> QED
    BY <1>1, <1>6, <2>1, <2>2, NextCommandTypes DEF Collected
<1>7. CASE Stop(j)
  <2> DEFINE r == [job[j] EXCEPT !.pc = IF devPods[job[j].current] = 0 THEN "revert" ELSE "stopping"]
  <2>1. r \in JobState /\ r.pending = job[j].pending /\ r.current = job[j].current /\ r.pc \in {"revert", "stopping"}
    BY <1>1 DEF JobState
  <2>2. job' = [job EXCEPT ![j] = r] /\ UNCHANGED <<script, starter>> /\ job[j].pc = "stop"
    BY <1>7 DEF Stop
  <2> HIDE DEF r
  <2>3. job[j].pending = {} /\ job[j].current \in Names /\ script[j] # <<>>
    BY <2>2 DEF UnderWay, Collects, Stops
  <2> QED
    BY <1>1, <2>1, <2>2, <2>3, GoesOn DEF UnderWay
<1>8. CASE Stopped(j)
  <2> DEFINE r == [job[j] EXCEPT !.pc = "revert"]
  <2>1. r \in JobState /\ r.pending = job[j].pending /\ r.current = job[j].current /\ r.pc = "revert"
    BY <1>1 DEF JobState
  <2>2. job' = [job EXCEPT ![j] = r] /\ UNCHANGED <<script, starter>> /\ job[j].pc = "stopping"
    BY <1>8 DEF Stopped
  <2> HIDE DEF r
  <2>3. job[j].pending = {} /\ job[j].current \in Names /\ script[j] # <<>>
    BY <2>2 DEF UnderWay, Collects, Stops
  <2> QED
    BY <1>1, <2>1, <2>2, <2>3, GoesOn DEF UnderWay
<1>9. ASSUME NEW failed \in BOOLEAN, Reverted(j, failed) PROVE JobTypes' /\ UnderWay'
  <2> DEFINE left == Head(script[j]).names \ {job[j].current}
  <2>1. job[j].pc = "revert" /\ starter' = starter /\ script[j] # <<>> /\ script[j] \in Seq(Command)
    BY <1>1, <1>9 DEF Reverted, UnderWay, JobTypes
  <2>2. job[j].pending = {} /\ \A n \in Names : starter[j][n] \in {"none", "closed"}
    BY <1>1, <2>1 DEF UnderWay, Collects, JobTypes
  <2>3. CASE failed \/ left = {}
    BY <1>1, <1>9, <2>1, <2>2, <2>3, NextCommandTypes DEF Reverted
  <2>4. CASE ~(failed \/ left = {})
    <3>1. /\ job' = [job EXCEPT ![j].pc = "next"]
          /\ script' = [script EXCEPT ![j][1].names = left]
      BY <1>9, <2>4 DEF Reverted
    <3>a. Head(script[j]) \in Command
      BY <2>1
    <3>2. [Head(script[j]) EXCEPT !.names = left] \in Command
      BY <2>4, <3>a DEF Command
    <3>3. script'[j] = [script[j] EXCEPT ![1].names = left]
      BY <1>1, <3>1 DEF JobTypes
    <3>4. script'[j] \in Seq(Command)
      BY <2>1, <3>2, <3>3
    <3>5. script' \in [Jobs -> Seq(Command)]
      BY <1>1, <3>1, <3>4 DEF JobTypes
    <3>6. [job[j] EXCEPT !.pc = "next"] \in JobState
      BY <1>1 DEF JobState
    <3>7. JobTypes'
      BY <1>1, <2>1, <3>1, <3>5, <3>6 DEF JobTypes
    <3>8. UnderWay'
      BY <1>1, <2>1, <2>2, <3>1 DEF UnderWay, Collects, Stops, JobTypes, JobState
    <3> QED
      BY <3>7, <3>8
  <2> QED
    BY <2>3, <2>4
<1>10. ASSUME NEW n \in Names, SelectError(j, n) PROVE JobTypes' /\ UnderWay'
  <2>1. PICK e \in job[j].errors :
           job' = [job EXCEPT ![j].errors = @ \ {e}, ![j].got = @ + 1, ![j].pc = "drain", ![j].current = n]
    BY <1>10 DEF SelectError
  <2> DEFINE r == [job[j] EXCEPT !.errors = @ \ {e}, !.got = @ + 1, !.pc = "drain", !.current = n]
  <2>a. job[j].errors \ {e} \in SUBSET Names /\ job[j].got + 1 \in Nat
    BY <1>1 DEF JobState
  <2>2. r \in JobState /\ r.pending = job[j].pending /\ r.pc = "drain"
    BY <1>1, <2>a DEF JobState
  <2>3. job' = [job EXCEPT ![j] = r] /\ UNCHANGED <<script, starter>> /\ job[j].pc = "select"
    BY <1>10, <2>1 DEF SelectError
  <2> HIDE DEF r
  <2> QED
    BY <1>1, <2>2, <2>3, GoesOn DEF UnderWay
<1>11. ASSUME NEW n \in Names, SelectInit(j, n) PROVE JobTypes' /\ UnderWay'
  <2> DEFINE q == Received(job[j], n)
             r == [q EXCEPT !.unheard = @ \/ job[j].errors # {}]
  <2>1. q \in JobState /\ q.pending = job[j].pending \ {n} /\ q.pc = "select"
    BY <1>1, ReceivedType
  <2>a. job' = [job EXCEPT ![j] = r]
    BY <1>11 DEF SelectInit
  <2>b. UNCHANGED <<script, starter>> /\ job[j].pc = "select" /\ starter[j][n] = "closed"
    BY <1>11 DEF SelectInit
  <2> HIDE DEF q
  <2>3. r \in JobState /\ r.pending = q.pending /\ r.pc = q.pc
    BY <2>1 DEF JobState
  <2> HIDE DEF r
  <2>4. script[j] # <<>> /\ \A m \in Names : starter[j][m] \notin {"none", "closed"} => m \in r.pending
    BY <2>1, <2>b, <2>3 DEF UnderWay
  <2> QED
    BY <1>1, <2>1, <2>a, <2>b, <2>3, <2>4, GoesOn
<1>12. ASSUME NEW n \in Names, SelectBlocks(j, n) PROVE JobTypes' /\ UnderWay'
  <2> DEFINE r == [job[j] EXCEPT !.pc = "blocked", !.current = n]
  <2>1. r \in JobState /\ r.pending = job[j].pending /\ r.pc = "blocked"
    BY <1>1 DEF JobState
  <2>2. job' = [job EXCEPT ![j] = r] /\ UNCHANGED <<script, starter>> /\ job[j].pc = "select"
    BY <1>12 DEF SelectBlocks
  <2> HIDE DEF r
  <2> QED
    BY <1>1, <2>1, <2>2, GoesOn DEF UnderWay
<1>13. ASSUME NEW n \in Names, Reset(j, n) PROVE JobTypes' /\ UnderWay'
  <2> DEFINE r == [job[j] EXCEPT !.pc = "stop", !.current = n]
  <2>1. r \in JobState /\ r.pending = job[j].pending /\ r.pc = "stop" /\ r.current = n
    BY <1>1 DEF JobState
  <2>2. job' = [job EXCEPT ![j] = r] /\ UNCHANGED <<script, starter>> /\ job[j].pc = "next" /\ script[j] # <<>>
    BY <1>13 DEF Reset, AtCommand
  <2> HIDE DEF r
  <2>3. job[j].pending = {}
    BY <2>2 DEF UnderWay, Collects
  <2> QED
    BY <1>1, <2>1, <2>2, <2>3, GoesOn DEF UnderWay
<1> QED
  BY <1>2, <1>3, <1>4, <1>5, <1>6, <1>7, <1>8, <1>9, <1>10, <1>11, <1>12, <1>13 DEF JobStep

\* A goroutine of StartMultiple goes on.
LEMMA StarterGoesOn ==
  ASSUME JobTypes, UnderWay, NEW j \in Jobs, NEW n \in Names, UNCHANGED script,
         job' = [job EXCEPT ![j] = job'[j]], starter' = [starter EXCEPT ![j][n] = starter'[j][n]],
         job'[j] \in JobState, starter'[j][n] \in {"starting", "report", "close", "closed"},
         starter[j][n] \notin {"none", "closed"},
         job'[j].pc \in {job[j].pc, "select", "drain"}, job'[j].current = job[j].current \/ ~Stops(j),
         \/ job'[j].pending = job[j].pending
         \/ starter'[j][n] = "closed" /\ job'[j].pending = job[j].pending \ {n}
  PROVE  JobTypes' /\ UnderWay'
<1>1. /\ \A i \in Jobs \ {j} : job'[i] = job[i]
      /\ \A m \in Names \ {n} : starter'[j][m] = starter[j][m]
      /\ \A i \in Jobs \ {j} : starter'[i] = starter[i]
  BY DEF JobTypes
<1>2. JobTypes'
  <2>1. job' \in [Jobs -> JobState]
    BY <1>1 DEF JobTypes
  <2>2. starter'[j] \in [Names -> {"none", "lock", "starting", "report", "close", "closed"}]
    BY <1>1 DEF JobTypes
  <2>3. starter' \in [Jobs -> [Names -> {"none", "lock", "starting", "report", "close", "closed"}]]
    BY <1>1, <2>2 DEF JobTypes
  <2> QED
    BY <2>1, <2>3 DEF JobTypes
<1>3. n \in job[j].pending /\ Collects(j) /\ script[j] # <<>>
  BY DEF UnderWay, Collects
<1>4. job'[j].pc \in {"select", "blocked", "drain"}
  BY <1>3 DEF Collects
<1>5. ASSUME NEW i \in Jobs
      PROVE  /\ job'[i].pc \notin {"next", "end"} => script[i] # <<>>
             /\ job'[i].pending # {} => job'[i].pc \in {"select", "blocked", "drain"}
             /\ \A m \in Names : starter'[i][m] \notin {"none", "closed"} => m \in job'[i].pending
             /\ job'[i].pc \in {"stop", "stopping", "revert"} => job'[i].current \in Names
  <2>1. CASE i = j
    BY <1>1, <1>3, <1>4, <2>1 DEF UnderWay
  <2>2. CASE i # j
    BY <1>1, <2>2 DEF UnderWay, Collects, Stops
  <2> QED
    BY <2>1, <2>2
<1>6. UnderWay'
  BY <1>5 DEF UnderWay, Collects, Stops
<1> QED
  BY <1>2, <1>6

LEMMA StarterStepTypes ==
  ASSUME ManagerTypeOK, UnderWay, NEW j \in Jobs, NEW n \in Names, StarterStep(j, n) PROVE JobTypes' /\ UnderWay'
<1>1. JobTypes /\ job[j] \in JobState
  BY DEF ManagerTypeOK, JobTypes
<1> DEFINE s == starter'[j][n]
           Goes == starter' = [starter EXCEPT ![j][n] = s] /\ script' = script
<1>2. CASE StartLocked(j, n) \/ StartReturned(j, n)
  <2>1. Goes /\ s \in {"starting", "report", "close"} /\ starter[j][n] \in {"lock", "starting"}
    BY <1>1, <1>2 DEF StartLocked, StartReturned, JobTypes
  <2>2. job' = job /\ job' = [job EXCEPT ![j] = job'[j]]
    BY <1>1, <1>2 DEF StartLocked, StartReturned, JobTypes
  <2> HIDE DEF Goes
  <2>3. starter' = [starter EXCEPT ![j][n] = starter'[j][n]] /\ script' = script
    BY <2>1 DEF Goes
  <2>4. job'[j] \in JobState /\ starter'[j][n] \in {"starting", "report", "close", "closed"}
    BY <1>1, <2>1, <2>2
  <2>5. starter[j][n] \notin {"none", "closed"}
    BY <2>1
  <2>6. job'[j].pc \in {job[j].pc, "select", "drain"} /\ job'[j].current = job[j].current
        /\ job'[j].pending = job[j].pending
    BY <2>2
  <2> QED
    BY <1>1, <2>2, <2>3, <2>4, <2>5, <2>6, StarterGoesOn
<1>3. CASE Report(j, n)
  <2>1. Goes /\ s = "close" /\ starter[j][n] = "report"
    BY <1>1, <1>3 DEF Report, JobTypes
  <2>2. PICK r \in JobState : /\ job' = [job EXCEPT ![j] = r] /\ r.pending = job[j].pending
                              /\ r.current = job[j].current /\ r.pc \in {job[j].pc, "drain"}
    <3>1. CASE job[j].pc = "blocked"
      <4> DEFINE r == [job[j] EXCEPT !.pc = "drain", !.got = @ + 1]
      <4>1. job[j].got + 1 \in Nat
        BY <1>1 DEF JobState
      <4>2. r \in JobState /\ r.pc = "drain" /\ r.pending = job[j].pending /\ r.current = job[j].current
        BY <1>1, <4>1 DEF JobState
      <4>3. job' = [job EXCEPT ![j] = r]
        BY <1>3, <3>1 DEF Report
      <4> HIDE DEF r
      <4> QED
        BY <4>2, <4>3
    <3>2. CASE job[j].pc # "blocked"
      <4> DEFINE r == [job[j] EXCEPT !.errors = @ \cup {n}]
      <4>1. r \in JobState /\ r.pc = job[j].pc /\ r.pending = job[j].pending /\ r.current = job[j].current
        BY <1>1 DEF JobState
      <4>2. job' = [job EXCEPT ![j] = r]
        BY <1>3, <3>2 DEF Report
      <4> HIDE DEF r
      <4> QED
        BY <4>1, <4>2
    <3> QED
      BY <3>1, <3>2
  <2>3. job'[j] = r
    BY <1>1, <2>2 DEF JobTypes
  <2> QED
    BY <1>1, <2>1, <2>2, <2>3, StarterGoesOn
<1>4. CASE CloseInit(j, n)
  <2>1. Goes /\ s = "closed" /\ starter[j][n] = "close"
    BY <1>1, <1>4 DEF CloseInit, JobTypes
  <2>2. CASE job[j].pc = "blocked" /\ job[j].current = n
    <3> DEFINE r == Received(job[j], n)
    <3>1. r \in JobState /\ r.pc = "select" /\ r.pending = job[j].pending \ {n}
      BY <1>1, ReceivedType
    <3>2. job' = [job EXCEPT ![j] = r]
      BY <1>4, <2>2 DEF CloseInit
    <3> HIDE DEF r
    <3>3. job'[j] = r /\ ~Stops(j)
      BY <1>1, <2>2, <3>2 DEF Stops, JobTypes
    <3> QED
      BY <1>1, <2>1, <3>1, <3>2, <3>3, StarterGoesOn
  <2>3. CASE ~(job[j].pc = "blocked" /\ job[j].current = n)
    <3>1. job' = [job EXCEPT ![j] = job[j]] /\ job'[j] = job[j]
      BY <1>1, <1>4, <2>3 DEF CloseInit, JobTypes
    <3> QED
      BY <1>1, <2>1, <3>1, StarterGoesOn
  <2> QED
    BY <2>2, <2>3
<1> QED
  BY <1>2, <1>3, <1>4 DEF StarterStep

\* The locks, the contexts and the end.
LEMMA NextOtherTypes ==
  ASSUME ManagerTypeOK, UnderWay, [ManagerNext]_managerVars
  PROVE  /\ lock' \in [Names -> Jobs \cup {NoJob}]
         /\ group' \in [Jobs -> BOOLEAN] /\ devCtx' \in BOOLEAN /\ snapshot' \subseteq Ids'
         /\ closer' \in {"running", "waiting", "closing", "draining", "closed"}
<1> DEFINE Others == /\ lock' \in [Names -> Jobs \cup {NoJob}]
                     /\ group' \in [Jobs -> BOOLEAN] /\ devCtx' \in BOOLEAN /\ snapshot' \subseteq Ids
                     /\ closer' \in {"running", "waiting", "closing", "draining", "closed"}
<1>1. Present \subseteq Ids
  BY DEF Present, Ids, ManagerTypeOK
<1>2. ASSUME NEW j \in Jobs, JobStep(j) PROVE Others
  <2>1. CASE EndJob(j) \/ StartMultiple(j) \/ Register(j) \/ Drain(j) \/ Collected(j)
    BY <2>1 DEF EndJob, StartMultiple, Register, Drain, Collected, ManagerTypeOK
  <2>2. CASE Stop(j) \/ Stopped(j) \/ \E failed \in BOOLEAN : Reverted(j, failed)
    BY <2>2 DEF Stop, Stopped, Reverted, ManagerTypeOK
  <2>3. CASE \E n \in Names : SelectInit(j, n) \/ SelectBlocks(j, n) \/ Reset(j, n)
    BY <2>3 DEF SelectInit, SelectBlocks, Reset, ManagerTypeOK
  <2>4. CASE \E n \in Names : SelectError(j, n)
    BY <2>4 DEF SelectError, CancelGroup, ManagerTypeOK
  <2> QED
    BY <1>2, <2>1, <2>2, <2>3, <2>4 DEF JobStep
<1>3. ASSUME NEW j \in Jobs, NEW n \in Names, StarterStep(j, n) PROVE Others
  BY <1>3 DEF StarterStep, StartLocked, StartReturned, Report, CloseInit, CancelGroup, ManagerTypeOK
<1>4. ASSUME NEW o \in Ids, DevPodStep(o) PROVE Others
  BY <1>4 DEF DevPodStep, ManagerTypeOK
<1>5. ASSUME Wait \/ Close \/ CloseWaits \/ CloseReturns PROVE Others
  BY <1>1, <1>5 DEF Wait, Close, CloseWaits, CloseReturns, ManagerTypeOK
<1>a. ASSUME UNCHANGED managerVars PROVE Others
  BY <1>a DEF managerVars, ManagerTypeOK
<1>6. Others
  <2> HIDE DEF Others
  <2> QED
    BY <1>2, <1>3, <1>4, <1>5, <1>a DEF ManagerNext
<1>7. Ids \subseteq Ids'
  <2>1. Len(life) \in Nat /\ Len(life') \in Nat /\ Len(life') >= Len(life)
    <3>1. Len(life) \in Nat
      BY DEF ManagerTypeOK
    <3>2. ASSUME Rest PROVE Len(life') = Len(life)
      BY <3>2 DEF Rest, LivesGrow
    <3>3. ASSUME NEW j \in Jobs, NEW n \in Names, Create(j, n) PROVE Len(life') = Len(life) + 1
      BY <3>3, Created
    <3> QED
      BY <3>1, <3>2, <3>3, PodSteps
  <2> QED
    BY <2>1 DEF Ids
<1> QED
  BY <1>6, <1>7

LEMMA NextTypes == ASSUME ManagerTypeOK, UnderWay, [ManagerNext]_managerVars PROVE ManagerTypeOK' /\ UnderWay'
<1>1. ASSUME UNCHANGED <<script, job, starter>> PROVE JobTypes' /\ UnderWay'
  BY <1>1 DEF JobTypes, ManagerTypeOK, UnderWay, Collects, Stops
<1>2. ASSUME NEW o \in Ids, DevPodStep(o) PROVE JobTypes' /\ UnderWay'
  BY <1>1, <1>2 DEF DevPodStep
<1>3. ASSUME Wait \/ Close \/ CloseWaits \/ CloseReturns \/ UNCHANGED managerVars PROVE JobTypes' /\ UnderWay'
  <2>1. script' = script /\ job' = job /\ starter' = starter
    BY <1>3 DEF Wait, Close, CloseWaits, CloseReturns, managerVars
  <2> QED
    BY <1>1, <2>1
<1>4. ASSUME NEW j \in Jobs, JobStep(j) PROVE JobTypes' /\ UnderWay'
  BY <1>4, JobStepTypes
<1>5. ASSUME NEW j \in Jobs, NEW n \in Names, StarterStep(j, n) PROVE JobTypes' /\ UnderWay'
  BY <1>5, StarterStepTypes
<1>6. JobTypes' /\ UnderWay'
  BY <1>2, <1>3, <1>4, <1>5 DEF ManagerNext
<1> QED
  BY <1>6, NextPodTypes, NextOtherTypes DEF ManagerTypeOK, JobTypes, PodTypes

LEMMA InitTypes == ASSUME ManagerInit PROVE ManagerTypeOK /\ UnderWay
<1>1. script \in [Jobs -> Seq(Command)]
  BY ManagerAssumption DEF ManagerInit
<1>2. job \in [Jobs -> JobState] /\ \A j \in Jobs : job[j] = IdleJob
  BY IdleType DEF ManagerInit
<1>3. life = <<>> /\ owner = <<>> /\ Len(life) = 0
  BY DEF ManagerInit
<1>5. PodTypes
  BY <1>3 DEF ManagerInit, PodTypes
<1>6. ManagerTypeOK
  BY <1>1, <1>2, <1>5 DEF ManagerInit, ManagerTypeOK, PodTypes
<1>4. UnderWay
  BY <1>2 DEF ManagerInit, UnderWay, IdleJob, Collects, Stops
<1> QED
  BY <1>4, <1>6

\* The state of the manager has its types (DevPodManager!TypeOK).
THEOREM ManagerTypeCorrect == ManagerSpec => []ManagerTypeOK
<1>1. ManagerInit => ManagerTypeOK /\ UnderWay
  BY InitTypes
<1>2. ManagerTypeOK /\ UnderWay /\ [ManagerNext]_managerVars => (ManagerTypeOK /\ UnderWay)'
  BY NextTypes
<1> QED
  BY <1>1, <1>2, PTL DEF ManagerSpec

-----------------------------------------------------------------------------
(* The inductive invariant.                                                *)

\* A start under way holds the lock of its name and its dev pod is the one of that
\* name; so does a stop_dev at a dev pod.
LocksHeld ==
    \A j \in Jobs :
        /\ \A n \in Names : starter[j][n] = "starting" =>
              lock[n] = j /\ devPods[n] \in Members(j) /\ owner[devPods[n]].name = n
        /\ Stops(j) => lock[job[j].current] = j

\* A dev pod that is not done is the one the manager knows.
Current == \A o \in Ids : ~life[o].done => devPods[owner[o].name] = o

\* While a job reverts a dev pod those of the name are done.
RevertDone ==
    \A j \in Jobs : job[j].pc = "revert" => \A o \in Named(job[j].current) : life[o].done

AllSound == \A o \in Ids : Sound(life[o])

\* A command that got an error has cancelled its dev pods, those it created since, too.
Groups ==
    \A j \in Jobs :
        /\ group[j] => \A o \in Members(j) : life[o].cancelled
        /\ job[j].got > 0 => group[j]
        /\ job[j].failed = "start" => group[j] \/ devCtx

\* Somebody knows of a start that failed: its goroutine, the channel, or the command.
Known(j, n) ==
    \/ \E o \in Members(j) : owner[o].name = n /\ life[o].start = "started"
    \/ job[j].errors # {} \/ job[j].got > 0 \/ job[j].unheard

\* Where a command waits for its starts all of their goroutines are there, and a start
\* that has ended is known; a command with an error goes on to an end or has got it.
ErrorsOf(j) ==
    /\ \A n \in Head(script[j]).names :
          starter[j][n] # "none" /\ (starter[j][n] \in {"close", "closed"} => Known(j, n))
    /\ job[j].pc = "blocked" => job[j].errors = {}
    /\ job[j].pc = "drain" => job[j].got > 0
    /\ job[j].errors # {} => job[j].pending # {} \/ job[j].got > 0 \/ job[j].unheard

ErrorsHeard == \A j \in Jobs : Collects(j) => ErrorsOf(j)

IInv == ManagerTypeOK /\ UnderWay /\ LocksHeld /\ Current /\ RevertDone /\ AllSound /\ NothingSurvivesClose
        /\ Groups /\ ErrorsHeard

-----------------------------------------------------------------------------
(* What a step keeps of the dev pods.                                      *)

LEMMA PodsKept ==
  ASSUME ManagerTypeOK, [ManagerNext]_managerVars, NEW o \in Ids
  PROVE  o \in Ids' /\ owner'[o] = owner[o] /\ Grows(life[o], life'[o])
<1>1. Len(life) \in Nat
  BY DEF ManagerTypeOK
<1>2. CASE Rest
  BY <1>1, <1>2 DEF Rest, LivesGrow, Ids
<1>3. ASSUME NEW j \in Jobs, NEW n \in Names, Create(j, n)
      PROVE  o \in Ids' /\ owner'[o] = owner[o] /\ Grows(life[o], life'[o])
  <2>1. Len(life') = Len(life) + 1 /\ owner'[o] = owner[o] /\ life'[o] = life[o]
    BY <1>3, Created
  <2> QED
    BY <1>1, <2>1 DEF Ids, Grows
<1> QED
  BY <1>2, <1>3, PodSteps

\* A dev pod that is there after a step was there before, or it was created.
LEMMA NewPod ==
  ASSUME ManagerTypeOK, [ManagerNext]_managerVars, NEW o \in Ids', o \notin Ids
  PROVE  \E j \in Jobs, n \in Names :
            /\ StartLocked(j, n) /\ Create(j, n)
            /\ life'[o] = NewLife(j) /\ owner'[o] = [name |-> n, job |-> j, call |-> job[j].calls]
            /\ devPods'[n] = o
<1>1. Len(life) \in Nat
  BY DEF ManagerTypeOK
<1>2. ~Rest
  BY <1>1 DEF Rest, LivesGrow, Ids
<1>3. PICK j \in Jobs, n \in Names : StartLocked(j, n) /\ Create(j, n)
  BY <1>2, PodSteps
<1>4. /\ Len(life') = Len(life) + 1 /\ life'[Len(life) + 1] = NewLife(j)
      /\ owner'[Len(life) + 1] = [name |-> n, job |-> j, call |-> job[j].calls]
      /\ devPods'[n] = Len(life) + 1
  BY <1>3, Created
<1>5. o = Len(life) + 1
  BY <1>1, <1>4 DEF Ids
<1> QED
  BY <1>3, <1>4, <1>5

\* The dev pod of a name changes when it is created and when it has been stopped.
LEMMA DevPodsKept ==
  ASSUME ManagerTypeOK, [ManagerNext]_managerVars, NEW n \in Names
  PROVE  \/ devPods'[n] = devPods[n]
         \/ \E j \in Jobs : StartLocked(j, n) /\ Create(j, n)
         \/ \E j \in Jobs : Stopped(j) /\ job[j].current = n
<1>1. ASSUME NEW j \in Jobs, NEW m \in Names, Create(j, m), m # n PROVE devPods'[n] = devPods[n]
  BY <1>1, Created
<1>2. ASSUME NEW j \in Jobs, Stopped(j), job[j].current # n PROVE devPods'[n] = devPods[n]
  BY <1>2 DEF Stopped, ManagerTypeOK
<1> QED
  BY <1>1, <1>2, PodSteps DEF Rest

-----------------------------------------------------------------------------
(* What a step keeps of a job.                                             *)

LEMMA StartingKept ==
  ASSUME ManagerTypeOK, [ManagerNext]_managerVars, NEW j \in Jobs, NEW n \in Names, starter'[j][n] = "starting"
  PROVE  starter[j][n] = "starting" \/ (StartLocked(j, n) /\ Create(j, n))
<1>1. ASSUME JobStep(j) PROVE starter[j][n] = "starting"
  <2>1. CASE Register(j)
    BY <2>1 DEF Register, ManagerTypeOK
  <2>2. CASE ~Register(j)
    <3>1. starter' = starter
      BY <1>1, <2>2 DEF JobStep, EndJob, StartMultiple, Drain, Collected, Stop, Stopped, Reverted,
                        SelectError, SelectInit, SelectBlocks, Reset
    <3> QED
      BY <3>1
  <2> QED
    BY <2>1, <2>2
<1>2. ASSUME NEW m \in Names, StarterStep(j, m), ~(StartLocked(j, n) /\ Create(j, n))
      PROVE  starter[j][n] = "starting"
  BY <1>2 DEF StarterStep, StartLocked, StartReturned, Report, CloseInit, ManagerTypeOK
<1> QED
  BY <1>1, <1>2, OneJob

\* What a job knows of its calls stays as it is.
Keeps(j) ==
    /\ job'[j].failed = job[j].failed /\ job'[j].calls = job[j].calls
    /\ job'[j].got = job[j].got /\ group'[j] = group[j]

\* It is done with its command, which failed only for a reason.
Finishes(j) ==
    /\ job'[j].pc \in {"next", "end"} /\ job'[j].calls = job[j].calls /\ group'[j] = group[j]
    /\ job'[j].got = 0
    /\ job'[j].failed = "start" => devCtx \/ job[j].got > 0

\* It is somewhere else in its command, but not where StartMultiple collects.
Moves(j) == job'[j].pc \notin {"select", "blocked", "drain"} /\ Keeps(j)

\* It has heard of the end of a start.
Hears(j, n) ==
    /\ job'[j].pc = "select" /\ Keeps(j) /\ job'[j].pending = job[j].pending \ {n}
    /\ job'[j].errors = job[j].errors /\ (job[j].unheard => job'[j].unheard)
    /\ UNCHANGED <<script, life, owner>>

LEMMA MovesPc ==
  ASSUME ManagerTypeOK, NEW j \in Jobs, NEW pc, pc \notin {"select", "blocked", "drain"},
         job' = [job EXCEPT ![j].pc = pc], group' = group
  PROVE  Moves(j)
<1>1. job[j] \in JobState /\ job'[j] = [job[j] EXCEPT !.pc = pc]
  BY DEF ManagerTypeOK
<1> QED
  BY <1>1 DEF JobState, Keeps, Moves

LEMMA NextCommandFields ==
  ASSUME ManagerTypeOK, NEW j \in Jobs, NEW failed \in {"no", "start", "stop"}, NextCommand(j, failed), group' = group,
         failed = "start" => devCtx \/ job[j].got > 0
  PROVE  Finishes(j)
<1>1. job'[j] = [IdleJob EXCEPT !.calls = job[j].calls, !.failed = failed,
                                !.pc = IF failed = "no" THEN "next" ELSE "end"]
  BY DEF ManagerTypeOK, NextCommand
<1> QED
  BY <1>1 DEF IdleJob, Finishes
LEMMA HearsOf ==
  ASSUME ManagerTypeOK, NEW j \in Jobs, NEW n, job' = [job EXCEPT ![j] = Received(job[j], n)],
         UNCHANGED <<script, life, owner, group>>
  PROVE  Hears(j, n)
<1>1. job[j] \in JobState /\ job'[j] = Received(job[j], n)
  BY DEF ManagerTypeOK
<1>2. group'[j] = group[j]
  OBVIOUS
<1> QED
  BY <1>1, <1>2, ReceivedType DEF Hears, Keeps

LEMMA SelectInitFields ==
  ASSUME ManagerTypeOK, NEW j \in Jobs, NEW n \in Names, SelectInit(j, n)
  PROVE  Hears(j, n) /\ (job[j].errors # {} => job'[j].unheard)
<1> DEFINE q == Received(job[j], n)
<1>1. q \in JobState /\ q.pc = "select" /\ q.pending = job[j].pending \ {n} /\ q.errors = job[j].errors
      /\ q.got = job[j].got /\ q.failed = job[j].failed /\ q.calls = job[j].calls /\ q.unheard = job[j].unheard
  BY ReceivedType DEF ManagerTypeOK
<1>2. job' = [job EXCEPT ![j] = [q EXCEPT !.unheard = @ \/ job[j].errors # {}]]
  BY DEF SelectInit
<1> HIDE DEF q
<1>3. job'[j] = [q EXCEPT !.unheard = q.unheard \/ job[j].errors # {}]
  BY <1>2 DEF ManagerTypeOK
<1>4. job'[j].unheard = (q.unheard \/ job[j].errors # {})
  BY <1>1, <1>3, Zenon DEF JobState
<1>5. (job[j].unheard => job'[j].unheard) /\ (job[j].errors # {} => job'[j].unheard)
  BY <1>1, <1>4, Zenon
<1>6. Keeps(j) /\ job'[j].pc = "select" /\ job'[j].pending = job[j].pending \ {n} /\ job'[j].errors = job[j].errors
  BY <1>1, <1>3 DEF JobState, SelectInit, Keeps
<1> QED
  BY <1>5, <1>6 DEF Hears, SelectInit

LEMMA SelectErrorFields ==
  ASSUME ManagerTypeOK, NEW j \in Jobs, NEW n \in Names, SelectError(j, n)
  PROVE  /\ job'[j].pc = "drain" /\ job'[j].failed = job[j].failed /\ job'[j].calls = job[j].calls
         /\ job'[j].got = job[j].got + 1 /\ group'[j] /\ \A o \in Members(j) : life'[o].cancelled
         /\ UNCHANGED <<starter, script, owner>>
<1>1. PICK e \in job[j].errors :
         job' = [job EXCEPT ![j].errors = @ \ {e}, ![j].got = @ + 1, ![j].pc = "drain", ![j].current = n]
  BY DEF SelectError
<1>2. job[j] \in JobState
        /\ job'[j] = [job[j] EXCEPT !.errors = @ \ {e}, !.got = @ + 1, !.pc = "drain", !.current = n]
  BY <1>1 DEF ManagerTypeOK
<1>3. /\ job'[j].pc = "drain" /\ job'[j].failed = job[j].failed /\ job'[j].calls = job[j].calls
      /\ job'[j].got = job[j].got + 1
  BY <1>2 DEF JobState
<1>4. group'[j] /\ life' = CancelAll(Members(j))
  BY DEF SelectError, CancelGroup, ManagerTypeOK
<1>5. \A o \in Members(j) : life'[o].cancelled
  BY <1>4, CancelAllGrows DEF Members
<1> QED
  BY <1>3, <1>4, <1>5 DEF SelectError

LEMMA SelectBlocksFields ==
  ASSUME ManagerTypeOK, NEW j \in Jobs, NEW n \in Names, SelectBlocks(j, n)
  PROVE  /\ job'[j].pc = "blocked" /\ Keeps(j) /\ job'[j].pending = job[j].pending
         /\ job'[j].errors = {} /\ job[j].errors = {} /\ job'[j].unheard = job[j].unheard
         /\ UNCHANGED <<starter, script, owner, life>>
<1>1. job[j] \in JobState /\ job'[j] = [job[j] EXCEPT !.pc = "blocked", !.current = n]
  BY DEF ManagerTypeOK, SelectBlocks
<1>2. /\ job[j].errors = {} /\ group' = group /\ UNCHANGED <<starter, script, owner, life>>
  BY DEF SelectBlocks
<1> QED
  BY <1>1, <1>2 DEF JobState, Keeps

LEMMA ReportFields ==
  ASSUME ManagerTypeOK, NEW j \in Jobs, NEW n \in Names, Report(j, n)
  PROVE  /\ job'[j].failed = job[j].failed /\ job'[j].calls = job[j].calls
         /\ starter' = [starter EXCEPT ![j][n] = "close"] /\ job'[j].pending = job[j].pending
         /\ UNCHANGED <<script, owner>>
         /\ \/ /\ job'[j].pc = "drain" /\ job'[j].got = job[j].got + 1
               /\ group'[j] /\ \A o \in Members(j) : life'[o].cancelled
            \/ /\ job'[j].pc = job[j].pc /\ job'[j].pc # "blocked"
               /\ job'[j].errors # {} /\ Keeps(j) /\ job'[j].unheard = job[j].unheard
<1>1. job[j] \in JobState /\ starter' = [starter EXCEPT ![j][n] = "close"] /\ UNCHANGED <<script, owner>>
  BY DEF ManagerTypeOK, Report
<1>2. CASE job[j].pc = "blocked"
  <2>1. job'[j] = [job[j] EXCEPT !.pc = "drain", !.got = @ + 1]
    BY <1>2 DEF ManagerTypeOK, Report
  <2>2. group'[j] /\ life' = CancelAll(Members(j))
    BY <1>2 DEF Report, CancelGroup, ManagerTypeOK
  <2>3. \A o \in Members(j) : life'[o].cancelled
    BY <2>2, CancelAllGrows DEF Members
  <2>4. /\ job'[j].failed = job[j].failed /\ job'[j].calls = job[j].calls
        /\ job'[j].pending = job[j].pending /\ job'[j].pc = "drain" /\ job'[j].got = job[j].got + 1
    BY <1>1, <2>1 DEF JobState
  <2> QED
    BY <1>1, <2>2, <2>3, <2>4
<1>3. CASE job[j].pc # "blocked"
  <2>1. job'[j] = [job[j] EXCEPT !.errors = @ \cup {n}]
    BY <1>3 DEF ManagerTypeOK, Report
  <2>2. group' = group
    BY <1>3 DEF Report
  <2> QED
    BY <1>1, <1>3, <2>1, <2>2 DEF JobState, Keeps
<1> QED
  BY <1>2, <1>3

LEMMA CloseInitFields ==
  ASSUME ManagerTypeOK, NEW j \in Jobs, NEW n \in Names, CloseInit(j, n)
  PROVE  /\ starter[j][n] = "close" /\ starter' = [starter EXCEPT ![j][n] = "closed"]
         /\ \/ Hears(j, n) /\ job[j].pc = "blocked"
            \/ job'[j] = job[j] /\ Keeps(j) /\ UNCHANGED <<script, life, owner>>
<1>1. CASE job[j].pc = "blocked" /\ job[j].current = n
  <2>1. job' = [job EXCEPT ![j] = Received(job[j], n)]
    BY <1>1 DEF CloseInit
  <2>2. Hears(j, n)
    BY <2>1, HearsOf DEF CloseInit
  <2> QED
    BY <1>1, <2>2 DEF CloseInit
<1>2. CASE ~(job[j].pc = "blocked" /\ job[j].current = n)
  <2>1. job'[j] = job[j]
    BY <1>2 DEF CloseInit, ManagerTypeOK
  <2> QED
    BY <2>1 DEF CloseInit, Keeps
<1> QED
  BY <1>1, <1>2

\* The steps of a job, as far as they concern what it knows of its calls.
LEMMA JobKinds ==
  ASSUME ManagerTypeOK, NEW j \in Jobs, JobStep(j)
  PROVE  \/ Register(j) \/ Finishes(j) \/ Moves(j)
         \/ \E n \in Names : SelectError(j, n) \/ SelectInit(j, n) \/ SelectBlocks(j, n)
         \/ Drain(j) /\ Hears(j, job[j].current)
<1> DEFINE Goal == \/ Register(j) \/ Finishes(j) \/ Moves(j)
                   \/ \E n \in Names : SelectError(j, n) \/ SelectInit(j, n) \/ SelectBlocks(j, n)
                   \/ Drain(j) /\ Hears(j, job[j].current)
<1>1. CASE EndJob(j)
  <2>1. PICK pc \in {"end"} : job' = [job EXCEPT ![j].pc = pc] /\ group' = group
    BY <1>1 DEF EndJob
  <2> QED
    BY <2>1, MovesPc
<1>2. CASE StartMultiple(j)
  <2>1. CASE devCtx
    BY <1>2, <2>1, NextCommandFields DEF StartMultiple
  <2>2. CASE ~devCtx
    BY <1>2, <2>2, MovesPc DEF StartMultiple
  <2> QED
    BY <2>1, <2>2
<1>3. CASE Drain(j)
  BY <1>3, HearsOf DEF Drain
<1>4. CASE Collected(j)
  BY <1>4, NextCommandFields DEF Collected
<1>5. CASE Stop(j)
  <2>1. PICK pc \in {"revert", "stopping"} : job' = [job EXCEPT ![j].pc = pc]
    BY <1>5 DEF Stop
  <2>2. group' = group
    BY <1>5 DEF Stop
  <2> QED
    BY <2>1, <2>2, MovesPc
<1>6. CASE Stopped(j)
  <2>1. PICK pc \in {"revert"} : job' = [job EXCEPT ![j].pc = pc] /\ group' = group
    BY <1>6 DEF Stopped
  <2> QED
    BY <2>1, MovesPc
<1>7. ASSUME NEW failed \in BOOLEAN, Reverted(j, failed) PROVE Goal
  <2>1. group' = group
    BY <1>7 DEF Reverted
  <2>2. CASE failed
    BY <1>7, <2>1, <2>2, NextCommandFields DEF Reverted
  <2>3. CASE ~failed /\ NextCommand(j, "no")
    BY <2>1, <2>3, NextCommandFields
  <2>4. CASE ~failed /\ ~NextCommand(j, "no")
    BY <1>7, <2>1, <2>4, MovesPc DEF Reverted
  <2> QED
    BY <2>2, <2>3, <2>4
<1>8. ASSUME NEW n \in Names, Reset(j, n) PROVE Moves(j)
  <2>1. job[j] \in JobState /\ job'[j] = [job[j] EXCEPT !.pc = "stop", !.current = n] /\ group' = group
    BY <1>8 DEF Reset, ManagerTypeOK
  <2> QED
    BY <2>1 DEF JobState, Moves, Keeps
<1> QED
  BY <1>1, <1>2, <1>3, <1>4, <1>5, <1>6, <1>7, <1>8 DEF JobStep
LEMMA StopsKept ==
  ASSUME ManagerTypeOK, UnderWay, [ManagerNext]_managerVars, NEW j \in Jobs, Stops(j)'
  PROVE  \/ Stops(j) /\ job'[j].current = job[j].current
         \/ \E n \in Names : Reset(j, n) /\ job'[j].current = n
<1> DEFINE Goal == \/ Stops(j) /\ job'[j].current = job[j].current
                   \/ \E n \in Names : Reset(j, n) /\ job'[j].current = n
<1>1. job[j] \in JobState /\ job'[j].pc \in {"stop", "stopping", "revert"}
  BY DEF ManagerTypeOK, Stops
<1>2. ASSUME JobStep(j) PROVE Goal
  <2>1. CASE EndJob(j)
    BY <1>1, <2>1 DEF EndJob, ManagerTypeOK, JobState
  <2>2. CASE StartMultiple(j) \/ Collected(j) \/ \E failed \in BOOLEAN : Reverted(j, failed)
    <3>1. ASSUME NEW failed, NextCommand(j, failed) PROVE job'[j].pc \in {"next", "end"}
      BY <3>1 DEF NextCommand, ManagerTypeOK, IdleJob
    <3>2. \/ \E failed \in {"no", "start", "stop"} : NextCommand(j, failed)
          \/ \E pc \in {"register", "next"} : job' = [job EXCEPT ![j].pc = pc]
      BY <2>2 DEF StartMultiple, Collected, Reverted
    <3>3. ASSUME NEW pc \in {"register", "next"}, job' = [job EXCEPT ![j].pc = pc] PROVE job'[j].pc = pc
      BY <1>1, <3>3 DEF ManagerTypeOK, JobState
    <3> QED
      BY <1>1, <3>1, <3>2, <3>3
  <2>3. CASE Stop(j) \/ Stopped(j)
    <3>1. PICK pc \in {"revert", "stopping"} : job' = [job EXCEPT ![j].pc = pc]
      BY <2>3 DEF Stop, Stopped
    <3>2. job'[j].current = job[j].current
      BY <1>1, <3>1 DEF ManagerTypeOK, JobState
    <3>3. Stops(j)
      BY <2>3 DEF Stop, Stopped, Stops
    <3> QED
      BY <3>2, <3>3
  <2>4. CASE Register(j)
    <3>1. job'[j].pc = "select"
      BY <2>4 DEF Register, ManagerTypeOK, IdleJob
    <3> QED
      BY <1>1, <3>1
  <2>5. ASSUME NEW n \in Names, SelectError(j, n) \/ SelectInit(j, n) \/ SelectBlocks(j, n) PROVE Goal
    BY <1>1, <2>5, SelectErrorFields, SelectInitFields, SelectBlocksFields DEF Hears
  <2>6. CASE Drain(j)
    <3>1. Hears(j, job[j].current)
      BY <2>6, HearsOf DEF Drain
    <3> QED
      BY <1>1, <3>1 DEF Hears
  <2>7. ASSUME NEW n \in Names, Reset(j, n) PROVE Goal
    <3>1. job'[j].current = n
      BY <1>1, <2>7 DEF Reset, ManagerTypeOK, JobState
    <3> QED
      BY <2>7, <3>1
  <2> QED
    BY <1>2, <2>1, <2>2, <2>3, <2>4, <2>5, <2>6, <2>7 DEF JobStep
<1>3. ASSUME NEW n \in Names, StarterStep(j, n) PROVE Goal
  <2>1. Collects(j)
    BY <1>3 DEF StarterStep, StartLocked, StartReturned, Report, CloseInit, UnderWay
  <2>2. job'[j].pc \in {job[j].pc, "drain", "select"}
    BY <1>3, ReportFields, CloseInitFields DEF StarterStep, StartLocked, StartReturned, Hears
  <2> QED
    BY <1>1, <2>1, <2>2 DEF Collects
<1>4. ASSUME job'[j] = job[j] PROVE Goal
  BY <1>1, <1>4 DEF Stops
<1> QED
  BY <1>2, <1>3, <1>4, OneJob

\* The calls of StartMultiple are counted where a new one begins, and only there its
\* context is a new one.
LEMMA CallsKept ==
  ASSUME ManagerTypeOK, [ManagerNext]_managerVars, NEW j \in Jobs, ~Register(j)
  PROVE  job'[j].calls = job[j].calls /\ (group[j] => group'[j])
<1>1. CASE JobStep(j)
  BY <1>1, JobKinds, SelectErrorFields, SelectInitFields, SelectBlocksFields DEF Finishes, Moves, Keeps, Hears
<1>2. ASSUME NEW n \in Names, StarterStep(j, n) PROVE job'[j].calls = job[j].calls /\ (group[j] => group'[j])
  BY <1>2, ReportFields, CloseInitFields DEF StarterStep, StartLocked, StartReturned, Hears, Keeps
<1> QED
  BY <1>1, <1>2, OneJob
-----------------------------------------------------------------------------
(* The locks.                                                              *)

\* A lock is given back only where Start returns or the pod has been reverted.
LEMMA LocksKept ==
  ASSUME ManagerTypeOK, UnderWay, [ManagerNext]_managerVars, NEW n \in Names
  PROVE  \/ lock'[n] = lock[n] \/ lock[n] = NoJob
         \/ \E i \in Jobs : StartReturned(i, n)
         \/ \E i \in Jobs, failed \in BOOLEAN : Reverted(i, failed) /\ job[i].current = n
<1> DEFINE Goal == \/ lock'[n] = lock[n] \/ lock[n] = NoJob
                   \/ \E i \in Jobs : StartReturned(i, n)
                   \/ \E i \in Jobs, failed \in BOOLEAN : Reverted(i, failed) /\ job[i].current = n
<1>1. ASSUME NEW i \in Jobs, NEW m \in Names, StarterStep(i, m) PROVE Goal
  BY <1>1 DEF StarterStep, StartLocked, StartReturned, Report, CloseInit, ManagerTypeOK
<1>2. ASSUME NEW i \in Jobs, NEW failed \in BOOLEAN, Reverted(i, failed) PROVE Goal
  BY <1>2 DEF Reverted, ManagerTypeOK
<1>3. ASSUME NEW i \in Jobs, NEW m \in Names, Reset(i, m) PROVE Goal
  BY <1>3 DEF Reset, ManagerTypeOK
<1>4. ASSUME NEW i \in Jobs, JobStep(i), ~(\E m \in Names : Reset(i, m)), ~(\E failed \in BOOLEAN : Reverted(i, failed))
      PROVE  lock' = lock
  BY <1>4 DEF JobStep, EndJob, StartMultiple, Register, Drain, Collected, Stop, Stopped,
              SelectError, SelectInit, SelectBlocks
<1>5. ASSUME NEW o \in Ids, DevPodStep(o) PROVE lock' = lock
  BY <1>5 DEF DevPodStep
<1>6. ASSUME Wait \/ Close \/ CloseWaits \/ CloseReturns \/ UNCHANGED managerVars PROVE lock' = lock
  BY <1>6 DEF Wait, Close, CloseWaits, CloseReturns, managerVars
<1> QED
  BY <1>1, <1>2, <1>3, <1>4, <1>5, <1>6 DEF ManagerNext

\* A lock is kept by a job that is at a start or at a stop.
LEMMA HeldKept ==
  ASSUME ManagerTypeOK, UnderWay, LocksHeld, [ManagerNext]_managerVars, NEW n \in Names, NEW j \in Jobs, lock[n] = j
  PROVE  lock'[n] = j \/ StartReturned(j, n) \/ \E failed \in BOOLEAN : Reverted(j, failed) /\ job[j].current = n
<1>1. ASSUME NEW i \in Jobs, StartReturned(i, n) PROVE i = j
  BY <1>1 DEF StartReturned, LocksHeld
<1>2. ASSUME NEW i \in Jobs, NEW failed \in BOOLEAN, Reverted(i, failed), job[i].current = n PROVE i = j
  BY <1>2 DEF Reverted, LocksHeld, Stops
<1>3. lock[n] # NoJob
  BY ManagerAssumption
<1> QED
  BY <1>1, <1>2, <1>3, LocksKept

LEMMA NextLocksHeld ==
  ASSUME ManagerTypeOK, UnderWay, LocksHeld, [ManagerNext]_managerVars
  PROVE  LocksHeld'
<1>1. ASSUME NEW j \in Jobs, NEW n \in Names, starter'[j][n] = "starting"
      PROVE  lock'[n] = j /\ devPods'[n] \in Members(j)' /\ owner'[devPods'[n]].name = n
  <2>1. CASE StartLocked(j, n) /\ Create(j, n)
    <3>a. Len(life) \in Nat
      BY DEF ManagerTypeOK
    <3>1. devPods'[n] = Len(life) + 1 /\ Len(life') = Len(life) + 1 /\ Len(life) \in Nat
      BY <2>1, <3>a, Created
    <3>2. owner'[devPods'[n]] = [name |-> n, job |-> j, call |-> job[j].calls]
      BY <2>1, <3>1, Created
    <3>3. job' = job /\ lock' = [lock EXCEPT ![n] = j]
      <4>1. job' = job /\ lock' \in {lock, [lock EXCEPT ![n] = j]}
        BY <2>1 DEF StartLocked
      <4>2. life' # life
        BY <3>1
      <4> QED
        BY <2>1, <4>1, <4>2 DEF StartLocked
    <3>4. lock'[n] = j /\ devPods'[n] \in Ids'
      BY <3>1, <3>3 DEF ManagerTypeOK, Ids
    <3> QED
      BY <3>2, <3>3, <3>4 DEF Members
  <2>2. CASE starter[j][n] = "starting"
    <3>1. /\ lock[n] = j /\ devPods[n] \in Ids /\ owner[devPods[n]].name = n
          /\ owner[devPods[n]].job = j /\ owner[devPods[n]].call = job[j].calls
      BY <2>2 DEF LocksHeld, Members
    <3>2. Collects(j)
      BY <2>2 DEF UnderWay
    <3>3. ~StartReturned(j, n) /\ ~Register(j) /\ \A failed \in BOOLEAN : ~Reverted(j, failed)
      BY <1>1, <2>2, <3>2 DEF StartReturned, Register, Reverted, Collects, ManagerTypeOK
    <3>4. lock'[n] = j /\ job'[j].calls = job[j].calls
      BY <3>1, <3>3, HeldKept, CallsKept
    <3>5. ASSUME NEW i \in Jobs, StartLocked(i, n) /\ Create(i, n) PROVE FALSE
      BY <3>1, <3>5, ManagerAssumption DEF StartLocked
    <3>6. ASSUME NEW i \in Jobs, Stopped(i), job[i].current = n PROVE FALSE
      BY <3>1, <3>2, <3>6 DEF Stopped, LocksHeld, Stops, Collects
    <3>7. devPods'[n] = devPods[n]
      BY <3>5, <3>6, DevPodsKept
    <3>8. devPods[n] \in Ids' /\ owner'[devPods[n]] = owner[devPods[n]]
      BY <3>1, PodsKept
    <3> QED
      BY <3>1, <3>4, <3>7, <3>8 DEF Members
  <2> QED
    BY <1>1, <2>1, <2>2, StartingKept
<1>2. ASSUME NEW j \in Jobs, Stops(j)' PROVE lock'[job'[j].current] = j
  <2>1. ASSUME NEW n \in Names, Reset(j, n), job'[j].current = n PROVE lock'[job'[j].current] = j
    BY <2>1 DEF Reset, ManagerTypeOK
  <2>2. CASE Stops(j) /\ job'[j].current = job[j].current
    <3>1. job[j].current \in Names /\ lock[job[j].current] = j
      BY <2>2 DEF UnderWay, LocksHeld
    <3>2. ~StartReturned(j, job[j].current)
      <4>1. CASE starter[j][job[j].current] = "starting"
        <5>1. Collects(j)
          BY <3>1, <4>1 DEF UnderWay
        <5> QED
          BY <2>2, <5>1 DEF Stops, Collects
      <4>2. CASE starter[j][job[j].current] # "starting"
        BY <4>2 DEF StartReturned
      <4> QED
        BY <4>1, <4>2
    <3>3. ASSUME NEW failed \in BOOLEAN, Reverted(j, failed) PROVE FALSE
      <4>1. job'[j].pc \in {"next", "end"}
        <5>1. CASE job' = [job EXCEPT ![j].pc = "next"]
          BY <5>1 DEF ManagerTypeOK, JobState
        <5>2. ASSUME NEW f, NextCommand(j, f) PROVE job'[j].pc \in {"next", "end"}
          BY <5>2 DEF NextCommand, ManagerTypeOK, IdleJob
        <5> QED
          BY <3>3, <5>1, <5>2 DEF Reverted
      <4> QED
        BY <1>2, <4>1 DEF Stops
    <3> QED
      BY <2>2, <3>1, <3>2, <3>3, HeldKept
  <2> QED
    BY <1>2, <2>1, <2>2, StopsKept
<1> QED
  BY <1>1, <1>2 DEF LocksHeld

-----------------------------------------------------------------------------
(* There is one dev pod of a name at most.                                 *)

LEMMA NextCurrent ==
  ASSUME ManagerTypeOK, Current, [ManagerNext]_managerVars PROVE Current'
<1> SUFFICES ASSUME NEW o \in Ids', ~life'[o].done PROVE devPods'[owner'[o].name] = o
  BY DEF Current
<1>1. CASE o \notin Ids
  <2>1. PICK j \in Jobs, n \in Names :
            owner'[o] = [name |-> n, job |-> j, call |-> job[j].calls] /\ devPods'[n] = o
    BY <1>1, NewPod
  <2> QED
    BY <2>1
<1>2. CASE o \in Ids
  <2> DEFINE n == owner[o].name
  <2>1. owner'[o] = owner[o] /\ ~life[o].done
    BY <1>2, PodsKept DEF Grows
  <2>2. n \in Names /\ devPods[n] = o
    <3> DEFINE Owners == [name : Names, job : Jobs, call : Nat]
    <3>1. owner \in Seq(Owners) /\ o \in 1 .. Len(owner)
      BY <1>2 DEF ManagerTypeOK, Ids
    <3> HIDE DEF Owners
    <3>2. owner[o] \in Owners
      BY <3>1
    <3> USE DEF Owners
    <3> QED
      BY <1>2, <2>1, <3>2 DEF Current
  <2>3. ASSUME NEW j \in Jobs, StartLocked(j, n), Create(j, n) PROVE devPods'[n] = o
    <3>a. Len(life) \in Nat
      BY DEF ManagerTypeOK
    <3>1. Len(life') = Len(life) + 1 /\ Len(life) \in Nat
      BY <2>2, <2>3, <3>a, Created
    <3>2. devPods[n] # 0 /\ life' # life
      BY <1>2, <2>2, <3>1 DEF Ids
    <3> QED
      BY <2>1, <2>2, <2>3, <3>2 DEF StartLocked
  <2>4. ASSUME NEW j \in Jobs, Stopped(j), job[j].current = n PROVE FALSE
    BY <2>1, <2>2, <2>4 DEF Stopped
  <2>5. devPods'[n] = o
    BY <2>2, <2>3, <2>4, DevPodsKept
  <2> QED
    BY <2>1, <2>5
<1> QED
  BY <1>1, <1>2
\* While a stop_dev reverts a pod the manager does not create a dev pod of its name.
LEMMA NextRevertDone ==
  ASSUME ManagerTypeOK, UnderWay, LocksHeld, Current, RevertDone, [ManagerNext]_managerVars
  PROVE  RevertDone'
<1> SUFFICES ASSUME NEW j \in Jobs, job'[j].pc = "revert", NEW o \in Ids', owner'[o].name = job'[j].current
             PROVE  life'[o].done
  BY DEF RevertDone, Named
<1> DEFINE n == job'[j].current
<1>1. Stops(j)'
  BY DEF Stops
<1>2. ASSUME NEW m \in Names, Reset(j, m) PROVE FALSE
  BY <1>2 DEF Reset, ManagerTypeOK, JobState
<1>3. Stops(j) /\ n = job[j].current
  BY <1>1, <1>2, StopsKept
<1>4. n \in Names /\ lock[n] = j /\ j # NoJob
  BY <1>3, ManagerAssumption DEF LocksHeld, UnderWay
<1>5. o \in Ids /\ owner[o].name = n
  <2>1. CASE o \notin Ids
    <3>1. PICK i \in Jobs, m \in Names :
             StartLocked(i, m) /\ Create(i, m) /\ owner'[o] = [name |-> m, job |-> i, call |-> job[i].calls]
      BY <2>1, NewPod
    <3>2. m = n
      BY <3>1
    <3> QED
      BY <1>4, <3>1, <3>2 DEF StartLocked
  <2>2. CASE o \in Ids
    BY <2>2, PodsKept
  <2> QED
    BY <2>1, <2>2
<1>6. life[o].done
  <2>1. CASE job[j].pc = "revert"
    BY <1>3, <1>5, <2>1 DEF RevertDone, Named
  <2>2. CASE job[j].pc # "revert"
    <3>1. JobStep(j) \/ \E m \in Names : StarterStep(j, m)
      BY <2>2, OneJob
    <3>2. ASSUME NEW m \in Names, StarterStep(j, m) PROVE FALSE
      <4>1. Collects(j)
        BY <3>2 DEF StarterStep, StartLocked, StartReturned, Report, CloseInit, UnderWay
      <4> QED
        BY <1>3, <4>1 DEF Collects, Stops
    <3>3. Stop(j) \/ Stopped(j)
      BY <1>2, <1>3, <2>2, <3>1, <3>2 DEF JobStep, Stops, EndJob, StartMultiple, AtCommand, Register, Drain, Collected,
                                           Reverted, SelectError, SelectInit, SelectBlocks
    <3>4. devPods[n] = 0 \/ life[devPods[n]].done
      <4>1. CASE Stopped(j)
        BY <1>3, <4>1 DEF Stopped
      <4>2. CASE Stop(j)
        <5>1. job'[j].pc = IF devPods[n] = 0 THEN "revert" ELSE "stopping"
          BY <1>3, <4>2 DEF Stop, ManagerTypeOK, JobState
        <5> QED
          BY <5>1
      <4> QED
        BY <3>3, <4>1, <4>2
    <3>5. ~life[o].done => devPods[n] = o /\ o # 0
      BY <1>5 DEF Current, Ids
    <3> QED
      BY <3>4, <3>5
  <2> QED
    BY <2>1, <2>2
<1> QED
  BY <1>5, <1>6, PodsKept DEF Grows

\* When one is done nothing of it runs.
LEMMA NextSound ==
  ASSUME ManagerTypeOK, AllSound, [ManagerNext]_managerVars PROVE AllSound'
<1> SUFFICES ASSUME NEW o \in Ids' PROVE Sound(life'[o])
  BY DEF AllSound, Sound
<1>1. CASE o \in Ids
  BY <1>1, PodsKept DEF AllSound, Grows
<1>2. CASE o \notin Ids
  <2>1. PICK j \in Jobs : life'[o] = NewLife(j)
    BY <1>2, NewPod
  <2>2. NewLife(j).done = FALSE
    BY Zenon DEF NewLife, DP!NewLife
  <2> QED
    BY <2>1, <2>2 DEF Sound
<1> QED
  BY <1>1, <1>2

\* At most one dev pod of a name is not over.
LEMMA CurrentAlone == ASSUME Current, RevertDone, AllSound PROVE OnlyDevPod
<1>1. \A o \in Ids : life[o].done => Over(o)
  BY DEF AllSound, Sound, Over
<1> QED
  BY <1>1 DEF Current, RevertDone, OnlyDevPod, OnePerName, RevertAlone, Named

-----------------------------------------------------------------------------
(* Close.                                                                  *)

LEMMA DevCtxKept ==
  ASSUME [ManagerNext]_managerVars, ~Close PROVE devCtx' = devCtx
<1>1. ASSUME NEW j \in Jobs, JobStep(j) PROVE devCtx' = devCtx
  BY <1>1 DEF JobStep, EndJob, StartMultiple, Register, Drain, Collected, Stop, Stopped, Reverted,
              SelectError, SelectInit, SelectBlocks, Reset
<1>2. ASSUME NEW j \in Jobs, NEW n \in Names, StarterStep(j, n) PROVE devCtx' = devCtx
  BY <1>2 DEF StarterStep, StartLocked, StartReturned, Report, CloseInit
<1>3. ASSUME NEW o \in Ids, DevPodStep(o) PROVE devCtx' = devCtx
  BY <1>3 DEF DevPodStep
<1>4. ASSUME Wait \/ CloseWaits \/ CloseReturns \/ UNCHANGED managerVars PROVE devCtx' = devCtx
  BY <1>4 DEF Wait, CloseWaits, CloseReturns, managerVars
<1> QED
  BY <1>1, <1>2, <1>3, <1>4 DEF ManagerNext

\* A dev pod that is created on a context that is done is cancelled from the start.
LEMMA NewCancelled ==
  ASSUME NEW j, GroupDone(j) PROVE NewLife(j).cancelled
  BY Zenon DEF NewLife, DP!NewLife

LEMMA NextNothingSurvives ==
  ASSUME ManagerTypeOK, NothingSurvivesClose, [ManagerNext]_managerVars PROVE NothingSurvivesClose'
<1> SUFFICES ASSUME devCtx', NEW o \in Ids' PROVE life'[o].cancelled
  BY DEF NothingSurvivesClose
<1>1. CASE Close
  <2>1. life' = CancelAll(Ids)
    BY <1>1 DEF Close
  <2>2. LivesGrow /\ \A p \in Ids : life'[p].cancelled
    BY <2>1, CancelAllGrows
  <2>3. Ids' = Ids
    BY <2>2 DEF LivesGrow, Ids
  <2> QED
    BY <2>2, <2>3
<1>2. CASE ~Close
  <2>1. devCtx
    BY <1>2, DevCtxKept
  <2>2. CASE o \in Ids
    BY <2>1, <2>2, PodsKept DEF NothingSurvivesClose, Grows
  <2>3. CASE o \notin Ids
    <3>1. PICK j \in Jobs : life'[o] = NewLife(j)
      BY <2>3, NewPod
    <3> QED
      BY <2>1, <3>1, NewCancelled DEF GroupDone
  <2> QED
    BY <2>2, <2>3
<1> QED
  BY <1>1, <1>2
-----------------------------------------------------------------------------
(* A start_dev that fails.                                                 *)

\* Where the context of a command is cancelled its dev pods are.
LEMMA GroupRises ==
  ASSUME ManagerTypeOK, [ManagerNext]_managerVars, NEW j \in Jobs, group'[j], ~group[j]
  PROVE  (\A o \in Members(j) : life'[o].cancelled) /\ Ids' = Ids
<1> DEFINE Goal == (\A o \in Members(j) : life'[o].cancelled) /\ owner' = owner /\ LivesGrow
<1>1. ASSUME JobStep(j) PROVE Goal
  <2>1. PICK n \in Names : SelectError(j, n)
    <3>1. ~Register(j)
      BY DEF Register, ManagerTypeOK
    <3> QED
      BY <1>1, <3>1, JobKinds, SelectInitFields, SelectBlocksFields DEF Finishes, Moves, Keeps, Hears
  <2>2. life' = CancelAll(Members(j)) /\ owner' = owner
    BY <2>1 DEF SelectError, CancelGroup
  <2> QED
    BY <2>1, <2>2, CancelAllGrows, SelectErrorFields
<1>2. ASSUME NEW n \in Names, StarterStep(j, n) PROVE Goal
  <2>1. Report(j, n) /\ job[j].pc = "blocked"
    BY <1>2, CloseInitFields DEF StarterStep, StartLocked, StartReturned, Report, Hears, Keeps
  <2>2. life' = CancelAll(Members(j)) /\ owner' = owner
    BY <2>1 DEF Report, CancelGroup
  <2> QED
    BY <2>2, CancelAllGrows DEF Members
<1>3. Goal
  BY <1>1, <1>2, OneJob
<1> QED
  BY <1>3 DEF LivesGrow, Ids

LEMMA NextGroups ==
  ASSUME ManagerTypeOK, Groups, [ManagerNext]_managerVars PROVE Groups'
<1>1. ASSUME NEW j \in Jobs, group'[j], NEW o \in Members(j)' PROVE life'[o].cancelled
  <2>1. ~Register(j)
    BY <1>1 DEF Register, ManagerTypeOK
  <2>2. job'[j].calls = job[j].calls
    BY <2>1, CallsKept
  <2>3. o \in Ids' /\ owner'[o].job = j /\ owner'[o].call = job[j].calls
    BY <1>1, <2>2 DEF Members
  <2>4. CASE o \in Ids
    <3>1. o \in Members(j)
      BY <2>3, <2>4, PodsKept DEF Members
    <3>2. CASE group[j]
      BY <2>4, <3>1, <3>2, PodsKept DEF Groups, Grows
    <3>3. CASE ~group[j]
      BY <1>1, <3>1, <3>3, GroupRises
    <3> QED
      BY <3>2, <3>3
  <2>5. CASE o \notin Ids
    <3>1. PICK i \in Jobs, m \in Names :
             life'[o] = NewLife(i) /\ owner'[o] = [name |-> m, job |-> i, call |-> job[i].calls]
      BY <2>3, <2>5, NewPod
    <3>2. i = j
      BY <2>3, <3>1
    <3>3. group[j]
      BY <1>1, <2>3, <2>5, GroupRises
    <3> QED
      BY <3>1, <3>2, <3>3, NewCancelled DEF GroupDone
  <2> QED
    BY <2>4, <2>5
<1>2. ASSUME NEW j \in Jobs
      PROVE  /\ job'[j].got > 0 => group'[j]
             /\ job'[j].failed = "start" => group'[j] \/ devCtx'
  <2> DEFINE Goal == (job'[j].got > 0 => group'[j]) /\ (job'[j].failed = "start" => group'[j] \/ devCtx')
  <2>1. (job[j].got > 0 => group[j]) /\ (job[j].failed = "start" => group[j] \/ devCtx)
    BY DEF Groups
  <2>2. devCtx => devCtx'
    BY DevCtxKept DEF Close
  <2>3. CASE Register(j)
    <3>1. job'[j].got = 0 /\ job'[j].failed = "no"
      BY <2>3 DEF Register, ManagerTypeOK, IdleJob
    <3> QED
      BY <3>1
  <2>4. CASE Finishes(j)
    BY <2>1, <2>2, <2>4 DEF Finishes
  <2>5. ASSUME Keeps(j) PROVE Goal
    BY <2>1, <2>2, <2>5 DEF Keeps
  <2>6. ASSUME NEW n \in Names, SelectError(j, n) PROVE Goal
    BY <2>6, SelectErrorFields
  <2>7. CASE JobStep(j)
    BY <2>3, <2>4, <2>5, <2>6, <2>7, JobKinds, SelectInitFields, SelectBlocksFields DEF Moves, Hears
  <2>8. ASSUME NEW n \in Names, StarterStep(j, n) PROVE Goal
    <3>1. CASE StartLocked(j, n) \/ StartReturned(j, n)
      BY <2>5, <3>1 DEF StartLocked, StartReturned, Keeps
    <3>2. CASE Report(j, n)
      BY <2>5, <3>2, ReportFields
    <3>3. CASE CloseInit(j, n)
      BY <2>5, <3>3, CloseInitFields DEF Hears
    <3> QED
      BY <2>8, <3>1, <3>2, <3>3 DEF StarterStep
  <2>9. CASE job'[j] = job[j] /\ group'[j] = group[j]
    BY <2>5, <2>9 DEF Keeps
  <2> QED
    BY <2>7, <2>8, <2>9, OneJob
<1> QED
  BY <1>1, <1>2 DEF Groups

\* A command that failed left nothing running that it started.
LEMMA GroupsFailTogether == ASSUME Groups, NothingSurvivesClose PROVE FailTogether
  BY DEF Groups, NothingSurvivesClose, FailTogether, Members

-----------------------------------------------------------------------------
(* Errors.                                                                 *)

LEMMA KnownKept ==
  ASSUME ManagerTypeOK, [ManagerNext]_managerVars, NEW j \in Jobs, NEW n \in Names, Known(j, n),
         job'[j].calls = job[j].calls,
         job[j].errors # {} => job'[j].errors # {} \/ job'[j].got > 0 \/ job'[j].unheard,
         job[j].got > 0 => job'[j].got > 0, job[j].unheard => job'[j].unheard
  PROVE  Known(j, n)'
<1>1. ASSUME NEW o \in Members(j), owner[o].name = n, life[o].start = "started" PROVE Known(j, n)'
  <2>1. o \in Ids' /\ owner'[o] = owner[o] /\ life'[o].start = "started"
    BY <1>1, PodsKept DEF Members, Grows
  <2>2. o \in Members(j)'
    BY <1>1, <2>1 DEF Members
  <2> QED
    BY <1>1, <2>1, <2>2 DEF Known
<1> QED
  BY <1>1 DEF Known

\* Every step of a command that collects keeps what is known: a step of the other jobs
\* and of the dev pods takes nothing away, and a goroutine comes to its end only with a
\* dev pod that was started or with an error that is in the channel or was received.
LEMMA NextErrors ==
  ASSUME ManagerTypeOK, UnderWay, LocksHeld, ErrorsHeard, [ManagerNext]_managerVars PROVE ErrorsHeard'
<1> SUFFICES ASSUME NEW j \in Jobs, Collects(j)' PROVE ErrorsOf(j)'
  BY DEF ErrorsHeard
<1>1. Collects(j) => ErrorsOf(j)
  BY DEF ErrorsHeard
<1>2. Collects(j) => Head(script[j]).names \subseteq Names
  <2>1. Collects(j) => script[j] # <<>> /\ script[j] \in Seq(Command)
    BY DEF UnderWay, Collects, ManagerTypeOK
  <2>2. Collects(j) => Head(script[j]) \in Command
    BY <2>1
  <2> QED
    BY <2>2 DEF Command
<1>3. CASE Register(j)
  <2>1. script' = script /\ Head(script[j]).names \subseteq Names
    <3>1. script[j] # <<>> /\ script[j] \in Seq(Command) /\ script' = script
      BY <1>3 DEF UnderWay, Register, ManagerTypeOK
    <3>2. Head(script[j]) \in Command
      BY <3>1
    <3> QED
      BY <3>1, <3>2 DEF Command
  <2>2. \A n \in Head(script[j]).names : starter'[j][n] = "lock"
    BY <1>3, <2>1 DEF Register, ManagerTypeOK
  <2>3. job'[j].pc = "select" /\ job'[j].errors = {}
    BY <1>3 DEF Register, ManagerTypeOK, IdleJob
  <2> QED
    BY <2>1, <2>2, <2>3 DEF ErrorsOf
<1>4. CASE Finishes(j) \/ Moves(j)
  BY <1>4 DEF Finishes, Moves, Collects
\* What is known stays known: it remains to look at the goroutines that come to close.
<1>5. ASSUME Collects(j), Keeps(j), script'[j] = script[j],
             job'[j].errors # {} \/ job'[j].errors = job[j].errors,
             job[j].unheard => job'[j].unheard,
             \A n \in Names : \/ starter'[j][n] = starter[j][n]
                              \/ starter'[j][n] # "none" /\ (starter'[j][n] \in {"close", "closed"} => Known(j, n)')
      PROVE  \A n \in Head(script'[j]).names :
                starter'[j][n] # "none" /\ (starter'[j][n] \in {"close", "closed"} => Known(j, n)')
  BY <1>1, <1>2, <1>5, KnownKept DEF ErrorsOf, Keeps
<1>6. ASSUME NEW n \in Names, SelectError(j, n) PROVE ErrorsOf(j)'
  <2>1. /\ job'[j].got = job[j].got + 1 /\ job[j].got \in Nat /\ job'[j].pc = "drain" 
        /\ UNCHANGED <<starter, script>> /\ Collects(j)
    BY <1>6, SelectErrorFields DEF ManagerTypeOK, JobState, SelectError, Collects
  <2>2. job'[j].got > 0
    BY <2>1
  <2>3. \A m \in Names : Known(j, m)'
    BY <2>2 DEF Known
  <2> QED
    BY <1>1, <1>2, <2>1, <2>2, <2>3 DEF ErrorsOf
<1>7. ASSUME NEW n \in Names, SelectInit(j, n) PROVE ErrorsOf(j)'
  <2>1. /\ Hears(j, n) /\ (job[j].errors # {} => job'[j].unheard) /\ starter' = starter /\ Collects(j)
    BY <1>7, SelectInitFields DEF SelectInit, Collects
  <2>2. \A m \in Head(script'[j]).names :
                starter'[j][m] # "none" /\ (starter'[j][m] \in {"close", "closed"} => Known(j, m)')
    BY <1>5, <2>1 DEF Hears
  <2> QED
    BY <2>1, <2>2 DEF Hears, ErrorsOf
<1>8. CASE Drain(j) /\ Hears(j, job[j].current)
  <2>1. starter' = starter /\ Collects(j) /\ job[j].pc = "drain"
    BY <1>8 DEF Drain, Collects
  <2>2. \A m \in Head(script'[j]).names :
                starter'[j][m] # "none" /\ (starter'[j][m] \in {"close", "closed"} => Known(j, m)')
    BY <1>5, <1>8, <2>1 DEF Hears
  <2>3. job'[j].got > 0
    BY <1>1, <1>8, <2>1 DEF ErrorsOf, Hears, Keeps
  <2> QED
    BY <1>8, <2>2, <2>3 DEF Hears, ErrorsOf
<1>9. ASSUME NEW n \in Names, SelectBlocks(j, n) PROVE ErrorsOf(j)'
  <2>1. /\ job'[j].pc = "blocked" /\ Keeps(j) /\ job'[j].errors = {} /\ job[j].errors = {}
        /\ job'[j].unheard = job[j].unheard /\ UNCHANGED <<starter, script>> /\ Collects(j)
    BY <1>9, SelectBlocksFields DEF SelectBlocks, Collects
  <2>2. \A m \in Head(script'[j]).names :
                starter'[j][m] # "none" /\ (starter'[j][m] \in {"close", "closed"} => Known(j, m)')
    BY <1>5, <2>1
  <2> QED
    BY <2>1, <2>2 DEF ErrorsOf
<1>10. CASE JobStep(j)
  BY <1>3, <1>4, <1>6, <1>7, <1>8, <1>9, <1>10, JobKinds
<1>11. ASSUME NEW n \in Names, StarterStep(j, n) PROVE ErrorsOf(j)'
  <2>1. Collects(j)
    BY <1>11 DEF StarterStep, StartLocked, StartReturned, Report, CloseInit, UnderWay
  <2>2. n \in job[j].pending
    BY <1>11 DEF StarterStep, StartLocked, StartReturned, Report, CloseInit, UnderWay
  <2>3. CASE StartLocked(j, n)
    <3>1. job' = job /\ script' = script /\ group' = group
      BY <2>3 DEF StartLocked
    <3>2. \A m \in Names : starter'[j][m] = starter[j][m] \/ starter'[j][m] \in {"starting", "report"}
      BY <2>3 DEF StartLocked, ManagerTypeOK
    <3>3. \A m \in Head(script'[j]).names :
                starter'[j][m] # "none" /\ (starter'[j][m] \in {"close", "closed"} => Known(j, m)')
      BY <1>5, <2>1, <3>1, <3>2 DEF Keeps
    <3> QED
      BY <1>1, <2>1, <3>1, <3>3 DEF ErrorsOf
  <2>4. CASE StartReturned(j, n)
    <3>1. job' = job /\ script' = script /\ group' = group /\ life' = life /\ owner' = owner
      BY <2>4 DEF StartReturned
    <3>2. \A m \in Names \ {n} : starter'[j][m] = starter[j][m]
      BY <2>4 DEF StartReturned, ManagerTypeOK
    <3>3. starter'[j][n] = "report" \/ (starter'[j][n] = "close" /\ life[devPods[n]].start = "started")
      BY <2>4 DEF StartReturned, ManagerTypeOK
    <3>4. devPods[n] \in Members(j) /\ owner[devPods[n]].name = n
      BY <2>4 DEF StartReturned, LocksHeld
    <3>5. starter'[j][n] = "close" => Known(j, n)'
      <4>1. Members(j)' = Members(j)
        BY <3>1 DEF Members, Ids
      <4> QED
        BY <3>1, <3>3, <3>4, <4>1 DEF Known
    <3>6. \A m \in Head(script'[j]).names :
                starter'[j][m] # "none" /\ (starter'[j][m] \in {"close", "closed"} => Known(j, m)')
      BY <1>5, <2>1, <3>1, <3>2, <3>3, <3>5 DEF Keeps
    <3> QED
      BY <1>1, <2>1, <3>1, <3>6 DEF ErrorsOf
  <2>5. CASE Report(j, n)
    <3>1. \A m \in Names : starter'[j][m] = IF m = n THEN "close" ELSE starter[j][m]
      BY <2>5, ReportFields DEF ManagerTypeOK
    <3>2. script' = script /\ job'[j].pending = job[j].pending
      BY <2>5, ReportFields
    <3>3. CASE job'[j].pc = "drain" /\ job'[j].got = job[j].got + 1
      <4>1. job'[j].got > 0
        BY <3>3 DEF ManagerTypeOK, JobState
      <4>2. \A m \in Names : Known(j, m)'
        BY <4>1 DEF Known
      <4> QED
        BY <1>1, <1>2, <2>1, <3>1, <3>2, <3>3, <4>1, <4>2 DEF ErrorsOf
    <3>4. CASE /\ job'[j].pc = job[j].pc /\ job'[j].pc # "blocked" /\ job'[j].errors # {}
               /\ Keeps(j) /\ job'[j].unheard = job[j].unheard
      <4>1. Known(j, n)'
        BY <3>4 DEF Known
      <4>2. \A m \in Head(script'[j]).names :
                starter'[j][m] # "none" /\ (starter'[j][m] \in {"close", "closed"} => Known(j, m)')
        BY <1>5, <2>1, <3>1, <3>2, <3>4, <4>1
      <4> QED
        BY <1>1, <2>1, <2>2, <3>2, <3>4, <4>2 DEF ErrorsOf, Keeps
    <3> QED
      BY <2>5, <3>3, <3>4, ReportFields
  <2>6. CASE CloseInit(j, n)
    <3>1. starter[j][n] = "close" /\ \A m \in Names : starter'[j][m] = IF m = n THEN "closed" ELSE starter[j][m]
      BY <2>6, CloseInitFields DEF ManagerTypeOK
    <3>2. Keeps(j) /\ script' = script /\ job'[j].errors = job[j].errors /\ (job[j].unheard => job'[j].unheard)
      BY <2>6, CloseInitFields DEF Hears
    <3>3. n \in Head(script[j]).names => Known(j, n)'
      BY <1>1, <2>1, <3>1, <3>2, KnownKept DEF ErrorsOf, Keeps
    <3>4. \A m \in Head(script'[j]).names :
                starter'[j][m] # "none" /\ (starter'[j][m] \in {"close", "closed"} => Known(j, m)')
      BY <1>1, <1>2, <2>1, <3>1, <3>2, <3>3, KnownKept DEF ErrorsOf, Keeps
    <3>5. CASE Hears(j, n) /\ job[j].pc = "blocked"
      BY <1>1, <2>1, <3>4, <3>5 DEF ErrorsOf, Hears
    <3>6. CASE job'[j] = job[j]
      BY <1>1, <2>1, <3>2, <3>4, <3>6 DEF ErrorsOf
    <3> QED
      BY <2>6, <3>5, <3>6, CloseInitFields
  <2> QED
    BY <1>11, <2>3, <2>4, <2>5, <2>6 DEF StarterStep
<1>12. CASE job'[j] = job[j] /\ script'[j] = script[j] /\ starter'[j] = starter[j] /\ group'[j] = group[j]
  <2>1. Collects(j) /\ Keeps(j)
    BY <1>12 DEF Collects, Keeps
  <2>2. \A m \in Head(script'[j]).names :
                starter'[j][m] # "none" /\ (starter'[j][m] \in {"close", "closed"} => Known(j, m)')
    BY <1>5, <1>12, <2>1
  <2> QED
    BY <1>1, <1>12, <2>1, <2>2 DEF ErrorsOf
<1> QED
  BY <1>10, <1>11, <1>12, OneJob
\* Where all starts have ended without an error every dev pod has been started.
LEMMA ErrorsSuffice ==
  ASSUME ManagerTypeOK, UnderWay, ErrorsHeard PROVE ErrorsReported
<1> SUFFICES ASSUME NEW j \in Jobs, job[j].pc = "select", job[j].pending = {}, job[j].got = 0, ~job[j].unheard,
                    NEW n \in Head(script[j]).names
             PROVE  \E o \in Members(j) : owner[o].name = n /\ life[o].start = "started"
  BY DEF ErrorsReported
<1>1. Collects(j) /\ ~(job[j].got > 0)
  BY DEF Collects
<1>2. job[j].errors = {} /\ starter[j][n] # "none" /\ (starter[j][n] \in {"close", "closed"} => Known(j, n))
  BY <1>1 DEF ErrorsHeard, ErrorsOf
<1>3. n \in Names
  <2>1. script[j] # <<>> /\ script[j] \in Seq(Command)
    BY DEF UnderWay, ManagerTypeOK
  <2>2. Head(script[j]) \in Command
    BY <2>1
  <2> QED
    BY <2>2 DEF Command
<1>4. starter[j][n] \in {"none", "closed"}
  BY <1>3 DEF UnderWay
<1> QED
  BY <1>1, <1>2, <1>4 DEF Known

-----------------------------------------------------------------------------
(* The theorems.                                                           *)

LEMMA InitInvariant == ASSUME ManagerInit PROVE IInv
<1>1. ManagerTypeOK /\ UnderWay
  BY InitTypes
<1>2. /\ \A j \in Jobs : job[j] = IdleJob /\ ~group[j] /\ \A n \in Names : starter[j][n] = "none"
      /\ Ids = {} /\ ~devCtx
  BY DEF ManagerInit, Ids
<1>3. \A j \in Jobs : /\ job[j].pc = "next" /\ job[j].got = 0 /\ job[j].failed = "no"
                      /\ ~Collects(j) /\ ~Stops(j)
  BY <1>2 DEF IdleJob, Collects, Stops
<1>4. LocksHeld /\ Current /\ RevertDone /\ AllSound
  BY <1>2, <1>3 DEF LocksHeld, Current, RevertDone, AllSound
<1>5. NothingSurvivesClose /\ Groups /\ ErrorsHeard
  BY <1>2, <1>3 DEF NothingSurvivesClose, Groups, ErrorsHeard
<1> QED
  BY <1>1, <1>4, <1>5 DEF IInv

LEMMA NextInvariant == ASSUME IInv, [ManagerNext]_managerVars PROVE IInv'
  BY NextTypes, NextLocksHeld, NextCurrent, NextRevertDone, NextSound, NextNothingSurvives, NextGroups, NextErrors DEF IInv

LEMMA Invariant == ManagerSpec => []IInv
<1>1. ManagerInit => IInv
  BY InitInvariant
<1>2. IInv /\ [ManagerNext]_managerVars => IInv'
  BY NextInvariant
<1> QED
  BY <1>1, <1>2, PTL DEF ManagerSpec

\* A name has one dev pod at most that is not over, and none while its replaced pod is
\* reverted, whatever the jobs start and stop side by side (devPodManager.Start, Reset).
THEOREM OnlyDevPodTheorem == ManagerSpec => []OnlyDevPod
<1>1. IInv => OnlyDevPod
  BY CurrentAlone DEF IInv
<1> QED
  BY <1>1, Invariant, PTL

\* Once Close has cancelled the contexts every dev pod is cancelled, those that are
\* created later, too (devPodManager.Close).
THEOREM NothingSurvivesTheorem == ManagerSpec => []NothingSurvivesClose
<1>1. IInv => NothingSurvivesClose
  BY DEF IInv
<1> QED
  BY <1>1, Invariant, PTL

\* start_dev starts all of its dev pods, or it fails and leaves none of them running;
\* an error is lost only where its start had ended before (devPodManager.StartMultiple).
THEOREM AllOrNothingTheorem == ManagerSpec => []AllOrNothing
<1>1. IInv => AllOrNothing
  BY GroupsFailTogether, ErrorsSuffice DEF IInv, AllOrNothing
<1> QED
  BY <1>1, Invariant, PTL
=============================================================================
