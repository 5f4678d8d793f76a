---------------------------- MODULE MCPodReplace ----------------------------
(* Small instances of PodReplace: one dev pod with all its commands and     *)
(* faults, and many dev pods that are started once.                         *)
EXTENDS PodReplace, TLC

Plain == [container |-> Unnamed, devImage |-> FALSE, terminal |-> FALSE, attach |-> FALSE,
          env |-> FALSE, command |-> FALSE, args |-> FALSE, workingDir |-> FALSE,
          resources |-> FALSE, sync |-> "none", inject |-> "unset", persist |-> "none"]

OneContainer  == <<AppContainer("main", AppImage)>>
TwoContainers == <<AppContainer("proxy", "other"), AppContainer("main", AppImage)>>

\* The life of a dev pod, for every kind of application and of selector.
Usual(kind, byImage, persist) ==
    [kind |-> kind, app |-> OneContainer, imageSelector |-> byImage, patches |-> FALSE,
     containers |-> <<[Plain EXCEPT !.devImage = TRUE, !.terminal = TRUE, !.persist = persist]>>]
Lives == {Usual("Deployment", FALSE, "populate"), Usual("StatefulSet", FALSE, "none")}

\* A dev pod two commands work on at the same time.
Shared == Usual("Deployment", TRUE, "none")

\* What one dev container may ask for.
Settings ==
    {[Plain EXCEPT !.devImage = i, !.terminal = t, !.attach = a, !.command = c, !.args = r,
                   !.sync = s, !.inject = j, !.persist = p] :
        i \in BOOLEAN, t \in BOOLEAN, a \in BOOLEAN, c \in BOOLEAN, r \in BOOLEAN,
        s \in {"none", "startContainer", "restartContainer"}, j \in {"unset", "on", "off"},
        p \in {"none", "populate"}}
    \cup {[Plain EXCEPT !.env = e, !.workingDir = w, !.resources = r, !.terminal = t] :
             e \in BOOLEAN, w \in BOOLEAN, r \in BOOLEAN, t \in BOOLEAN}

Pod(app, byImage, containers) ==
    [kind |-> "Deployment", app |-> app, imageSelector |-> byImage, patches |-> FALSE,
     containers |-> containers]
Named(c, name) == [c EXCEPT !.container = name]
Busy == [Plain EXCEPT !.devImage = TRUE, !.terminal = TRUE, !.env = TRUE, !.persist = "keep"]
SingleConfs ==
    {Pod(OneContainer, TRUE, <<c>>) : c \in Settings}
    \cup {Pod(TwoContainers, FALSE, <<Named(c, "main")>>) : c \in Settings}
    \cup {Pod(TwoContainers, TRUE, <<c>>) : c \in Settings}
    \cup {Pod(TwoContainers, FALSE, <<Named(c, "proxy"), Named(Busy, "main")>>) : c \in Settings}

\* Processes differ in nothing.
Symmetry == Permutations(Procs)

MCConfs == Lives \cup SingleConfs \cup {Shared}
ASSUME \A d \in MCConfs : Unambiguous(d)

MCBudget(c) ==
    IF c \in Lives THEN [commands |-> 3, parallel |-> 1, faults |-> 1,
                         deploys |-> IF c.kind = "Deployment" THEN 2 ELSE 1]
    ELSE IF c = Shared THEN [commands |-> 2, parallel |-> 2, deploys |-> 1, faults |-> 0]
    ELSE [commands |-> 1, parallel |-> 1, deploys |-> 0, faults |-> 0]
=============================================================================
