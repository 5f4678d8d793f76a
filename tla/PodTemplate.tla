----------------------------- MODULE PodTemplate -----------------------------
(***************************************************************************)
(* The pod template of a replaced pod: the template of the application     *)
(* with the modifications of a dev pod applied, one after the other, by    *)
(* buildDeployment.                                                        *)
(*                                                                         *)
(* A container keeps what the modifications change, most of it as whether  *)
(* the value is the application's own or the configured one. A dev pod     *)
(* has one dev container, which may leave out the name of the container it *)
(* modifies, or a map of them, each with its name. Here they are in the    *)
(* order in which the map is walked, which may be any.                     *)
(***************************************************************************)
EXTENDS Integers, Sequences

AppImage == "app"   \* what dev.*.imageSelector selects
DevImage == "dev"   \* dev.*.devImage
Unnamed  == ""

\* Values of the application and configured ones.
Values == {"own", "config", "none", "sleep", "restart"}

Volume(what, of) == [what |-> what, of |-> of]
Persistence == Volume("persistence", "")
RestartHelper(k) == Volume("restart", k.name)

\* A container; what its volumes are for.
Container ==
    [name : STRING, image : STRING, probes : BOOLEAN, command : Values, args : Values,
     interactive : BOOLEAN, env : SUBSET {"config"}, workingDir : Values, resources : Values,
     readOnlyRoot : BOOLEAN, mounts : SUBSET [what : STRING, of : STRING]]

\* A dev container: whether it configures something, and how it syncs, restarts and persists.
DevContainer ==
    [container : STRING, devImage : BOOLEAN, terminal : BOOLEAN, attach : BOOLEAN, env : BOOLEAN,
     command : BOOLEAN, args : BOOLEAN, workingDir : BOOLEAN, resources : BOOLEAN,
     sync : {"none", "sync", "startContainer", "restartContainer"}, inject : {"unset", "on", "off"},
     persist : {"none", "keep", "populate"}]

\* A container of the application as it is deployed.
AppContainer(name, image) ==
    [name |-> name, image |-> image, probes |-> TRUE, command |-> "own", args |-> "own",
     interactive |-> FALSE, env |-> {}, workingDir |-> "own", resources |-> "own",
     readOnlyRoot |-> TRUE, mounts |-> {}]

\* The containers of an application have names of their own.
AppContainers(app) ==
    /\ \A i \in DOMAIN app : /\ app[i].name \in STRING \ {Unnamed} /\ app[i].image \in STRING
                             /\ app[i] = AppContainer(app[i].name, app[i].image)
    /\ \A i, j \in DOMAIN app : app[i].name = app[j].name => i = j

\* The keys of the map of dev containers are the names of the containers they are about.
DevContainers(containers) ==
    /\ containers \in Seq(DevContainer)
    /\ \/ Len(containers) = 1
       \/ \A k \in DOMAIN containers : containers[k].container # Unnamed
    /\ \A k, l \in DOMAIN containers : containers[k].container = containers[l].container => k = l

\* The pod template of a version of the application.
AppTemplate(containers, version) ==
    [version |-> version, containers |-> containers, initContainers |-> {}, volumes |-> {},
     patched |-> FALSE, replaced |-> FALSE, matched |-> <<>>]

Fail  == [ok |-> FALSE]
Ok(t) == [ok |-> TRUE, pod |-> t]

\* What follows is only done if nothing failed before.
Then(r, Do(_)) == IF r.ok THEN Do(r.pod) ELSE r

Restarts(c) ==
    \/ c.inject = "on"
    \/ c.inject = "unset" /\ c.sync \in {"startContainer", "restartContainer"}

\* The first of the containers, 0 if there is none.
FirstOf(indices) == IF indices = {} THEN 0 ELSE CHOOSE i \in indices : \A j \in indices : i <= j

\* The first container with the image that a dev container may be about.
Match(t, c) ==
    FirstOf({i \in DOMAIN t.containers : /\ c.container \in {Unnamed, t.containers[i].name}
                                         /\ t.containers[i].image = AppImage})

\* The dev containers that matchesImageSelector finds a container for, and its name.
Matched(t, d) == {k \in DOMAIN d.containers : d.imageSelector /\ Match(t, d.containers[k]) # 0}
MatchesImageSelector(t, d) == [k \in Matched(t, d) |-> t.containers[Match(t, d.containers[k])].name]

ContainerNamed(t, name) == FirstOf({i \in DOMAIN t.containers : name \in {Unnamed, t.containers[i].name}})

\* The index of the container a dev container modifies, 0 if that is not known.
GetPodTemplateContainer(t, d, c) ==
    IF c.container # Unnamed \/ Len(t.containers) <= 1 THEN ContainerNamed(t, c.container)
    ELSE IF \E k \in DOMAIN d.containers : Matched(t, d) = {k}
         THEN ContainerNamed(t, MatchesImageSelector(t, d)[CHOOSE k \in Matched(t, d) : TRUE]) ELSE 0

\* The container becomes another.
InContainer(t, d, c, Change(_)) ==
    LET i == GetPodTemplateContainer(t, d, c)
    IN  IF i = 0 THEN Fail ELSE Ok([t EXCEPT !.containers[i] = Change(@)])

Unprobed(k) == [k EXCEPT !.probes = FALSE]

ReplaceImage(t, d, c) ==
    IF ~c.devImage THEN Ok(t)
    ELSE InContainer(t, d, c, LAMBDA k : [Unprobed(k) EXCEPT !.image = DevImage])

ReplaceTerminal(t, d, c) ==
    IF ~c.terminal THEN Ok(t)
    ELSE InContainer(t, d, c, LAMBDA k : [Unprobed(k) EXCEPT !.command = "sleep", !.args = "none"])

ReplaceAttach(t, d, c) ==
    IF ~c.attach THEN Ok(t)
    ELSE InContainer(t, d, c, LAMBDA k : [Unprobed(k) EXCEPT !.interactive = TRUE])

ReplaceEnv(t, d, c) ==
    IF ~c.env THEN Ok(t)
    ELSE InContainer(t, d, c, LAMBDA k : [k EXCEPT !.env = @ \cup {"config"}])

\* The restart helper calls the configured command; its script is in a volume of the pod.
Command(k, c) ==
    [Unprobed(k) EXCEPT !.command = IF Restarts(c) THEN "restart" ELSE IF c.command THEN "config" ELSE @,
                        !.args    = IF c.args THEN "config" ELSE @,
                        !.mounts  = @ \cup IF Restarts(c) THEN {RestartHelper(k)} ELSE {}]

ReplaceCommand(t, d, c) ==
    LET i      == GetPodTemplateContainer(t, d, c)
        helper == IF Restarts(c) THEN {RestartHelper(t.containers[i])} ELSE {}
    IN  IF Restarts(c) /\ ~c.command THEN Fail
        ELSE IF ~Restarts(c) /\ ~c.command /\ ~c.args THEN Ok(t)
        ELSE IF i = 0 THEN Fail
        ELSE Ok([t EXCEPT !.containers[i] = Command(@, c), !.volumes = @ \cup helper])

ReplaceWorkingDir(t, d, c) ==
    IF ~c.workingDir THEN Ok(t)
    ELSE InContainer(t, d, c, LAMBDA k : [Unprobed(k) EXCEPT !.workingDir = "config"])

ReplaceSecurityContext(t, d, c) ==
    IF c.sync = "none" THEN Ok(t)
    ELSE InContainer(t, d, c, LAMBDA k : [k EXCEPT !.readOnlyRoot = FALSE])

ReplaceResources(t, d, c) ==
    IF ~c.resources THEN Ok(t)
    ELSE InContainer(t, d, c, LAMBDA k : [k EXCEPT !.resources = "config"])

\* A variant that replaces the terminal after the command.
TerminalLast(t, d, c) ==
    Then(Then(Then(Then(Then(Then(Then(
        ReplaceImage(t, d, c),
        LAMBDA u : ReplaceAttach(u, d, c)),
        LAMBDA u : ReplaceEnv(u, d, c)),
        LAMBDA u : ReplaceCommand(u, d, c)),
        LAMBDA u : ReplaceTerminal(u, d, c)),
        LAMBDA u : ReplaceWorkingDir(u, d, c)),
        LAMBDA u : ReplaceSecurityContext(u, d, c)),
        LAMBDA u : ReplaceResources(u, d, c))

\* From the top down; the first modification that fails is the last one tried.
ModifyDevContainer(t, d, c) ==
    Then(Then(Then(Then(Then(Then(Then(
        ReplaceImage(t, d, c),
        LAMBDA u : ReplaceTerminal(u, d, c)),
        LAMBDA u : ReplaceAttach(u, d, c)),
        LAMBDA u : ReplaceEnv(u, d, c)),
        LAMBDA u : ReplaceCommand(u, d, c)),
        LAMBDA u : ReplaceWorkingDir(u, d, c)),
        LAMBDA u : ReplaceSecurityContext(u, d, c)),
        LAMBDA u : ReplaceResources(u, d, c))

\* One path per dev container; a path that may be populated gets an init container.
PersistPath(t, c) ==
    LET i == ContainerNamed(t, c.container)
    IN  IF c.persist = "none" THEN Ok(t)
        ELSE IF Len(t.containers) > 1 /\ c.container = Unnamed THEN Fail
        ELSE IF i = 0 THEN Ok(t)
        ELSE Ok([t EXCEPT !.containers[i].mounts = @ \cup {Persistence},
                          !.initContainers = @ \cup IF c.persist = "populate" THEN {t.containers[i].image} ELSE {}])

Persists(d) == \E k \in DOMAIN d.containers : d.containers[k].persist # "none"

\* The two rounds buildDeployment makes through the dev containers, until one fails: what the
\* modifications, and then the paths, have made of the template after each.
InTurn(round, t, d, c) == IF round = "modify" THEN ModifyDevContainer(t, d, c) ELSE PersistPath(t, c)

EachDevContainer(round, t, d) ==
    LET after[k \in 0 .. Len(d.containers)] ==
            IF k = 0 THEN Ok(t) ELSE Then(after[k-1], LAMBDA u : InTurn(round, u, d, d.containers[k]))
    IN  after[Len(d.containers)]

PersistPaths(t, d) ==
    IF ~Persists(d) THEN Ok(t)
    ELSE EachDevContainer("persist", [t EXCEPT !.volumes = @ \cup {Persistence}], d)

\* The pod template buildDeployment makes of that of its target.
BuildPod(t, d) ==
    LET modified  == EachDevContainer("modify", [t EXCEPT !.patched = @ \/ d.patches], d)
        persisted == Then(modified, LAMBDA u : PersistPaths(u, d))
    IN  Then(persisted, LAMBDA u : Ok([u EXCEPT !.replaced = TRUE, !.matched = MatchesImageSelector(t, d)]))

\* needPodReplace: does the dev pod ask for anything that needs another pod?
NeedPodReplace(d) ==
    \/ d.patches
    \/ \E k \in DOMAIN d.containers :
        LET c == d.containers[k]
        IN  \/ c.devImage \/ c.terminal \/ c.attach \/ c.env \/ c.command \/ c.args
            \/ c.workingDir \/ c.resources \/ c.persist # "none" \/ c.inject = "on"
            \/ c.inject = "unset" /\ c.sync = "restartContainer"
=============================================================================
