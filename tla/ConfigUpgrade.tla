--------------------------- MODULE ConfigUpgrade ---------------------------
(***************************************************************************)
(* Parse of a configuration file: it is read strictly with the structs of  *)
(* its version, upgraded version by version to the latest, adjusted and    *)
(* validated (pkg/devspace/config/versions: versions.go, adjust.go and     *)
(* validate.go).                                                           *)
(***************************************************************************)
EXTENDS UpgradeLatest

\* The files the user may have: [from: version, settings: set of paths, imageParses: whether the
\* name of its image, if it has one, is the name of an image].
CONSTANT Files

VARIABLES
    file,       \* the file that is parsed,
    version,    \* how far the upgrade is,
    config,     \* the configuration of that version,
    outcome     \* and what Parse returned: an error, or the configuration

vars == <<file, version, config, outcome>>

Init ==
    /\ file \in Files
    /\ version = file.from
    /\ config = [p \in file.settings |-> {p}]
    /\ outcome = "none"

-----------------------------------------------------------------------------
(* The upgrade loop.                                                       *)

Upgraded(c, componentChart) ==
    CASE version = 1  -> UpgradeV1(c)
      [] version = 2  -> UpgradeV2(c)
      [] version = 3  -> UpgradeV3(c, componentChart)
      [] version = 4  -> UpgradeV4(c)
      [] version = 5  -> UpgradeV5(c)
      [] version = 6  -> UpgradeV6(c)
      [] version = 7  -> UpgradeV7(c)
      [] version = 8  -> UpgradeV8(c)
      [] version = 9  -> UpgradeV9(c)
      [] version = 10 -> UpgradeV10(c)
      [] version = 11 -> UpgradeV11(c)

\* What the upgrade converts: all of it, or what is left once the rest is cleared.
Converted(c) == IF version = 11 THEN Cleared(c) ELSE c

\* GetRegistryFromImageName: the upgrade looks for the registry in the name of every image, which
\* has to be one; an empty name is none.
NoImageName(c) == Has(c, <<"images">>) /\ (<<"images", "image">> \notin DOMAIN c \/ ~file.imageParses)

Fails(c) ==
    \/ ConvertFails(Converted(c), version)
    \/ version = 2 /\ DanglingSelector(c)
    \/ version = 11 /\ NoImageName(c)

\* One round of the loop.
Step ==
    /\ outcome = "none"
    /\ version < Latest
    /\ ~Fails(config)
    /\ version' = version + 1
    /\ \E chart \in IF version = 3 /\ NamesChart(config) THEN BOOLEAN ELSE {FALSE} :
          config' = Upgraded(config, chart)
    /\ UNCHANGED <<file, outcome>>

Abort ==
    /\ outcome = "none"
    /\ version < Latest
    /\ Fails(config)
    /\ outcome' = "failed"
    /\ UNCHANGED <<file, version, config>>

-----------------------------------------------------------------------------
(* The end: the elements of the maps learn their names, and the result is  *)
(* checked for what must and what must not be set.                         *)

Named == {<<s>> : s \in {"vars", "commands", "pullSecrets", "dev", "pipelines", "dependencies", "images", "deployments"}}
Containers == <<"dev", "containers">>

AdjustConfig(c) ==
    LET names == {s \o <<"name">> : s \in {s \in Named : Has(c, s)}}
                 \cup (IF Has(c, Containers) THEN {Containers \o <<"container">>} ELSE {})
    IN  [p \in names |-> Value(c, p)] @@ c

ValidRequire(c) ==
    \A s \in {<<"require", "plugins">>, <<"require", "commands">>} :
        Has(c, s) => {s \o <<"name">>, s \o <<"version">>} \subseteq DOMAIN c

ValidImages(c) ==
    /\ Has(c, <<"images">>) => <<"images", "image">> \in DOMAIN c
    /\ Has(c, <<"images", "custom">>) => \/ <<"images", "custom", "command">> \in DOMAIN c
                                         \/ Has(c, <<"images", "custom", "commands">>)

Selector == {<<"dev", "labelSelector">>, <<"dev", "imageSelector">>}

ValidContainer(c, at) ==
    /\ Has(c, at \o <<"sync", "onUpload", "exec">>) => at \o <<"sync", "onUpload", "exec", "command">> \in DOMAIN c
    /\ Has(c, at \o <<"reversePorts">>) => at \o <<"reversePorts", "port">> \in DOMAIN c
    /\ Has(c, at \o <<"persistPaths">>) => at \o <<"persistPaths", "path">> \in DOMAIN c

\* A dev pod with a list of containers may not have the fields of a container as well.
Duplicates(c) == {k \in DOMAIN Schemas[Latest]["DevContainer"] \ {"container"} : Has(c, <<"dev", k>>)}

ValidDev(c) ==
    /\ Has(c, <<"dev">>) => \E s \in Selector : Selector \cap DOMAIN c = {s}
    /\ ValidContainer(c, <<"dev">>)
    /\ ValidContainer(c, Containers)
    /\ Has(c, Containers) => Duplicates(c) = {}

HookActions == {<<"hooks", a>> : a \in {"command", "upload", "download", "logs", "wait"}}

ValidHooks(c) ==
    LET actions   == {a \in HookActions : Has(c, a)}
        container == <<"hooks", "container">>
    IN  Has(c, <<"hooks">>) =>
            /\ <<"hooks", "events">> \in DOMAIN c
            /\ \E a \in actions : actions = {a}
            /\ <<"hooks", "command">> \notin actions => Has(c, container)
            /\ <<"hooks", "wait">> \in actions => \/ <<"hooks", "wait", "running">> \in DOMAIN c
                                                  \/ <<"hooks", "wait", "terminatedWithCode">> \in DOMAIN c
            /\ Has(c, container) =>
                  /\ container \o <<"containerName">> \in DOMAIN c => container \o <<"labelSelector">> \in DOMAIN c
                  /\ {container \o <<"labelSelector">>, container \o <<"imageSelector">>} \cap DOMAIN c # {}

ValidDeployments(c) ==
    LET kubectl == <<"deployments", "kubectl">>
        sources == {kubectl \o <<"manifests">>, kubectl \o <<"inlineManifest">>} \cap DOMAIN c
        patches == kubectl \o <<"patches">>
    IN  Has(c, <<"deployments">>) =>
            /\ Has(c, Helm) # Has(c, kubectl)
            /\ Has(c, kubectl) => \E s \in sources : sources = {s}
            /\ Has(c, patches) => {patches \o p : p \in {<<"target", "name">>, <<"op">>, <<"path">>, <<"value">>}} \subseteq DOMAIN c

ValidRest(c) ==
    /\ Has(c, <<"pullSecrets">>) => <<"pullSecrets", "registry">> \in DOMAIN c
    /\ Has(c, <<"commands">>) => <<"commands", "command">> \in DOMAIN c
    /\ Has(c, <<"dependencies">>) => {<<"dependencies", "git">>, <<"dependencies", "path">>} \cap DOMAIN c # {}

Validate(c) ==
    /\ <<"name">> \in DOMAIN c
    /\ ValidRequire(c) /\ ValidImages(c) /\ ValidDev(c) /\ ValidHooks(c) /\ ValidDeployments(c) /\ ValidRest(c)

Finish ==
    /\ outcome = "none"
    /\ version = Latest
    /\ config' = AdjustConfig(config)
    /\ outcome' = IF Validate(config') THEN "accepted" ELSE "rejected"
    /\ UNCHANGED <<file, version>>

Done == outcome # "none" /\ UNCHANGED vars

Next == Step \/ Abort \/ Finish \/ Done

Spec == Init /\ [][Next]_vars
-----------------------------------------------------------------------------
(* Properties.                                                             *)

\* The settings the upgrade from a version announces as no longer supported.
Unsupported == [v \in Versions |-> CASE v = 2 -> {<<"cluster">>, <<"dev", "overrideImages", "dockerfile">>,
                                                 <<"dev", "overrideImages", "context">>}
    [] v = 11 -> {<<"profiles", "strategicMerge">>, <<"dependencies", "dev">>, <<"dependencies", "skipBuild">>,
                  <<"deployments", "helm", "fetchArgs">>, <<"deployments", "helm", "driver">>,
                  <<"deployments", "helm", "path">>, <<"deployments", "helm", "deleteArgs">>,
                  <<"deployments", "kubectl", "deleteArgs">>, <<"dev", "deprecatedInteractiveEnabled">>,
                  <<"dev", "deprecatedInteractiveImages">>, <<"dev", "autoReload">>,
                  <<"dev", "sync", "throttleChangeDetection">>, <<"dev", "sync", "onDownload">>}
    [] OTHER -> {}]

\* The settings it drops without a word.
Forgotten == [v \in Versions |-> CASE v = 1 -> {<<"cluster">>}
    [] v = 3 -> {<<"profiles", "replace", "deployments", "component">>}
    [] v = 4 -> {<<"profiles", "replace", "deployments", "helm", "rollback">>}
    [] v = 5 -> {<<"profiles", "replace", "images", "build", "custom", "flags">>}
    [] v = 6 -> {<<"profiles", "replace", "images", "tag">>, <<"profiles", "replace", "dev", "sync", "downloadOnInitialSync">>}
    [] v = 7 -> {<<"profiles", "replace", "deployments", "kubectl", "flags">>, <<"profiles", "replace", "images", "build", "kaniko", "flags">>}
    [] v = 10 -> {<<"hooks", "where", "container", "imageName">>}
    [] v = 11 -> {<<"dependencies", "profileParents">>, <<"dev", "open">>, <<"dev", "sync", "arch">>,
                  <<"profiles", "patches", "from">>, <<"dev", "replacePods", "patches", "from">>,
                  <<"dev", "replacePods", "persistPaths", "containerName">>, <<"profiles", "parents", "source", "configName">>,
                  <<"deployments", "helm", "componentChart">>, <<"deployments", "helm", "tillerNamespace">>,
                  <<"deployments", "helm", "recreate">>, <<"deployments", "helm", "v2">>}
    [] OTHER -> {}]

Settings(c) == UNION {c[p] : p \in DOMAIN c}

Excepted(v, p) == \E q \in Unsupported[v] \cup Forgotten[v] : IsPrefix(q, p)

\* A setting that another one of the same file takes the place of, or one of the logs where
\* none are selected.
Overridden(v, c, p) ==
    LET In(s, keys) == p \in {s \o <<k>> : k \in keys}
        Both(q)     == p \in DOMAIN c /\ q \in DOMAIN c
    IN
    \/ /\ v = 2
       /\ \E s \in Sections : /\ s \o <<"selector">> \in DOMAIN c
                              /\ In(s, {"labelSelector", "namespace", "containerName"})
    \/ v = 3 /\ IsPrefix(Helm, p) /\ Has(c, Component)
    \/ v = 9 /\ p = <<"images", "rebuildStrategy">> /\ Both(<<"images", "preferSyncOverRebuild">>)
    \/ v = 10 /\ Last(p) = "imageSelector" /\ Both(Front(p) \o <<"imageName">>)
    \/ /\ v = 11
       /\ \/ \E i \in DOMAIN Merged(c) : i > 1 /\ In(Merged(c)[i], {"labelSelector", "imageSelector", "name"})
          \/ \E i \in DOMAIN Merged(c) : i < Len(Merged(c)) /\ In(Merged(c)[i], {"namespace"})
          \/ \E i, j \in DOMAIN Merged(c) : /\ i < j /\ Merged(c)[i] \o <<"containerName">> \in DOMAIN c
                                            /\ In(Merged(c)[j], {"containerName"})
          \/ \E b \in {"docker", "kaniko"} : /\ IsPrefix(Build \o <<b, "options">>, p)
                                             /\ \/ Has(c, Build \o <<"buildKit", "options">>)
                                                \/ b = "kaniko" /\ Has(c, Build \o <<"docker", "options">>)
          \/ IsPrefix(<<"deployments", "kubectl">>, p) /\ Has(c, Helm)
          \/ IsPrefix(<<"dev", "logs">>, p) /\ ~Has(c, <<"dev", "logs", "selectors">>)

\* No upgrade loses a setting of the user: each of them goes into the configuration of the next
\* version, unless it is announced as unsupported, is one the code forgets, or another setting
\* of the file takes its place (Upgrade of every version).
SettingsKept ==
    [][version' = version + 1 =>
         \A p \in DOMAIN config :
            Excepted(version, p) \/ Overridden(version, config, p) \/ config[p] \subseteq Settings(config')]_vars

\* The user's file has an image without a name, or with one that cannot be parsed.
Unnamed(f) ==
    /\ \E p \in f.settings : p[1] = "images"
    /\ <<"images", "image">> \notin f.settings \/ ~f.imageParses

\* The upgrade of a file that its own version reads fails only for a section that names a selector
\* the file does not have (getSelector), or for an image to which the file, as the user wrote it,
\* gives no proper name (GetRegistryFromImageName): never because an earlier upgrade left something
\* that Convert cannot read, or took the name away.
UpgradeSucceeds ==
    outcome = "failed" => \/ version = 2 /\ DanglingSelector(config)
                          \/ version = 11 /\ Unnamed(file)

\* Settings of which a file may only have one: the two selectors of a section, the actions of a
\* hook, the kinds of a deployment, the sources of its manifests, and the places of a container.
Conflicting(S) ==
    LET Two(paths) == \E p, q \in paths : p # q /\ (\E r \in S : IsPrefix(p, r)) /\ (\E r \in S : IsPrefix(q, r))
        selects    == {p \in S : Last(p) \in {"labelSelector", "imageSelector", "imageName", "images"} /\ p[1] = "dev"}
    IN  \/ \E p, q \in selects : Last(p) = "labelSelector" /\ Last(q) # "labelSelector"
        \/ Two(HookActions)
        \/ Two({Helm, <<"deployments", "kubectl">>, Component})
        \/ Two({<<"deployments", "kubectl", "manifests">>, <<"deployments", "kubectl", "inlineManifest">>})
        \/ Two({Containers} \cup {<<"dev", k>> : k \in DOMAIN Schemas[Latest]["DevContainer"]})

\* A complete file is accepted unless it has conflicting settings: no upgrade takes away what
\* Validate of the latest version wants, or adds what it refuses.
CompleteAccepted == outcome = "rejected" => Conflicting(file.settings)

\* What a version of DevSpace accepted is accepted by the latest one (versions.Parse): the
\* upgrades succeed and the validation of the result finds nothing wrong.
StillAccepted == UpgradeSucceeds /\ CompleteAccepted

\* Only the fields of the version are set, so that Convert loses none of them silently.
TypeOK ==
    /\ file \in Files
    /\ version \in file.from..Latest
    /\ DOMAIN config \subseteq Leaves[version]
    /\ outcome \in {"none", "failed", "accepted", "rejected"}
=============================================================================
