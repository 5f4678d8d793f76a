------------------------------ MODULE Upgrade ------------------------------
(***************************************************************************)
(* The upgrades of a configuration from v1beta1 to v1beta11, one version   *)
(* at a time (pkg/devspace/config/versions/v1beta*/upgrade.go).            *)
(*                                                                         *)
(* A configuration is a function from the paths it sets to values, and a   *)
(* value is the set of the settings of the file the user wrote that it was *)
(* made from: the empty set is a value an upgrade chose by itself. Nothing *)
(* but that flow of the settings is kept of the data: a setting has some   *)
(* value other than the zero value of its type, a list or map of structs   *)
(* has one element, and an empty struct is the same as none.               *)
(***************************************************************************)
EXTENDS Schema

CONSTANT Schemas    \* the schemas of the versions in order; the last one is v2beta1

Versions == DOMAIN Schemas
Latest   == Len(Schemas)

Nodes  == [v \in Versions |-> NodesOf(Schemas[v], "Config")]
Leaves == [v \in Versions |-> {p \in DOMAIN Nodes[v] :
                                 ~\E q \in DOMAIN Nodes[v] : IsStrictPrefix(p, q)}]

-----------------------------------------------------------------------------
(* Reading and writing a configuration.                                    *)

Has(c, p)     == \E q \in DOMAIN c : IsPrefix(p, q)
Value(c, p)   == IF p \in DOMAIN c THEN c[p] ELSE {}
Only(c, P)    == [p \in DOMAIN c \cap P |-> c[p]]
Without(c, p) == Only(c, {q \in DOMAIN c : ~IsPrefix(p, q)})

\* The leaf at p set to a value.
At(p, value) == p :> value

\* The fields of a struct literal at path to, each taken from a field of the struct at from:
\* names gives the old key of every new one.
Rename(c, from, to, names) ==
    LET set == {k \in DOMAIN names : from \o <<names[k]>> \in DOMAIN c}
    IN  [p \in {to \o <<k>> : k \in set} |-> c[from \o <<names[Last(p)]>>]]

\* A struct literal whose fields keep their keys.
Keep(c, from, to, keys) == Rename(c, from, to, [k \in keys |-> k])

\* One field assigned if it is set.
Move(c, from, to) == IF from \in DOMAIN c THEN At(to, c[from]) ELSE <<>>

\* A value made from several fields, where any is set.
Join(c, from, to) == IF from \cap DOMAIN c = {} THEN <<>> ELSE At(to, UNION {c[p] : p \in from \cap DOMAIN c})

\* A configuration whose part at p is replaced.
Replace(c, p, part) == part @@ Without(c, p)

\* Convert writes the old structs as yaml and reads them into the new ones: a key the new
\* structs do not have is dropped, and what is below a field without structs stays in it.
Convert(c, v) ==
    LET Sources(q) == {p \in DOMAIN c : IsPrefix(q, p)}
    IN  [q \in {q \in Leaves[v + 1] : Sources(q) # {}} |-> UNION {c[p] : p \in Sources(q)}]

\* Reading fails where the yaml value does not have the shape the new struct wants.
ConvertFails(c, v) ==
    \E p \in DOMAIN c : \E i \in 1..Len(p) :
        LET q == SubSeq(p, 1, i)
        IN  /\ q \in DOMAIN Nodes[v] \cap DOMAIN Nodes[v + 1]
            /\ Nodes[v + 1][q] \notin {Nodes[v][q], "any"}

-----------------------------------------------------------------------------
(* v1beta1 to v1beta5                                                      *)

Build == <<"images", "build">>

UpgradeV1(c) ==
    LET flags == Rename(c, Build, <<"images">>, [dockerfile |-> "dockerfile", context |-> "context"])
                 @@ Keep(c, <<"images">>, Build \o <<"kaniko">>, {"insecure"})
                 @@ Keep(c, <<"images">>, Build \o <<"docker">>, {"skipPush"})
                 @@ Convert(c, 1)
        builder == IF Has(flags, Build \o <<"kaniko">>) THEN <<"kaniko">> ELSE <<"docker">>
        options == Build \o builder \o <<"options">>
    IN  IF Has(c, Build \o <<"options">>)
        THEN Replace(flags, options, Keep(c, Build \o <<"options">>, options, {"target", "network", "buildArgs"}))
        ELSE flags

Selectors == <<"dev", "selectors">>

\* getSelector: the fields of the selector that a section names. They depend on the reference
\* and on the name of the selector as well.
Selected(c, section, to, keys) ==
    LET found == Keep(c, Selectors, to, keys)
        by    == Value(c, section \o <<"selector">>) \cup Value(c, Selectors \o <<"name">>)
    IN  [p \in DOMAIN found |-> found[p] \cup by]

Sections == {<<"dev", "terminal">>, <<"dev", "sync">>, <<"dev", "ports">>}

\* A section names a selector that does not exist.
DanglingSelector(c) ==
    /\ \E s \in Sections : s \o <<"selector">> \in DOMAIN c
    /\ Selectors \o <<"name">> \notin DOMAIN c

UpgradeV2(c) ==
    LET terminal    == <<"dev", "terminal">>
        interactive == <<"dev", "interactive">>
        override    == <<"dev", "overrideImages">>
        By(section) == section \o <<"selector">> \in DOMAIN c
        images ==
            IF override \o <<"name">> \in DOMAIN c
            THEN Rename(c, override, interactive \o <<"images">>,
                        [name |-> "name", entrypoint |-> "entrypoint", cmd |-> "entrypoint"])
            ELSE <<>>
        newTerminal ==
            (IF By(terminal)
             THEN Selected(c, terminal, interactive \o <<"terminal">>, {"labelSelector", "namespace", "containerName"})
             ELSE Keep(c, terminal, interactive \o <<"terminal">>, {"labelSelector", "namespace", "containerName"}))
            @@ Keep(c, terminal, interactive \o <<"terminal">>, {"command"})
        sync  == IF By(<<"dev", "sync">>)
                 THEN Selected(c, <<"dev", "sync">>, <<"dev", "sync">>, {"labelSelector", "namespace", "containerName"})
                 ELSE <<>>
        ports == IF By(<<"dev", "ports">>)
                 THEN Selected(c, <<"dev", "ports">>, <<"dev", "ports">>, {"labelSelector", "namespace"})
                 ELSE <<>>
    IN  At(interactive \o <<"defaultEnabled">>, Value(c, terminal \o <<"disabled">>))
        @@ images @@ newTerminal @@ sync @@ ports
        @@ Rename(c, <<"dependencies">>, <<"dependencies">>, [profile |-> "config"])
        @@ (IF Has(c, <<"images">>) /\ <<"images", "createPullSecret">> \notin DOMAIN c
            THEN At(<<"images", "createPullSecret">>, {}) ELSE <<>>)
        @@ Rename(c, <<"deployments", "helm">>, <<"deployments", "helm">>, [replaceImageTags |-> "devSpaceValues"])
        @@ Convert(c, 2)

Helm      == <<"deployments", "helm">>
Component == <<"deployments", "component">>
Chart     == Helm \o <<"chart">>

\* A component becomes a helm deployment of the component chart, and so does a helm deployment
\* of the released chart of that name (componentChart).
UpgradeV3(c, componentChart) ==
    LET options == Component \o <<"options">>
        values  == {p \in DOMAIN c : IsPrefix(Component, p) /\ ~IsPrefix(options, p)}
        helm    == At(Helm \o <<"componentChart">>, {})
                   @@ Join(c, values, Helm \o <<"values">>)
                   @@ Keep(c, options, Helm, {"replaceImageTags", "force", "wait", "timeout", "rollback", "tillerNamespace"})
        n == IF Has(c, Component) THEN Replace(Convert(c, 3), Helm, helm) ELSE Convert(c, 3)
    IN  IF componentChart
        THEN At(Helm \o <<"componentChart">>, UNION {c[p] : p \in {p \in DOMAIN c : IsPrefix(Chart, p)}})
             @@ Without(n, Chart)
        ELSE n

\* The chart can be that chart: its name, repository and version are given.
NamesChart(c) == {Chart \o <<k>> : k \in {"name", "repo", "version"}} \subseteq DOMAIN c

UpgradeV4(c) ==
    LET n == Convert(c, 4)
    IN  IF Has(c, Helm)
        THEN At(Helm \o <<"v2">>, {})
             @@ Rename(c, Helm, Helm, [atomic |-> "rollback"])
             @@ Without(n, Helm \o <<"atomic">>)
        ELSE n

-----------------------------------------------------------------------------
(* v1beta5 to v1beta9                                                      *)

UpgradeV5(c) ==
    Rename(c, Build \o <<"custom">>, Build \o <<"custom">>, [args |-> "flags"]) @@ Convert(c, 5)

UpgradeV6(c) ==
    Rename(c, <<"dev", "sync">>, <<"dev", "sync">>, [initialSync |-> "downloadOnInitialSync"])
    @@ Rename(c, <<"images">>, <<"images">>, [tags |-> "tag"])
    @@ Convert(c, 6)

UpgradeV7(c) ==
    Rename(c, Build \o <<"kaniko">>, Build \o <<"kaniko">>, [args |-> "flags"])
    @@ Rename(c, <<"deployments", "kubectl">>, <<"deployments", "kubectl">>, [applyArgs |-> "flags"])
    @@ Convert(c, 7)

UpgradeV8(c) ==
    (IF Has(c, <<"images">>) THEN At(<<"images", "preferSyncOverRebuild">>, {}) ELSE <<>>) @@ Convert(c, 8)

\* dev.terminal.disabled became its opposite, defaultEnabled: a value made from it is false.
Negated(value) == <<"dev", "terminal", "disabled">> \in value

\* The sync section is taken to name the image of the configuration if it names one.
UpgradeV9(c) ==
    LET interactive == <<"dev", "interactive">>
        old         == interactive \o <<"terminal">>
        n           == Convert(c, 9)
        tags == IF <<"images", "tags">> \in DOMAIN c
                THEN Join(c, {<<"images", "tags">>, <<"images", "tagsAppendRandom">>}, <<"images", "tags">>)
                ELSE <<>>
        strategy == IF <<"dev", "sync", "imageName">> \in DOMAIN c
                    THEN Rename(c, <<"images">>, <<"images">>, [rebuildStrategy |-> "preferSyncOverRebuild"])
                    ELSE <<>>
        sync == IF Has(c, <<"dev", "sync">>)
                THEN At(<<"dev", "sync", "waitInitialSync">>, Value(c, <<"dev", "sync", "waitInitialSync">>))
                     @@ At(<<"dev", "sync", "polling">>, {})
                ELSE <<>>
        default  == interactive \o <<"defaultEnabled">>
        enabled  == default \in DOMAIN c /\ ~Negated(c[default])
        terminal == Keep(c, old, <<"dev", "terminal">>,
                         {"imageName", "labelSelector", "containerName", "namespace", "command", "workDir"})
                    @@ (IF enabled THEN <<>> ELSE At(<<"dev", "terminal", "disabled">>, Value(c, default)))
        dependency == IF Has(c, <<"dependencies">>) /\ <<"dependencies", "name">> \notin DOMAIN c
                      THEN At(<<"dependencies", "name">>, {}) ELSE <<>>
    IN  tags @@ strategy @@ sync @@ dependency
        @@ (IF enabled THEN At(<<"dev", "deprecatedInteractiveEnabled">>, c[default]) ELSE <<>>)
        @@ Keep(c, interactive \o <<"images">>, <<"dev", "deprecatedInteractiveImages">>, {"name", "entrypoint", "cmd"})
        @@ (IF Has(c, old) THEN Replace(n, <<"dev", "terminal">>, terminal) ELSE n)

-----------------------------------------------------------------------------
(* v1beta10                                                                *)

When == <<"hooks", "when">>

UpgradeV10(c) ==
    LET n     == Convert(c, 10)
        where == <<"hooks", "where", "container">>
        Default(section, key) ==
            IF Has(c, section) THEN At(section \o <<key>>, Value(c, section \o <<key>>)) ELSE <<>>
        image == [section \in {<<"dev", "replacePods">>, <<"dev", "ports">>, <<"dev", "sync">>, <<"dev", "terminal">>} |->
                     Rename(c, section, section, [imageSelector |-> "imageName"])]
        container == Keep(c, where, <<"hooks", "container">>, {Last(p) : p \in {p \in Leaves[11] : IsPrefix(<<"hooks", "container">>, p)}})
        events    == {p \in DOMAIN c : IsPrefix(When, p)}
    IN  Default(<<"dependencies">>, "overwriteVars") @@ Default(<<"commands">>, "appendArgs")
        @@ image[<<"dev", "replacePods">>] @@ image[<<"dev", "ports">>]
        @@ image[<<"dev", "sync">>] @@ image[<<"dev", "terminal">>]
        @@ Join(c, {<<"dev", "logs", "images">>, <<"dev", "logs", "selectors", "imageSelector">>},
                <<"dev", "logs", "selectors", "imageSelector">>)
        @@ Join(c, events, <<"hooks", "events">>)
        @@ (IF Has(c, where) THEN Replace(n, <<"hooks", "container">>, container) ELSE n)
=============================================================================
