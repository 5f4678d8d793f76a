-------------------------- MODULE MCConfigUpgrade --------------------------
(* The files for TLC: one or two settings and what they cannot do without. *)
EXTENDS ConfigUpgrade, SchemaLatest

\* The settings that a section must have for its others to mean anything.
Needed == {
    [in |-> <<>>, needs |-> {<<"version">>, <<"name">>}],
    [in |-> <<"images">>, needs |-> {<<"images", "image">>}],
    [in |-> <<"images", "tagsAppendRandom">>, needs |-> {<<"images", "tags">>}],
    [in |-> <<"images", "preferSyncOverRebuild">>, needs |-> {<<"dev", "sync", "imageName">>}],
    [in |-> <<"images", "build", "custom">>, needs |-> {<<"images", "build", "custom", "command">>}],
    [in |-> <<"deployments">>, needs |-> {<<"deployments", "name">>}],
    [in |-> <<"deployments", "namespace">>, needs |-> {<<"deployments", "helm", "values">>}],
    [in |-> <<"deployments", "disabled">>, needs |-> {<<"deployments", "helm", "values">>}],
    [in |-> <<"deployments", "concurrent">>, needs |-> {<<"deployments", "helm", "values">>}],
    [in |-> <<"deployments", "updateImageTags">>, needs |-> {<<"deployments", "helm", "values">>}],
    [in |-> <<"deployments", "name">>, needs |-> {<<"deployments", "helm", "values">>}],
    [in |-> <<"deployments", "helm">>, needs |-> {<<"deployments", "helm", "values">>}],
    [in |-> <<"deployments", "component">>, needs |-> {<<"deployments", "component", "containers", "image">>}],
    [in |-> <<"deployments", "helm", "chart">>, needs |-> {<<"deployments", "helm", "chart", k>> : k \in {"name", "repo", "version"}}],
    [in |-> <<"deployments", "kubectl">>, needs |-> {<<"deployments", "kubectl", "manifests">>}],
    [in |-> <<"deployments", "kubectl", "patches">>,
     needs |-> {<<"deployments", "kubectl", "patches">> \o p : p \in {<<"target", "name">>, <<"op">>, <<"path">>, <<"value">>}}],
    [in |-> <<"images", "custom">>, needs |-> {<<"images", "custom", "command">>}],
    [in |-> <<"dev">>, needs |-> {<<"dev", "labelSelector">>}],
    [in |-> <<"dev", "reversePorts">>, needs |-> {<<"dev", "reversePorts", "port">>}],
    [in |-> <<"dev", "persistPaths">>, needs |-> {<<"dev", "persistPaths", "path">>}],
    [in |-> <<"dev", "containers", "reversePorts">>, needs |-> {<<"dev", "containers", "reversePorts", "port">>}],
    [in |-> <<"dev", "containers", "persistPaths">>, needs |-> {<<"dev", "containers", "persistPaths", "path">>}],
    [in |-> <<"dev", "containers", "sync", "onUpload", "exec">>,
     needs |-> {<<"dev", "containers", "sync", "onUpload", "exec", "command">>}],
    [in |-> <<"require", "plugins">>, needs |-> {<<"require", "plugins", k>> : k \in {"name", "version"}}],
    [in |-> <<"require", "commands">>, needs |-> {<<"require", "commands", k>> : k \in {"name", "version"}}],
    [in |-> <<"dev", "sync">>, needs |-> {<<"dev", "sync", "labelSelector">>}],
    [in |-> <<"dev", "sync", "onUpload", "exec">>, needs |-> {<<"dev", "sync", "onUpload", "exec", "command">>}],
    [in |-> <<"dev", "ports">>, needs |-> {<<"dev", "ports", "labelSelector">>}],
    [in |-> <<"dev", "ports", "containerName">>, needs |-> {<<"dev", "ports", "reverseForward", "port">>}],
    [in |-> <<"dev", "ports", "arch">>, needs |-> {<<"dev", "ports", "reverseForward", "port">>}],
    [in |-> <<"dev", "ports", "forward">>, needs |-> {<<"dev", "ports", "forward", "port">>}],
    [in |-> <<"dev", "ports", "reverseForward">>, needs |-> {<<"dev", "ports", "reverseForward", "port">>}],
    [in |-> <<"dev", "terminal">>, needs |-> {<<"dev", "terminal", "labelSelector">>}],
    [in |-> <<"dev", "interactive">>, needs |-> {<<"dev", "interactive", "terminal", "labelSelector">>}],
    [in |-> <<"dev", "overrideImages">>, needs |-> {<<"dev", "overrideImages", "name">>}],
    [in |-> <<"dev", "replacePods">>, needs |-> {<<"dev", "replacePods", "labelSelector">>}],
    [in |-> <<"dev", "replacePods", "persistPaths">>, needs |-> {<<"dev", "replacePods", "persistPaths", "path">>}],
    [in |-> <<"dev", "logs">>, needs |-> {<<"dev", "logs", "selectors", "labelSelector">>}],
    [in |-> <<"dev", "logs", "sync">>, needs |-> {<<"dev", "sync", "labelSelector">>}],
    [in |-> <<"dev", "selectors">>, needs |-> {<<"dev", "sync", "selector">>, <<"dev", "selectors", "name">>, <<"dev", "selectors", "labelSelector">>}],
    [in |-> <<"dev", "sync", "selector">>, needs |-> {<<"dev", "selectors", "labelSelector">>, <<"dev", "selectors", "name">>}],
    [in |-> <<"dev", "ports", "selector">>, needs |-> {<<"dev", "selectors", "labelSelector">>, <<"dev", "selectors", "name">>}],
    [in |-> <<"dev", "terminal", "selector">>, needs |-> {<<"dev", "selectors", "labelSelector">>, <<"dev", "selectors", "name">>}],
    [in |-> <<"dependencies">>, needs |-> {<<"dependencies", "source", "git">>, <<"dependencies", "git">>}],
    [in |-> <<"hooks">>, needs |-> {<<"hooks", "command">>, <<"hooks", "when", "before", "images">>, <<"hooks", "events">>}],
    [in |-> <<"hooks", "where", "container">>, needs |-> {<<"hooks", "where", "container", "labelSelector">>}],
    [in |-> <<"hooks", "container">>, needs |-> {<<"hooks", "container", "labelSelector">>}],
    [in |-> <<"vars">>, needs |-> {<<"vars", "name">>}],
    [in |-> <<"commands">>, needs |-> {<<"commands", "name">>, <<"commands", "command">>}],
    [in |-> <<"pullSecrets">>, needs |-> {<<"pullSecrets", "registry">>}],
    [in |-> <<"profiles">>, needs |-> {<<"profiles", "name">>}]
  }

Complete(v, P) == (P \cup UNION {n.needs : n \in {n \in Needed : \E p \in P : IsPrefix(n.in, p)}}) \cap Leaves[v]

Parsed(v, P) == [from |-> v, settings |-> P, imageParses |-> TRUE]

Singles  == UNION {{Parsed(v, Complete(v, {p})) : p \in Leaves[v]} : v \in Versions}
\* The sections in which settings interact, and the versions that rewrite them.
PairsIn  == {<<2, "dev">>, <<10, "hooks">>, <<11, "dev">>, <<11, "deployments">>}
Pairs    == UNION {{Parsed(s[1], Complete(s[1], {p, q})) :
                       p, q \in {p \in Leaves[s[1]] : p[1] = s[2]}} : s \in PairsIn}
Dangling == {Parsed(v, Complete(v, {}) \cup {s \o <<"selector">>}) : v \in 1..2, s \in Sections}
\* Images without a name, and with one that is none.
Images(v) == {p \in Leaves[v] : p[1] = "images"}
NoNames  == UNION {{Parsed(v, Complete(v, {p}) \ {<<"images", "image">>}) : p \in Images(v)} : v \in Versions \ {Latest}}
BadNames == {[Parsed(v, Complete(v, Images(v) \cap {<<"images", "image">>})) EXCEPT !.imageParses = FALSE] :
                v \in Versions \ {Latest}}
MCFiles  == Singles \cup Pairs \cup Dangling \cup NoNames \cup BadNames
=============================================================================
