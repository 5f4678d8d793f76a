--------------------------- MODULE UpgradeLatest ---------------------------
(***************************************************************************)
(* The upgrade from v1beta11 to the latest version, which builds most      *)
(* sections anew (pkg/devspace/config/versions/v1beta11/upgrade.go).       *)
(***************************************************************************)
EXTENDS Upgrade

Pipelines == <<"pipelines", "run">>

\* Mutant: the variables are left in the copy, where they are still a list.
ClearedButVars(c) ==
    LET byHand == {<<"profiles", "replace">>, <<"profiles", "merge">>, <<"profiles", "strategicMerge">>,
                   <<"deployments">>, <<"dev">>, <<"dependencies">>, <<"commands">>, <<"pullSecrets">>, <<"images">>}
    IN  Only(c, {p \in DOMAIN c : ~\E s \in byHand : IsPrefix(s, p)})

\* The sections that are converted by hand are cleared in the copy that Convert reads.
Cleared(c) ==
    LET byHand == {<<"profiles", "replace">>, <<"profiles", "merge">>, <<"profiles", "strategicMerge">>,
                   <<"deployments">>, <<"dev">>, <<"dependencies">>, <<"commands">>, <<"pullSecrets">>,
                   <<"vars">>, <<"images">>}
    IN  Only(c, {p \in DOMAIN c : ~\E s \in byHand : IsPrefix(s, p)})

LatestProfiles(c) ==
    LET Part(s) == Rename(c, <<"profiles", s>>, <<"profiles", s>>,
                          [images |-> "images", dev |-> "dev", hooks |-> "hooks",
                           oldDeployments |-> "deployments", oldDependencies |-> "dependencies",
                           oldCommands |-> "commands", oldPullSecrets |-> "pullSecrets", oldVars |-> "vars"])
    IN  Part("merge") @@ Part("replace")

\* The variable DEVSPACE_ENV_FILE that the upgrade adds is another element.
LatestVars(c) ==
    Keep(c, <<"vars">>, <<"vars">>,
         {"name", "question", "options", "password", "validationPattern", "validationMessage", "noCache",
          "alwaysResolve", "value", "default", "source", "command", "args"})
    @@ Keep(c, <<"vars", "commands">>, <<"vars", "commands">>, {"command", "args", "os"})

\* A dependency without a source is skipped.
LatestDependencies(c) ==
    LET dep    == <<"dependencies">>
        source == <<"dependencies", "source">>
        config == source \o <<"configName">>
        joined == IF source \o <<"path">> \in DOMAIN c THEN "path" ELSE "subPath"
    IN  IF ~Has(c, source) THEN <<>>
        ELSE (IF config \in DOMAIN c
              THEN Join(c, {config, source \o <<joined>>}, dep \o <<joined>>) ELSE <<>>)
             @@ Join(c, {dep \o <<"profiles">>, dep \o <<"profile">>}, dep \o <<"profiles">>)
             @@ Join(c, {dep \o <<"vars", "name">>, dep \o <<"vars", "value">>}, dep \o <<"vars">>)
             @@ Rename(c, source, dep, [git |-> "git", cloneArgs |-> "cloneArgs", disableShallow |-> "disableShallow",
                                        disablePull |-> "disableShallow", subPath |-> "subPath", branch |-> "branch",
                                        tag |-> "tag", revision |-> "revision", path |-> "path"])
             @@ Keep(c, dep, dep, {"name", "disableProfileActivation", "overwriteVars", "ignoreDependencies",
                                   "namespace", "disabled"})

LatestPullSecrets(c) ==
    Keep(c, <<"pullSecrets">>, <<"pullSecrets">>,
         {"registry", "username", "password", "email", "secret", "serviceAccounts"})

LatestImages(c) ==
    LET image == <<"images">>
        In(builder) == Build \o <<builder>>
        \* The options of a later builder replace all three of an earlier one.
        given   == SelectSeq(<<"buildKit", "docker", "kaniko">>, LAMBDA b : Has(c, In(b) \o <<"options">>))
        options == IF given = <<>> THEN <<>>
                   ELSE Keep(c, In(given[1]) \o <<"options">>, image, {"network", "buildArgs", "target"})
        docker == Keep(c, In("docker"), image \o <<"docker">>,
                       {"preferMinikube", "disableFallback", "useBuildKit", "useCli", "args"})
        cluster == Keep(c, In("buildKit") \o <<"inCluster">>, image \o <<"buildKit", "inCluster">>,
                        {"name", "namespace", "rootless", "image", "nodeSelector", "noCreate", "noRecreate",
                         "noLoad", "createArgs"})
        buildKit == Keep(c, In("buildKit"), image \o <<"buildKit">>, {"preferMinikube", "args", "command"})
        custom == Keep(c, In("custom"), image \o <<"custom">>,
                       {"command", "onChange", "args", "appendArgs", "imageFlag", "imageTagOnly"})
                  @@ (IF Has(c, In("custom"))   \* not set means true now
                      THEN At(image \o <<"custom", "skipImageArg">>, Value(c, In("custom") \o <<"skipImageArg">>))
                      ELSE <<>>)
                  @@ Keep(c, In("custom") \o <<"commands">>, image \o <<"custom", "commands">>, {"command", "os"})
        kaniko == Keep(c, In("kaniko"), image \o <<"kaniko">>,
                       {"snapshotMode", "image", "initImage", "args", "command", "namespace", "insecure",
                        "pullSecret", "skipPullSecretMount", "nodeSelector", "tolerations", "serviceAccount",
                        "annotations", "labels", "initEnv", "env", "envFrom", "cache"})
                  @@ Keep(c, In("kaniko") \o <<"resources">>, image \o <<"kaniko", "resources">>, {"requests", "limits"})
        mounts == In("kaniko") \o <<"additionalMounts">>
        Mount(s) == Keep(c, mounts \o <<s>>, image \o <<"kaniko", "additionalMounts", s>>, {"name", "defaultMode"})
                    @@ Keep(c, mounts \o <<s, "items">>, image \o <<"kaniko", "additionalMounts", s, "items">>,
                            {"key", "path", "mode"})
        newMounts == Keep(c, mounts, image \o <<"kaniko", "additionalMounts">>, {"readOnly", "mountPath", "subPath"})
                     @@ Mount("secret") @@ Mount("configMap")
    IN  IF ~Has(c, image) THEN <<>>
        ELSE At(image \o <<"rebuildStrategy">>, Value(c, image \o <<"rebuildStrategy">>))
             @@ Rename(c, image, image, [injectLegacyRestartHelper |-> "injectRestartHelper"])
             @@ Keep(c, image, image, {"image", "tags", "dockerfile", "context", "entrypoint", "cmd",
                                       "createPullSecret", "restartHelperPath", "appendDockerfileInstructions"})
             @@ options
             @@ Join(c, {In("docker") \o <<"skipPush">>, In("buildKit") \o <<"skipPush">>}, image \o <<"skipPush">>)
             @@ docker @@ cluster @@ buildKit @@ custom @@ kaniko @@ newMounts

\* A deployment without a name is skipped, and one with helm and kubectl is a helm deployment.
LatestDeployments(c) ==
    LET deployment == <<"deployments">>
        kubectl    == <<"deployments", "kubectl">>
        git        == Chart \o <<"git">>
        helm == Keep(c, Helm, Helm, {"values", "valuesFiles", "displayOutput", "templateArgs"})
                @@ Join(c, {Helm \o <<k>> : k \in {"upgradeArgs", "wait", "timeout", "atomic", "cleanupOnFail",
                                                   "force", "disableHooks"}}, Helm \o <<"upgradeArgs">>)
                @@ Keep(c, Chart, Chart, {"name", "version", "repo", "username", "password"})
                @@ Rename(c, git, Chart, [git |-> "url", cloneArgs |-> "cloneArgs", branch |-> "branch", tag |-> "tag",
                                          revision |-> "revision", subPath |-> "subPath"])
                @@ Rename(c, Helm, deployment, [updateImageTags |-> "replaceImageTags"])
        newKubectl == Keep(c, kubectl, kubectl, {"manifests", "kustomize", "kustomizeArgs", "createArgs", "applyArgs"})
                      @@ Rename(c, kubectl, kubectl, [kubectlBinaryPath |-> "cmdPath"])
                      @@ Rename(c, kubectl, deployment, [updateImageTags |-> "replaceImageTags"])
    IN  IF deployment \o <<"name">> \notin DOMAIN c THEN <<>>
        ELSE Keep(c, deployment, deployment, {"name", "namespace"})
             @@ (IF Has(c, Helm) THEN helm ELSE newKubectl)

LatestCommands(c) ==
    Keep(c, <<"commands">>, <<"commands">>, {"name", "command", "args", "appendArgs", "description"})

\* What the four pipelines that replace the fixed order of v5 are written from.
LatestPipelines(c) ==
    LET terminal == <<"dev", "terminal">>
        hasSelector == {terminal \o <<"imageSelector">>, terminal \o <<"labelSelector">>} \cap DOMAIN c # {}
        written == {<<"images", "image">>, <<"images", "createPullSecret">>, Build \o <<"disabled">>,
                    <<"deployments", "name">>, <<"deployments", "disabled">>, <<"deployments", "concurrent">>,
                    <<"dependencies", "name">>, <<"dependencies", "disabled">>, <<"pullSecrets", "disabled">>}
                   \cup (IF hasSelector THEN {} ELSE {terminal \o <<"command">>})
    IN  At(Pipelines, UNION {Value(c, p) : p \in written})

-----------------------------------------------------------------------------
(* mergeDevConfig: the sections of dev are merged into dev pods. All       *)
(* sections of a configuration with one element per list select the same   *)
(* pod and container.                                                      *)

HasSelector(c, section) == {section \o <<"labelSelector">>, section \o <<"imageSelector">>} \cap DOMAIN c # {}

\* The sections in the order in which they are merged; a section without selector is skipped,
\* but for the logs.
DevSections == <<<<"dev", "replacePods">>, <<"dev", "ports">>, <<"dev", "sync">>, <<"dev", "terminal">>,
                 <<"dev", "logs", "selectors">>>>
Merged(c) ==
    LET Taken(s) == HasSelector(c, s) \/ (s = Last(DevSections) /\ Has(c, s))
    IN  SelectSeq(DevSections, Taken)

\* The pod keeps the selector and the name of the first section and the namespace of the last.
DevPodOf(c) ==
    LET sections == Merged(c)
    IN  IF sections = <<>> THEN <<>>
        ELSE Keep(c, sections[1], <<"dev">>, {"labelSelector", "imageSelector", "name"})
             @@ Keep(c, Last(sections), <<"dev">>, {"namespace"})

\* The container takes its name from the first section that gives one. Of the ports only the
\* reverse ones look for it.
DevContainerOf(c) ==
    LET reverse == Has(c, <<"dev", "ports", "reverseForward">>)
        naming  == SelectSeq(Merged(c), LAMBDA s : /\ s \o <<"containerName">> \in DOMAIN c
                                                   /\ s = <<"dev", "ports">> => reverse)
    IN  IF naming = <<>> THEN <<>>
        ELSE Rename(c, naming[1], <<"dev">>, [container |-> "containerName"])

DevReplacePods(c) ==
    LET pod   == <<"dev", "replacePods">>
        paths == <<"dev", "persistPaths">>
    IN  IF ~HasSelector(c, pod) THEN <<>>
        ELSE Keep(c, pod \o <<"patches">>, <<"dev", "patches">>, {"op", "path", "value"})
             @@ Keep(c, pod \o <<"persistenceOptions">>, <<"dev", "persistenceOptions">>,
                     {"size", "storageClassName", "accessModes", "readOnly", "name"})
             @@ Rename(c, pod, <<"dev">>, [devImage |-> "replaceImage"])
             @@ Keep(c, pod \o <<"persistPaths">>, paths, {"path", "volumePath", "readOnly", "skipPopulate"})
             @@ Keep(c, pod \o <<"persistPaths", "initContainer", "resources">>, paths \o <<"initContainer", "resources">>,
                     {"requests", "limits"})

\* A mapping without a local port is skipped.
DevPorts(c) ==
    LET ports == <<"dev", "ports">>
        Mapping(from, to) ==
            IF from \o <<"port">> \notin DOMAIN c THEN <<>>
            ELSE Join(c, {from \o <<"port">>, from \o <<"remotePort">>}, to \o <<"port">>)
                 @@ Keep(c, from, to, {"bindAddress"})
    IN  IF ~HasSelector(c, ports) THEN <<>>
        ELSE Mapping(ports \o <<"forward">>, <<"dev", "ports">>)
             @@ Mapping(ports \o <<"reverseForward">>, <<"dev", "reversePorts">>)
             @@ (IF Has(c, ports \o <<"reverseForward">>) THEN Keep(c, ports, <<"dev">>, {"arch"}) ELSE <<>>)

DevSync(c) ==
    LET sync   == <<"dev", "sync">>
        upload == <<"dev", "sync", "onUpload">>
        remote == upload \o <<"execRemote">>
        Command(k) == Keep(c, remote \o <<k>>, remote \o <<k>>, {"command", "args"})
    IN  IF ~HasSelector(c, sync) THEN <<>>
        ELSE At(sync \o <<"path">>, Value(c, sync \o <<"localSubPath">>) \cup Value(c, sync \o <<"containerPath">>))
             @@ (IF Has(c, <<"dev", "logs">>)
                 THEN At(sync \o <<"printLogs">>, Value(c, <<"dev", "logs", "sync">>)) ELSE <<>>)
             @@ Keep(c, sync, sync, {"excludePaths", "excludeFile", "downloadExcludePaths", "downloadExcludeFile",
                                     "uploadExcludePaths", "uploadExcludeFile", "initialSync", "initialSyncCompareBy",
                                     "polling", "waitInitialSync", "disableDownload", "disableUpload"})
             @@ Keep(c, sync \o <<"bandwidthLimits">>, sync \o <<"bandwidthLimits">>, {"download", "upload"})
             @@ Keep(c, upload, upload, {"restartContainer"})
             @@ Keep(c, upload \o <<"exec">>, upload \o <<"exec">>,
                     {"name", "command", "args", "failOnError", "local", "onChange"})
             @@ Keep(c, remote, remote, {"command", "args"})
             @@ Command("onBatch") @@ Command("onDirCreate") @@ Command("onFileChange")

\* Mutant: the working directory is forgotten.
DevTerminalNoWorkDir(c) ==
    LET terminal == <<"dev", "terminal">>
    IN  IF ~HasSelector(c, terminal) THEN <<>>
        ELSE Rename(c, terminal, terminal, [command |-> "command", enabled |-> "disabled"])
             @@ [p \in {terminal \o <<"disableReplace">>, terminal \o <<"disableScreen">>} |-> {}]

\* Terminal and logs are marked as not replacing the container, as in v5.
DevTerminal(c) ==
    LET terminal == <<"dev", "terminal">>
    IN  IF ~HasSelector(c, terminal) THEN <<>>
        ELSE Rename(c, terminal, terminal, [command |-> "command", workDir |-> "workDir", enabled |-> "disabled"])
             @@ [p \in {terminal \o <<"disableReplace">>, terminal \o <<"disableScreen">>} |-> {}]

\* The selectors of the logs are not checked: one without selector makes a pod without one.
DevLogs(c) ==
    IF ~Has(c, <<"dev", "logs", "selectors">>) THEN <<>>
    ELSE At(<<"dev", "logs", "enabled">>, Value(c, <<"dev", "logs", "disabled">>))
         @@ Rename(c, <<"dev", "logs">>, <<"dev", "logs">>, [lastLines |-> "showLast"])

\* The restart helper is switched off in every container, which is then moved into its pod.
MergeDevConfig(c) ==
    LET pod == DevPodOf(c) @@ DevContainerOf(c) @@ DevReplacePods(c) @@ DevPorts(c) @@ DevSync(c)
               @@ DevTerminal(c) @@ DevLogs(c)
    IN  IF pod = <<>> THEN <<>> ELSE At(<<"dev", "restartHelper", "inject">>, {}) @@ pod

\* dev.open is moved into every dev pod that exists by then, and there is none yet.
DevOpen(c, pods) == IF pods = <<>> THEN <<>> ELSE Keep(c, <<"dev", "open">>, <<"dev", "open">>, {"url"})

UpgradeV11(c) ==
    LatestProfiles(c) @@ LatestVars(c) @@ LatestDependencies(c) @@ LatestPullSecrets(c) @@ LatestImages(c)
    @@ LatestPipelines(c) @@ LatestDeployments(c) @@ LatestCommands(c) @@ DevOpen(c, <<>>) @@ MergeDevConfig(c)
    @@ Convert(Cleared(c), 11)
=============================================================================
