---------------------------- MODULE SchemaV1Late ----------------------------
(***************************************************************************)
(* The configuration schemas v1beta9 to v1beta11.                          *)
(* Every struct of a schema is a function from the keys of its fields to   *)
(* what they hold. A definition has the structs of one stretch of the      *)
(* file; Same takes the ones the version before already had.               *)
(***************************************************************************)
EXTENDS SchemaV1

-----------------------------------------------------------------------------
(* v1beta9                                                                 *)

V9Config ==
    [Config |-> Scalars({"version", "name"}) @@ One([dev |-> "DevConfig"]) @@
         ListOf([deployments |-> "DeploymentConfig", dependencies |-> "DependencyConfig",
         hooks |-> "HookConfig", pullSecrets |-> "PullSecretConfig", commands |-> "CommandConfig",
         vars |-> "Variable", profiles |-> "ProfileConfig"]) @@ MapOf([images |-> "ImageConfig"]),
     ImageConfig |-> Scalars({"image", "tagsAppendRandom", "dockerfile", "context",
         "createPullSecret", "preferSyncOverRebuild", "injectRestartHelper", "restartHelperPath",
         "rebuildStrategy"}) @@ Lists({"tags", "entrypoint", "cmd",
         "appendDockerfileInstructions"}) @@ One([build |-> "BuildConfig"]),
     BuildConfig |-> Scalars({"disabled"}) @@ One([docker |-> "DockerConfig",
         kaniko |-> "KanikoConfig", buildKit |-> "BuildKitConfig", custom |-> "CustomConfig"]),
     DockerConfig |-> Scalars({"preferMinikube", "skipPush", "disableFallback", "useBuildKit",
         "useCli"}) @@ Lists({"args"}) @@ One([options |-> "BuildOptions"])]

V9BuildKitConfig ==
    [BuildKitConfig |-> Scalars({"skipPush", "preferMinikube"}) @@ Lists({"args", "command"}) @@
         One([inCluster |-> "BuildKitInClusterConfig", options |-> "BuildOptions"]),
     BuildKitInClusterConfig |-> Scalars({"name", "namespace", "rootless", "image",
         "nodeSelector", "noCreate", "noRecreate", "noLoad"}) @@ Lists({"createArgs"}),
     KanikoConfig |-> Scalars({"cache", "snapshotMode", "image", "initImage", "namespace",
         "insecure", "pullSecret", "skipPullSecretMount", "serviceAccount"}) @@ Lists({"args",
         "command"}) @@ Maps({"nodeSelector", "annotations", "labels", "initEnv", "env",
         "envFrom"}) @@ One([resources |-> "KanikoPodResources", options |-> "BuildOptions"]) @@
         ListOf([additionalMounts |-> "KanikoAdditionalMount"]),
     KanikoPodResources |-> Maps({"requests", "limits"})]

V9KanikoAdditionalMount(old) ==
    Same(old, {"KanikoAdditionalMount", "KanikoAdditionalMountConfigMap",
        "KanikoAdditionalMountSecret", "KanikoAdditionalMountKeyToPath", "BuildOptions",
        "DeploymentConfig"}) @@
    [CustomConfig |-> Scalars({"command", "imageFlag", "imageTagOnly", "skipImageArg"}) @@
         Lists({"args", "appendArgs", "onChange"}) @@ ListOf([commands |-> "CustomConfigCommand"]),
     CustomConfigCommand |-> Scalars({"command", "os"})]

V9HelmConfig(old) ==
    Same(old, {"ChartConfig", "KubectlConfig", "DevConfig", "PortMapping", "OpenConfig",
        "SyncOnDownload"}) @@
    [HelmConfig |-> Scalars({"componentChart", "replaceImageTags", "wait", "displayOutput",
         "timeout", "force", "atomic", "cleanupOnFail", "recreate", "disableHooks", "driver", "path",
         "v2", "tillerNamespace"}) @@ Lists({"valuesFiles", "deleteArgs", "templateArgs",
         "upgradeArgs", "fetchArgs"}) @@ Maps({"values"}) @@ One([chart |-> "ChartConfig"]),
     PortForwardingConfig |-> Scalars({"imageName", "containerName", "namespace", "arch"}) @@
         Maps({"labelSelector"}) @@ ListOf([forward |-> "PortMapping",
         reverseForward |-> "PortMapping"]),
     SyncConfig |-> Scalars({"imageName", "containerName", "namespace", "localSubPath",
         "containerPath", "initialSync", "initialSyncCompareBy", "disableDownload", "disableUpload",
         "waitInitialSync", "arch", "throttleChangeDetection"}) @@ Lists({"excludePaths",
         "downloadExcludePaths", "uploadExcludePaths"}) @@ Maps({"labelSelector"}) @@
         One([bandwidthLimits |-> "BandwidthLimits", onUpload |-> "SyncOnUpload",
         onDownload |-> "SyncOnDownload"]),
     SyncOnUpload |-> Scalars({"restartContainer"}) @@ One([execRemote |-> "SyncExecCommand"])]

V9SyncExecCommand(old) ==
    Same(old, {"SyncCommand", "BandwidthLimits", "AutoReloadConfig", "InteractiveConfig",
        "InteractiveImageConfig"}) @@
    [SyncExecCommand |-> Scalars({"command"}) @@ Lists({"args"}) @@
         One([onFileChange |-> "SyncCommand", onDirCreate |-> "SyncCommand",
         onBatch |-> "SyncCommand"]),
     LogsConfig |-> Scalars({"disabled", "showLast", "sync"}) @@ Lists({"images"}) @@
         ListOf([selectors |-> "LogsSelector"]),
     LogsSelector |-> Scalars({"namespace", "containerName"}) @@ Maps({"labelSelector"}),
     TerminalConfig |-> Scalars({"imageName", "containerName", "namespace", "workDir"}) @@
         Lists({"command"}) @@ Maps({"labelSelector"}),
     DependencyConfig |-> Scalars({"name", "profile", "skipBuild", "ignoreDependencies",
         "namespace"}) @@ Lists({"profileParents"}) @@ One([source |-> "SourceConfig"]) @@
         ListOf([vars |-> "DependencyVar"]),
     DependencyVar |-> Scalars({"name", "value"}),
     SourceConfig |-> Scalars({"git", "disableShallow", "subPath", "branch", "tag", "revision",
         "configName", "path"}) @@ Lists({"cloneArgs"})]

V9HookConfig ==
    [HookConfig |-> Scalars({"command", "os", "background", "silent"}) @@ Lists({"args"}) @@
         One([upload |-> "HookSyncConfig", download |-> "HookSyncConfig", logs |-> "HookLogsConfig",
         wait |-> "HookWaitConfig", where |-> "HookWhereConfig", when |-> "HookWhenConfig"]),
     HookWaitConfig |-> Scalars({"running", "terminatedWithCode", "timeout"}),
     HookLogsConfig |-> Scalars({"tailLines"}),
     HookSyncConfig |-> Scalars({"localPath", "containerPath"}),
     HookWhereConfig |-> One([container |-> "HookContainer"]),
     HookContainer |-> Scalars({"pod", "namespace", "imageName", "containerName", "wait",
         "timeout"}) @@ Maps({"labelSelector"}),
     HookWhenConfig |-> One([before |-> "HookWhenAtConfig", after |-> "HookWhenAtConfig",
         onError |-> "HookWhenAtConfig"]),
     HookWhenAtConfig |-> Scalars({"images", "purgeDeployments", "deployments", "dependencies",
         "pullSecrets"}),
     CommandConfig |-> Scalars({"name", "command", "description"}),
     Variable |-> Scalars({"name", "question", "password", "validationPattern",
         "validationMessage", "noCache", "source", "command"}) @@ Anything({"default"}) @@
         Lists({"options", "args"}) @@ ListOf([commands |-> "VariableCommand"]),
     VariableCommand |-> Scalars({"command", "os"}) @@ Lists({"args"})]

V9ProfileConfig(old) ==
    Same(old, {"PatchConfig"}) @@
    [ProfileConfig |-> Scalars({"name", "description", "parent"}) @@
         One([replace |-> "ProfileConfigStructure", merge |-> "ProfileConfigStructure",
         strategicMerge |-> "ProfileConfigStructure"]) @@ ListOf([parents |-> "ProfileParent",
         patches |-> "PatchConfig"]),
     ProfileConfigStructure |-> Lists({"deployments", "dependencies", "hooks", "pullSecrets",
         "commands", "vars"}) @@ Maps({"images", "dev"}),
     ProfileParent |-> Scalars({"profile"}) @@ One([source |-> "SourceConfig"]),
     PullSecretConfig |-> Scalars({"registry", "username", "password", "email", "secret"}) @@
         Lists({"serviceAccounts"})]

\* The schema of a v1beta9 configuration, given that of the version before.
V9Schema(old) ==
    V9Config @@ V9BuildKitConfig @@ V9KanikoAdditionalMount(old) @@ V9HelmConfig(old) @@
    V9SyncExecCommand(old) @@ V9HookConfig @@ V9ProfileConfig(old)

-----------------------------------------------------------------------------
(* v1beta10                                                                *)

V10Config ==
    [Config |-> Scalars({"version", "name"}) @@ One([require |-> "RequireConfig",
         dev |-> "DevConfig"]) @@ ListOf([vars |-> "Variable", pullSecrets |-> "PullSecretConfig",
         deployments |-> "DeploymentConfig", hooks |-> "HookConfig", commands |-> "CommandConfig",
         profiles |-> "ProfileConfig", dependencies |-> "DependencyConfig"]) @@
         MapOf([images |-> "ImageConfig"]),
     RequireConfig |-> Scalars({"devspace"}) @@ ListOf([commands |-> "RequireCommand",
         plugins |-> "RequirePlugin"]),
     RequirePlugin |-> Scalars({"name", "version"}),
     RequireCommand |-> Scalars({"name", "versionRegEx", "version"}) @@ Lists({"versionArgs"}),
     ImageConfig |-> Scalars({"image", "dockerfile", "context", "createPullSecret",
         "injectRestartHelper", "restartHelperPath", "rebuildStrategy"}) @@ Lists({"tags",
         "entrypoint", "cmd", "appendDockerfileInstructions"}) @@ One([build |-> "BuildConfig"])]

V10BuildConfig(old) ==
    Same(old, {"BuildConfig", "DockerConfig", "BuildKitConfig", "BuildKitInClusterConfig"})

V10KanikoConfig(old) ==
    Same(old, {"KanikoConfig", "KanikoPodResources", "KanikoAdditionalMount",
        "KanikoAdditionalMountConfigMap", "KanikoAdditionalMountSecret"})

V10KanikoAdditionalMountKeyToPath(old) ==
    Same(old, {"KanikoAdditionalMountKeyToPath", "CustomConfig", "CustomConfigCommand",
        "BuildOptions", "DeploymentConfig"})

V10HelmConfig(old) ==
    Same(old, {"HelmConfig", "ChartConfig", "KubectlConfig", "PortMapping", "OpenConfig"}) @@
    [DevConfig |-> Scalars({"deprecatedInteractiveEnabled"}) @@ One([logs |-> "LogsConfig",
         autoReload |-> "AutoReloadConfig", terminal |-> "Terminal"]) @@
         ListOf([ports |-> "PortForwardingConfig", open |-> "OpenConfig", sync |-> "SyncConfig",
         replacePods |-> "ReplacePod", deprecatedInteractiveImages |-> "InteractiveImageConfig"]),
     ReplacePod |-> Scalars({"imageName", "imageSelector", "containerName", "namespace",
         "replaceImage"}) @@ Maps({"labelSelector"}) @@ ListOf([patches |-> "PatchConfig"]),
     PortForwardingConfig |-> Scalars({"name", "imageSelector", "imageName", "containerName",
         "namespace", "arch"}) @@ Maps({"labelSelector"}) @@ ListOf([forward |-> "PortMapping",
         reverseForward |-> "PortMapping"]),
     SyncConfig |-> Scalars({"name", "imageSelector", "imageName", "containerName", "namespace",
         "localSubPath", "containerPath", "excludeFile", "downloadExcludeFile", "uploadExcludeFile",
         "initialSync", "initialSyncCompareBy", "disableDownload", "disableUpload", "polling",
         "waitInitialSync", "arch", "throttleChangeDetection"}) @@ Lists({"excludePaths",
         "downloadExcludePaths", "uploadExcludePaths"}) @@ Maps({"labelSelector"}) @@
         One([bandwidthLimits |-> "BandwidthLimits", onUpload |-> "SyncOnUpload",
         onDownload |-> "SyncOnDownload"])]

V10SyncOnUpload(old) ==
    Same(old, {"SyncOnUpload", "SyncOnDownload", "SyncExecCommand", "SyncCommand",
        "BandwidthLimits", "LogsConfig", "AutoReloadConfig", "InteractiveImageConfig"}) @@
    [LogsSelector |-> Scalars({"imageSelector", "namespace", "containerName"}) @@
         Maps({"labelSelector"}),
     Terminal |-> Scalars({"imageSelector", "imageName", "containerName", "namespace", "workDir",
         "disabled"}) @@ Lists({"command"}) @@ Maps({"labelSelector"})]

V10DependencyConfig(old) ==
    Same(old, {"DependencyVar", "SourceConfig", "HookConfig", "HookWaitConfig",
        "HookLogsConfig", "HookSyncConfig", "HookWhereConfig", "HookWhenConfig"}) @@
    [DependencyConfig |-> Scalars({"name", "profile", "disableProfileActivation",
         "overwriteVars", "skipBuild", "ignoreDependencies", "namespace"}) @@ Lists({"profiles",
         "profileParents"}) @@ One([source |-> "SourceConfig", dev |-> "DependencyDev"]) @@
         ListOf([vars |-> "DependencyVar"]),
     DependencyDev |-> Scalars({"ports", "sync", "replacePods"}),
     HookContainer |-> Scalars({"pod", "namespace", "imageSelector", "imageName",
         "containerName", "wait", "timeout"}) @@ Maps({"labelSelector"})]

V10HookWhenAtConfig(old) ==
    Same(old, {"VariableCommand", "ProfileParent", "PatchConfig", "PullSecretConfig"}) @@
    [HookWhenAtConfig |-> Scalars({"images", "purgeDeployments", "deployments", "dependencies",
         "pullSecrets", "initialSync"}),
     CommandConfig |-> Scalars({"name", "command", "appendArgs", "description"}) @@
         Lists({"args"}),
     Variable |-> Scalars({"name", "question", "password", "validationPattern",
         "validationMessage", "noCache", "source", "command"}) @@ Anything({"value", "default"}) @@
         Lists({"options", "args"}) @@ ListOf([commands |-> "VariableCommand"]),
     ProfileConfig |-> Scalars({"name", "description", "parent"}) @@
         One([replace |-> "ProfileConfigStructure", merge |-> "ProfileConfigStructure",
         strategicMerge |-> "ProfileConfigStructure"]) @@ ListOf([parents |-> "ProfileParent",
         patches |-> "PatchConfig", activation |-> "ProfileActivation"]),
     ProfileConfigStructure |-> Lists({"vars", "pullSecrets", "deployments", "hooks", "commands",
         "dependencies"}) @@ Maps({"images", "dev"}),
     ProfileActivation |-> Maps({"env"})]

\* The schema of a v1beta10 configuration, given that of the version before.
V10Schema(old) ==
    V10Config @@ V10BuildConfig(old) @@ V10KanikoConfig(old) @@
    V10KanikoAdditionalMountKeyToPath(old) @@ V10HelmConfig(old) @@ V10SyncOnUpload(old) @@
    V10DependencyConfig(old) @@ V10HookWhenAtConfig(old)

-----------------------------------------------------------------------------
(* v1beta11                                                                *)

V11Config(old) ==
    Same(old, {"Config", "RequireConfig", "RequirePlugin", "RequireCommand",
        "ImageConfig"})

V11BuildConfig(old) ==
    Same(old, {"BuildConfig", "DockerConfig", "BuildKitConfig",
        "BuildKitInClusterConfig"})

V11KanikoConfig(old) ==
    Same(old, {"KanikoAdditionalMount", "KanikoAdditionalMountConfigMap",
        "KanikoAdditionalMountSecret"}) @@
    [KanikoConfig |-> Scalars({"cache", "snapshotMode", "image", "initImage", "namespace",
         "insecure", "pullSecret", "skipPullSecretMount", "serviceAccount"}) @@ Lists({"args",
         "command", "tolerations"}) @@ Maps({"nodeSelector", "annotations", "labels", "initEnv",
         "env", "envFrom"}) @@ One([resources |-> "PodResources", options |-> "BuildOptions"]) @@
         ListOf([additionalMounts |-> "KanikoAdditionalMount"]),
     PodResources |-> Maps({"requests", "limits"})]

V11KanikoAdditionalMountKeyToPath(old) ==
    Same(old, {"KanikoAdditionalMountKeyToPath", "CustomConfig", "CustomConfigCommand",
        "BuildOptions"}) @@
    [DeploymentConfig |-> Scalars({"name", "namespace", "disabled", "concurrent"}) @@
         One([helm |-> "HelmConfig", kubectl |-> "KubectlConfig"])]

V11HelmConfig(old) ==
    Same(old, {"HelmConfig", "KubectlConfig", "DevConfig", "PortMapping", "OpenConfig"}) @@
    [ChartConfig |-> Scalars({"name", "version", "repo", "username", "password"}) @@
         One([git |-> "GitSource"]),
     GitSource |-> Scalars({"url", "branch", "tag", "revision", "subPath"}) @@
         Lists({"cloneArgs"}),
     ReplacePod |-> Scalars({"name", "imageSelector", "containerName", "namespace",
         "replaceImage"}) @@ Maps({"labelSelector"}) @@
         One([persistenceOptions |-> "PersistenceOptions"]) @@
         ListOf([persistPaths |-> "PersistentPath", patches |-> "PatchConfig"]),
     PersistenceOptions |-> Scalars({"size", "storageClassName", "readOnly", "name"}) @@
         Lists({"accessModes"}),
     PersistentPath |-> Scalars({"path", "containerName", "volumePath", "readOnly",
         "skipPopulate"}) @@ One([initContainer |-> "PersistentPathInitContainer"]),
     PersistentPathInitContainer |-> One([resources |-> "PodResources"]),
     PortForwardingConfig |-> Scalars({"name", "imageSelector", "containerName", "namespace",
         "arch"}) @@ Maps({"labelSelector"}) @@ ListOf([forward |-> "PortMapping",
         reverseForward |-> "PortMapping"])]

V11SyncConfig(old) ==
    Same(old, {"SyncOnDownload", "SyncExecCommand", "SyncCommand", "BandwidthLimits",
        "LogsSelector", "AutoReloadConfig"}) @@
    [SyncConfig |-> Scalars({"name", "imageSelector", "containerName", "namespace",
         "localSubPath", "containerPath", "excludeFile", "downloadExcludeFile", "uploadExcludeFile",
         "initialSync", "initialSyncCompareBy", "disableDownload", "disableUpload", "polling",
         "waitInitialSync", "arch", "throttleChangeDetection"}) @@ Lists({"excludePaths",
         "downloadExcludePaths", "uploadExcludePaths"}) @@ Maps({"labelSelector"}) @@
         One([bandwidthLimits |-> "BandwidthLimits", onUpload |-> "SyncOnUpload",
         onDownload |-> "SyncOnDownload"]),
     SyncOnUpload |-> Scalars({"restartContainer"}) @@ One([execRemote |-> "SyncExecCommand"]) @@
         ListOf([exec |-> "SyncExec"]),
     SyncExec |-> Scalars({"name", "command", "failOnError", "local"}) @@ Lists({"args",
         "onChange"}),
     LogsConfig |-> Scalars({"disabled", "showLast", "sync"}) @@
         ListOf([selectors |-> "LogsSelector"])]

V11InteractiveImageConfig(old) ==
    Same(old, {"InteractiveImageConfig"}) @@
    [Terminal |-> Scalars({"imageSelector", "containerName", "namespace", "workDir",
         "disabled"}) @@ Lists({"command"}) @@ Maps({"labelSelector"})]

V11DependencyConfig(old) ==
    Same(old, {"DependencyDev", "DependencyVar", "SourceConfig", "HookWaitConfig",
        "HookLogsConfig", "HookSyncConfig"}) @@
    [DependencyConfig |-> Scalars({"name", "disabled", "profile", "disableProfileActivation",
         "overwriteVars", "skipBuild", "ignoreDependencies", "namespace"}) @@ Lists({"profiles",
         "profileParents"}) @@ One([source |-> "SourceConfig", dev |-> "DependencyDev"]) @@
         ListOf([vars |-> "DependencyVar"]),
     HookConfig |-> Scalars({"name", "disabled", "command", "os", "background", "silent"}) @@
         Lists({"events", "args"}) @@ One([upload |-> "HookSyncConfig",
         download |-> "HookSyncConfig", logs |-> "HookLogsConfig", wait |-> "HookWaitConfig",
         container |-> "HookContainer"]),
     HookContainer |-> Scalars({"pod", "namespace", "imageSelector", "containerName", "wait",
         "timeout", "once"}) @@ Maps({"labelSelector"})]

V11CommandConfig(old) ==
    Same(old, {"CommandConfig", "VariableCommand", "ProfileConfig",
        "ProfileConfigStructure", "ProfileParent", "PatchConfig"}) @@
    [Variable |-> Scalars({"name", "question", "password", "validationPattern",
         "validationMessage", "noCache", "alwaysResolve", "source", "command"}) @@ Anything({"value",
         "default"}) @@ Lists({"options", "args"}) @@ ListOf([commands |-> "VariableCommand"]),
     ProfileActivation |-> Maps({"env", "vars"}),
     PullSecretConfig |-> Scalars({"disabled", "registry", "username", "password", "email",
         "secret"}) @@ Lists({"serviceAccounts"})]

\* The schema of a v1beta11 configuration, given that of the version before.
V11Schema(old) ==
    V11Config(old) @@ V11BuildConfig(old) @@ V11KanikoConfig(old) @@
    V11KanikoAdditionalMountKeyToPath(old) @@ V11HelmConfig(old) @@ V11SyncConfig(old) @@
    V11InteractiveImageConfig(old) @@ V11DependencyConfig(old) @@ V11CommandConfig(old)
=============================================================================
