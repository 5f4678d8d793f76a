---------------------------- MODULE SchemaLatest ----------------------------
(***************************************************************************)
(* The configuration schema v2beta1, the latest.                           *)
(* Every struct of a schema is a function from the keys of its fields to   *)
(* what they hold. A definition has the structs of one stretch of the      *)
(* file; Same takes the ones the version before already had.               *)
(***************************************************************************)
EXTENDS SchemaV1Late

-----------------------------------------------------------------------------
(* latest                                                                  *)

LatestConfig ==
    [Config |-> Scalars({"version", "name"}) @@ Maps({"functions"}) @@
         One([require |-> "RequireConfig", localRegistry |-> "LocalRegistryConfig"]) @@
         ListOf([imports |-> "Import", profiles |-> "ProfileConfig", hooks |-> "HookConfig"]) @@
         MapOf([pipelines |-> "Pipeline", images |-> "Image", deployments |-> "DeploymentConfig",
         dev |-> "DevPod", vars |-> "Variable", commands |-> "CommandConfig",
         dependencies |-> "DependencyConfig", pullSecrets |-> "PullSecretConfig"]),
     Import |-> Scalars({"enabled"}) @@ Inlined({"SourceConfig"}),
     Pipeline |-> Scalars({"name", "run", "continueOnError"}) @@
         ListOf([flags |-> "PipelineFlag"]),
     PipelineFlag |-> Scalars({"name", "short", "type", "description"}) @@ Anything({"default"})]

LatestRequireConfig(old) ==
    Same(old, {"RequireConfig", "RequirePlugin", "RequireCommand"}) @@
    [Image |-> Scalars({"name", "image", "dockerfile", "context", "target", "network",
         "rebuildStrategy", "skipPush", "createPullSecret", "injectRestartHelper",
         "injectLegacyRestartHelper", "restartHelperPath"}) @@ Lists({"tags", "entrypoint", "cmd",
         "appendDockerfileInstructions"}) @@ Maps({"buildArgs"}) @@
         One([buildKit |-> "BuildKitConfig", docker |-> "DockerConfig", kaniko |-> "KanikoConfig",
         custom |-> "CustomConfig"]),
     DockerConfig |-> Scalars({"disableFallback", "preferMinikube", "useCli", "useBuildKit"}) @@
         Lists({"args"})]

LatestBuildKitConfig(old) ==
    Same(old, {"BuildKitInClusterConfig", "PodResources", "KanikoAdditionalMount"}) @@
    [BuildKitConfig |-> Scalars({"preferMinikube"}) @@ Lists({"args", "command"}) @@
         One([inCluster |-> "BuildKitInClusterConfig"]),
     KanikoConfig |-> Scalars({"cache", "snapshotMode", "image", "initImage", "namespace",
         "insecure", "pullSecret", "skipPullSecretMount", "serviceAccount", "generateName"}) @@
         Lists({"args", "command", "tolerations"}) @@ Maps({"nodeSelector", "annotations", "labels",
         "initEnv", "env", "envFrom"}) @@ One([resources |-> "PodResources"]) @@
         ListOf([additionalMounts |-> "KanikoAdditionalMount"])]

LatestKanikoAdditionalMountConfigMap(old) ==
    Same(old, {"KanikoAdditionalMountConfigMap", "KanikoAdditionalMountSecret",
        "KanikoAdditionalMountKeyToPath", "CustomConfigCommand"}) @@
    [CustomConfig |-> Scalars({"command", "imageFlag", "imageTagOnly", "skipImageArg"}) @@
         Lists({"onChange", "args", "appendArgs"}) @@ ListOf([commands |-> "CustomConfigCommand"]),
     LocalRegistryConfig |-> Scalars({"enabled", "localbuild", "namespace", "name", "image",
         "buildKitImage", "port"}) @@ One([persistence |-> "LocalRegistryPersistence"]),
     LocalRegistryPersistence |-> Scalars({"enabled", "size", "storageClassName"})]

LatestDeploymentConfig ==
    [DeploymentConfig |-> Scalars({"name", "updateImageTags", "namespace"}) @@
         One([helm |-> "HelmConfig", kubectl |-> "KubectlConfig"])]

LatestHelmConfig ==
    [HelmConfig |-> Scalars({"releaseName", "displayOutput", "disableDependencyUpdate"}) @@
         Lists({"valuesFiles", "upgradeArgs", "templateArgs"}) @@ Maps({"values"}) @@
         One([chart |-> "ChartConfig"]),
     ChartConfig |-> Scalars({"name", "version", "repo", "username", "password"}) @@
         Inlined({"SourceConfig"}),
     KubectlConfig |-> Scalars({"kubectlBinaryPath", "inlineManifest", "kustomize",
         "kustomizeBinaryPath"}) @@ Lists({"manifests", "applyArgs", "createArgs",
         "kustomizeArgs"}) @@ ListOf([patches |-> "PatchTarget"]),
     DevPod |-> Scalars({"name", "imageSelector", "namespace"}) @@ Maps({"labelSelector"}) @@
         One([persistenceOptions |-> "PersistenceOptions"]) @@ ListOf([ports |-> "PortMapping",
         patches |-> "PatchConfig", open |-> "OpenConfig"]) @@
         MapOf([containers |-> "DevContainer"]) @@ Inlined({"DevContainer"}),
     DevContainer |-> Scalars({"container", "arch", "devImage", "workingDir"}) @@
         Lists({"command", "args"}) @@ One([resources |-> "PodResources", terminal |-> "Terminal",
         logs |-> "Logs", attach |-> "Attach", ssh |-> "SSH", restartHelper |-> "RestartHelper"]) @@
         ListOf([env |-> "EnvVar", reversePorts |-> "PortMapping", sync |-> "SyncConfig",
         persistPaths |-> "PersistentPath", proxyCommands |-> "ProxyCommand"])]

LatestRestartHelper(old) ==
    Same(old, {"PersistenceOptions", "PersistentPathInitContainer", "OpenConfig"}) @@
    [RestartHelper |-> Scalars({"path", "inject"}),
     ProxyCommand |-> Scalars({"gitCredentials", "command", "localCommand",
         "skipContainerEnv"}) @@ Maps({"env"}),
     SSH |-> Scalars({"enabled", "localHostname", "localPort", "remoteAddress", "useInclude"}),
     EnvVar |-> Scalars({"name", "value"}),
     Attach |-> Scalars({"enabled", "disableReplace", "disableTTY"}),
     Logs |-> Scalars({"enabled", "lastLines"}),
     PersistentPath |-> Scalars({"path", "volumePath", "readOnly", "skipPopulate"}) @@
         One([initContainer |-> "PersistentPathInitContainer"]),
     PortMapping |-> Scalars({"port", "bindAddress"})]

LatestSyncConfig(old) ==
    Same(old, {"SyncOnUpload", "SyncExecCommand", "SyncCommand"}) @@
    [SyncConfig |-> Scalars({"path", "excludeFile", "downloadExcludeFile", "uploadExcludeFile",
         "startContainer", "initialSync", "waitInitialSync", "initialSyncCompareBy",
         "disableDownload", "disableUpload", "polling", "noWatch", "file", "printLogs"}) @@
         Lists({"excludePaths", "downloadExcludePaths", "uploadExcludePaths"}) @@
         One([onUpload |-> "SyncOnUpload", bandwidthLimits |-> "BandwidthLimits"]),
     SyncExec |-> Scalars({"name", "command", "failOnError", "local", "once"}) @@ Lists({"args",
         "onChange"})]

LatestBandwidthLimits(old) ==
    Same(old, {"BandwidthLimits"}) @@
    [Terminal |-> Scalars({"command", "workDir", "enabled", "disableReplace", "disableScreen",
         "disableTTY"}),
     DependencyConfig |-> Scalars({"name", "disabled", "pipeline", "overwriteVars",
         "ignoreDependencies", "namespace", "disableProfileActivation"}) @@ Lists({"profiles"}) @@
         Maps({"vars"}) @@ Inlined({"SourceConfig"}),
     SourceConfig |-> Scalars({"path", "git", "subPath", "branch", "tag", "revision",
         "disableShallow", "disablePull"}) @@ Lists({"cloneArgs"})]

LatestHookConfig(old) ==
    Same(old, {"HookConfig", "HookWaitConfig", "HookLogsConfig", "HookSyncConfig",
        "HookContainer"}) @@
    [CommandConfig |-> Scalars({"name", "section", "command", "appendArgs", "description",
         "internal", "after"}) @@ Lists({"args"})]

LatestVariable ==
    [Variable |-> Scalars({"name", "question", "password", "validationPattern",
         "validationMessage", "noCache", "command", "alwaysResolve", "source"}) @@ Anything({"value",
         "default"}) @@ Lists({"options", "args"}) @@ ListOf([commands |-> "VariableCommand"])]

LatestVariableCommand(old) ==
    Same(old, {"ProfileParent", "ProfileActivation"}) @@
    [VariableCommand |-> Scalars({"os", "command"}) @@ Lists({"args"}),
     ProfileConfig |-> Scalars({"name", "description", "parent"}) @@
         One([replace |-> "ProfileConfigStructure", merge |-> "ProfileConfigStructure"]) @@
         ListOf([parents |-> "ProfileParent", patches |-> "PatchConfig",
         activation |-> "ProfileActivation"]),
     ProfileConfigStructure |-> Lists({"hooks", "oldDeployments", "oldDependencies",
         "oldCommands", "oldPullSecrets", "oldVars"}) @@ Maps({"vars", "pullSecrets", "images",
         "deployments", "dev", "commands", "dependencies"}),
     PatchTarget |-> One([target |-> "Target"]) @@ Inlined({"PatchConfig"}),
     Target |-> Scalars({"apiVersion", "kind", "name"}),
     PatchConfig |-> Scalars({"op", "path"}) @@ Anything({"value"})]

LatestPullSecretConfig ==
    [PullSecretConfig |-> Scalars({"name", "registry", "username", "password", "email",
         "secret"}) @@ Lists({"serviceAccounts"})]

\* The schema of a latest configuration, given that of the version before.
LatestSchema(old) ==
    LatestConfig @@ LatestRequireConfig(old) @@ LatestBuildKitConfig(old) @@
    LatestKanikoAdditionalMountConfigMap(old) @@ LatestDeploymentConfig @@
    LatestHelmConfig @@ LatestRestartHelper(old) @@ LatestSyncConfig(old) @@
    LatestBandwidthLimits(old) @@ LatestHookConfig(old) @@ LatestVariable @@
    LatestVariableCommand(old) @@ LatestPullSecretConfig

\* What a version makes of the schema of the version before.
SchemaAfter(old, v) ==
    CASE v = 2  -> V2Schema(old)
      [] v = 3  -> V3Schema(old)
      [] v = 4  -> V4Schema(old)
      [] v = 5  -> V5Schema(old)
      [] v = 6  -> V6Schema(old)
      [] v = 7  -> V7Schema(old)
      [] v = 8  -> V8Schema(old)
      [] v = 9  -> V9Schema(old)
      [] v = 10 -> V10Schema(old)
      [] v = 11 -> V11Schema(old)
      [] v = 12 -> LatestSchema(old)

\* The versions in order (VersionLoader).
AllSchemas ==
    FoldLeft(LAMBDA all, v : Append(all, SchemaAfter(Last(all), v)), <<V1Schema>>, [i \in 1..11 |-> i + 1])
=============================================================================
