------------------------------ MODULE SchemaV1 ------------------------------
(***************************************************************************)
(* The configuration schemas v1beta1 to v1beta8.                           *)
(* Every struct of a schema is a function from the keys of its fields to   *)
(* what they hold. A definition has the structs of one stretch of the      *)
(* file; Same takes the ones the version before already had.               *)
(***************************************************************************)
EXTENDS Schema

-----------------------------------------------------------------------------
(* v1beta1                                                                 *)

V1Config ==
    [Config |-> Scalars({"version", "name"}) @@ One([dev |-> "DevConfig",
         cluster |-> "Cluster"]) @@ ListOf([deployments |-> "DeploymentConfig"]) @@
         MapOf([images |-> "ImageConfig"]),
     ImageConfig |-> Scalars({"image", "tag", "createPullSecret", "insecure", "skipPush"}) @@
         One([build |-> "BuildConfig"]),
     BuildConfig |-> Scalars({"disabled", "dockerfile", "context"}) @@
         One([kaniko |-> "KanikoConfig", docker |-> "DockerConfig", options |-> "BuildOptions"]),
     DockerConfig |-> Scalars({"preferMinikube"}),
     KanikoConfig |-> Scalars({"cache", "snapshotMode", "namespace", "pullSecret"}) @@
         Lists({"flags"}),
     BuildOptions |-> Scalars({"target", "network"}) @@ Maps({"buildArgs"}),
     DeploymentConfig |-> Scalars({"name", "namespace"}) @@ One([component |-> "ComponentConfig",
         helm |-> "HelmConfig", kubectl |-> "KubectlConfig"]),
     ComponentConfig |-> Scalars({"replicas", "serviceName", "podManagementPolicy"}) @@
         Lists({"pullSecrets"}) @@ One([autoScaling |-> "AutoScalingConfig",
         rollingUpdate |-> "RollingUpdateConfig", service |-> "ServiceConfig"]) @@
         ListOf([containers |-> "ContainerConfig", volumes |-> "VolumeConfig"]),
     ContainerConfig |-> Scalars({"name", "image"}) @@ Lists({"command", "args", "env"}) @@
         Maps({"resources", "livenessProbe", "readinessProbe"}) @@
         ListOf([volumeMounts |-> "VolumeMountConfig"]),
     VolumeMountConfig |-> Scalars({"containerPath"}) @@
         One([volume |-> "VolumeMountVolumeConfig"]),
     VolumeMountVolumeConfig |-> Scalars({"name", "subPath", "readOnly"}),
     AutoScalingConfig |-> One([horizontal |-> "AutoScalingHorizontalConfig"]),
     AutoScalingHorizontalConfig |-> Scalars({"maxReplicas", "averageCPU", "averageMemory"}),
     RollingUpdateConfig |-> Scalars({"enabled", "maxSurge", "maxUnavailable", "partition"}),
     VolumeConfig |-> Scalars({"name", "size"}) @@ Maps({"configMap", "secret"}),
     ServiceConfig |-> Scalars({"name", "type"}) @@ ListOf([ports |-> "ServicePortConfig"]),
     ServicePortConfig |-> Scalars({"port", "containerPort", "protocol"})]

V1HelmConfig ==
    [HelmConfig |-> Scalars({"wait", "rollback", "force", "timeout", "tillerNamespace",
         "devSpaceValues"}) @@ Lists({"valuesFiles"}) @@ Maps({"values"}) @@
         One([chart |-> "ChartConfig"]),
     ChartConfig |-> Scalars({"name", "version", "repo", "username", "password"}),
     KubectlConfig |-> Scalars({"cmdPath", "kustomize"}) @@ Lists({"manifests", "flags"}),
     DevConfig |-> One([terminal |-> "Terminal", autoReload |-> "AutoReloadConfig"]) @@
         ListOf([overrideImages |-> "ImageOverrideConfig", ports |-> "PortForwardingConfig",
         sync |-> "SyncConfig", selectors |-> "SelectorConfig"]),
     ImageOverrideConfig |-> Scalars({"name", "dockerfile", "context"}) @@ Lists({"entrypoint"}),
     Terminal |-> Scalars({"disabled", "selector", "namespace", "containerName"}) @@
         Lists({"command"}) @@ Maps({"labelSelector"}),
     PortForwardingConfig |-> Scalars({"selector", "namespace"}) @@ Maps({"labelSelector"}) @@
         ListOf([forward |-> "PortMapping"]),
     PortMapping |-> Scalars({"port", "remotePort", "bindAddress"}),
     SyncConfig |-> Scalars({"selector", "namespace", "containerName", "localSubPath",
         "containerPath", "waitInitialSync"}) @@ Lists({"excludePaths", "downloadExcludePaths",
         "uploadExcludePaths"}) @@ Maps({"labelSelector"}) @@
         One([bandwidthLimits |-> "BandwidthLimits"]),
     BandwidthLimits |-> Scalars({"download", "upload"}),
     AutoReloadConfig |-> Lists({"paths", "deployments", "images"}),
     SelectorConfig |-> Scalars({"name", "namespace", "containerName"}) @@
         Maps({"labelSelector"}),
     Cluster |-> Scalars({"kubeContext", "namespace", "apiServer", "caCert"}) @@
         One([user |-> "ClusterUser"]),
     ClusterUser |-> Scalars({"clientCert", "clientKey", "token"})]

\* The schema of a v1beta1 configuration.
V1Schema == V1Config @@ V1HelmConfig

-----------------------------------------------------------------------------
(* v1beta2                                                                 *)

V2Config(old) ==
    Same(old, {"BuildOptions", "DeploymentConfig", "ContainerConfig", "VolumeMountConfig",
        "VolumeMountVolumeConfig", "AutoScalingConfig", "AutoScalingHorizontalConfig",
        "RollingUpdateConfig"}) @@
    [Config |-> Scalars({"version", "name"}) @@ One([dev |-> "DevConfig",
         cluster |-> "Cluster"]) @@ ListOf([deployments |-> "DeploymentConfig",
         dependencies |-> "DependencyConfig", hooks |-> "HookConfig"]) @@
         MapOf([images |-> "ImageConfig"]),
     ImageConfig |-> Scalars({"image", "tag", "dockerfile", "context", "createPullSecret"}) @@
         One([build |-> "BuildConfig"]),
     BuildConfig |-> Scalars({"disabled"}) @@ One([docker |-> "DockerConfig",
         kaniko |-> "KanikoConfig", custom |-> "CustomConfig"]),
     DockerConfig |-> Scalars({"preferMinikube", "skipPush", "disableFallback"}) @@
         One([options |-> "BuildOptions"]),
     KanikoConfig |-> Scalars({"cache", "snapshotMode", "namespace", "insecure",
         "pullSecret"}) @@ Lists({"flags"}) @@ One([options |-> "BuildOptions"]),
     CustomConfig |-> Scalars({"command", "imageFlag"}) @@ Lists({"flags", "onChange"}),
     ComponentConfig |-> Scalars({"replicas", "serviceName", "podManagementPolicy"}) @@
         Lists({"pullSecrets"}) @@ Maps({"labels", "annotations"}) @@
         One([autoScaling |-> "AutoScalingConfig", rollingUpdate |-> "RollingUpdateConfig",
         service |-> "ServiceConfig", ingress |-> "IngressConfig",
         options |-> "ComponentConfigOptions"]) @@ ListOf([containers |-> "ContainerConfig",
         volumes |-> "VolumeConfig"]),
     VolumeConfig |-> Scalars({"name", "size"}) @@ Maps({"configMap", "secret", "labels",
         "annotations"})]

V2ServiceConfig(old) ==
    Same(old, {"ServicePortConfig", "HelmConfig", "ChartConfig", "KubectlConfig",
        "DevConfig", "ImageOverrideConfig", "Terminal", "PortForwardingConfig", "PortMapping",
        "SyncConfig", "BandwidthLimits", "AutoReloadConfig"}) @@
    [ServiceConfig |-> Scalars({"name", "type"}) @@ Lists({"externalIPs"}) @@ Maps({"labels",
         "annotations"}) @@ ListOf([ports |-> "ServicePortConfig"]),
     IngressConfig |-> Scalars({"name", "tls"}) @@ Maps({"labels", "annotations"}) @@
         ListOf([rules |-> "IngressRuleConfig"]),
     IngressRuleConfig |-> Scalars({"host", "servicePort", "path", "tls"}),
     ComponentConfigOptions |-> Scalars({"wait", "rollback", "force", "timeout",
         "tillerNamespace"})]

V2SelectorConfig(old) ==
    Same(old, {"SelectorConfig"}) @@
    [DependencyConfig |-> Scalars({"config", "skipBuild", "ignoreDependencies", "namespace"}) @@
         One([source |-> "SourceConfig"]),
     SourceConfig |-> Scalars({"git", "subPath", "branch", "tag", "revision", "path"}),
     HookConfig |-> Scalars({"command"}) @@ Lists({"args"}) @@ One([when |-> "HookWhenConfig"]),
     HookWhenConfig |-> One([before |-> "HookWhenAtConfig", after |-> "HookWhenAtConfig"]),
     HookWhenAtConfig |-> Scalars({"images", "deployments"}),
     Cluster |-> Scalars({"kubeContext", "namespace"})]

\* The schema of a v1beta2 configuration, given that of the version before.
V2Schema(old) == V2Config(old) @@ V2ServiceConfig(old) @@ V2SelectorConfig(old)

-----------------------------------------------------------------------------
(* v1beta3                                                                 *)

V3Config(old) ==
    Same(old, {"BuildConfig", "DockerConfig", "KanikoConfig", "CustomConfig",
        "BuildOptions", "DeploymentConfig", "VolumeMountConfig", "VolumeMountVolumeConfig",
        "ServiceConfig"}) @@
    [Config |-> Scalars({"version", "name"}) @@ One([dev |-> "DevConfig"]) @@
         ListOf([deployments |-> "DeploymentConfig", dependencies |-> "DependencyConfig",
         hooks |-> "HookConfig", commands |-> "CommandConfig", vars |-> "Variable",
         profiles |-> "ProfileConfig"]) @@ MapOf([images |-> "ImageConfig"]),
     ImageConfig |-> Scalars({"image", "tag", "dockerfile", "context", "createPullSecret"}) @@
         Lists({"entrypoint", "cmd"}) @@ One([build |-> "BuildConfig"]),
     ComponentConfig |-> Scalars({"serviceName", "replicas", "podManagementPolicy"}) @@
         Lists({"pullSecrets"}) @@ Maps({"labels", "annotations"}) @@
         One([service |-> "ServiceConfig", ingress |-> "IngressConfig",
         autoScaling |-> "AutoScalingConfig", rollingUpdate |-> "RollingUpdateConfig",
         options |-> "ComponentConfigOptions"]) @@ ListOf([initContainers |-> "ContainerConfig",
         containers |-> "ContainerConfig", volumes |-> "VolumeConfig"]),
     ContainerConfig |-> Scalars({"name", "image", "stdin", "tty"}) @@ Lists({"command", "args",
         "env"}) @@ Maps({"resources", "livenessProbe", "readinessProbe"}) @@
         ListOf([volumeMounts |-> "VolumeMountConfig"]),
     VolumeConfig |-> Scalars({"name", "size"}) @@ Maps({"labels", "annotations", "configMap",
         "secret"})]

V3ServicePortConfig(old) ==
    Same(old, {"ServicePortConfig", "IngressConfig", "AutoScalingConfig",
        "AutoScalingHorizontalConfig", "RollingUpdateConfig", "ChartConfig", "PortMapping",
        "BandwidthLimits"}) @@
    [IngressRuleConfig |-> Scalars({"host", "tls", "path", "servicePort", "serviceName"}),
     ComponentConfigOptions |-> Scalars({"replaceImageTags", "wait", "timeout", "rollback",
         "force", "tillerNamespace"}),
     HelmConfig |-> Scalars({"replaceImageTags", "wait", "timeout", "rollback", "force",
         "tillerNamespace"}) @@ Lists({"valuesFiles"}) @@ Maps({"values"}) @@
         One([chart |-> "ChartConfig"]),
     KubectlConfig |-> Scalars({"kustomize", "replaceImageTags", "cmdPath"}) @@
         Lists({"manifests", "flags"}),
     DevConfig |-> One([logs |-> "LogsConfig", autoReload |-> "AutoReloadConfig",
         interactive |-> "InteractiveConfig"]) @@ ListOf([ports |-> "PortForwardingConfig",
         open |-> "OpenConfig", sync |-> "SyncConfig"]),
     PortForwardingConfig |-> Scalars({"imageName", "namespace"}) @@ Maps({"labelSelector"}) @@
         ListOf([forward |-> "PortMapping"]),
     OpenConfig |-> Scalars({"url"}),
     SyncConfig |-> Scalars({"imageName", "containerName", "namespace", "localSubPath",
         "containerPath", "downloadOnInitialSync", "waitInitialSync"}) @@ Lists({"excludePaths",
         "downloadExcludePaths", "uploadExcludePaths"}) @@ Maps({"labelSelector"}) @@
         One([bandwidthLimits |-> "BandwidthLimits"]),
     LogsConfig |-> Scalars({"disabled", "showLast"}) @@ Lists({"images"})]

V3AutoReloadConfig(old) ==
    Same(old, {"AutoReloadConfig", "SourceConfig", "HookConfig", "HookWhenConfig",
        "HookWhenAtConfig"}) @@
    [InteractiveConfig |-> Scalars({"defaultEnabled"}) @@ One([terminal |-> "TerminalConfig"]) @@
         ListOf([images |-> "InteractiveImageConfig"]),
     InteractiveImageConfig |-> Scalars({"name"}) @@ Lists({"entrypoint", "cmd"}),
     TerminalConfig |-> Scalars({"imageName", "containerName", "namespace"}) @@
         Lists({"command"}) @@ Maps({"labelSelector"}),
     DependencyConfig |-> Scalars({"profile", "skipBuild", "ignoreDependencies", "namespace"}) @@
         One([source |-> "SourceConfig"]),
     CommandConfig |-> Scalars({"name", "command"}),
     Variable |-> Scalars({"name", "question", "password", "validationPattern",
         "validationMessage", "default", "source"}) @@ Lists({"options"}),
     ProfileConfig |-> Scalars({"name"}) @@ One([replace |-> "ReplaceConfig"]) @@
         ListOf([patches |-> "PatchConfig"]),
     PatchConfig |-> Scalars({"op", "path", "from"}) @@ Anything({"value"}),
     ReplaceConfig |-> One([dev |-> "DevConfig"]) @@ ListOf([deployments |-> "DeploymentConfig",
         dependencies |-> "DependencyConfig", hooks |-> "HookConfig"]) @@
         MapOf([images |-> "ImageConfig"])]

\* The schema of a v1beta3 configuration, given that of the version before.
V3Schema(old) == V3Config(old) @@ V3ServicePortConfig(old) @@ V3AutoReloadConfig(old)

-----------------------------------------------------------------------------
(* v1beta4                                                                 *)

V4Config(old) ==
    Same(old, {"Config", "ImageConfig", "BuildConfig", "KanikoConfig", "CustomConfig",
        "BuildOptions"}) @@
    [DockerConfig |-> Scalars({"useBuildKit", "preferMinikube", "skipPush",
         "disableFallback"}) @@ One([options |-> "BuildOptions"]),
     DeploymentConfig |-> Scalars({"name", "namespace"}) @@ One([helm |-> "HelmConfig",
         kubectl |-> "KubectlConfig"])]

V4HelmConfig(old) ==
    Same(old, {"ChartConfig", "KubectlConfig", "DevConfig", "PortForwardingConfig",
        "PortMapping", "OpenConfig", "SyncConfig", "BandwidthLimits", "LogsConfig",
        "AutoReloadConfig", "InteractiveConfig", "InteractiveImageConfig", "TerminalConfig",
        "DependencyConfig", "SourceConfig", "HookConfig"}) @@
    [HelmConfig |-> Scalars({"componentChart", "replaceImageTags", "wait", "timeout", "rollback",
         "force", "tillerNamespace"}) @@ Lists({"valuesFiles"}) @@ Maps({"values"}) @@
         One([chart |-> "ChartConfig"])]

V4HookWhenConfig(old) ==
    Same(old, {"HookWhenConfig", "HookWhenAtConfig", "CommandConfig", "Variable",
        "ProfileConfig", "PatchConfig", "ReplaceConfig"})

\* The schema of a v1beta4 configuration, given that of the version before.
V4Schema(old) == V4Config(old) @@ V4HelmConfig(old) @@ V4HookWhenConfig(old)

-----------------------------------------------------------------------------
(* v1beta5                                                                 *)

V5Config(old) ==
    Same(old, {"Config", "ImageConfig", "BuildConfig", "DockerConfig", "KanikoConfig",
        "CustomConfig", "BuildOptions", "DeploymentConfig"})

V5HelmConfig(old) ==
    Same(old, {"ChartConfig", "KubectlConfig", "DevConfig", "PortForwardingConfig",
        "PortMapping", "OpenConfig", "SyncConfig", "BandwidthLimits", "LogsConfig",
        "AutoReloadConfig", "InteractiveConfig", "InteractiveImageConfig", "TerminalConfig",
        "DependencyConfig", "SourceConfig"}) @@
    [HelmConfig |-> Scalars({"componentChart", "replaceImageTags", "wait", "atomic",
         "cleanupOnFail", "recreate", "disableHooks", "timeout", "force", "driver", "v2",
         "tillerNamespace"}) @@ Lists({"valuesFiles"}) @@ Maps({"values"}) @@
         One([chart |-> "ChartConfig"])]

V5HookConfig(old) ==
    Same(old, {"HookConfig", "HookWhenConfig", "HookWhenAtConfig", "CommandConfig",
        "Variable", "ProfileConfig", "PatchConfig", "ReplaceConfig"})

\* The schema of a v1beta5 configuration, given that of the version before.
V5Schema(old) == V5Config(old) @@ V5HelmConfig(old) @@ V5HookConfig(old)

-----------------------------------------------------------------------------
(* v1beta6                                                                 *)

V6Config(old) ==
    Same(old, {"Config", "ImageConfig", "BuildConfig", "KanikoConfig", "BuildOptions",
        "DeploymentConfig"}) @@
    [DockerConfig |-> Scalars({"preferMinikube", "skipPush", "disableFallback",
         "useBuildKit"}) @@ Lists({"args"}) @@ One([options |-> "BuildOptions"]),
     CustomConfig |-> Scalars({"command", "imageFlag"}) @@ Lists({"args", "onChange"})]

V6HelmConfig(old) ==
    Same(old, {"ChartConfig", "KubectlConfig", "DevConfig", "PortForwardingConfig",
        "PortMapping", "OpenConfig", "BandwidthLimits", "LogsConfig", "AutoReloadConfig",
        "InteractiveConfig", "InteractiveImageConfig"}) @@
    [HelmConfig |-> Scalars({"componentChart", "replaceImageTags", "wait", "timeout", "force",
         "atomic", "cleanupOnFail", "recreate", "disableHooks", "driver", "path", "v2",
         "tillerNamespace"}) @@ Lists({"valuesFiles"}) @@ Maps({"values"}) @@
         One([chart |-> "ChartConfig"]),
     SyncConfig |-> Scalars({"imageName", "containerName", "namespace", "localSubPath",
         "containerPath", "downloadOnInitialSync", "disableDownload", "disableUpload",
         "waitInitialSync"}) @@ Lists({"excludePaths", "downloadExcludePaths",
         "uploadExcludePaths"}) @@ Maps({"labelSelector"}) @@
         One([bandwidthLimits |-> "BandwidthLimits", onUpload |-> "SyncOnUpload",
         onDownload |-> "SyncOnDownload"]),
     SyncOnUpload |-> One([execRemote |-> "SyncExecCommand"]),
     SyncOnDownload |-> One([execLocal |-> "SyncExecCommand"]),
     SyncExecCommand |-> Scalars({"command"}) @@ Lists({"args"}) @@
         One([onFileChange |-> "SyncCommand", onDirCreate |-> "SyncCommand"]),
     SyncCommand |-> Scalars({"command"}) @@ Lists({"args"})]

V6TerminalConfig(old) ==
    Same(old, {"TerminalConfig", "SourceConfig", "HookConfig", "HookWhenConfig",
        "HookWhenAtConfig", "CommandConfig", "Variable", "ProfileConfig", "PatchConfig",
        "ReplaceConfig"}) @@
    [DependencyConfig |-> Scalars({"name", "profile", "skipBuild", "ignoreDependencies",
         "namespace"}) @@ One([source |-> "SourceConfig"])]

\* The schema of a v1beta6 configuration, given that of the version before.
V6Schema(old) == V6Config(old) @@ V6HelmConfig(old) @@ V6TerminalConfig(old)

-----------------------------------------------------------------------------
(* v1beta7                                                                 *)

V7Config(old) ==
    Same(old, {"Config", "BuildConfig", "DockerConfig", "KanikoConfig", "BuildOptions",
        "DeploymentConfig"}) @@
    [ImageConfig |-> Scalars({"image", "dockerfile", "context", "createPullSecret"}) @@
         Lists({"tags", "entrypoint", "cmd"}) @@ One([build |-> "BuildConfig"]),
     CustomConfig |-> Scalars({"command", "imageFlag"}) @@ Lists({"appendArgs", "args",
         "onChange"})]

V7HelmConfig(old) ==
    Same(old, {"HelmConfig", "ChartConfig", "DevConfig", "PortForwardingConfig",
        "PortMapping", "OpenConfig", "SyncOnUpload", "SyncOnDownload", "SyncExecCommand",
        "SyncCommand", "BandwidthLimits", "LogsConfig"}) @@
    [KubectlConfig |-> Scalars({"kustomize", "replaceImageTags", "cmdPath"}) @@
         Lists({"manifests", "deleteArgs", "createArgs", "flags"}),
     SyncConfig |-> Scalars({"imageName", "containerName", "namespace", "localSubPath",
         "containerPath", "initialSync", "disableDownload", "disableUpload", "waitInitialSync"}) @@
         Lists({"excludePaths", "downloadExcludePaths", "uploadExcludePaths"}) @@
         Maps({"labelSelector"}) @@ One([bandwidthLimits |-> "BandwidthLimits",
         onUpload |-> "SyncOnUpload", onDownload |-> "SyncOnDownload"])]

V7AutoReloadConfig(old) ==
    Same(old, {"AutoReloadConfig", "InteractiveConfig", "InteractiveImageConfig",
        "TerminalConfig", "DependencyConfig", "SourceConfig", "HookConfig", "HookWhenConfig",
        "HookWhenAtConfig", "CommandConfig", "Variable", "PatchConfig", "ReplaceConfig"}) @@
    [ProfileConfig |-> Scalars({"name", "parent"}) @@ One([replace |-> "ReplaceConfig"]) @@
         ListOf([patches |-> "PatchConfig"])]

\* The schema of a v1beta7 configuration, given that of the version before.
V7Schema(old) == V7Config(old) @@ V7HelmConfig(old) @@ V7AutoReloadConfig(old)

-----------------------------------------------------------------------------
(* v1beta8                                                                 *)

V8Config(old) ==
    Same(old, {"Config", "ImageConfig", "BuildConfig", "DockerConfig"}) @@
    [KanikoConfig |-> Scalars({"cache", "snapshotMode", "image", "namespace", "insecure",
         "pullSecret"}) @@ Lists({"args"}) @@ One([options |-> "BuildOptions"]) @@
         ListOf([additionalMounts |-> "KanikoAdditionalMount"]),
     KanikoAdditionalMount |-> Scalars({"readOnly", "mountPath", "subPath"}) @@
         One([secret |-> "KanikoAdditionalMountSecret",
         configMap |-> "KanikoAdditionalMountConfigMap"]),
     KanikoAdditionalMountConfigMap |-> Scalars({"name", "defaultMode"}) @@
         ListOf([items |-> "KanikoAdditionalMountKeyToPath"]),
     KanikoAdditionalMountSecret |-> Scalars({"name", "defaultMode"}) @@
         ListOf([items |-> "KanikoAdditionalMountKeyToPath"])]

V8KanikoAdditionalMountKeyToPath(old) ==
    Same(old, {"CustomConfig", "BuildOptions", "DeploymentConfig"}) @@
    [KanikoAdditionalMountKeyToPath |-> Scalars({"key", "path", "mode"})]

V8HelmConfig(old) ==
    Same(old, {"HelmConfig", "ChartConfig", "DevConfig", "PortForwardingConfig",
        "PortMapping", "OpenConfig", "SyncConfig", "SyncOnUpload", "SyncOnDownload",
        "SyncExecCommand", "SyncCommand", "BandwidthLimits", "LogsConfig"}) @@
    [KubectlConfig |-> Scalars({"kustomize", "replaceImageTags", "cmdPath"}) @@
         Lists({"manifests", "kustomizeArgs", "deleteArgs", "createArgs", "applyArgs"})]

V8AutoReloadConfig(old) ==
    Same(old, {"AutoReloadConfig", "InteractiveConfig", "InteractiveImageConfig",
        "TerminalConfig", "DependencyConfig", "HookConfig", "HookWhenConfig", "HookWhenAtConfig",
        "CommandConfig", "Variable", "ProfileConfig", "PatchConfig", "ReplaceConfig"}) @@
    [SourceConfig |-> Scalars({"git", "disableShallow", "subPath", "branch", "tag", "revision",
         "path"}) @@ Lists({"cloneArgs"})]

\* The schema of a v1beta8 configuration, given that of the version before.
V8Schema(old) ==
    V8Config(old) @@ V8KanikoAdditionalMountKeyToPath(old) @@ V8HelmConfig(old) @@ V8AutoReloadConfig(old)
=============================================================================
