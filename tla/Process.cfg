SPECIFICATION PartSpec
CONSTANTS
    Watchers = {"components", "telemetry"}
    Telemetry = "telemetry"
    Events <- MCEvents
    Setting <- MCSetting
    Malformed <- MCMalformed
    Files <- MCFiles
    CommandLines <- MCCommandLines
    MayHang = {"components"}
    Accounts = {"rs", "job"}
    Mandatory = "rs"
    Others = {"user"}
    Pods <- MCPods
    MaxReviews = 2
    Probes = {"p1"}
    Conns = {"c1", "c2"}
    Version <- MCVersion
    MinVersions <- MCMinVersions
INVARIANT NilStreamIsNotUsed
INVARIANT RegisteredWatchersEnd
INVARIANT TracerFollowsConfiguration
INVARIANT PatchesFit
INVARIANT OneNamedSidecar
PROPERTY SpecsArrive
PROPERTY ProcessEndsAfterServe
PROPERTY AppsFindTheSidecar
PROPERTY ProbesTellTheTruth
\* The process exits, a pod is submitted a bounded number of times, a probe ends.
CHECK_DEADLOCK FALSE
