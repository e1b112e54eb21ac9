SPECIFICATION FairSpec
CONSTANTS
    NoOne = NoOne
    s1 = s1
    s2 = s2
    r1 = r1
    r2 = r2
    Streams = {s1, s2}
    Refreshers = {r1, r2}
    Leavers = {s1, s2}
    MayStop = TRUE
    MaxRefresh = 2
INVARIANT OneSubscriptionPerStream
INVARIANT RegistryMatchesStreams
PROPERTY RefreshRangesOverStableMap
PROPERTY ImplementsLifecycle
PROPERTY ParkedStreamsResubscribe
PROPERTY ShutdownCompletes
\* A behaviour may end: every stream has returned and no refresh is due, or the
\* goroutines wait for each other as the refresh_deadlock run shows.
CHECK_DEADLOCK FALSE
