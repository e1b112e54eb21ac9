SPECIFICATION FairSpec
CONSTANTS
    NoOne = NoOne
    None = None
    s1 = s1
    p = p
    Streams = {s1}
    Leavers = {}
    MayStop = TRUE
    Names = {p}
    PubSubTypes = {nats}
    PlainTypes = {}
    OtherTypes = {}
    Metadata = {m1, m2}
    MaxUpdates = 3
    Requested <- ByConfiguration
    PubSubOf <- SameName
INVARIANT StaleStreamsAreRefreshed
PROPERTY StreamsFollowChanges
PROPERTY ChangesAreReceived
\* The sidecar may stop, or a Refresh wait for ever as the refresh_deadlock run
\* of the server shows.
CHECK_DEADLOCK FALSE
