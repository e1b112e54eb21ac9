SPECIFICATION FairSpec
CONSTANTS
    NoOne = NoOne
    component = component
    configuration = configuration
    c1 = c1
    c2 = c2
    f1 = f1
    w1 = w1
    w2 = w2
    w3 = w3
    Kinds = {component}
    Objects = {c1, c2}
    Listeners = {w1, w2}
    KindOf <- OneKind
    Matches <- MCMatches
    MayLeave = {w1}
    Updated = {c1}
    MaxVersion = 2
INVARIANT NoUpdateLost
PROPERTY ReplayRangesOverStableMap
PROPERTY UndisturbedUpdatesProceed
PROPERTY UpdatesArrive
\* A behaviour may end: the cluster no longer changes, or a replay waits for ever
\* for an RPC that has left its loop, as the leaver_blocks_updates run shows.
CHECK_DEADLOCK FALSE
