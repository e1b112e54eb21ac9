SPECIFICATION FairSpec
CONSTANTS
    NoOne = NoOne
    component = component
    configuration = configuration
    c1 = c1
    c2 = c2
    f1 = f1
    w1 = w1
    w2 = w2
    w3 = w3
    Kinds = {component, configuration}
    Objects = {c1, f1}
    Listeners = {w1, w3}
    KindOf <- MCKindOf
    Matches <- MatchAll
    MayLeave = {w1}
    Updated = {c1}
    MaxVersion = 1
PROPERTY UpdatesProceed
\* A behaviour may end: the cluster no longer changes, or a replay waits for ever
\* for an RPC that has left its loop, as the leaver_blocks_updates run shows.
CHECK_DEADLOCK FALSE
