SPECIFICATION FairSpec
CONSTANTS
    NoOne = NoOne
    s1 = s1
    s2 = s2
    r1 = r1
    Streams = {s1, s2}
    Refreshers = {r1}
    Leavers = {s1}
    MayStop = FALSE
    MaxRefresh = 1
PROPERTY RefreshReturns
\* A behaviour may end: every stream has returned and no refresh is due, or the
\* goroutines wait for each other as the refresh_deadlock run shows.
CHECK_DEADLOCK FALSE
