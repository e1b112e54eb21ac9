SPECIFICATION Spec
CONSTANTS
    Nothing = Nothing
    Messages = {m1, m2}
    Workers = {w1, w2, w3}
    MaxInFlight = 2
    MaxDeliveries = 2
    MayFail = TRUE
INVARIANT DoneIsClosedOnce
\* A subscription ends, and an application may never answer.
CHECK_DEADLOCK FALSE
