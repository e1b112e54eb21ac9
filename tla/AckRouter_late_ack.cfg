SPECIFICATION FairSpec
CONSTANTS
    NoOne = NoOne
    NoId = NoId
    Receiver = Receiver
    a = a
    b = b
    d1 = d1
    d2 = d2
    d3 = d3
    Deliveries = {d1, d2, d3}
    Ids = {a, b}
    IdOf <- DistinctIds
    MaxGen = 2
    MayCancel = TRUE
    MayExpire = {}
    MayFail = {}
    AcksPerMessage = 1
PROPERTY CancelledHandlersReturn
\* A behaviour may end: every handler has returned and the stream is closed, or
\* the receiver and a handler wait for each other as the late_ack run shows.
CHECK_DEADLOCK FALSE
