SPECIFICATION FairSpec
CONSTANTS
    NoOne = NoOne
    NoId = NoId
    Receiver = Receiver
    a = a
    b = b
    d1 = d1
    d2 = d2
    d3 = d3
    Deliveries = {d1, d2}
    Ids = {a, b}
    IdOf <- TwoIds
    MaxGen = 2
    MayCancel = TRUE
    MayExpire = {d1}
    MayFail = {d2}
    AcksPerMessage = 1
INVARIANT MapHoldsLiveHandlers
INVARIANT OutcomeIsTheClients
PROPERTY MapStableUnderReceiver
PROPERTY UnackedHandlersReturn
PROPERTY AckedHandlersReturn
\* A behaviour may end: every handler has returned and the stream is closed, or
\* the receiver and a handler wait for each other as the late_ack run shows.
CHECK_DEADLOCK FALSE
