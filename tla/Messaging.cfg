SPECIFICATION MessagingSpec
CONSTANTS
    Nothing = Nothing
    Messages = {m1, m2}
    Workers = {w1, w2, w3}
    MaxInFlight = 2
    MaxDeliveries = 2
    MayFail = TRUE
    NoOptions = NoOptions
    Components <- MCComponents
    Requests <- MCRequests
    Topics = {"a.b", "c"}
    Dotless <- MCDotless
    MaxSubscriptions = 2
    NilMap = NilMap
    Null = Null
    Calls <- MCCalls
    Foreign <- MCForeign
    PubSub = "nats"
    Registered <- MCRegistered
    Stored <- MCStored
    Configurations <- MCConfigurations
    MaxRuns = 2
    Subscribers = {"s1", "s2", "s3"}
    Publishes = {"p1", "p2"}
    BusTopics = {"t", "u"}
    TopicOf <- MCTopicOf
INVARIANT InFlightWithinLimit
INVARIANT OnlyProcessedIsAcked
INVARIANT CompeteOrFanOut
INVARIANT OptionsReachBroker
INVARIANT TracesAndHeadersArrive
INVARIANT NothingIsLostInBetween
INVARIANT DoneMeansHandled
PROPERTY WaitingMessagesAreTaken
PROPERTY NothingRemains
\* A subscription ends, and an application may never answer.
CHECK_DEADLOCK FALSE
