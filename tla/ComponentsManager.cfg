SPECIFICATION FairSpec
CONSTANTS
    None = None
    Names = {p, q}
    PubSubTypes = {nats, jetstream}
    PlainTypes = {uppercase}
    OtherTypes = {unknown}
    Metadata = {m1, m2}
    MaxUpdates = 4
INVARIANT InstancesMatchComponents
INVARIANT ReplacedInstancesAreClosed
INVARIANT ReplacementsAreRefreshed
PROPERTY UpdatesAreTaken
\* The loader may end, as the local one does once its files are loaded.
CHECK_DEADLOCK FALSE
