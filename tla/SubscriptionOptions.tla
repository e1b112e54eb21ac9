------------------------- MODULE SubscriptionOptions -------------------------
(***************************************************************************)
(* What a subscription asks of the broker: the metadata of the component,  *)
(* parsed once by its Init, under the options that a request carries       *)
(* (grpc_api.go, nats.go, jetstream.go).  The metadata is a partial        *)
(* function from keys to values, a request one from the options that are   *)
(* set to their values.  Numbers and durations are strings in metadata and *)
(* numbers once they are parsed; 0 stands for an option that is not set.   *)
(***************************************************************************)
EXTENDS Integers, SequencesExt

CONSTANTS
    Components,     \* type, version and metadata, with the consumerID of the runtime
    Requests,       \* the options of requests, NoOptions for none
    NoOptions,
    Topics, Dotless,    \* Dotless maps a topic to itself with _ for each dot
    MaxSubscriptions    \* bound: how many subscriptions one sidecar makes

ASSUME OptionsAssumption ==
    \A req \in Requests \ {NoOptions} :
        /\ "max" \in DOMAIN req => req.max \in Int
        /\ "qGroup" \in DOMAIN req => req.qGroup \in BOOLEAN

VARIABLES
    optComponent,   \* the component
    optState,       \* "new", "ready", or "rejected" by Init
    optGlobal,      \* what Init made of its metadata
    optSubs         \* the subscriptions the broker was asked for, in order
optVars == <<optComponent, optState, optGlobal, optSubs>>

Given(md, key) == key \in DOMAIN md /\ md[key] # ""
ValueOr(md, key, default) == IF Given(md, key) THEN md[key] ELSE default

-----------------------------------------------------------------------------
(* Numbers and durations; those that are not in the table do not parse. *)
Number == [s \in {"0", "1", "5", "-1"} |->
             CASE s = "0" -> 0 [] s = "1" -> 1 [] s = "5" -> 5 [] OTHER -> -1]
Durations == {"0s", "1s"}
Duration(md, key) == IF Given(md, key) /\ md[key] = "1s" THEN 1 ELSE 0

BadDuration(md, key) == Given(md, key) /\ md[key] \notin Durations
BadCount(md, key) ==
    Given(md, key) /\ (md[key] \notin DOMAIN Number \/ Number[md[key]] < 1)
NotTrue(md, key) == key \in DOMAIN md /\ md[key] # "true"
Limit(md) == IF Given(md, "maxInFlight") THEN Number[md["maxInFlight"]] ELSE 0

-----------------------------------------------------------------------------
(* NATS streaming.  Of the start options only the first that is given is    *)
(* looked at, and connectWait stands among them.                            *)
StartKeys == <<"startAtSequence", "startWithLastReceived", "deliverAll", "deliverNew",
               "startAtTimeDelta", "connectWait", "startAtTime">>
Flags == {"startWithLastReceived", "deliverAll", "deliverNew"}

StartKey(md) ==
    LET i == SelectInSeq(StartKeys, LAMBDA k : IF k \in Flags THEN k \in DOMAIN md ELSE Given(md, k))
    IN  IF i = 0 THEN "none" ELSE StartKeys[i]

BadStart(md) ==
    LET key == StartKey(md)
    IN  \/ key \in Flags /\ NotTrue(md, key)
        \/ key = "startAtSequence" /\ BadCount(md, key)
        \/ key \in {"startAtTimeDelta", "connectWait"} /\ BadDuration(md, key)
        \/ key = "startAtTime" /\ ~Given(md, "startAtTimeFormat")

ParseNatsRejects(md) ==
    \/ \E key \in {"natsURL", "natsStreamingClusterID", "consumerID"} : ~Given(md, key)
    \/ "subscriptionType" \in DOMAIN md /\ md["subscriptionType"] \notin {"topic", "queue"}
    \/ BadDuration(md, "ackWaitTime") \/ BadCount(md, "maxInFlight") \/ BadStart(md)

\* A delta that is no longer than a nanosecond is as good as none.
ParseNats(md) ==
    LET key == StartKey(md)
    IN  [type    |-> ValueOr(md, "subscriptionType", ""),
         group   |-> md["consumerID"],
         durable |-> ValueOr(md, "durableSubscriptionName", ""),
         starts  |-> {key} \ (IF key = "startAtTimeDelta" /\ Duration(md, key) = 0 THEN {key}
                              ELSE {"none", "connectWait"}),
         time    |-> ValueOr(md, "startAtTime", ""),
         limit   |-> Limit(md),
         ackWait |-> Duration(md, "ackWaitTime")]

Asked(req, option) == option \in DOMAIN req
AskedOr(req, option, default) == IF Asked(req, option) THEN req[option] ELSE default

\* DeliverNewMessagesOnly, as an addition to the starts that are set.
Wish(req) == IF req.newOnly THEN {"deliverNew"} ELSE {"deliverAll"}

MergeNats(global, req) ==
    IF req = NoOptions THEN global
    ELSE [global EXCEPT
            !.durable = IF ~Asked(req, "durable") THEN @
                        ELSE IF ~req.durable THEN "" ELSE IF @ = "" THEN "durable" ELSE @,
            !.type    = IF ~Asked(req, "qGroup") THEN @
                        ELSE IF req.qGroup THEN "queue" ELSE "topic",
            !.starts  = IF Asked(req, "newOnly") THEN @ \cup Wish(req) ELSE @,
            !.limit   = AskedOr(req, "max", @),
            !.ackWait = AskedOr(req, "ackWait", @)]

StanOrder == <<"deliverNew", "startAtSequence", "startWithLastReceived", "deliverAll",
               "startAtTimeDelta", "startAtTime">>
(* Mutant of StanStart: a sequence number comes before the request's wish. *)
StanStartSequenceFirst(o) ==
    IF "startAtSequence" \in o.starts THEN "startAtSequence"
    ELSE LET i == SelectInSeq(StanOrder, LAMBDA k : k \in o.starts)
         IN  IF i = 0 THEN "deliverNew" ELSE StanOrder[i]

\* The library starts with new messages if it is not told otherwise.
StanStart(o) ==
    LET i == SelectInSeq(StanOrder, LAMBDA k : k \in o.starts)
    IN  IF i = 0 THEN "deliverNew" ELSE StanOrder[i]

\* Nothing is asked of the broker without a type, or with a time that its format
\* does not fit.  A limit of the request goes through uint64 and back to int, so
\* that a negative one is handed over.
SubscribeNatsRefused(o) ==
    o.type = "" \/ (StanStart(o) = "startAtTime" /\ o.time = "bad")
SubscribeNats(o, topic, unique) ==
    [topic   |-> topic,
     \* subscribers to a topic are told apart by the broker, those of a queue by
     \* the name of the group and of the durable subscription
     target  |-> IF o.type = "queue" THEN <<optGlobal.group, o.durable, topic>>
                 ELSE <<"subscriber", unique>>,
     durable |-> o.durable, start |-> StanStart(o),
     limit   |-> IF o.limit # 0 THEN o.limit ELSE 1024,
     ackWait |-> IF o.ackWait > 0 THEN o.ackWait ELSE 30]

-----------------------------------------------------------------------------
(* JetStream. *)
ParseJetStreamRejects(md) ==
    \/ \E key \in {"natsURL", "consumerID"} : ~Given(md, key)
    \/ BadDuration(md, "ackWaitTime") \/ BadDuration(md, "connectWait")
    \/ BadCount(md, "maxInFlight")
    \/ IF "deliverAll" \in DOMAIN md THEN NotTrue(md, "deliverAll") ELSE NotTrue(md, "deliverNew")

ParseJetStream(md) ==
    [consumer |-> md["consumerID"], durable |-> md["consumerID"], queue |-> TRUE,
     starts |-> IF "deliverAll" \in DOMAIN md THEN {"deliverAll"}
                ELSE {"deliverNew"} \cap DOMAIN md,
     limit |-> Limit(md), ackWait |-> Duration(md, "ackWaitTime")]

(* Mutant of MergeJetStream: the group of the component is kept. *)
MergeJetStreamGroup(global, req) ==
    IF req = NoOptions THEN global
    ELSE [global EXCEPT !.durable = IF AskedOr(req, "durable", FALSE) THEN @ ELSE "",
                        !.starts  = IF Asked(req, "newOnly") THEN @ \cup Wish(req) ELSE @,
                        !.limit   = AskedOr(req, "max", @),
                        !.ackWait = AskedOr(req, "ackWait", @)]

\* A request that does not mention durable gives up the component's.
MergeJetStream(global, req) ==
    IF req = NoOptions THEN global
    ELSE [global EXCEPT
            !.durable = IF AskedOr(req, "durable", FALSE) THEN @ ELSE "",
            !.queue   = AskedOr(req, "qGroup", @),
            !.starts  = IF Asked(req, "newOnly") THEN @ \cup Wish(req) ELSE @,
            !.limit   = AskedOr(req, "max", @),
            !.ackWait = AskedOr(req, "ackWait", @)]

Slots(o) == IF o.limit >= 1 THEN o.limit ELSE 1

\* The consumer's configuration says nothing of where to start, and the server
\* starts with the first message then: what was parsed and merged of it is not used.
SubscribeJetStream(o, topic, unique) ==
    [topic   |-> topic,
     target  |-> IF o.queue
                   THEN <<IF o.durable # "" THEN o.durable ELSE o.consumer, Dotless[topic]>>
                   ELSE <<o.consumer, Dotless[topic], unique>>,
     durable |-> IF o.queue THEN o.durable ELSE "", start |-> "deliverAll",
     limit   |-> Slots(o),
     ackWait |-> IF o.ackWait > 0 THEN o.ackWait ELSE 30]

-----------------------------------------------------------------------------
(* The registry: a first version is found under the bare name.              *)
RegisteredPubSubs == {"pubsub.natsstreaming", "pubsub.jetstream"}
CreatePubSub(type, version) == type \in RegisteredPubSubs /\ version \in {"", "v0", "v1"}
IsNats == optComponent[1] = "pubsub.natsstreaming"

OptInit ==
    /\ optComponent \in Components
    /\ optState = "new" /\ optGlobal = <<>> /\ optSubs = <<>>

InitComponent ==
    LET md      == optComponent[3]
        rejects == \/ ~CreatePubSub(optComponent[1], optComponent[2])
                   \/ IF IsNats THEN ParseNatsRejects(md) ELSE ParseJetStreamRejects(md)
    IN  /\ optState = "new"
        /\ optState' = IF rejects THEN "rejected" ELSE "ready"
        /\ optGlobal' = IF rejects THEN <<>>
                        ELSE IF IsNats THEN ParseNats(md) ELSE ParseJetStream(md)
        /\ UNCHANGED <<optComponent, optSubs>>

\* A request that is refused leaves nothing behind.
SubscribeWith(req, topic) ==
    LET o      == IF IsNats THEN MergeNats(optGlobal, req) ELSE MergeJetStream(optGlobal, req)
        unique == Len(optSubs) + 1
        sub    == IF IsNats THEN SubscribeNats(o, topic, unique) ELSE SubscribeJetStream(o, topic, unique)
    IN  /\ optState = "ready" /\ Len(optSubs) < MaxSubscriptions
        /\ IsNats => ~SubscribeNatsRefused(o)
        /\ optSubs' = Append(optSubs, [req |-> req, sub |-> sub])
        /\ UNCHANGED <<optComponent, optState, optGlobal>>

OptNext == InitComponent \/ \E req \in Requests, topic \in Topics : SubscribeWith(req, topic)
OptSpec == OptInit /\ [][OptNext]_optVars

-----------------------------------------------------------------------------
WantsGroup(req) ==
    IF req # NoOptions /\ Asked(req, "qGroup") THEN req.qGroup
    ELSE IF IsNats THEN optGlobal.type = "queue" ELSE TRUE

\* Subscribers of one topic compete for its messages exactly if they asked to be
\* in the group of their application, and those that asked not to be each get
\* every message, whatever else they and the component set (the cases of
\* jetstream_test.go:248).  Subscribers that differ in durable are set aside:
\* NATS streaming keeps their groups apart, JetStream gives both one name.
CompeteOrFanOut ==
    \A i, j \in DOMAIN optSubs :
        LET a == optSubs[i]
            b == optSubs[j]
        IN  i < j /\ a.sub.topic = b.sub.topic =>
              IF WantsGroup(a.req) /\ WantsGroup(b.req)
                THEN a.sub.durable = b.sub.durable => a.sub.target = b.sub.target
                ELSE a.sub.target # b.sub.target

\* The starts of a component that a request for all messages does not replace.
BeforeDeliverAll == {"deliverNew", "startAtSequence", "startWithLastReceived"}

\* What of a request, and of the component where the request is silent, is asked of
\* the broker.
AsksBrokerFor(req, sub) ==
    LET asks(option) == req # NoOptions /\ Asked(req, option)
        limit   == IF asks("max") THEN req.max ELSE optGlobal.limit
        ackWait == IF asks("ackWait") THEN req.ackWait ELSE optGlobal.ackWait
        own     == optGlobal.starts
    IN  /\ limit > 0 => sub.limit = limit
        /\ ackWait > 0 => sub.ackWait = ackWait
        /\ ~IsNats => sub.limit >= 1 /\ sub.start = "deliverAll"
        /\ IsNats =>
              IF ~asks("newOnly")
                THEN own = {sub.start} \/ (own = {} /\ sub.start = "deliverNew")
              ELSE IF req.newOnly
                THEN sub.start = "deliverNew"
              ELSE IF own \cap BeforeDeliverAll # {}
                THEN own = {sub.start}
                ELSE sub.start = "deliverAll"

\* Of every request and component: a limit and an ack wait that the request sets,
\* or else the component, is what the broker is asked for, and a JetStream subscription
\* has a slot for a message whatever both say: without one none would be taken, and a
\* negative number of them would end the process (jetstream.go:199 and 246).  NATS
\* starts with new messages for a request that wants only those, with all for one
\* that wants all, unless the component starts with new messages, a sequence number or
\* the last one received, which come first (nats.go:315, 417), and otherwise where the
\* component says.  JetStream starts with the first message whatever both say: their
\* start is merged and then left out (jetstream.go:174, 324).
OptionsReachBroker ==
    \A i \in DOMAIN optSubs : AsksBrokerFor(optSubs[i].req, optSubs[i].sub)
=============================================================================
