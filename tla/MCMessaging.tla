----------------------------- MODULE MCMessaging -----------------------------
(* The machines of pkg/messaging side by side.  They share no state: part    *)
(* says which of them runs, the others stay as they are.                     *)
EXTENDS JetStreamConsumer, SubscriptionOptions, MessagePath, InMemoryBus

VARIABLE part
messagingVars == <<part, vars, optVars, pathVars, busVars>>

-----------------------------------------------------------------------------
(* Components that differ in one respect at a time from one that is complete. *)
NoKeys == [k \in {} |-> ""]
Complete(extra) ==
    extra @@ [natsURL |-> "u", natsStreamingClusterID |-> "c", consumerID |-> "app"]

BothKinds ==
    {NoKeys, "maxInFlight" :> "5", "maxInFlight" :> "0", "maxInFlight" :> "many",
     "ackWaitTime" :> "1s", "ackWaitTime" :> "soon", "connectWait" :> "1s", "connectWait" :> "x",
     "deliverAll" :> "true", "deliverNew" :> "true", "deliverNew" :> "",
     ("deliverAll" :> "true") @@ ("deliverNew" :> "no"), "natsURL" :> ""}
NatsOnly ==
    {"startAtSequence" :> "5", "startAtSequence" :> "-1", "startWithLastReceived" :> "true",
     "startAtTimeDelta" :> "0s", "startAtTimeDelta" :> "1s", "startAtTime" :> "2021",
     ("startAtTime" :> "2021") @@ ("startAtTimeFormat" :> "2006"),
     ("startAtTime" :> "bad") @@ ("startAtTimeFormat" :> "2006"),
     ("connectWait" :> "1s") @@ ("startAtTime" :> "2021"),
     "subscriptionType" :> "", "durableSubscriptionName" :> "d"}
MCComponents ==
    ({"pubsub.jetstream"} \X {"v1"} \X {Complete(e) : e \in BothKinds})
    \cup ({"pubsub.natsstreaming"} \X {""} \X
            ({Complete(e @@ ("subscriptionType" :> "queue")) : e \in BothKinds \cup NatsOnly}
              \cup {Complete(NoKeys), Complete("subscriptionType" :> "topic")}))
    \cup {<<"pubsub.jetstream", "v2", Complete(NoKeys)>>, <<"pubsub.kafka", "v1", Complete(NoKeys)>>}
MCRequests ==
    {[durable |-> d, qGroup |-> g] : d, g \in BOOLEAN} \cup {[qGroup |-> g] : g \in BOOLEAN}
    \cup {[max |-> n] : n \in {-1, 0, 5}} \cup {[newOnly |-> n] : n \in BOOLEAN}
    \cup {[ackWait |-> 1], [max |-> 5, ackWait |-> 1, newOnly |-> FALSE], [durable |-> TRUE], NoKeys, NoOptions}
MCDotless == "a.b" :> "a_b" @@ "c" :> "c"

-----------------------------------------------------------------------------
(* Two calls, one by the name of the pubsub and inside a trace, the other by *)
(* the configuration's default; two messages of other programs.              *)
Call(pubsub, metadata) == [pubsub |-> pubsub, topic |-> "t", metadata |-> metadata, data |-> "ok"]
MCCalls == {Call("", NilMap),
            Call("nats", ("user" :> "v") @@ ("traceparent" :> <<"client">>))}
MCForeign == {[wellFormed |-> FALSE], [wellFormed |-> TRUE, headers |-> "h" :> Null]}
MCRegistered == {<<"uppercase">>}
MCStored == {[type |-> "uppercase", name |-> "upper"]}
Handlers(name, version) == {[type |-> "uppercase", name |-> name, version |-> version]}
MCConfigurations ==
    {[pubsub |-> "nats", propagator |-> "w3c",
      handlers |-> Handlers("upper", "v1")],
     [pubsub |-> "", propagator |-> "jaeger",
      handlers |-> Handlers("upper", "v2")]}

MCTopicOf == ("s1" :> "t") @@ ("s2" :> "t") @@ ("s3" :> "u") @@ ("p1" :> "t") @@ ("p2" :> "u")

-----------------------------------------------------------------------------
MessagingInit ==
    /\ part \in {"jetstream", "options", "path", "bus"}
    /\ part # "options" => optComponent = CHOOSE c \in Components : TRUE
    /\ part # "path" => pathConfig = CHOOSE c \in Configurations : TRUE
    /\ Init /\ OptInit /\ PathInit /\ BusInit

MessagingNext ==
    /\ UNCHANGED part
    /\ \/ part = "jetstream" /\ Next /\ UNCHANGED <<optVars, pathVars, busVars>>
       \/ part = "options" /\ OptNext /\ UNCHANGED <<vars, pathVars, busVars>>
       \/ part = "path" /\ PathNext /\ UNCHANGED <<vars, optVars, busVars>>
       \/ part = "bus" /\ BusNext /\ UNCHANGED <<vars, optVars, pathVars>>

\* The liveness properties are those of JetStreamConsumer, and so is the fairness:
\* behaviours of the other machines count for the invariants only.
MessagingSpec == MessagingInit /\ [][MessagingNext]_messagingVars /\ Fairness
=============================================================================
