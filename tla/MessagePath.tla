----------------------------- MODULE MessagePath -----------------------------
(***************************************************************************)
(* A message from Publish of one sidecar to the handler of a subscription, *)
(* through NATS streaming: the checks and the envelope of grpc_api.go and  *)
(* runtime.go, the tracing of both pipelines, the broker, and the          *)
(* goroutine that nats.go starts for each delivery.  A span is named by    *)
(* the call it belongs to; headers are a partial function from keys.       *)
(***************************************************************************)
EXTENDS Naturals, FiniteSets, TLC

CONSTANTS
    Calls,          \* publish calls: pubsub, topic, metadata, data
    NilMap, Null,   \* no metadata at all; a header that is null in JSON
    Foreign,        \* messages other programs store: wellFormed, headers
    PubSub,         \* the name of the one pubsub that is installed
    Registered,     \* the middlewares by <<type>> or <<type, version>>, in lower case
    Stored,         \* the components that are stored: type and name
    Configurations, \* pubsub, propagator, and handlers: a set of type, name and version
    MaxRuns         \* bound: the deliveries of all messages

ASSUME PathAssumption == MaxRuns \in Nat \ {0} /\ Calls \cap Foreign = {}

VARIABLES
    pathConfig,     \* appConfig, and the propagator that WatchConfig installed
    pathCalls,      \* each call: "idle", "sending", "ok", "failed"
    pathEnvelopes,  \* the envelopes that the pipelines of publishers have made
    pathStored,     \* what the broker has stored
    pathOpen,       \* the connection is open and n.ctx is not cancelled
    pathSub,        \* the subscription: "none", "open", "refused", "closed"
    pathRuns,       \* the goroutines of the deliveries
    pathHandled,    \* the messages whose handler has succeeded
    pathAcked       \* those acknowledged to the broker
pathVars == <<pathConfig, pathCalls, pathEnvelopes, pathStored, pathOpen, pathSub,
              pathRuns, pathHandled, pathAcked>>

AllMessages == Calls \cup Foreign
Empty == [k \in {} |-> ""]

-----------------------------------------------------------------------------
(* Tracing.  The propagator that is installed decides which header counts.  *)
TraceKey == [w3c |-> "traceparent", jaeger |-> "uber-trace-id"]
TraceKeys == {TraceKey[p] : p \in DOMAIN TraceKey}
Root == <<"root">>

Extract(headers, propagator) ==
    IF propagator \in DOMAIN TraceKey /\ TraceKey[propagator] \in DOMAIN headers
      THEN headers[TraceKey[propagator]] ELSE Root

(* Mutant of Inject: a trace that is there is not replaced. *)
InjectIfAbsent(headers, propagator, span) ==
    IF propagator \in DOMAIN TraceKey THEN headers @@ (TraceKey[propagator] :> span) ELSE headers

Inject(headers, propagator, span) ==
    IF propagator \notin DOMAIN TraceKey THEN headers
    ELSE [k \in DOMAIN headers \cup {TraceKey[propagator]} |->
            IF k = TraceKey[propagator] THEN span ELSE headers[k]]

\* The span of a call or of a run, and the headers its middleware passes on.  The
\* two reads of the propagator are one step, the start of a handler's goroutine and
\* its pipeline are one with the delivery.
Traced(headers, span) ==
    [parent     |-> Extract(headers, pathConfig.propagator),
     headers    |-> Inject(headers, pathConfig.propagator, span),
     propagator |-> pathConfig.propagator]

-----------------------------------------------------------------------------
PubSubName(given) == IF given # "" THEN given ELSE pathConfig.pubsub

\* A first version is found under the bare name, any other only under its own.
IsInitialVersion(version) == version \in {"", "v0", "v1"}
CreateMiddleware(type, version) ==
    \/ <<type, version>> \in Registered
    \/ IsInitialVersion(version) /\ <<type>> \in Registered
GetMiddleware(h) == [type |-> h.type, name |-> h.name] \in Stored /\ CreateMiddleware(h.type, h.version)

Metadata(c) == IF c.metadata = NilMap THEN Empty ELSE c.metadata

PathInit ==
    /\ pathConfig \in Configurations
    /\ pathCalls = [c \in Calls |-> "idle"]
    /\ pathEnvelopes = [c \in {} |-> ""] /\ pathStored = Foreign
    /\ pathOpen = TRUE /\ pathSub = "none"
    /\ pathRuns = [r \in {} |-> ""]
    /\ pathHandled = {} /\ pathAcked = {}

PublishRefused(c) == c.topic = "" \/ c.data = "malformed"

Publish(c) ==
    /\ pathCalls[c] = "idle"
    /\ IF PublishRefused(c) \/ PubSubName(c.pubsub) # PubSub
         THEN /\ pathCalls' = [pathCalls EXCEPT ![c] = "failed"]
              /\ UNCHANGED pathEnvelopes
         ELSE /\ pathCalls' = [pathCalls EXCEPT ![c] = "sending"]
              /\ pathEnvelopes' = [e \in DOMAIN pathEnvelopes \cup {c} |->
                    IF e = c THEN Traced(Metadata(c), <<"send", c>>) ELSE pathEnvelopes[e]]
    /\ UNCHANGED <<pathConfig, pathStored, pathOpen, pathSub, pathRuns, pathHandled, pathAcked>>

(* Mutant of Send: the error of the connection is only logged. *)
SendUnchecked(c) ==
    /\ pathCalls[c] = "sending"
    /\ pathStored' = pathStored \cup (IF pathOpen THEN {c} ELSE {})
    /\ pathCalls' = [pathCalls EXCEPT ![c] = "ok"]
    /\ UNCHANGED <<pathConfig, pathEnvelopes, pathOpen, pathSub, pathRuns, pathHandled, pathAcked>>

\* The broker may store a message and its answer be lost.
Send(c) ==
    /\ pathCalls[c] = "sending"
    /\ \E stored \in {pathOpen, FALSE}, answered \in {pathOpen, FALSE} :
          /\ answered => stored
          /\ pathStored' = pathStored \cup (IF stored THEN {c} ELSE {})
          /\ pathCalls' = [pathCalls EXCEPT ![c] = IF answered THEN "ok" ELSE "failed"]
    /\ UNCHANGED <<pathConfig, pathEnvelopes, pathOpen, pathSub, pathRuns, pathHandled, pathAcked>>

SubscribePath ==
    /\ pathSub = "none"
    /\ \E given \in {"", PubSub} :
          pathSub' = IF /\ PubSubName(given) = PubSub /\ pathOpen
                        /\ \A h \in pathConfig.handlers : GetMiddleware(h)
                     THEN "open" ELSE "refused"
    /\ UNCHANGED <<pathConfig, pathCalls, pathEnvelopes, pathStored, pathOpen, pathRuns, pathHandled, pathAcked>>

-----------------------------------------------------------------------------
(* A delivery.  What cannot be unmarshalled goes to the handler all the     *)
(* same, as an empty message.                                               *)
Unmarshal(m) ==
    IF m \in Calls THEN pathEnvelopes[m].headers
    ELSE IF ~m.wellFormed THEN Empty
    ELSE [k \in DOMAIN m.headers |-> IF m.headers[k] = Null THEN "" ELSE m.headers[k]]

RunsOf(m) == {r \in DOMAIN pathRuns : r[1] = m}
Phase(r, from, to) ==
    /\ r \in DOMAIN pathRuns /\ pathRuns[r].phase = from
    /\ pathRuns' = [pathRuns EXCEPT ![r].phase = to]

\* The broker delivers again what is not acknowledged within the ack wait,
\* whether a handler still runs or not.
DeliverRun(m) ==
    LET r   == <<m, Cardinality(RunsOf(m)) + 1>>
        run == [phase |-> "started", trace |-> Traced(Unmarshal(m), <<"receive", r>>)]
    IN  /\ pathSub = "open" /\ pathOpen
        /\ m \in pathStored \ pathAcked /\ Cardinality(DOMAIN pathRuns) < MaxRuns
        /\ pathRuns' = [q \in DOMAIN pathRuns \cup {r} |-> IF q = r THEN run ELSE pathRuns[q]]
        /\ UNCHANGED <<pathConfig, pathCalls, pathEnvelopes, pathStored, pathOpen, pathSub, pathHandled, pathAcked>>

HandlerDone(r) ==
    /\ Phase(r, "started", "acking") /\ pathHandled' = pathHandled \cup {r[1]}
    /\ UNCHANGED <<pathConfig, pathCalls, pathEnvelopes, pathStored, pathOpen, pathSub, pathAcked>>

(* Mutant of HandlerFailed: the error is only logged. *)
HandlerFailedAcks(r) ==
    /\ Phase(r, "started", "acking")
    /\ UNCHANGED <<pathConfig, pathCalls, pathEnvelopes, pathStored, pathOpen, pathSub, pathHandled, pathAcked>>

HandlerFailed(r) ==
    /\ Phase(r, "started", "ended")
    /\ UNCHANGED <<pathConfig, pathCalls, pathEnvelopes, pathStored, pathOpen, pathSub, pathHandled, pathAcked>>

AckRun(r) ==
    /\ Phase(r, "acking", "ended")
    /\ pathAcked' = IF pathOpen THEN pathAcked \cup {r[1]} ELSE pathAcked
    /\ UNCHANGED <<pathConfig, pathCalls, pathEnvelopes, pathStored, pathOpen, pathSub, pathHandled>>

UnsubscribePath ==
    /\ pathSub = "open" /\ pathSub' = "closed"
    /\ UNCHANGED <<pathConfig, pathCalls, pathEnvelopes, pathStored, pathOpen, pathRuns, pathHandled, pathAcked>>

ClosePath ==
    /\ pathOpen /\ pathOpen' = FALSE
    /\ UNCHANGED <<pathConfig, pathCalls, pathEnvelopes, pathStored, pathSub, pathRuns, pathHandled, pathAcked>>

Reconfigure ==
    /\ pathConfig' \in Configurations \ {pathConfig}
    /\ UNCHANGED <<pathCalls, pathEnvelopes, pathStored, pathOpen, pathSub, pathRuns, pathHandled, pathAcked>>

RunStep(r) == HandlerDone(r) \/ HandlerFailed(r) \/ AckRun(r)
PathNext ==
    \/ \E c \in Calls : Publish(c) \/ Send(c)
    \/ SubscribePath \/ UnsubscribePath \/ ClosePath \/ Reconfigure
    \/ \E m \in AllMessages : DeliverRun(m)
    \/ \E r \in DOMAIN pathRuns : RunStep(r)
PathSpec == PathInit /\ [][PathNext]_pathVars

-----------------------------------------------------------------------------
\* The trace goes on from the caller to the publisher's span and from there to
\* the receiver's, in every delivery, as long as one propagator is installed at
\* both ends; all other headers arrive as they were given (tracing.go, serdes.go).
TracesAndHeadersArrive ==
    \A r \in DOMAIN pathRuns :
        LET m    == r[1]
            seen == pathRuns[r].trace
        IN  m \in Calls =>
              LET sent == pathEnvelopes[m]
              IN  /\ sent.propagator = seen.propagator /\ seen.propagator \in DOMAIN TraceKey
                       => /\ seen.parent = <<"send", m>>
                          /\ sent.parent = Extract(Metadata(m), sent.propagator)
                  /\ \A k \in DOMAIN Metadata(m) \ TraceKeys : seen.headers[k] = m.metadata[k]

\* A caller is told "ok" only of a message that the broker has, and the broker is
\* told so only of a message that a handler has succeeded on, not of one whose
\* handler failed in every delivery so far (nats.go:226 and 257).
NothingIsLostInBetween ==
    /\ \A c \in Calls : pathCalls[c] = "ok" => c \in pathStored
    /\ pathAcked \subseteq pathHandled
=============================================================================
