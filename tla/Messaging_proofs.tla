-------------------------- MODULE Messaging_proofs --------------------------
(***************************************************************************)
(* Theorems about the in-memory bus, the path of a message and the options *)
(* of subscriptions, for any number of publishes, subscribers, calls,      *)
(* deliveries, components and requests.                                    *)
(***************************************************************************)
EXTENDS JetStreamConsumer, InMemoryBus, MessagePath, SubscriptionOptions, FiniteSetTheorems, TLAPS

(* The counter is the number of runHandlers at work; such a goroutine has  *)
(* started every handler of its snapshot, and one that ended waited for    *)
(* all of them.                                                            *)
Working == {p \in Publishes : busRuns[p] = "working"}

BusTypes ==
    /\ busRuns \in [Publishes -> {"new", "called", "working", "ended"}]
    /\ DOMAIN busSnapshot = Publishes /\ DOMAIN busRunning = Publishes /\ DOMAIN busRan = Publishes

CounterInv == busCounter = Cardinality(Working)

StartedInv ==
    \A p \in Publishes :
        /\ busRuns[p] \in {"working", "ended"} => busRan[p] = busSnapshot[p]
        /\ busRuns[p] = "ended" => busRunning[p] = {}

BusInv == BusTypes /\ CounterInv /\ StartedInv

(* Nobody is at work at first.                                             *)
LEMMA InitBusInv == BusInit => BusInv
<1> SUFFICES ASSUME BusInit PROVE BusInv
    OBVIOUS
<1>1. Working = {}
    BY DEF BusInit, Working
<1>2. CounterInv
    BY <1>1, FS_EmptySet DEF BusInit, CounterInv
<1> QED BY <1>2 DEF BusInit, BusInv, BusTypes, StartedInv

(* What leaves the goroutines of publishes alone keeps the count.          *)
LEMMA SubscribersKeepBusInv ==
    ASSUME BusInv, NEW s, BusSubscribe(s) \/ BusUnsubscribe(s)
    PROVE  BusInv'
BY DEF BusInv, BusTypes, CounterInv, StartedInv, Working, BusSubscribe, BusUnsubscribe

(* A publish is counted in by its goroutine and counted out by its end.    *)
LEMMA PublishKeepsBusInv ==
    ASSUME BusInv, NEW p \in Publishes,
           BusPublish(p) \/ RunHandlers(p) \/ RunHandlersEnd(p) \/ \E s \in Subscribers : BusHandlerReturns(p, s)
    PROVE  BusInv'
<1> USE DEF BusInv, BusTypes
<1>0. IsFiniteSet(Working) /\ Cardinality(Working) \in Nat
    BY BusAssumption, FS_Subset, FS_CardinalityType DEF Working
<1>1. CASE BusPublish(p)
  <2>1. BusTypes' /\ Working' = Working
      BY <1>1 DEF BusPublish, BusRun, Working
  <2> QED BY <1>1, <2>1 DEF BusPublish, BusRun, CounterInv, StartedInv
<1>2. CASE RunHandlers(p)
  <2>1. BusTypes' /\ Working' = Working \cup {p} /\ p \notin Working
      BY <1>2 DEF RunHandlers, BusRun, Working
  <2>2. CounterInv'
      BY <1>0, <1>2, <2>1, FS_AddElement DEF RunHandlers, CounterInv
  <2> QED BY <1>2, <2>1, <2>2 DEF RunHandlers, BusRun, StartedInv
<1>3. CASE RunHandlersEnd(p)
  <2>1. BusTypes' /\ Working' = Working \ {p} /\ p \in Working
      BY <1>3 DEF RunHandlersEnd, BusRun, Working
  <2>2. CounterInv'
      BY <1>0, <1>3, <2>1, FS_RemoveElement DEF RunHandlersEnd, CounterInv
  <2> QED BY <1>3, <2>1, <2>2 DEF RunHandlersEnd, BusRun, StartedInv
<1>4. CASE \E s \in Subscribers : BusHandlerReturns(p, s)
  <2>1. BusTypes' /\ Working' = Working
      BY <1>4 DEF BusHandlerReturns, Working
  <2> QED BY <1>4, <2>1 DEF BusHandlerReturns, CounterInv, StartedInv
<1> QED BY <1>1, <1>2, <1>3, <1>4

(* A counter of zero means that the handlers of every publish whose        *)
(* goroutine has begun were called and have returned, which is what the    *)
(* tests of the API wait for (inmemory.go:85, grpc_api_test.go:137).       *)
THEOREM BusCounterCorrect == BusSpec => []DoneMeansHandled
<1>1. BusInv /\ [BusNext]_busVars => BusInv'
  <2> SUFFICES ASSUME BusInv, [BusNext]_busVars PROVE BusInv'
      OBVIOUS
  <2>1. CASE UNCHANGED busVars
      BY <2>1 DEF busVars, BusInv, BusTypes, CounterInv, StartedInv, Working
  <2> QED BY <2>1, SubscribersKeepBusInv, PublishKeepsBusInv DEF BusNext
<1>2. BusInv => DoneMeansHandled
  <2> SUFFICES ASSUME BusInv, busCounter = 0 PROVE DoneMeansHandled
      BY DEF DoneMeansHandled
  <2>1. Working = {}
      BY BusAssumption, FS_Subset, FS_EmptySet DEF BusInv, CounterInv, Working
  <2> QED BY <2>1 DEF BusInv, BusTypes, StartedInv, Working, DoneMeansHandled
<1> QED BY <1>1, <1>2, InitBusInv, PTL DEF BusSpec

-----------------------------------------------------------------------------
(* A run that acknowledges has had a handler that succeeded.               *)
RunsInv ==
    \A r \in DOMAIN pathRuns :
        /\ "phase" \in DOMAIN pathRuns[r]
        /\ pathRuns[r].phase = "acking" => r[1] \in pathHandled

PathInv ==
    /\ RunsInv /\ NothingIsLostInBetween
    /\ DOMAIN pathCalls = Calls

(* A step of one run leaves the others where they are.                     *)
LEMMA PhaseMoves ==
    ASSUME RunsInv, NEW r, NEW from, NEW to, Phase(r, from, to)
    PROVE  /\ r \in DOMAIN pathRuns /\ pathRuns[r].phase = from
           /\ DOMAIN pathRuns' = DOMAIN pathRuns
           /\ "phase" \in DOMAIN pathRuns'[r] /\ pathRuns'[r].phase = to
           /\ \A q \in DOMAIN pathRuns \ {r} : pathRuns'[q] = pathRuns[q]
<1>1. /\ r \in DOMAIN pathRuns /\ pathRuns[r].phase = from
      /\ pathRuns' = [pathRuns EXCEPT ![r].phase = to]
    BY DEF Phase
<1>2. "phase" \in DOMAIN pathRuns[r]
    BY <1>1 DEF RunsInv
<1> QED BY <1>1, <1>2

(* A delivery adds a run that has not called its handler.                  *)
LEMMA DeliveryAddsRun ==
    ASSUME NEW m, DeliverRun(m)
    PROVE  \E r : /\ DOMAIN pathRuns' = DOMAIN pathRuns \cup {r}
                  /\ "phase" \in DOMAIN pathRuns'[r] /\ pathRuns'[r].phase = "started"
                  /\ \A q \in DOMAIN pathRuns \ {r} : pathRuns'[q] = pathRuns[q]
<1> DEFINE r == <<m, Cardinality(RunsOf(m)) + 1>>
           run == [phase |-> "started", trace |-> Traced(Unmarshal(m), <<"receive", r>>)]
<1>1. pathRuns' = [q \in DOMAIN pathRuns \cup {r} |-> IF q = r THEN run ELSE pathRuns[q]]
    BY DEF DeliverRun
<1>2. "phase" \in DOMAIN run /\ run.phase = "started"
    OBVIOUS
<1> HIDE DEF r, run
<1> QED BY <1>1, <1>2

(* What publishers and the environment do.                                 *)
LEMMA CallsKeepPathInv ==
    ASSUME PathInv, NEW c \in Calls, Publish(c) \/ Send(c)
    PROVE  PathInv'
<1> USE DEF PathInv, RunsInv, NothingIsLostInBetween
<1>1. CASE Publish(c)
    BY <1>1 DEF Publish
<1>2. CASE Send(c)
  <2>1. PICK stored \in BOOLEAN, answered \in BOOLEAN :
          /\ answered => stored
          /\ pathStored' = pathStored \cup (IF stored THEN {c} ELSE {})
          /\ pathCalls' = [pathCalls EXCEPT ![c] = IF answered THEN "ok" ELSE "failed"]
          /\ UNCHANGED <<pathRuns, pathHandled, pathAcked>>
      BY <1>2 DEF Send
  <2> QED BY <2>1
<1> QED BY <1>1, <1>2

(* What a run and its delivery do.                                         *)
LEMMA RunsKeepPathInv ==
    ASSUME PathInv, NEW r, RunStep(r) \/ DeliverRun(r)
    PROVE  PathInv'
<1> USE DEF PathInv, NothingIsLostInBetween
<1>1. CASE HandlerDone(r)
  <2>1. RunsInv'
      BY <1>1, PhaseMoves DEF HandlerDone, RunsInv
  <2> QED BY <1>1, <2>1 DEF HandlerDone
<1>2. CASE HandlerFailed(r)
  <2>1. RunsInv'
      BY <1>2, PhaseMoves DEF HandlerFailed, RunsInv
  <2> QED BY <1>2, <2>1 DEF HandlerFailed
<1>3. CASE AckRun(r)
  <2>1. RunsInv' /\ r[1] \in pathHandled
      BY <1>3, PhaseMoves DEF AckRun, RunsInv
  <2> QED BY <1>3, <2>1 DEF AckRun
<1>4. CASE DeliverRun(r)
  <2>1. RunsInv'
      BY <1>4, DeliveryAddsRun DEF DeliverRun, RunsInv
  <2> QED BY <1>4, <2>1 DEF DeliverRun
<1> QED BY <1>1, <1>2, <1>3, <1>4 DEF RunStep

(* A publisher is told ok only of what the broker has stored, the broker   *)
(* only of what a handler has succeeded on, whatever is delivered again,   *)
(* answered late, closed or reconfigured meanwhile (nats.go:226, 257).     *)
THEOREM PathKeepsMessages == PathSpec => []NothingIsLostInBetween
<1>1. PathInit => PathInv
    BY DEF PathInit, PathInv, RunsInv, NothingIsLostInBetween
<1>2. PathInv /\ [PathNext]_pathVars => PathInv'
  <2> SUFFICES ASSUME PathInv, [PathNext]_pathVars PROVE PathInv'
      OBVIOUS
  <2>1. CASE UNCHANGED pathVars
      BY <2>1 DEF pathVars, PathInv, RunsInv, NothingIsLostInBetween
  <2>2. CASE SubscribePath \/ UnsubscribePath \/ ClosePath \/ Reconfigure
      BY <2>2 DEF SubscribePath, UnsubscribePath, ClosePath, Reconfigure, PathInv, RunsInv, NothingIsLostInBetween
  <2> QED BY <2>1, <2>2, CallsKeepPathInv, RunsKeepPathInv DEF PathNext
<1>3. PathInv => NothingIsLostInBetween
    BY DEF PathInv
<1> QED BY <1>1, <1>2, <1>3, PTL DEF PathSpec

-----------------------------------------------------------------------------
(* Every envelope, and every run of a call, is what the tracing middleware *)
(* made of the headers it was given.                                       *)
IsTraced(t, headers, span) ==
    /\ t.parent = Extract(headers, t.propagator)
    /\ t.headers = Inject(headers, t.propagator, span)

EnvelopeInv ==
    /\ DOMAIN pathEnvelopes \subseteq Calls /\ DOMAIN pathCalls = Calls
    /\ \A c \in Calls : pathCalls[c] = "sending" => c \in DOMAIN pathEnvelopes
    /\ \A c \in Calls : pathCalls[c] = "idle" => c \notin DOMAIN pathEnvelopes
    /\ \A c \in DOMAIN pathEnvelopes : IsTraced(pathEnvelopes[c], Metadata(c), <<"send", c>>)

(* What the broker has stored of a call was sent in its envelope.          *)
StoredInv == pathStored \cap Calls \subseteq DOMAIN pathEnvelopes

TraceInv ==
    \A r \in DOMAIN pathRuns :
        /\ {"phase", "trace"} \subseteq DOMAIN pathRuns[r]
        /\ r[1] \in Calls =>
              /\ r[1] \in DOMAIN pathEnvelopes
              /\ IsTraced(pathRuns[r].trace, pathEnvelopes[r[1]].headers, <<"receive", r>>)

TracingInv == EnvelopeInv /\ StoredInv /\ TraceInv

(* The middleware as it is called.                                         *)
LEMMA TracedFacts ==
    ASSUME NEW headers, NEW span
    PROVE  IsTraced(Traced(headers, span), headers, span)
BY DEF IsTraced, Traced

(* What two middlewares in a row do to trace and headers.                  *)
GoesOn(sent, seen, given, span) ==
    /\ sent.propagator = seen.propagator /\ seen.propagator \in DOMAIN TraceKey
         => seen.parent = span
    /\ \A k \in DOMAIN given \ TraceKeys : seen.headers[k] = given[k]

LEMMA TracesCompose ==
    ASSUME NEW given, NEW span, NEW sent, NEW seen, NEW end,
           IsTraced(sent, given, span), IsTraced(seen, sent.headers, end)
    PROVE  GoesOn(sent, seen, given, span)
<1>1. seen.parent = Extract(Inject(given, sent.propagator, span), seen.propagator)
    BY DEF IsTraced
<1>2. seen.headers = Inject(Inject(given, sent.propagator, span), seen.propagator, end)
    BY DEF IsTraced
<1>3. ASSUME NEW headers, NEW p, NEW s, NEW k \in DOMAIN headers \ TraceKeys
      PROVE  k \in DOMAIN Inject(headers, p, s) \ TraceKeys /\ Inject(headers, p, s)[k] = headers[k]
    BY DEF Inject, TraceKeys
<1>4. ASSUME NEW k \in DOMAIN given \ TraceKeys
      PROVE  seen.headers[k] = given[k]
  <2>1. /\ k \in DOMAIN Inject(given, sent.propagator, span) \ TraceKeys
        /\ Inject(given, sent.propagator, span)[k] = given[k]
      BY <1>3
  <2> QED BY <1>2, <1>3, <2>1
<1>5. ASSUME sent.propagator = seen.propagator, seen.propagator \in DOMAIN TraceKey
      PROVE  seen.parent = span
    BY <1>1, <1>5 DEF Extract, Inject
<1> QED BY <1>4, <1>5 DEF GoesOn

(* A publish makes one envelope, which its send leaves as it is.           *)
LEMMA CallsKeepTracing ==
    ASSUME TracingInv, NEW c \in Calls, Publish(c) \/ Send(c)
    PROVE  TracingInv'
<1> USE DEF TracingInv
<1>1. CASE Send(c)
  <2>1. /\ c \in DOMAIN pathEnvelopes
        /\ UNCHANGED <<pathEnvelopes, pathRuns>>
        /\ pathStored' \subseteq pathStored \cup {c}
        /\ \E to \in {"ok", "failed"} : pathCalls' = [pathCalls EXCEPT ![c] = to]
      BY <1>1 DEF Send, EnvelopeInv
  <2> QED BY <2>1 DEF EnvelopeInv, StoredInv, TraceInv, IsTraced
<1>2. CASE Publish(c) /\ pathEnvelopes' = pathEnvelopes
    BY <1>2 DEF Publish, EnvelopeInv, StoredInv, TraceInv, IsTraced
<1>3. CASE Publish(c) /\ pathEnvelopes' # pathEnvelopes
  <2>1. /\ pathCalls' = [pathCalls EXCEPT ![c] = "sending"] /\ c \notin DOMAIN pathEnvelopes
        /\ DOMAIN pathEnvelopes' = DOMAIN pathEnvelopes \cup {c}
        /\ pathEnvelopes'[c] = Traced(Metadata(c), <<"send", c>>)
        /\ \A e \in DOMAIN pathEnvelopes : pathEnvelopes'[e] = pathEnvelopes[e]
        /\ UNCHANGED <<pathStored, pathRuns>>
      BY <1>3 DEF Publish, EnvelopeInv
  <2>2. IsTraced(pathEnvelopes'[c], Metadata(c), <<"send", c>>)
      BY <2>1, TracedFacts
  <2>3. EnvelopeInv'
      BY <2>1, <2>2 DEF EnvelopeInv
  <2> QED BY <2>1, <2>3 DEF StoredInv, TraceInv
<1> QED BY <1>1, <1>2, <1>3

(* A delivery traces what is stored; the later steps of a run keep it.     *)
LEMMA RunsKeepTracing ==
    ASSUME TracingInv, NEW r, RunStep(r) \/ DeliverRun(r)
    PROVE  TracingInv'
<1> USE DEF TracingInv
<1>1. CASE RunStep(r)
  <2>1. /\ r \in DOMAIN pathRuns
        /\ UNCHANGED <<pathEnvelopes, pathCalls, pathStored>>
        /\ \E to : pathRuns' = [pathRuns EXCEPT ![r].phase = to]
      BY <1>1 DEF RunStep, HandlerDone, HandlerFailed, AckRun, Phase
  <2>2. PICK to : pathRuns' = [pathRuns EXCEPT ![r].phase = to]
      BY <2>1
  <2>3. /\ DOMAIN pathRuns' = DOMAIN pathRuns
        /\ \A q \in DOMAIN pathRuns : /\ {"phase", "trace"} \subseteq DOMAIN pathRuns'[q]
                                      /\ pathRuns'[q].trace = pathRuns[q].trace
      BY <2>1, <2>2 DEF TraceInv
  <2> QED BY <2>1, <2>3 DEF EnvelopeInv, StoredInv, TraceInv
<1>2. CASE DeliverRun(r)
  <2> DEFINE n == <<r, Cardinality(RunsOf(r)) + 1>>
             trace == Traced(Unmarshal(r), <<"receive", n>>)
             run == [phase |-> "started", trace |-> trace]
  <2>1. /\ r \in pathStored /\ UNCHANGED <<pathEnvelopes, pathCalls, pathStored>>
        /\ pathRuns' = [q \in DOMAIN pathRuns \cup {n} |-> IF q = n THEN run ELSE pathRuns[q]]
      BY <1>2 DEF DeliverRun
  <2>2. {"phase", "trace"} \subseteq DOMAIN run /\ run.trace = trace
      OBVIOUS
  <2>3. n[1] = r
      OBVIOUS
  <2>4. r \in Calls => r \in DOMAIN pathEnvelopes /\ IsTraced(trace, pathEnvelopes[r].headers, <<"receive", n>>)
      BY <2>1, TracedFacts DEF StoredInv, Unmarshal
  <2> HIDE DEF n, trace, run
  <2>5. TraceInv'
      BY <2>1, <2>2, <2>3, <2>4 DEF TraceInv
  <2> QED BY <2>1, <2>5 DEF EnvelopeInv, StoredInv
<1> QED BY <1>1, <1>2

(* Traces go on from publisher to receiver, and headers arrive, whatever   *)
(* headers there are, whenever the propagator is replaced and however      *)
(* often a message is delivered (tracing.go:35 to 121).                    *)
THEOREM TracesCorrect == PathSpec => []TracesAndHeadersArrive
<1>1. PathInit => TracingInv
    BY PathAssumption DEF PathInit, TracingInv, EnvelopeInv, StoredInv, TraceInv
<1>2. TracingInv /\ [PathNext]_pathVars => TracingInv'
  <2> SUFFICES ASSUME TracingInv, [PathNext]_pathVars PROVE TracingInv'
      OBVIOUS
  <2>1. CASE UNCHANGED pathVars
      BY <2>1 DEF pathVars, TracingInv, EnvelopeInv, StoredInv, TraceInv
  <2>2. CASE SubscribePath \/ UnsubscribePath \/ ClosePath \/ Reconfigure
      BY <2>2 DEF SubscribePath, UnsubscribePath, ClosePath, Reconfigure, TracingInv, EnvelopeInv, StoredInv, TraceInv
  <2> QED BY <2>1, <2>2, CallsKeepTracing, RunsKeepTracing DEF PathNext
<1>3. TracingInv => TracesAndHeadersArrive
  <2> SUFFICES ASSUME TracingInv, NEW r \in DOMAIN pathRuns, r[1] \in Calls
               PROVE  LET sent == pathEnvelopes[r[1]]
                          seen == pathRuns[r].trace
                      IN  /\ sent.propagator = seen.propagator /\ seen.propagator \in DOMAIN TraceKey
                               => /\ seen.parent = <<"send", r[1]>>
                                  /\ sent.parent = Extract(Metadata(r[1]), sent.propagator)
                          /\ \A k \in DOMAIN Metadata(r[1]) \ TraceKeys : seen.headers[k] = r[1].metadata[k]
      BY DEF TracesAndHeadersArrive
  <2>1. /\ IsTraced(pathEnvelopes[r[1]], Metadata(r[1]), <<"send", r[1]>>)
        /\ IsTraced(pathRuns[r].trace, pathEnvelopes[r[1]].headers, <<"receive", r>>)
      BY DEF TracingInv, EnvelopeInv, TraceInv
  <2>2. pathEnvelopes[r[1]].parent = Extract(Metadata(r[1]), pathEnvelopes[r[1]].propagator)
      BY <2>1 DEF IsTraced
  <2>3. \A k \in DOMAIN Metadata(r[1]) : Metadata(r[1])[k] = r[1].metadata[k]
      BY DEF Metadata, Empty
  <2>4. GoesOn(pathEnvelopes[r[1]], pathRuns[r].trace, Metadata(r[1]), <<"send", r[1]>>)
      BY <2>1, TracesCompose
  <2> QED BY <2>2, <2>3, <2>4 DEF GoesOn
<1> QED BY <1>1, <1>2, <1>3, PTL DEF PathSpec

-----------------------------------------------------------------------------
(* What is asked of the broker follows the component, which Init parsed    *)
(* once, and the request.                                                  *)
NatsFields == {"type", "group", "durable", "starts", "time", "limit", "ackWait"}
JetStreamFields == {"consumer", "durable", "queue", "starts", "limit", "ackWait"}

(* A component has at most one start, and a limit that is none or positive. *)
OneStart(starts) == starts = {} \/ \E n \in 1 .. Len(StanOrder) : starts = {StanOrder[n]}

ParsedInv ==
    /\ DOMAIN optGlobal = IF IsNats THEN NatsFields ELSE JetStreamFields
    /\ optGlobal.limit \in Nat
    /\ IsNats => OneStart(optGlobal.starts)

OptionsInv ==
    /\ optState # "ready" => optSubs = <<>>
    /\ optState = "ready" => ParsedInv
    /\ \E S : optSubs \in Seq(S)
    /\ OptionsReachBroker

(* The order in which the broker's library looks at the start options.     *)
LEMMA StartOrder ==
    /\ Len(StanOrder) = 6
    /\ StanOrder[1] = "deliverNew" /\ StanOrder[2] = "startAtSequence"
    /\ StanOrder[3] = "startWithLastReceived" /\ StanOrder[4] = "deliverAll"
    /\ StanOrder[5] = "startAtTimeDelta" /\ StanOrder[6] = "startAtTime"
BY DEF StanOrder

(* It takes the first that is set.                                         *)
LEMMA StartFacts ==
    ASSUME NEW o
    PROVE  /\ \A n \in 1 .. 6 :
                 StanOrder[n] \in o.starts /\ (\A i \in 1 .. n - 1 : StanOrder[i] \notin o.starts)
                   => StanStart(o) = StanOrder[n]
           /\ o.starts = {} => StanStart(o) = "deliverNew"
<1> DEFINE I == {i \in 1 .. Len(StanOrder) : StanOrder[i] \in o.starts}
<1>1. StanStart(o) = LET i == IF I # {} THEN Min(I) ELSE 0 IN IF i = 0 THEN "deliverNew" ELSE StanOrder[i]
    BY DEF StanStart, SelectInSeq
<1>2. Len(StanOrder) = 6
    BY StartOrder
<1>3. ASSUME NEW n \in 1 .. 6, StanOrder[n] \in o.starts,
             \A i \in 1 .. n - 1 : StanOrder[i] \notin o.starts
      PROVE  StanStart(o) = StanOrder[n]
  <2>1. n \in I /\ \A i \in I : n <= i
      BY <1>2, <1>3
  <2>2. Min(I) \in I /\ \A i \in I : Min(I) <= i
      BY <2>1 DEF Min
  <2>3. Min(I) \in Int /\ n \in Int
      BY <1>2, <2>2
  <2>4. Min(I) <= n /\ n <= Min(I)
      BY <2>1, <2>2
  <2> HIDE DEF I
  <2>5. Min(I) = n
      BY <2>3, <2>4
  <2>6. n \in I /\ n # 0
      BY <2>1
  <2> QED BY <1>1, <2>5, <2>6
<1>4. ASSUME o.starts = {} PROVE StanStart(o) = "deliverNew"
    BY <1>1, <1>4
<1> QED BY <1>3, <1>4

(* What is left of the component's own start when a request has its wish.  *)
LEMMA StartWithWish ==
    ASSUME NEW o, NEW own, OneStart(own)
    PROVE  /\ o.starts = own => own = {StanStart(o)} \/ (own = {} /\ StanStart(o) = "deliverNew")
           /\ o.starts = own \cup {"deliverNew"} => StanStart(o) = "deliverNew"
           /\ o.starts = own \cup {"deliverAll"} =>
                 IF own \cap BeforeDeliverAll # {} THEN own = {StanStart(o)}
                 ELSE StanStart(o) = "deliverAll"
<1>1. ASSUME "deliverNew" \in o.starts PROVE StanStart(o) = "deliverNew"
    BY <1>1, StartFacts, StartOrder
<1>2. CASE own = {}
  <2>1. o.starts = own => StanStart(o) = "deliverNew"
      BY <1>2, StartFacts
  <2>2. o.starts = {"deliverAll"} => StanStart(o) = "deliverAll"
    <3>1. \A i \in 1 .. 3 : StanOrder[i] # "deliverAll"
        BY StartOrder
    <3> QED BY <3>1, StartFacts, StartOrder
  <2> QED BY <1>1, <1>2, <2>1, <2>2
<1>3. ASSUME NEW n \in 1 .. 6, own = {StanOrder[n]}
      PROVE  /\ o.starts = own => own = {StanStart(o)}
             /\ o.starts = own \cup {"deliverAll"} =>
                   IF own \cap BeforeDeliverAll # {} THEN own = {StanStart(o)}
                   ELSE StanStart(o) = "deliverAll"
  <2>1. \A i, j \in 1 .. 6 : StanOrder[i] = StanOrder[j] => i = j
      BY StartOrder
  <2>2. o.starts = own => own = {StanStart(o)}
      BY <1>3, <2>1, StartFacts
  <2>3. StanOrder[n] \in BeforeDeliverAll <=> n < 4
      BY StartOrder DEF BeforeDeliverAll
  <2>4. ASSUME o.starts = own \cup {"deliverAll"}, n < 4 PROVE StanStart(o) = StanOrder[n]
    <3>1. \A i \in 1 .. n - 1 : StanOrder[i] \notin o.starts
        BY <1>3, <2>1, <2>4, StartOrder
    <3> QED BY <1>3, <2>4, <3>1, StartFacts
  <2>5. ASSUME o.starts = own \cup {"deliverAll"}, n >= 4 PROVE StanStart(o) = StanOrder[4]
    <3>1. StanOrder[4] \in o.starts /\ \A i \in 1 .. 3 : StanOrder[i] \notin o.starts
        BY <1>3, <2>1, <2>5, StartOrder
    <3> QED BY <3>1, StartFacts
  <2> QED BY <1>3, <2>2, <2>3, <2>4, <2>5, StartOrder
<1> QED BY <1>1, <1>2, <1>3, StartOrder DEF OneStart

(* A request on top of a component's options, in both brokers.             *)
LEMMA MergedNats ==
    ASSUME NEW global, DOMAIN global = NatsFields, NEW req, req # NoOptions
    PROVE  LET o == MergeNats(global, req)
           IN  /\ o.limit = IF Asked(req, "max") THEN req.max ELSE global.limit
               /\ o.ackWait = IF Asked(req, "ackWait") THEN req.ackWait ELSE global.ackWait
               /\ o.starts = IF Asked(req, "newOnly") THEN global.starts \cup Wish(req) ELSE global.starts
BY DEF MergeNats, NatsFields, Asked, AskedOr
LEMMA MergedJetStream ==
    ASSUME NEW global, DOMAIN global = JetStreamFields, NEW req, req # NoOptions
    PROVE  LET o == MergeJetStream(global, req)
           IN  /\ o.limit = IF Asked(req, "max") THEN req.max ELSE global.limit
               /\ o.ackWait = IF Asked(req, "ackWait") THEN req.ackWait ELSE global.ackWait
BY DEF MergeJetStream, JetStreamFields, Asked, AskedOr

(* A subscription that NATS streaming is asked for.                        *)
LEMMA NatsIsAsked ==
    ASSUME ParsedInv, IsNats, NEW req \in Requests, NEW topic, NEW unique
    PROVE  AsksBrokerFor(req, SubscribeNats(MergeNats(optGlobal, req), topic, unique))
<1> DEFINE o   == MergeNats(optGlobal, req)
           sub == SubscribeNats(o, topic, unique)
           asks(option) == req # NoOptions /\ Asked(req, option)
<1>1. /\ sub.start = StanStart(o)
      /\ sub.limit = IF o.limit # 0 THEN o.limit ELSE 1024
      /\ sub.ackWait = IF o.ackWait > 0 THEN o.ackWait ELSE 30
    BY DEF SubscribeNats
<1>2. /\ o.limit = IF asks("max") THEN req.max ELSE optGlobal.limit
      /\ o.ackWait = IF asks("ackWait") THEN req.ackWait ELSE optGlobal.ackWait
      /\ o.starts = IF asks("newOnly") THEN optGlobal.starts \cup Wish(req) ELSE optGlobal.starts
  <2>1. CASE req = NoOptions
      BY <2>1 DEF MergeNats
  <2>2. CASE req # NoOptions
      BY <2>2, MergedNats DEF ParsedInv
  <2> QED BY <2>1, <2>2
<1> HIDE DEF o, sub
<1>3. o.limit > 0 => sub.limit = o.limit
    BY <1>1
<1>4. o.ackWait > 0 => sub.ackWait = o.ackWait
    BY <1>1
<1>5. IF ~asks("newOnly")
        THEN optGlobal.starts = {sub.start} \/ (optGlobal.starts = {} /\ sub.start = "deliverNew")
      ELSE IF req.newOnly THEN sub.start = "deliverNew"
      ELSE IF optGlobal.starts \cap BeforeDeliverAll # {} THEN optGlobal.starts = {sub.start}
      ELSE sub.start = "deliverAll"
    BY <1>1, <1>2, StartWithWish DEF Wish, ParsedInv
<1> QED BY <1>2, <1>3, <1>4, <1>5 DEF AsksBrokerFor, o, sub

(* One that JetStream is asked for.                                        *)
LEMMA JetStreamIsAsked ==
    ASSUME ParsedInv, ~IsNats, NEW req \in Requests, NEW topic, NEW unique
    PROVE  AsksBrokerFor(req, SubscribeJetStream(MergeJetStream(optGlobal, req), topic, unique))
<1> DEFINE o   == MergeJetStream(optGlobal, req)
           sub == SubscribeJetStream(o, topic, unique)
           asks(option) == req # NoOptions /\ Asked(req, option)
<1>1. /\ sub.start = "deliverAll"
      /\ sub.limit = IF o.limit >= 1 THEN o.limit ELSE 1
      /\ sub.ackWait = IF o.ackWait > 0 THEN o.ackWait ELSE 30
    BY DEF SubscribeJetStream, Slots
<1>2. /\ o.limit = IF asks("max") THEN req.max ELSE optGlobal.limit
      /\ o.ackWait = IF asks("ackWait") THEN req.ackWait ELSE optGlobal.ackWait
  <2>1. CASE req = NoOptions
      BY <2>1 DEF MergeJetStream
  <2>2. CASE req # NoOptions
      BY <2>2, MergedJetStream DEF ParsedInv
  <2> QED BY <2>1, <2>2
<1>3. o.limit \in Int
    BY <1>2, OptionsAssumption DEF ParsedInv, Asked
<1> HIDE DEF o, sub
<1>4. sub.limit >= 1 /\ (o.limit > 0 => sub.limit = o.limit)
    BY <1>1, <1>3
<1>5. o.ackWait > 0 => sub.ackWait = o.ackWait
    BY <1>1
<1> QED BY <1>1, <1>2, <1>4, <1>5 DEF AsksBrokerFor, o, sub

(* One subscription more does not change what was asked before.            *)
LEMMA SubscribeKeepsOptions ==
    ASSUME OptionsInv, NEW req \in Requests, NEW topic \in Topics, SubscribeWith(req, topic)
    PROVE  OptionsInv'
<1> DEFINE o      == IF IsNats THEN MergeNats(optGlobal, req) ELSE MergeJetStream(optGlobal, req)
           unique == Len(optSubs) + 1
           sub    == IF IsNats THEN SubscribeNats(o, topic, unique) ELSE SubscribeJetStream(o, topic, unique)
           entry  == [req |-> req, sub |-> sub]
<1>1. /\ optState = "ready" /\ optSubs' = Append(optSubs, entry)
      /\ UNCHANGED <<optComponent, optState, optGlobal>>
    BY DEF SubscribeWith
<1>2. AsksBrokerFor(req, sub)
    BY <1>1, NatsIsAsked, JetStreamIsAsked DEF OptionsInv
<1>3. entry.req = req /\ entry.sub = sub
    OBVIOUS
<1> HIDE DEF o, unique, sub, entry
<1>4. PICK S : optSubs \in Seq(S)
    BY DEF OptionsInv
<1>5. /\ optSubs' \in Seq(S \cup {entry})
      /\ \A i \in DOMAIN optSubs' : \/ /\ i \in DOMAIN optSubs
                                      /\ optSubs'[i] = optSubs[i]
                                   \/ optSubs'[i] = entry
    BY <1>1, <1>4
<1>6. ASSUME NEW i \in DOMAIN optSubs' PROVE AsksBrokerFor(optSubs'[i].req, optSubs'[i].sub)
    BY <1>2, <1>3, <1>5 DEF OptionsInv, OptionsReachBroker
<1>7. ASSUME NEW r, NEW s, AsksBrokerFor(r, s) PROVE AsksBrokerFor(r, s)'
    BY <1>1, <1>7 DEF AsksBrokerFor, IsNats
<1>8. \A i \in DOMAIN optSubs' : AsksBrokerFor(optSubs[i].req, optSubs[i].sub)'
    BY <1>6, <1>7
<1>9. ParsedInv'
    BY <1>1 DEF OptionsInv, ParsedInv, IsNats
<1> QED BY <1>1, <1>5, <1>8, <1>9 DEF OptionsInv, OptionsReachBroker

(* The first of the options that are given is one of them.                 *)
LEMMA MinOfSeven ==
    ASSUME NEW I, I \subseteq 1 .. 7, I # {}
    PROVE  Min(I) \in 1 .. 7
<1>1. ASSUME \A n \in I : \E k \in I : k < n PROVE FALSE
  <2>1. 1 \notin I
      BY <1>1
  <2>2. 2 \notin I
      BY <1>1, <2>1
  <2>3. 3 \notin I
      BY <1>1, <2>1, <2>2
  <2>4. 4 \notin I
      BY <1>1, <2>1, <2>2, <2>3
  <2>5. 5 \notin I
      BY <1>1, <2>1, <2>2, <2>3, <2>4
  <2>6. 6 \notin I
      BY <1>1, <2>1, <2>2, <2>3, <2>4, <2>5
  <2>7. 7 \notin I
      BY <1>1, <2>1, <2>2, <2>3, <2>4, <2>5, <2>6
  <2>8. PICK i \in I : TRUE
      OBVIOUS
  <2>9. i \in 1 .. 7
      OBVIOUS
  <2> QED BY <2>1, <2>2, <2>3, <2>4, <2>5, <2>6, <2>7, <2>8, <2>9
<1>2. \E n \in I : \A k \in I : n <= k
    BY <1>1
<1> QED BY <1>2 DEF Min

(* Init makes one of two records, before anything is asked.                *)
LEMMA ParsingFacts ==
    ASSUME NEW md
    PROVE  /\ ~BadCount(md, "maxInFlight") => Limit(md) \in Nat
           /\ OneStart(ParseNats(md).starts)
<1>1. ~BadCount(md, "maxInFlight") => Limit(md) \in Nat
    BY DEF BadCount, Limit, Number
<1>2. OneStart(ParseNats(md).starts)
  <2>1. \E key : \/ ParseNats(md).starts = {}
                 \/ ParseNats(md).starts = {key} /\ key \notin {"none", "connectWait"} /\ key = StartKey(md)
      BY DEF ParseNats
  <2>2. StartKey(md) \in {"none", "connectWait"} \cup {StanOrder[n] : n \in 1 .. 6}
    <3> DEFINE I == {i \in 1 .. Len(StartKeys) :
                       IF StartKeys[i] \in Flags THEN StartKeys[i] \in DOMAIN md ELSE Given(md, StartKeys[i])}
               i == IF I # {} THEN Min(I) ELSE 0
    <3>1. StartKey(md) = IF i = 0 THEN "none" ELSE StartKeys[i]
        BY DEF StartKey, SelectInSeq
    <3>2. I \subseteq 1 .. 7
        BY DEF StartKeys
    <3> HIDE DEF I
    <3>3. I # {} => Min(I) \in 1 .. 7
        BY <3>2, MinOfSeven
    <3>4. i \in 0 .. 7
        BY <3>3
    <3>5. \A j \in 1 .. 7 : StartKeys[j] \in {"connectWait"} \cup {StanOrder[n] : n \in 1 .. 6}
        BY StartOrder DEF StartKeys
    <3> HIDE DEF i
    <3> QED BY <3>1, <3>4, <3>5
  <2> QED BY <2>1, <2>2, StartOrder DEF OneStart
<1> QED BY <1>1, <1>2

LEMMA InitKeepsOptions ==
    ASSUME OptionsInv, InitComponent
    PROVE  OptionsInv'
<1> DEFINE md == optComponent[3]
<1>1. optSubs' = <<>> /\ IsNats' = IsNats
    BY DEF InitComponent, OptionsInv, IsNats
<1>2. ASSUME optState' = "ready" PROVE ParsedInv'
  <2>1. /\ ~BadCount(md, "maxInFlight")
        /\ optGlobal' = IF IsNats THEN ParseNats(md) ELSE ParseJetStream(md)
      BY <1>2 DEF InitComponent, ParseNatsRejects, ParseJetStreamRejects
  <2>2. DOMAIN optGlobal' = IF IsNats THEN NatsFields ELSE JetStreamFields
      BY <2>1 DEF ParseNats, ParseJetStream, NatsFields, JetStreamFields
  <2>3. optGlobal'.limit = Limit(md)
      BY <2>1 DEF ParseNats, ParseJetStream
  <2> QED BY <1>1, <2>1, <2>2, <2>3, ParsingFacts DEF ParsedInv
<1> QED BY <1>1, <1>2 DEF OptionsInv, OptionsReachBroker

(* Limit and ack wait of every request, or of the component where the      *)
(* request is silent, reach the broker, and a start does as far as NATS    *)
(* and JetStream look at it: NATS drops a wish for all messages if the     *)
(* component starts otherwise, JetStream every start (nats.go:315 to 425,  *)
(* jetstream.go:174 and 199 to 336).                                       *)
THEOREM OptionsCorrect == OptSpec => []OptionsReachBroker
<1>1. OptInit => OptionsInv
    BY DEF OptInit, OptionsInv, OptionsReachBroker
<1>2. OptionsInv /\ [OptNext]_optVars => OptionsInv'
  <2> SUFFICES ASSUME OptionsInv, [OptNext]_optVars PROVE OptionsInv'
      OBVIOUS
  <2>1. CASE UNCHANGED optVars
      BY <2>1 DEF optVars, OptionsInv, ParsedInv, OptionsReachBroker, AsksBrokerFor, IsNats
  <2> QED BY <2>1, InitKeepsOptions, SubscribeKeepsOptions DEF OptNext
<1>3. OptionsInv => OptionsReachBroker
    BY DEF OptionsInv
<1> QED BY <1>1, <1>2, <1>3, PTL DEF OptSpec

-----------------------------------------------------------------------------
(* Each subscription has the target that its request and its number make.  *)
NatsTarget(o, topic, i) ==
    IF o.type = "queue" THEN <<optGlobal.group, o.durable, topic>> ELSE <<"subscriber", i>>
JetStreamTarget(o, topic, i) ==
    IF o.queue THEN <<IF o.durable # "" THEN o.durable ELSE o.consumer, Dotless[topic]>>
    ELSE <<o.consumer, Dotless[topic], i>>

Targeted(req, sub, i) ==
    IF IsNats
      THEN \E o : /\ (o.type = "queue") <=> WantsGroup(req)
                  /\ sub.durable = o.durable /\ sub.target = NatsTarget(o, sub.topic, i)
      ELSE \E o : /\ o.consumer = optGlobal.consumer /\ o.queue = WantsGroup(req) /\ o.queue \in BOOLEAN
                  /\ sub.durable = IF o.queue THEN o.durable ELSE ""
                  /\ sub.target = JetStreamTarget(o, sub.topic, i)

TargetsInv ==
    /\ OptionsInv
    /\ optState = "ready" /\ ~IsNats => optGlobal.queue = TRUE
    /\ \A i \in DOMAIN optSubs : Targeted(optSubs[i].req, optSubs[i].sub, i)

(* The group that a request asks for is the one it gets, in both brokers.  *)
LEMMA GroupIsAsked ==
    ASSUME TargetsInv, optState = "ready", NEW req \in Requests
    PROVE  /\ IsNats => ((MergeNats(optGlobal, req).type = "queue") <=> WantsGroup(req))
           /\ ~IsNats => /\ MergeJetStream(optGlobal, req).consumer = optGlobal.consumer
                         /\ MergeJetStream(optGlobal, req).queue = WantsGroup(req)
                         /\ MergeJetStream(optGlobal, req).queue \in BOOLEAN
<1>1. CASE IsNats
  <2>1. DOMAIN optGlobal = NatsFields
      BY <1>1 DEF TargetsInv, OptionsInv, ParsedInv
  <2> QED BY <1>1, <2>1 DEF MergeNats, NatsFields, WantsGroup, Asked, AskedOr
<1>2. CASE ~IsNats
  <2>1. DOMAIN optGlobal = JetStreamFields /\ optGlobal.queue = TRUE
      BY <1>2 DEF TargetsInv, OptionsInv, ParsedInv
  <2>2. MergeJetStream(optGlobal, req).consumer = optGlobal.consumer
      BY <2>1 DEF MergeJetStream, JetStreamFields
  <2>3. req = NoOptions => MergeJetStream(optGlobal, req) = optGlobal
      BY DEF MergeJetStream
  <2>4. req # NoOptions => MergeJetStream(optGlobal, req).queue = IF Asked(req, "qGroup") THEN req.qGroup ELSE TRUE
      BY <2>1 DEF MergeJetStream, JetStreamFields, AskedOr
  <2>5. MergeJetStream(optGlobal, req).queue = WantsGroup(req)
      BY <1>2, <2>1, <2>3, <2>4 DEF WantsGroup
  <2>6. MergeJetStream(optGlobal, req).queue \in BOOLEAN
      BY <2>1, <2>3, <2>4, OptionsAssumption DEF Asked
  <2> QED BY <1>2, <2>2, <2>5, <2>6
<1> QED BY <1>1, <1>2

(* A new subscription gets the target of its number.                       *)
LEMMA SubscribeIsTargeted ==
    ASSUME TargetsInv, NEW req \in Requests, NEW topic \in Topics, SubscribeWith(req, topic)
    PROVE  TargetsInv'
<1> DEFINE o      == IF IsNats THEN MergeNats(optGlobal, req) ELSE MergeJetStream(optGlobal, req)
           unique == Len(optSubs) + 1
           sub    == IF IsNats THEN SubscribeNats(o, topic, unique) ELSE SubscribeJetStream(o, topic, unique)
           entry  == [req |-> req, sub |-> sub]
<1>1. /\ optState = "ready" /\ optSubs' = Append(optSubs, entry)
      /\ UNCHANGED <<optComponent, optState, optGlobal>>
    BY DEF SubscribeWith
<1>2. Targeted(req, sub, unique)
  <2>1. CASE IsNats
    <3>1. sub.topic = topic /\ sub.durable = o.durable /\ sub.target = NatsTarget(o, topic, unique)
        BY <2>1 DEF SubscribeNats, NatsTarget
    <3>2. (o.type = "queue") <=> WantsGroup(req)
        BY <1>1, <2>1, GroupIsAsked
    <3> HIDE DEF o, sub, unique
    <3> QED BY <2>1, <3>1, <3>2 DEF Targeted
  <2>2. CASE ~IsNats
    <3>1. /\ sub.topic = topic /\ sub.durable = IF o.queue THEN o.durable ELSE ""
          /\ sub.target = JetStreamTarget(o, topic, unique)
        BY <2>2 DEF SubscribeJetStream, JetStreamTarget
    <3>2. o.consumer = optGlobal.consumer /\ o.queue = WantsGroup(req) /\ o.queue \in BOOLEAN
        BY <1>1, <2>2, GroupIsAsked
    <3> HIDE DEF o, sub, unique
    <3> QED BY <2>2, <3>1, <3>2 DEF Targeted
  <2> QED BY <2>1, <2>2
<1>3. entry.req = req /\ entry.sub = sub
    OBVIOUS
<1>4. PICK S : optSubs \in Seq(S)
    BY DEF TargetsInv, OptionsInv
<1> HIDE DEF o, sub, entry
<1>5. \A i \in DOMAIN optSubs' : \/ i \in DOMAIN optSubs /\ optSubs'[i] = optSubs[i]
                                 \/ i = unique /\ optSubs'[i] = entry
    BY <1>1, <1>4
<1>6. \A i \in DOMAIN optSubs' : Targeted(optSubs'[i].req, optSubs'[i].sub, i)
    BY <1>2, <1>3, <1>5 DEF TargetsInv
<1>7. IsNats' = IsNats
    BY <1>1 DEF IsNats
<1>8. ASSUME NEW r, NEW s, NEW i, Targeted(r, s, i) PROVE Targeted(r, s, i)'
    BY <1>1, <1>7, <1>8 DEF Targeted, WantsGroup, NatsTarget, JetStreamTarget
<1>9. \A i \in DOMAIN optSubs' : Targeted(optSubs[i].req, optSubs[i].sub, i)'
    BY <1>6, <1>8
<1>10. OptionsInv'
    BY SubscribeKeepsOptions DEF TargetsInv
<1> QED BY <1>1, <1>7, <1>9, <1>10 DEF TargetsInv

(* Targets of two parts and of three are never the same.                   *)
LEMMA TuplesDiffer ==
    ASSUME NEW a, NEW b, NEW c, NEW d, NEW e
    PROVE  <<a, b>> # <<c, d, e>>
<1>1. Len(<<a, b>>) = 2 /\ Len(<<c, d, e>>) = 3
    OBVIOUS
<1> QED BY <1>1

(* Subscribers of one topic compete exactly if both want the group of      *)
(* their application, and each gets every message if neither does, however *)
(* many there are (nats.go:280, jetstream.go:177 to 199).                  *)
THEOREM GroupsCorrect == OptSpec => []CompeteOrFanOut
<1>1. OptInit => TargetsInv
    BY DEF OptInit, OptionsInv, OptionsReachBroker, TargetsInv
<1>2. TargetsInv /\ [OptNext]_optVars => TargetsInv'
  <2> SUFFICES ASSUME TargetsInv, [OptNext]_optVars PROVE TargetsInv'
      OBVIOUS
  <2>1. CASE UNCHANGED optVars
    <3>1. UNCHANGED <<optState, optGlobal, optSubs, IsNats>>
        BY <2>1 DEF optVars, IsNats
    <3>2. ASSUME NEW r, NEW s, NEW i, Targeted(r, s, i) PROVE Targeted(r, s, i)'
        BY <3>1, <3>2 DEF Targeted, WantsGroup, NatsTarget, JetStreamTarget
    <3>3. OptionsInv'
        BY <2>1 DEF optVars, TargetsInv, OptionsInv, ParsedInv, OptionsReachBroker, AsksBrokerFor, IsNats
    <3>4. \A i \in DOMAIN optSubs' : Targeted(optSubs[i].req, optSubs[i].sub, i)'
        BY <3>1, <3>2 DEF TargetsInv
    <3> QED BY <3>1, <3>3, <3>4 DEF TargetsInv
  <2>2. CASE InitComponent
    <3>1. OptionsInv'
        BY <2>2, InitKeepsOptions DEF TargetsInv
    <3>2. optSubs' = <<>> /\ (optState' = "ready" /\ ~IsNats' => optGlobal'.queue = TRUE)
        BY <2>2 DEF InitComponent, TargetsInv, OptionsInv, ParseJetStream, IsNats
    <3> QED BY <3>1, <3>2 DEF TargetsInv
  <2> QED BY <2>1, <2>2, SubscribeIsTargeted DEF OptNext
<1>3. TargetsInv => CompeteOrFanOut
  <2> SUFFICES ASSUME TargetsInv, NEW i \in DOMAIN optSubs, NEW j \in DOMAIN optSubs,
                      i < j, optSubs[i].sub.topic = optSubs[j].sub.topic
               PROVE  IF WantsGroup(optSubs[i].req) /\ WantsGroup(optSubs[j].req)
                        THEN optSubs[i].sub.durable = optSubs[j].sub.durable
                               => optSubs[i].sub.target = optSubs[j].sub.target
                        ELSE optSubs[i].sub.target # optSubs[j].sub.target
      BY DEF CompeteOrFanOut
  <2>1. Targeted(optSubs[i].req, optSubs[i].sub, i) /\ Targeted(optSubs[j].req, optSubs[j].sub, j)
      BY DEF TargetsInv
  <2>2. i # j
      BY DEF TargetsInv, OptionsInv
  <2> DEFINE e == optSubs[i]
             f == optSubs[j]
  <2>3. CASE IsNats
    <3>1. PICK o : /\ (o.type = "queue") <=> WantsGroup(e.req)
                   /\ e.sub.durable = o.durable /\ e.sub.target = NatsTarget(o, e.sub.topic, i)
        BY <2>1, <2>3 DEF Targeted
    <3>2. PICK q : /\ (q.type = "queue") <=> WantsGroup(f.req)
                   /\ f.sub.durable = q.durable /\ f.sub.target = NatsTarget(q, f.sub.topic, j)
        BY <2>1, <2>3 DEF Targeted
    <3>3. /\ e.sub.target = IF WantsGroup(e.req) THEN <<optGlobal.group, e.sub.durable, e.sub.topic>>
                            ELSE <<"subscriber", i>>
          /\ f.sub.target = IF WantsGroup(f.req) THEN <<optGlobal.group, f.sub.durable, e.sub.topic>>
                            ELSE <<"subscriber", j>>
        BY <3>1, <3>2 DEF NatsTarget
    <3> QED BY <2>2, <3>3, TuplesDiffer
  <2>4. CASE ~IsNats
    <3>1. PICK o : /\ o.consumer = optGlobal.consumer /\ o.queue = WantsGroup(e.req) /\ o.queue \in BOOLEAN
                   /\ e.sub.durable = IF o.queue THEN o.durable ELSE ""
                   /\ e.sub.target = JetStreamTarget(o, e.sub.topic, i)
        BY <2>1, <2>4 DEF Targeted
    <3>2. PICK q : /\ q.consumer = optGlobal.consumer /\ q.queue = WantsGroup(f.req) /\ q.queue \in BOOLEAN
                   /\ f.sub.durable = IF q.queue THEN q.durable ELSE ""
                   /\ f.sub.target = JetStreamTarget(q, f.sub.topic, j)
        BY <2>1, <2>4 DEF Targeted
    <3> DEFINE name(sub) == IF sub.durable # "" THEN sub.durable ELSE optGlobal.consumer
               subject   == Dotless[e.sub.topic]
    <3>3. WantsGroup(e.req) => e.sub.target = <<name(e.sub), subject>>
        BY <3>1 DEF JetStreamTarget
    <3>4. ~WantsGroup(e.req) => e.sub.target = <<optGlobal.consumer, subject, i>>
        BY <3>1 DEF JetStreamTarget
    <3>5. WantsGroup(f.req) => f.sub.target = <<name(f.sub), subject>>
        BY <3>2 DEF JetStreamTarget
    <3>6. ~WantsGroup(f.req) => f.sub.target = <<optGlobal.consumer, subject, j>>
        BY <3>2 DEF JetStreamTarget
    <3>7. e.sub.durable = f.sub.durable => name(e.sub) = name(f.sub)
        OBVIOUS
    <3> HIDE DEF name, subject
    <3> QED BY <2>2, <3>3, <3>4, <3>5, <3>6, <3>7, TuplesDiffer
  <2> QED BY <2>3, <2>4
<1> QED BY <1>1, <1>2, <1>3, PTL DEF OptSpec

-----------------------------------------------------------------------------
(* The consumer of JetStream, for any messages, goroutines and limit.      *)

(* The goroutines that run. *)
Busy == {w \in Workers : pc[w] # "idle"}

(* Each of them holds one slot of the semaphore, whatever it is doing.     *)
SlotsInv == sem = Cardinality(Busy)

(* A goroutine acknowledges the message that its handler has succeeded on. *)
HandledInv ==
    \A w \in Workers :
        /\ pc[w] \in {"handle", "ack"} => msg[w] \in Messages
        /\ pc[w] = "ack" => msg[w] \in processed

ConsumerInv == TypeOK /\ SlotsInv /\ HandledInv /\ OnlyProcessedIsAcked

(* What a move of one goroutine does to the set of those that run. *)
LEMMA BusySteps ==
    ASSUME TypeOK, NEW w \in Workers, NEW from \in WorkerPc, NEW to \in WorkerPc, Goto(w, from, to)
    PROVE  /\ Cardinality(Busy) \in Nat
           /\ from = "idle" /\ to # "idle" => Cardinality(Busy') = Cardinality(Busy) + 1
           /\ from # "idle" /\ to = "idle" =>
                 /\ Cardinality(Busy') = Cardinality(Busy) - 1
                 /\ Cardinality(Busy') \in Nat
           /\ from # "idle" /\ to # "idle" => Busy' = Busy
<1>1. IsFiniteSet(Busy)
    BY FS_Subset, JetStreamConsumerAssumption DEF Busy
<1>2. pc' = [pc EXCEPT ![w] = to] /\ pc[w] = from /\ pc \in [Workers -> WorkerPc]
    BY DEF Goto, TypeOK
<1>3. from = "idle" /\ to # "idle" => Busy' = Busy \cup {w} /\ w \notin Busy
    BY <1>2 DEF Busy
<1>4. from # "idle" /\ to = "idle" => Busy' = Busy \ {w} /\ w \in Busy
    BY <1>2 DEF Busy
<1>5. from # "idle" /\ to # "idle" => Busy' = Busy
    BY <1>2 DEF Busy
<1>6. IsFiniteSet(Busy \ {w})
    BY <1>1, FS_RemoveElement
<1> QED
    BY <1>1, <1>3, <1>4, <1>5, <1>6, FS_AddElement, FS_RemoveElement, FS_CardinalityType

(* The consumer starts in the invariant. *)
LEMMA InitConsumerInv == Init => ConsumerInv
<1> SUFFICES ASSUME Init PROVE ConsumerInv
    OBVIOUS
<1>1. TypeOK
  <2>1. /\ sem \in 0..MaxInFlight /\ deliveries \in [Messages -> 0..MaxDeliveries]
        /\ pc \in [Workers -> WorkerPc] /\ msg \in [Workers -> Messages \cup {Nothing}]
      BY JetStreamConsumerAssumption DEF Init, WorkerPc
  <2> QED BY <2>1 DEF Init, TypeOK
<1>2. Busy = {}
    BY DEF Init, Busy
<1>3. SlotsInv
    BY <1>2, FS_EmptySet DEF Init, SlotsInv
<1>4. HandledInv /\ OnlyProcessedIsAcked
    BY DEF Init, HandledInv, OnlyProcessedIsAcked
<1> QED BY <1>1, <1>3, <1>4 DEF ConsumerInv

(* A goroutine that starts takes a slot and one that ends gives it back.   *)
LEMMA SlotKeepsConsumer ==
    ASSUME ConsumerInv, NEW w \in Workers, TakeSlot(w) \/ ReleaseSlot(w)
    PROVE  ConsumerInv'
<1> USE JetStreamConsumerAssumption DEF ConsumerInv, WorkerPc
<1>1. CASE TakeSlot(w)
  <2> USE <1>1 DEF TakeSlot, loopVars, endVars, brokerVars
  <2>1. Cardinality(Busy) \in Nat /\ Cardinality(Busy') = Cardinality(Busy) + 1
      BY BusySteps
  <2>2. TypeOK' /\ SlotsInv'
      BY <2>1 DEF TypeOK, SlotsInv, Goto
  <2>3. HandledInv' /\ OnlyProcessedIsAcked'
      BY DEF TypeOK, HandledInv, OnlyProcessedIsAcked, Goto
  <2> QED BY <2>2, <2>3
<1>2. CASE ReleaseSlot(w)
  <2> USE <1>2 DEF ReleaseSlot, loopVars, endVars, brokerVars
  <2>1. /\ Cardinality(Busy) \in Nat /\ Cardinality(Busy') \in Nat
        /\ Cardinality(Busy') = Cardinality(Busy) - 1
      BY BusySteps
  <2>2. TypeOK' /\ SlotsInv'
      BY <2>1 DEF TypeOK, SlotsInv, Goto
  <2>3. HandledInv' /\ OnlyProcessedIsAcked'
      BY DEF TypeOK, HandledInv, OnlyProcessedIsAcked, Goto
  <2> QED BY <2>2, <2>3
<1> QED BY <1>1, <1>2

(* In between it holds on to its slot. *)
LEMMA WorkerKeepsConsumer ==
    ASSUME ConsumerInv, NEW w \in Workers,
           \/ NextMessage(w) \/ NextFails(w) \/ CheckDone(w) \/ CloseDone(w)
           \/ HandlerSucceeds(w) \/ HandlerFails(w) \/ Ack(w)
    PROVE  ConsumerInv'
<1> USE JetStreamConsumerAssumption DEF ConsumerInv, WorkerPc, loopVars, endVars, brokerVars
<1>1. UNCHANGED sem /\ \E from, to \in WorkerPc \ {"idle"} : Goto(w, from, to)
  <2>1. CASE NextMessage(w)
      BY <2>1 DEF NextMessage
  <2>2. CASE NextFails(w)
      BY <2>2 DEF NextFails
  <2>3. CASE CheckDone(w)
      BY <2>3 DEF CheckDone
  <2>4. CASE CloseDone(w)
      BY <2>4 DEF CloseDone
  <2>5. CASE HandlerSucceeds(w)
      BY <2>5 DEF HandlerSucceeds
  <2>6. CASE HandlerFails(w)
      BY <2>6 DEF HandlerFails
  <2>7. CASE Ack(w)
      BY <2>7 DEF Ack
  <2> QED BY <2>1, <2>2, <2>3, <2>4, <2>5, <2>6, <2>7
<1>2. SlotsInv'
    BY <1>1, BusySteps DEF SlotsInv
<1>3. CASE NextMessage(w)
    BY <1>2, <1>3 DEF NextMessage, Goto, TypeOK, HandledInv, OnlyProcessedIsAcked
<1>4. CASE NextFails(w) \/ CheckDone(w) \/ CloseDone(w)
    BY <1>2, <1>4 DEF NextFails, CheckDone, CloseDone, Goto, TypeOK, HandledInv, OnlyProcessedIsAcked
<1>5. CASE HandlerSucceeds(w)
    BY <1>2, <1>5 DEF HandlerSucceeds, Goto, TypeOK, HandledInv, OnlyProcessedIsAcked
<1>6. CASE HandlerFails(w)
    BY <1>2, <1>6 DEF HandlerFails, Goto, TypeOK, HandledInv, OnlyProcessedIsAcked
<1>7. CASE Ack(w)
    BY <1>2, <1>7 DEF Ack, Goto, TypeOK, HandledInv, OnlyProcessedIsAcked
<1> QED BY <1>3, <1>4, <1>5, <1>6, <1>7

(* Neither the loop's return, the subscriber, the manager nor the server   *)
(* touches a goroutine.                                                    *)
LEMMA OthersKeepConsumer ==
    ASSUME ConsumerInv,
           \/ LoopReturns \/ Cancel \/ Unsubscribe \/ ClosePubSub \/ PullingFails
           \/ \E m \in Messages : Deliver(m) \/ AckTimeout(m)
    PROVE  ConsumerInv'
<1> USE JetStreamConsumerAssumption DEF ConsumerInv, WorkerPc, loopVars, endVars, brokerVars
<1>1. UNCHANGED <<pc, msg, sem, done, panicked, processed, acked>>
    BY DEF LoopReturns, Cancel, Unsubscribe, ClosePubSub, PullingFails, Deliver, AckTimeout
<1>2. SlotsInv' /\ HandledInv' /\ OnlyProcessedIsAcked'
    BY <1>1 DEF SlotsInv, Busy, HandledInv, OnlyProcessedIsAcked
<1>3. TypeOK'
  <2>1. CASE LoopReturns \/ Cancel \/ Unsubscribe \/ ClosePubSub \/ PullingFails
      BY <1>1, <2>1 DEF TypeOK, LoopReturns, Cancel, Unsubscribe, ClosePubSub, PullingFails
  <2>2. ASSUME NEW m \in Messages, Deliver(m) \/ AckTimeout(m) PROVE TypeOK'
      BY <1>1, <2>2 DEF TypeOK, Deliver, AckTimeout
  <2> QED BY <2>1, <2>2
<1> QED BY <1>2, <1>3

(* The invariant holds throughout. *)
LEMMA ConsumerInductive == Spec => []ConsumerInv
<1>1. ASSUME ConsumerInv, [Next]_vars PROVE ConsumerInv'
  <2>1. CASE Next
      BY <1>1, <2>1, SlotKeepsConsumer, WorkerKeepsConsumer, OthersKeepConsumer
      DEF Next, LoopStep, WorkerStep
  <2>2. CASE UNCHANGED vars
      BY <1>1, <2>2 DEF vars, loopVars, endVars, brokerVars, ConsumerInv, TypeOK, SlotsInv, Busy,
                        HandledInv, OnlyProcessedIsAcked
  <2> QED BY <1>1, <2>1, <2>2
<1> QED BY InitConsumerInv, <1>1, PTL DEF Spec

(* Every variable keeps its type; in particular the semaphore never goes   *)
(* below zero: a goroutine gives back only a slot it has taken.            *)
THEOREM ConsumerTypes == Spec => []TypeOK
BY ConsumerInductive, PTL DEF ConsumerInv

(* Never are more messages handled at a time than maxInFlight, whatever    *)
(* fails.                                                                  *)
THEOREM InFlightLimitHolds == Spec => []InFlightWithinLimit
<1>1. ConsumerInv => InFlightWithinLimit
  <2> SUFFICES ASSUME ConsumerInv PROVE Cardinality(Handling) <= MaxInFlight
      BY DEF InFlightWithinLimit
  <2>1. Handling \subseteq Busy /\ IsFiniteSet(Busy)
      BY FS_Subset, JetStreamConsumerAssumption DEF Handling, Busy
  <2>2. /\ Cardinality(Handling) \in Nat /\ Cardinality(Busy) \in Nat
        /\ Cardinality(Handling) <= Cardinality(Busy)
      BY <2>1, FS_Subset, FS_CardinalityType
  <2>3. Cardinality(Busy) <= MaxInFlight
      BY JetStreamConsumerAssumption DEF ConsumerInv, SlotsInv, TypeOK
  <2> QED BY <2>2, <2>3, JetStreamConsumerAssumption
<1> QED BY <1>1, ConsumerInductive, PTL

(* A message that the server need not deliver again was processed. *)
THEOREM NothingIsLost == Spec => []OnlyProcessedIsAcked
BY ConsumerInductive, PTL DEF ConsumerInv

(* With one slot no other goroutine can close done between the select of   *)
(* one and its close.                                                      *)
CloserInv == ~panicked /\ \A w \in Workers : pc[w] = "close" => ~done

LEMMA OneSlotOneBusy ==
    ASSUME MaxInFlight = 1, ConsumerInv
    PROVE  \A v, w \in Busy : v = w
<1>1. IsFiniteSet(Busy)
    BY FS_Subset, JetStreamConsumerAssumption DEF Busy
<1>2. Cardinality(Busy) \in 0 .. 1
    BY DEF ConsumerInv, TypeOK, SlotsInv
<1>3. Busy = {} \/ \E x : Busy = {x}
    BY <1>1, <1>2, FS_EmptySet, FS_Singleton
<1> QED BY <1>3

LEMMA CloserKeeps ==
    ASSUME MaxInFlight = 1, ConsumerInv, CloserInv, Next
    PROVE  CloserInv'
<1> USE DEF CloserInv, loopVars, endVars, brokerVars
<1>1. pc \in [Workers -> WorkerPc]
    BY DEF ConsumerInv, TypeOK
<1>2. CASE \E w \in Workers : CloseDone(w)
  <2>1. PICK w \in Workers : CloseDone(w)
      BY <1>2
  <2>2. ~done /\ panicked' = done /\ pc[w] = "close" /\ pc' = [pc EXCEPT ![w] = "release"]
      BY <2>1 DEF CloseDone, Goto
  <2>3. \A v \in Workers : pc[v] = "close" => v = w
      BY <2>2, OneSlotOneBusy DEF Busy
  <2> QED BY <1>1, <2>2, <2>3
<1>3. CASE \E w \in Workers : CheckDone(w)
    BY <1>1, <1>3 DEF CheckDone, Goto
<1>4. CASE \E w \in Workers : \/ TakeSlot(w) \/ NextMessage(w) \/ NextFails(w) \/ Ack(w)
                              \/ ReleaseSlot(w) \/ HandlerSucceeds(w) \/ HandlerFails(w)
    BY <1>1, <1>4 DEF TakeSlot, NextMessage, NextFails, Ack, ReleaseSlot, HandlerSucceeds,
                      HandlerFails, Goto
<1>5. CASE \/ LoopReturns \/ Cancel \/ Unsubscribe \/ ClosePubSub \/ PullingFails
           \/ \E m \in Messages : Deliver(m) \/ AckTimeout(m)
  <2>1. UNCHANGED <<pc, done, panicked>>
      BY <1>5 DEF LoopReturns, Cancel, Unsubscribe, ClosePubSub, PullingFails, Deliver, AckTimeout
  <2> QED BY <2>1
<1> QED BY <1>2, <1>3, <1>4, <1>5 DEF Next, LoopStep, WorkerStep

(* A subscription that handles one message at a time never closes done     *)
(* twice: the panic needs two goroutines between their select and their    *)
(* close (jetstream.go:262).                                               *)
THEOREM OneSlotClosesOnce ==
    ASSUME MaxInFlight = 1
    PROVE  Spec => []DoneIsClosedOnce
<1>1. Init => CloserInv
    BY DEF Init, CloserInv
<1>2. ConsumerInv /\ CloserInv /\ [Next]_vars => CloserInv'
  <2>1. ConsumerInv /\ CloserInv /\ UNCHANGED vars => CloserInv'
      BY DEF CloserInv, vars, loopVars
  <2> QED BY <2>1, CloserKeeps
<1>3. CloserInv => DoneIsClosedOnce
    BY DEF CloserInv, DoneIsClosedOnce
<1> QED BY <1>1, <1>2, <1>3, ConsumerInductive, PTL DEF Spec
=============================================================================
