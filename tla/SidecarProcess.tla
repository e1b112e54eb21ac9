--------------------------- MODULE SidecarProcess ---------------------------
(***************************************************************************)
(* The rusid process around the runtime: main, the sources of specs (files *)
(* in standalone mode, watchers of the operator in kubernetes mode), their *)
(* consumers, of which the telemetry configuration is modelled in full,    *)
(* the diagnostics server, and the shutdown through one wait group.  A     *)
(* spec is the number of its version.                                      *)
(***************************************************************************)
EXTENDS Naturals, FiniteSets, SequencesExt

CONSTANTS
    Watchers,       \* the channels of specs that are consumed
    Events,         \* bound: functions that say how many updates of its object, whose
                    \* first version is 1, and breaks of its stream each watcher sees
    Telemetry,      \* the watcher whose specs configure the tracer
    Setting,        \* endpoint and propagator of each version of the configuration
    Malformed,      \* watchers and versions whose bytes the watcher cannot unmarshal
    CommandLines,   \* the flags: mode, appID, config, address, path
    Files,          \* the files at componentsPath, in order: isYaml, readable, and
                    \* documents, each with wellFormed, kind and spec
    MayHang         \* watchers whose consumer may block for ever, as a Refresh can

ASSUME ProcessAssumption ==
    /\ IsFiniteSet(Watchers) /\ Telemetry \in Watchers /\ MayHang \subseteq Watchers
    /\ Malformed \subseteq Watchers \X Nat
    /\ \A v \in DOMAIN Setting : Setting[v] \in [endpoint : STRING, propagator : STRING]
    /\ \A e \in Events : /\ e \in [Watchers -> Nat]
                        /\ 1 .. e[Telemetry] + 1 \subseteq DOMAIN Setting

VARIABLES
    mode,       \* "kubernetes" or "standalone"
    cancelled,  \* mainCtx is done
    main,       \* "running", "waiting" for the wait group, "exited"
    wg,         \* the wait group's counter
    diag,       \* the diagnostics server: "starting", "serving", "ended"
    pc,         \* where each watcher's goroutine is
    stream,     \* its stream: "open", "broken", "nil"
    inbox,      \* the specs its stream has received
    held,       \* the spec it is sending on the channel
    closed,     \* the channels that are closed
    events,     \* how many updates and breaks each watcher has yet to see, a bound
    version,    \* the current version of each object, in the map of the operator
    announcing, \* the objects whose informer has stored an update and not announced it
    rpc,        \* the operator's end of each stream: "called", "registered" as a
                \* listener, "replayed", "gone"
    sending,    \* the versions that goroutines have to send on its channel
    sent,       \* the last and the newest version it has sent, history
    consumer,   \* the channel's reader: "ready", "busy", "ended"
    taken,      \* the last spec it took
    tracer      \* the state of WatchConfig and of the global tracer
mainVars == <<mode, cancelled, main, wg, diag>>
watchVars == <<pc, stream, inbox, held, closed>>
operatorVars == <<events, version, announcing, rpc, sending, sent>>
readVars == <<consumer, taken, tracer>>
processVars == <<mainVars, watchVars, operatorVars, readVars>>

-----------------------------------------------------------------------------
(* Local files.  A document that the YAML library rejects is skipped, and so *)
(* is one of another kind, a file that cannot be read and one of another     *)
(* name.                                                                     *)
DecodeYaml(docs) == SelectSeq(docs, LAMBDA d : d.wellFormed /\ d.kind = "Component")
LoadComponents ==
    LET files == SelectSeq(Files, LAMBDA f : f.isYaml /\ f.readable)
        comps == FoldLeft(LAMBDA list, f : list \o DecodeYaml(f.documents), <<>>, files)
    IN  [i \in DOMAIN comps |-> comps[i].spec]
LoadLocal(w) == IF w = Telemetry THEN <<1>> ELSE LoadComponents

\* The configuration file is read once.  One that is missing or does not parse ends
\* the process, as does a directory of components that is not there.
LoadStandalone(f) == f.config = "parses" /\ f.path # ""

\* ConfigBuilder.Build: any other mode is the standalone one.
Build(f) == /\ f.appID # "" /\ f.config # ""
            /\ f.mode = "kubernetes" => f.address # ""
Kubernetes(f) == f.mode = "kubernetes"

-----------------------------------------------------------------------------
(* WatchConfig.  The zero Spec stands before the first configuration.        *)
NoSetting == [endpoint |-> "", propagator |-> ""]
NoTracer == [prev |-> NoSetting, stopper |-> 0, installed |-> NoSetting,
             started |-> 0, live |-> {}]
Valid(s) == s.endpoint # "" /\ s.propagator # ""

(* Mutant of Changed: another propagator alone is no change. *)
ChangedEndpoint(s, prev) == s.endpoint # prev.endpoint

Changed(s, prev) == s.endpoint # prev.endpoint \/ s.propagator # prev.propagator

\* The stopper is a function that calls flushTracer, which only returns the
\* function that would shut the provider down.
Stop(t) == t

\* tracerFunc makes a provider and installs it, or fails and leaves no stopper.
SetTracing(t, s, ok) ==
    IF ok THEN [t EXCEPT !.installed = s, !.started = @ + 1, !.stopper = t.started + 1,
                         !.live = @ \cup {t.started + 1}]
    ELSE [t EXCEPT !.stopper = 0]

Configure(t, s, ok) ==
    LET stopped == IF t.stopper # 0 THEN Stop(t) ELSE t
        next    == IF Changed(s, t.prev)
                     THEN IF Valid(s) THEN SetTracing(stopped, s, ok) ELSE stopped
                     ELSE t
    IN  [next EXCEPT !.prev = s]

-----------------------------------------------------------------------------
NothingSent == [last |-> 0, newest |-> 0]

\* What main does before it starts its goroutines is one with their start, and so is
\* the listening of Serve: a port that is taken kills the process (grpc_api.go:55).
ProcessInit ==
    /\ \E f \in CommandLines, listens \in BOOLEAN :
          /\ mode = IF Kubernetes(f) THEN "kubernetes" ELSE "standalone"
          /\ main = IF Build(f) /\ (Kubernetes(f) \/ LoadStandalone(f)) /\ listens
                      THEN "running" ELSE "exited"
    /\ cancelled = FALSE /\ wg = 0 /\ diag = "starting"
    /\ pc = [w \in Watchers |-> IF mode = "kubernetes" THEN "starting" ELSE "list"]
    /\ stream = [w \in Watchers |-> "open"]
    /\ inbox = [w \in Watchers |-> IF mode = "kubernetes" THEN <<>> ELSE LoadLocal(w)]
    /\ held = [w \in Watchers |-> 0]
    /\ closed = {}
    /\ events \in Events /\ version = [w \in Watchers |-> 1] /\ announcing = {}
    /\ rpc = [w \in Watchers |-> IF mode = "kubernetes" THEN "called" ELSE "gone"]
    /\ sending = [w \in Watchers |-> {}]
    /\ sent = [w \in Watchers |-> NothingSent]
    /\ consumer = [w \in Watchers |-> "ready"] /\ taken = [w \in Watchers |-> 0]
    /\ tracer = NoTracer

Alive == main # "exited"
GoTo(w, from, to) == Alive /\ pc[w] = from /\ pc' = [pc EXCEPT ![w] = to]

(* The goroutine of a watcher of the operator. *)

(* Mutant of Start: a watcher is not counted in. *)
StartUncounted(w) == /\ GoTo(w, "starting", "select")
                     /\ UNCHANGED <<mainVars, stream, inbox, held, closed, operatorVars, readVars>>

Start(w) == /\ GoTo(w, "starting", "select") /\ wg' = wg + 1
            /\ UNCHANGED <<mode, cancelled, main, diag, stream, inbox, held, closed, operatorVars, readVars>>

(* Mutant of Select: the context is not looked at before the stream is used. *)
SelectNever(w) == /\ GoTo(w, "select", "recv")
                  /\ UNCHANGED <<mainVars, stream, inbox, held, closed, operatorVars, readVars>>

Select(w) == /\ GoTo(w, "select", IF cancelled THEN "closing" ELSE "recv")
             /\ UNCHANGED <<mainVars, stream, inbox, held, closed, operatorVars, readVars>>

\* An error of Unmarshal is logged and the empty spec, here 0, handed on.
Unmarshal(w, v) == IF <<w, v>> \in Malformed THEN 0 ELSE v
Recv(w) == /\ stream[w] # "nil" /\ inbox[w] # <<>>
           /\ GoTo(w, "recv", "send")
           /\ held' = [held EXCEPT ![w] = Unmarshal(w, Head(inbox[w]))]
           /\ inbox' = [inbox EXCEPT ![w] = Tail(@)]
           /\ UNCHANGED <<mainVars, stream, closed, operatorVars, readVars>>

(* Mutant of RecvFails: a broken stream ends the watcher. *)
RecvFailsForGood(w) ==
    /\ cancelled \/ (stream[w] = "broken" /\ inbox[w] = <<>>)
    /\ GoTo(w, "recv", "closing")
    /\ UNCHANGED <<mainVars, stream, inbox, held, closed, operatorVars, readVars>>

\* The call fails, or panics on a stream that is nil.
RecvFails(w) == /\ cancelled \/ stream[w] = "nil" \/ (stream[w] = "broken" /\ inbox[w] = <<>>)
                /\ GoTo(w, "recv", IF stream[w] = "nil" THEN "panic" ELSE "reconnect")
                /\ UNCHANGED <<mainVars, stream, inbox, held, closed, operatorVars, readVars>>

\* The call waits until the operator can be reached; only the end of the context
\* makes it fail, with a nil stream.
Reconnect(w) == /\ GoTo(w, "reconnect", "select")
                /\ stream' = [stream EXCEPT ![w] = IF cancelled THEN "nil" ELSE "open"]
                /\ inbox' = [inbox EXCEPT ![w] = <<>>]
                /\ rpc' = [rpc EXCEPT ![w] = IF cancelled THEN "gone" ELSE "called"]
                /\ UNCHANGED <<mainVars, held, closed, events, version, announcing, sending, sent, readVars>>

\* close(c) and wg.Done, deferred in this order.
CloseChannel(w) == /\ GoTo(w, "closing", "done") /\ closed' = closed \cup {w}
                   /\ UNCHANGED <<mainVars, stream, inbox, held, operatorVars, readVars>>
(* Mutant of Done: a watcher that ends is not counted out. *)
DoneUncounted(w) == /\ GoTo(w, "done", "ended")
                    /\ UNCHANGED <<mainVars, stream, inbox, held, closed, operatorVars, readVars>>

Done(w) == /\ GoTo(w, "done", "ended") /\ wg' = wg - 1
           /\ UNCHANGED <<mode, cancelled, main, diag, stream, inbox, held, closed, operatorVars, readVars>>

\* A channel has no buffer: the send is the receive of a consumer that is ready.
\* The local loaders' goroutine sends its list and ends, without closing.
Hand(w, v) == /\ consumer[w] = "ready"
              /\ consumer' = [consumer EXCEPT ![w] = "busy"]
              /\ taken' = [taken EXCEPT ![w] = v]
Send(w) == /\ GoTo(w, "send", "recv") /\ Hand(w, held[w])
           /\ held' = [held EXCEPT ![w] = 0]
           /\ UNCHANGED <<mainVars, stream, inbox, closed, operatorVars, tracer>>
SendList(w) == /\ inbox[w] # <<>> /\ GoTo(w, "list", "list") /\ Hand(w, Head(inbox[w]))
               /\ inbox' = [inbox EXCEPT ![w] = Tail(@)]
               /\ UNCHANGED <<mainVars, stream, held, closed, operatorVars, tracer>>

(* The consumers: range over the channel, and WatchConfig's last stop. *)
SettingOf(v) == IF v = 0 THEN NoSetting ELSE Setting[v]
Consume(w) == /\ Alive /\ consumer[w] = "busy"
              /\ consumer' = [consumer EXCEPT ![w] = "ready"]
              /\ IF w = Telemetry
                   THEN \E ok \in BOOLEAN : tracer' = Configure(tracer, SettingOf(taken[w]), ok)
                   ELSE UNCHANGED tracer
              /\ UNCHANGED <<mainVars, watchVars, operatorVars, taken>>
Hang(w) == /\ Alive /\ consumer[w] = "busy" /\ w \in MayHang
           /\ consumer' = [consumer EXCEPT ![w] = "hung"]
           /\ UNCHANGED <<mainVars, watchVars, operatorVars, taken, tracer>>
ConsumerEnds(w) == /\ Alive /\ consumer[w] = "ready" /\ w \in closed
                   /\ consumer' = [consumer EXCEPT ![w] = "ended"]
                   /\ tracer' = IF w = Telemetry /\ tracer.stopper # 0 THEN Stop(tracer) ELSE tracer
                   /\ UNCHANGED <<mainVars, watchVars, operatorVars, taken>>

-----------------------------------------------------------------------------
(* The operator as this sidecar meets it: ObjectWatcher has its mutex, maps  *)
(* and goroutines one by one.  What a Watch RPC sends arrives in the order   *)
(* of its sends; what a broken stream had not delivered is lost.  The end of *)
(* the context is the end of the RPCs, after which nothing arrives.          *)
Operating == Alive /\ mode = "kubernetes" /\ ~cancelled
Transmit(w, v) == /\ inbox' = [inbox EXCEPT ![w] = Append(@, v)]
                  /\ sent' = [sent EXCEPT ![w] = [last |-> v, newest |-> IF v > @.newest THEN v ELSE @.newest]]

\* An update is stored under the mutex and announced under it, too: a goroutine for
\* each listener then has it to send.
Change(w) == /\ Operating /\ w \notin announcing /\ events[w] > 0
             /\ events' = [events EXCEPT ![w] = @ - 1]
             /\ version' = [version EXCEPT ![w] = @ + 1]
             /\ announcing' = announcing \cup {w}
             /\ UNCHANGED <<mainVars, watchVars, rpc, sending, sent, readVars>>
Announce(w) == /\ Operating /\ w \in announcing
               /\ announcing' = announcing \ {w}
               /\ sending' = IF rpc[w] \in {"registered", "replayed"}
                               THEN [sending EXCEPT ![w] = @ \cup {version[w]}] ELSE sending
               /\ UNCHANGED <<mainVars, watchVars, events, version, rpc, sent, readVars>>

\* A call adds its listener, whose replay sends what is stored by then.
Register(w) == /\ Operating /\ rpc[w] = "called"
               /\ rpc' = [rpc EXCEPT ![w] = "registered"]
               /\ UNCHANGED <<mainVars, watchVars, events, version, announcing, sending, sent, readVars>>
Replay(w) == /\ Operating /\ rpc[w] = "registered"
             /\ rpc' = [rpc EXCEPT ![w] = "replayed"]
             /\ Transmit(w, version[w])
             /\ UNCHANGED <<mainVars, pc, stream, held, closed, events, version, announcing, sending, readVars>>

\* The goroutines of several updates run in any order.
Deliver(w) == /\ Operating
              /\ \E v \in sending[w] : /\ sending' = [sending EXCEPT ![w] = @ \ {v}]
                                       /\ Transmit(w, v)
              /\ UNCHANGED <<mainVars, pc, stream, held, closed, events, version, announcing, rpc, readVars>>

(* The network. *)
Break(w) == /\ Operating /\ events[w] > 0 /\ stream[w] = "open"
            /\ events' = [events EXCEPT ![w] = @ - 1]
            /\ stream' = [stream EXCEPT ![w] = "broken"]
            /\ \E n \in 0 .. Len(inbox[w]) : inbox' = [inbox EXCEPT ![w] = SubSeq(@, 1, n)]
            /\ rpc' = [rpc EXCEPT ![w] = "gone"]
            /\ sending' = [sending EXCEPT ![w] = {}]
            /\ sent' = [sent EXCEPT ![w] = NothingSent]
            /\ UNCHANGED <<mainVars, pc, held, closed, version, announcing, readVars>>

(* startDiagnosticsServer, and the end of main. *)
DiagStart == /\ Alive /\ diag = "starting" /\ diag' = "serving" /\ wg' = wg + 1
             /\ UNCHANGED <<mode, cancelled, main, watchVars, operatorVars, readVars>>
DiagEnds == /\ Alive /\ diag = "serving" /\ cancelled /\ diag' = "ended" /\ wg' = wg - 1
            /\ UNCHANGED <<mode, cancelled, main, watchVars, operatorVars, readVars>>
Interrupt == /\ ~cancelled /\ cancelled' = TRUE
             /\ rpc' = [w \in Watchers |-> "gone"]
             /\ sending' = [w \in Watchers |-> {}]
             /\ sent' = [w \in Watchers |-> NothingSent]
             /\ UNCHANGED <<mode, main, wg, diag, watchVars, events, version, announcing, readVars>>
\* GracefulStop waits for all open streams: whether it returns is the server's matter.
ServeReturns == /\ cancelled /\ main = "running" /\ main' = "waiting"
                /\ UNCHANGED <<mode, cancelled, wg, diag, watchVars, operatorVars, readVars>>
\* A listener that fails: the error is logged and main goes on to wait, so that the
\* process stays, without its API, until it is interrupted.
ServeFails == /\ main = "running" /\ main' = "waiting"
              /\ UNCHANGED <<mode, cancelled, wg, diag, watchVars, operatorVars, readVars>>
DiagFails == /\ Alive /\ diag = "serving" /\ diag' = "ended" /\ wg' = wg - 1
             /\ UNCHANGED <<mode, cancelled, main, watchVars, operatorVars, readVars>>
Exit == /\ main = "waiting" /\ wg = 0 /\ main' = "exited"
        /\ UNCHANGED <<mode, cancelled, wg, diag, watchVars, operatorVars, readVars>>

WatcherStep(w) == \/ Start(w) \/ Select(w) \/ Recv(w) \/ RecvFails(w)
                  \/ Reconnect(w) \/ CloseChannel(w) \/ Done(w) \/ Send(w) \/ SendList(w)
ConsumerStep(w) == Consume(w) \/ ConsumerEnds(w)
OperatorStep(w) == Change(w) \/ Announce(w) \/ Register(w) \/ Replay(w) \/ Deliver(w)
MainStep == DiagStart \/ DiagEnds \/ Exit
ProcessNext == \/ \E w \in Watchers : \/ WatcherStep(w) \/ ConsumerStep(w) \/ Hang(w)
                                      \/ OperatorStep(w) \/ Break(w)
               \/ MainStep \/ Interrupt \/ ServeReturns \/ ServeFails \/ DiagFails

\* Goroutines run; nothing need change, break, fail or be interrupted, Serve need not
\* return, and who waits for the operator's mutex need not get it (operator.go:168).
ProcessFairness ==
    /\ WF_processVars(MainStep)
    /\ \A w \in Watchers : /\ WF_processVars(WatcherStep(w)) /\ WF_processVars(ConsumerStep(w))
                           /\ WF_processVars(Deliver(w))
ProcessSpec == ProcessInit /\ [][ProcessNext]_processVars
FairProcessSpec == ProcessSpec /\ ProcessFairness

-----------------------------------------------------------------------------
\* A reconnect whose error was dropped (client.go:79 and 124) never lets the
\* goroutine use the nil stream it got: the context is looked at in between.
NilStreamIsNotUsed == \A w \in Watchers : pc[w] # "panic"

\* main waits for the watchers that have registered: at its end their channels
\* are closed, in both modes, however the streams broke (sidecar.go:94).
RegisteredWatchersEnd ==
    main = "exited" => \A w \in Watchers : pc[w] \in {"starting", "list", "ended"}

\* As long as no provider fails to be made, the tracer that is installed is that of
\* the last configuration whenever this one is valid, in whatever order valid and
\* invalid ones and changes of one field alone came (diagnostics.go:25).
TracerFollowsConfiguration ==
    Valid(tracer.prev) /\ tracer.stopper # 0 => tracer.installed = tracer.prev

\* Whatever was lost with a broken stream (client.go:65-79), and wherever a new one
\* meets the operator between the store of an update and its announcement, the
\* consumer comes to the current version of its object, or to the empty spec if that
\* one does not unmarshal.  The exceptions: the consumer hangs, or the process stops;
\* an announcement, a registration or a replay waits for the operator's mutex, which
\* a replay whose sidecar has left holds for ever (operator.go:168); an older update
\* overtook a newer one on the current stream, as each is sent by a goroutine of its
\* own (operator.go:97), and came last.  In standalone mode the consumer comes to the
\* last component of the files that can be read, whatever stands before it
\* (local.go:125).
Documents == UNION {{<<i, j>> : j \in DOMAIN Files[i].documents} : i \in DOMAIN Files}
Document(d) == Files[d[1]].documents[d[2]]
Loadable(d) == /\ Files[d[1]].isYaml /\ Files[d[1]].readable
               /\ Document(d).wellFormed /\ Document(d).kind = "Component"
Later(d, e) == e[1] > d[1] \/ (e[1] = d[1] /\ e[2] > d[2])
ArrivedLocally(w) ==
    \/ w = Telemetry /\ taken[w] = 1
    \/ \E d \in Documents : /\ Loadable(d) /\ taken[w] = Document(d).spec
                            /\ \A e \in Documents : Loadable(e) => ~Later(d, e)
WaitsForMutex(w) == w \in announcing \/ rpc[w] \in {"called", "registered"}
Overtaken(w) == sent[w].last < sent[w].newest
SpecsArrive ==
    \A w \in Watchers :
        []<>(\/ cancelled \/ main = "exited" \/ consumer[w] = "hung"
             \/ /\ mode = "kubernetes"
                /\ taken[w] = Unmarshal(w, version[w]) \/ WaitsForMutex(w) \/ Overtaken(w)
             \/ mode = "standalone" /\ ArrivedLocally(w))

\* Once Serve has returned after an interrupt (whether it returns is the property
\* ShutdownCompletes of SubscriptionServer, with its exceptions) the process ends:
\* every watcher finds the end of its context, wherever the interrupt met it, and is
\* counted out.  The exception is a watcher that waits at c <- spec for a consumer
\* that hangs, as the send does not look at the context (client.go:76).
SendsForEver(w) == pc[w] = "send" /\ consumer[w] = "hung"
ProcessEndsAfterServe ==
    (cancelled /\ main = "waiting") ~> (main = "exited" \/ \E w \in Watchers : SendsForEver(w))

\* "Flush prev logs", "flush logs" (diagnostics.go:29 and 44): once WatchConfig has
\* ended after its last call of the stopper, no provider is left running.
TelemetryIsFlushed == consumer[Telemetry] = "ended" => tracer.live = {}
=============================================================================
