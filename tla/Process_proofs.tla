---------------------------- MODULE Process_proofs ----------------------------
(***************************************************************************)
(* The safety of SidecarProcess for any watchers, versions, settings,      *)
(* files and command lines, and that of HealthCheck for any probes,        *)
(* connections and versions.                                               *)
(***************************************************************************)
EXTENDS SidecarProcess, HealthCheck, FiniteSetTheorems, TLAPS

(* Where a goroutine of a watcher is between wg.Add and wg.Done.           *)
CountedPc == {"select", "recv", "send", "reconnect", "closing", "done"}
WatcherPc == CountedPc \cup {"starting", "list", "ended"}
Counted == {w \in Watchers : pc[w] \in CountedPc}

(* The wait group counts them and the diagnostics server.                  *)
WgInv == wg = Cardinality(Counted) + (IF diag = "serving" THEN 1 ELSE 0)

(* A stream is nil only between a reconnect that the shutdown made fail    *)
(* and the end of its goroutine, which does not come to use it.            *)
NilInv ==
    \A w \in Watchers :
        stream[w] = "nil" => cancelled /\ pc[w] \in {"select", "closing", "done", "ended"}

WatcherInv == pc \in [Watchers -> WatcherPc] /\ stream \in [Watchers -> {"open", "broken", "nil"}]

GroupInv == WatcherInv /\ WgInv /\ NilInv /\ RegisteredWatchersEnd

(* What a move of one goroutine does to the count.                         *)
LEMMA CountedSteps ==
    ASSUME WatcherInv, NEW w \in Watchers, NEW from \in WatcherPc, NEW to \in WatcherPc, GoTo(w, from, to)
    PROVE  /\ Cardinality(Counted) \in Nat
           /\ from \notin CountedPc /\ to \in CountedPc => Cardinality(Counted') = Cardinality(Counted) + 1
           /\ from \in CountedPc /\ to \notin CountedPc => Cardinality(Counted') = Cardinality(Counted) - 1
           /\ (from \in CountedPc <=> to \in CountedPc) => Counted' = Counted
<1>1. IsFiniteSet(Counted)
    BY FS_Subset, ProcessAssumption DEF Counted
<1>2. pc' = [pc EXCEPT ![w] = to] /\ pc[w] = from /\ pc \in [Watchers -> WatcherPc]
    BY DEF GoTo, WatcherInv
<1>3. from \notin CountedPc /\ to \in CountedPc => Counted' = Counted \cup {w} /\ w \notin Counted
    BY <1>2 DEF Counted
<1>4. from \in CountedPc /\ to \notin CountedPc => Counted' = Counted \ {w} /\ w \in Counted
    BY <1>2 DEF Counted
<1>5. (from \in CountedPc <=> to \in CountedPc) => Counted' = Counted
    BY <1>2 DEF Counted
<1> QED
    BY <1>1, <1>3, <1>4, <1>5, FS_AddElement, FS_RemoveElement, FS_CardinalityType

(* A process that does not start has counted nothing in.                   *)
LEMMA InitGroupInv == ProcessInit => GroupInv
<1> SUFFICES ASSUME ProcessInit PROVE GroupInv
    OBVIOUS
<1>1. WatcherInv
    BY DEF ProcessInit, WatcherInv, WatcherPc, CountedPc
<1>2. Counted = {}
    BY DEF ProcessInit, Counted, CountedPc
<1>3. WgInv
    BY <1>2, FS_EmptySet DEF ProcessInit, WgInv
<1>4. NilInv /\ RegisteredWatchersEnd
    BY DEF ProcessInit, NilInv, RegisteredWatchersEnd
<1> QED BY <1>1, <1>3, <1>4 DEF GroupInv

(* A watcher that moves is counted in by Start and out by Done.            *)
LEMMA WatcherPreserves ==
    ASSUME GroupInv, NEW w \in Watchers, WatcherStep(w)
    PROVE  GroupInv'
<1> USE DEF GroupInv, mainVars, readVars
<1>1. CASE Start(w)
  <2> USE <1>1 DEF Start
  <2>1. GoTo(w, "starting", "select") /\ wg' = wg + 1 /\ diag' = diag
      BY DEF Start
  <2>2. Cardinality(Counted) \in Nat /\ Cardinality(Counted') = Cardinality(Counted) + 1
      BY <2>1, CountedSteps DEF WatcherPc, CountedPc
  <2>3. WgInv'
      BY <2>1, <2>2 DEF WgInv
  <2>4. WatcherInv' /\ NilInv' /\ RegisteredWatchersEnd'
      BY DEF GoTo, Alive, WatcherInv, WatcherPc, CountedPc, NilInv, RegisteredWatchersEnd
  <2> QED BY <2>3, <2>4
<1>2. CASE Done(w)
  <2>1. GoTo(w, "done", "ended") /\ wg' = wg - 1 /\ diag' = diag
      BY <1>2 DEF Done
  <2>2. Cardinality(Counted) \in Nat /\ Cardinality(Counted') = Cardinality(Counted) - 1
      BY <2>1, CountedSteps DEF WatcherPc, CountedPc
  <2>3. WgInv'
      BY <2>1, <2>2 DEF WgInv
  <2>4. WatcherInv' /\ NilInv' /\ RegisteredWatchersEnd'
      BY <1>2 DEF Done, GoTo, Alive, WatcherInv, WatcherPc, CountedPc, NilInv, RegisteredWatchersEnd
  <2> QED BY <2>3, <2>4
<1>3. ASSUME Select(w) \/ Recv(w) \/ RecvFails(w) \/ Reconnect(w) \/ CloseChannel(w) \/ Send(w) \/ SendList(w)
      PROVE  GroupInv'
  <2>1. /\ UNCHANGED <<cancelled, main, wg, diag>>
        /\ \E from, to \in WatcherPc : GoTo(w, from, to) /\ (from \in CountedPc <=> to \in CountedPc)
    <3>1. CASE Select(w)
        BY <3>1 DEF Select, WatcherPc, CountedPc
    <3>2. CASE Recv(w) \/ CloseChannel(w) \/ Send(w) \/ SendList(w)
        BY <3>2 DEF Recv, CloseChannel, Send, SendList, WatcherPc, CountedPc
    <3>3. CASE RecvFails(w)
        BY <3>3 DEF RecvFails, GoTo, NilInv, WatcherPc, CountedPc
    <3>4. CASE Reconnect(w)
        BY <3>4 DEF Reconnect, WatcherPc, CountedPc
    <3> QED BY <1>3, <3>1, <3>2, <3>3, <3>4
  <2>2. WgInv'
      BY <2>1, CountedSteps DEF WgInv
  <2>3. WatcherInv' /\ NilInv'
    <3>1. CASE Select(w)
        BY <3>1 DEF Select, GoTo, WatcherInv, NilInv, WatcherPc, CountedPc
    <3>2. CASE Recv(w) \/ CloseChannel(w) \/ Send(w) \/ SendList(w)
        BY <3>2 DEF Recv, CloseChannel, Send, SendList, GoTo, WatcherInv, NilInv, WatcherPc, CountedPc
    <3>3. CASE RecvFails(w)
        BY <3>3 DEF RecvFails, GoTo, WatcherInv, NilInv, WatcherPc, CountedPc
    <3>4. CASE Reconnect(w)
        BY <3>4 DEF Reconnect, GoTo, WatcherInv, NilInv, WatcherPc, CountedPc
    <3> QED BY <1>3, <3>1, <3>2, <3>3, <3>4
  <2>4. RegisteredWatchersEnd'
      BY <2>1 DEF GoTo, Alive, RegisteredWatchersEnd
  <2> QED BY <2>2, <2>3, <2>4
<1> QED BY <1>1, <1>2, <1>3 DEF WatcherStep

(* main exits when the count is zero, and the server counts itself.        *)
LEMMA MainPreserves ==
    ASSUME GroupInv, MainStep \/ Interrupt \/ ServeReturns \/ ServeFails \/ DiagFails
    PROVE  GroupInv'
<1> USE DEF GroupInv, watchVars
<1>1. UNCHANGED <<pc, stream>> /\ (cancelled => cancelled')
    BY DEF MainStep, DiagStart, DiagEnds, ServeReturns, Exit, Interrupt, ServeFails, DiagFails
<1>2. WatcherInv' /\ NilInv' /\ Counted' = Counted
    BY <1>1 DEF WatcherInv, NilInv, Counted
<1>3. IsFiniteSet(Counted) /\ Cardinality(Counted) \in Nat
    BY FS_Subset, FS_CardinalityType, ProcessAssumption DEF Counted
<1>4. WgInv'
    BY <1>2, <1>3 DEF WgInv, MainStep, DiagStart, DiagEnds, ServeReturns, Exit, Interrupt, ServeFails, DiagFails
<1>5. RegisteredWatchersEnd'
  <2>1. CASE Exit
    <3>1. Counted = {}
        BY <1>3, <2>1, FS_EmptySet DEF Exit, WgInv
    <3> QED BY <1>1, <3>1 DEF RegisteredWatchersEnd, Counted, WatcherInv, WatcherPc
  <2>2. CASE ~Exit
      BY <1>1, <2>2 DEF RegisteredWatchersEnd, MainStep, DiagStart, DiagEnds, ServeReturns, Interrupt, ServeFails, DiagFails
  <2> QED BY <2>1, <2>2
<1> QED BY <1>2, <1>4, <1>5

(* Consumers, the operator and the network leave the count alone.          *)
LEMMA OthersPreserveGroup ==
    ASSUME GroupInv, NEW w \in Watchers, ConsumerStep(w) \/ Hang(w) \/ OperatorStep(w) \/ Break(w)
    PROVE  GroupInv'
<1> USE DEF GroupInv, mainVars, watchVars
<1>1. UNCHANGED <<pc, mainVars>>
    BY DEF ConsumerStep, Consume, ConsumerEnds, Hang, OperatorStep, Change, Announce, Register, Replay, Deliver, Break
<1>2. WatcherInv' /\ NilInv'
  <2>1. CASE Break(w)
      BY <1>1, <2>1 DEF WatcherInv, NilInv, Break
  <2>2. CASE ~Break(w)
    <3>1. UNCHANGED stream
        BY <2>2 DEF ConsumerStep, Consume, ConsumerEnds, Hang, OperatorStep, Change, Announce, Register, Replay, Deliver
    <3> QED BY <1>1, <3>1 DEF WatcherInv, NilInv
  <2> QED BY <2>1, <2>2
<1>3. WgInv' /\ RegisteredWatchersEnd'
    BY <1>1 DEF WgInv, Counted, RegisteredWatchersEnd
<1> QED BY <1>2, <1>3

(* Every step keeps the count.                                             *)
LEMMA NextGroupInv == GroupInv /\ [ProcessNext]_processVars => GroupInv'
<1> SUFFICES ASSUME GroupInv, [ProcessNext]_processVars PROVE GroupInv'
    OBVIOUS
<1>1. CASE UNCHANGED processVars
    BY <1>1 DEF processVars, mainVars, watchVars, GroupInv, WatcherInv, WgInv, NilInv, Counted, RegisteredWatchersEnd
<1> QED
    BY <1>1, WatcherPreserves, MainPreserves, OthersPreserveGroup DEF ProcessNext

(* A reconnect whose error was dropped never lets the goroutine use the    *)
(* nil stream it got (client.go:79 and 124).                               *)
THEOREM NilStreamsAreSafe == ProcessSpec => []NilStreamIsNotUsed
<1>1. GroupInv => NilStreamIsNotUsed
    BY DEF GroupInv, WatcherInv, NilStreamIsNotUsed, WatcherPc, CountedPc
<1> QED BY <1>1, InitGroupInv, NextGroupInv, PTL DEF ProcessSpec

(* At the end of main the channels of all watchers that have registered    *)
(* are closed, however many there are (sidecar.go:94).                     *)
THEOREM WaitGroupCorrect == ProcessSpec => []RegisteredWatchersEnd
<1>1. GroupInv => RegisteredWatchersEnd
    BY DEF GroupInv
<1> QED BY <1>1, InitGroupInv, NextGroupInv, PTL DEF ProcessSpec

-----------------------------------------------------------------------------
(* The configurations on their way to WatchConfig are versions of the      *)
(* object that the operator keeps, or the one version of a file.           *)
Versions == DOMAIN Setting
Texts == STRING \cup {""}
Settings == [endpoint : Texts, propagator : Texts]

VersionInv ==
    /\ DOMAIN version = Watchers /\ DOMAIN inbox = Watchers /\ DOMAIN held = Watchers
    /\ DOMAIN taken = Watchers /\ DOMAIN pc = Watchers /\ DOMAIN consumer = Watchers
    /\ DOMAIN events = Watchers /\ DOMAIN sending = Watchers
    /\ version[Telemetry] \in Nat \ {0} /\ events[Telemetry] \in Nat
    /\ 1 .. version[Telemetry] + events[Telemetry] \subseteq Versions
    /\ inbox[Telemetry] \in Seq(Versions) /\ sending[Telemetry] \subseteq Versions
    /\ pc[Telemetry] = "send" => held[Telemetry] \in Versions \cup {0}
    /\ consumer[Telemetry] = "busy" => taken[Telemetry] \in Versions \cup {0}

TracerInv ==
    /\ tracer \in [prev : Settings, stopper : Nat, installed : Settings,
                   started : Nat, live : SUBSET Nat]
    /\ TracerFollowsConfiguration

TelemetryInv == VersionInv /\ TracerInv

(* The bounds of the versions.                                             *)
LEMMA VersionFacts ==
    /\ Telemetry \in Watchers
    /\ \A e \in Events : e \in [Watchers -> Nat] /\ 1 .. 1 + e[Telemetry] \subseteq Versions
    /\ \A v \in Versions \cup {0} : SettingOf(v) \in Settings
<1>1. Telemetry \in Watchers
    BY ProcessAssumption
<1>2. \A e \in Events : e \in [Watchers -> Nat] /\ 1 .. 1 + e[Telemetry] \subseteq Versions
  <2> SUFFICES ASSUME NEW e \in Events PROVE e \in [Watchers -> Nat] /\ 1 .. 1 + e[Telemetry] \subseteq Versions
      OBVIOUS
  <2>1. e \in [Watchers -> Nat] /\ 1 .. e[Telemetry] + 1 \subseteq Versions
      BY ProcessAssumption DEF Versions
  <2> QED BY <1>1, <2>1
<1>3. NoSetting \in Settings
    BY DEF NoSetting, Settings, Texts
<1>4. \A v \in Versions : Setting[v] \in Settings
    BY ProcessAssumption DEF Versions, Settings, Texts
<1> QED BY <1>1, <1>2, <1>3, <1>4 DEF SettingOf

(* A change of configuration leaves the tracer with the new one, or with   *)
(* none that would have to be stopped.                                     *)
LEMMA ConfigureCorrect ==
    ASSUME TracerInv, NEW s \in Settings, NEW ok \in BOOLEAN, tracer' = Configure(tracer, s, ok)
    PROVE  TracerInv'
<1> DEFINE Tracers == [prev : Settings, stopper : Nat, installed : Settings,
                       started : Nat, live : SUBSET Nat]
<1>1. tracer \in Tracers /\ tracer'.prev = s
    BY DEF TracerInv, Configure, Stop, SetTracing
<1>2. CASE ~Changed(s, tracer.prev)
  <2>1. s = tracer.prev
      BY <1>1, <1>2 DEF Changed, Settings
  <2>2. tracer' = [tracer EXCEPT !.prev = s]
      BY <1>2 DEF Configure
  <2> QED BY <1>1, <2>1, <2>2 DEF TracerInv, TracerFollowsConfiguration
<1>3. CASE Changed(s, tracer.prev) /\ ~Valid(s)
  <2>1. tracer' = [tracer EXCEPT !.prev = s]
      BY <1>3 DEF Configure, Stop
  <2> QED BY <1>1, <1>3, <2>1 DEF TracerInv, TracerFollowsConfiguration
<1>4. CASE Changed(s, tracer.prev) /\ Valid(s) /\ ok
  <2>1. SetTracing(tracer, s, ok) = [prev |-> tracer.prev, stopper |-> tracer.started + 1,
                                     installed |-> s, started |-> tracer.started + 1,
                                     live |-> tracer.live \cup {tracer.started + 1}]
      BY <1>1, <1>4 DEF SetTracing
  <2>2. tracer' = [SetTracing(tracer, s, ok) EXCEPT !.prev = s]
      BY <1>4 DEF Configure, Stop
  <2>3. tracer' = [prev |-> s, stopper |-> tracer.started + 1, installed |-> s,
                   started |-> tracer.started + 1, live |-> tracer.live \cup {tracer.started + 1}]
      BY <2>1, <2>2
  <2>4. tracer' \in Tracers /\ tracer'.installed = s
      BY <1>1, <2>3
  <2> QED BY <1>1, <2>4 DEF TracerInv, TracerFollowsConfiguration
<1>5. CASE Changed(s, tracer.prev) /\ Valid(s) /\ ~ok
  <2>1. tracer' \in Tracers /\ tracer'.stopper = 0
      BY <1>1, <1>5 DEF Configure, Stop, SetTracing
  <2> QED BY <2>1 DEF TracerInv, TracerFollowsConfiguration
<1> QED BY <1>2, <1>3, <1>4, <1>5

(* The first version stands at the start, in both modes.                   *)
LEMMA InitTelemetryInv == ProcessInit => TelemetryInv
<1> SUFFICES ASSUME ProcessInit PROVE TelemetryInv
    OBVIOUS
<1>0. events \in Events
    BY DEF ProcessInit
<1>1. 1 \in Versions
    BY <1>0, VersionFacts
<1>2. <<1>> \in Seq(Versions) /\ <<>> \in Seq(Versions)
    BY <1>1
<1>3. inbox[Telemetry] \in Seq(Versions)
    BY <1>2, VersionFacts DEF ProcessInit, LoadLocal
<1>6. /\ version[Telemetry] = 1 /\ events[Telemetry] \in Nat /\ DOMAIN events = Watchers
      /\ 1 .. version[Telemetry] + events[Telemetry] \subseteq Versions
    BY VersionFacts DEF ProcessInit
<1>7. VersionInv
    BY <1>3, <1>6, VersionFacts DEF ProcessInit, VersionInv
<1>4. NoSetting \in Settings /\ ~Valid(NoSetting)
  <2>1. "" \in Texts
      BY DEF Texts
  <2>2. NoSetting \in Settings
      BY <2>1 DEF NoSetting, Settings
  <2>3. NoSetting.endpoint = ""
      BY DEF NoSetting
  <2> QED BY <2>2, <2>3 DEF Valid
<1>5. TracerInv
    BY <1>4 DEF ProcessInit, NoTracer, TracerInv, TracerFollowsConfiguration
<1> QED BY <1>5, <1>7 DEF TelemetryInv

(* A watcher hands on what it has received.                                *)
LEMMA WatcherKeepsVersions ==
    ASSUME VersionInv, NEW w \in Watchers, WatcherStep(w)
    PROVE  VersionInv' /\ UNCHANGED tracer
<1> USE VersionFacts DEF mainVars, readVars, operatorVars, GoTo, VersionInv
<1>1. CASE Start(w) \/ Select(w) \/ RecvFails(w) \/ CloseChannel(w) \/ Done(w)
    BY <1>1 DEF Start, Select, RecvFails, CloseChannel, Done
<1>2. CASE Recv(w)
  <2>1. w = Telemetry => Head(inbox[w]) \in Versions /\ Tail(inbox[w]) \in Seq(Versions)
      BY <1>2 DEF Recv
  <2>2. w = Telemetry => Unmarshal(w, Head(inbox[w])) \in Versions \cup {0}
      BY <2>1 DEF Unmarshal
  <2> QED BY <1>2, <2>1, <2>2 DEF Recv
<1>3. CASE Reconnect(w)
  <2>1. <<>> \in Seq(Versions)
      OBVIOUS
  <2> QED BY <1>3, <2>1 DEF Reconnect
<1>4. CASE Send(w)
    BY <1>4 DEF Send, Hand
<1>5. CASE SendList(w)
  <2>1. w = Telemetry => Head(inbox[w]) \in Versions /\ Tail(inbox[w]) \in Seq(Versions)
      BY <1>5 DEF SendList
  <2> QED BY <1>5, <2>1 DEF SendList, Hand
<1> QED BY <1>1, <1>2, <1>3, <1>4, <1>5 DEF WatcherStep

(* A consumer configures the tracer with a version it was handed.          *)
LEMMA ConsumerKeepsTelemetry ==
    ASSUME TelemetryInv, NEW w \in Watchers, ConsumerStep(w) \/ Hang(w)
    PROVE  TelemetryInv'
<1> USE DEF TelemetryInv
<1>1. VersionInv'
  <2>1. UNCHANGED <<version, events, sending, inbox, held, taken, pc>>
      BY DEF ConsumerStep, Consume, ConsumerEnds, Hang, watchVars, operatorVars
  <2>2. PICK to \in {"ready", "hung", "ended"} : consumer' = [consumer EXCEPT ![w] = to]
      BY DEF ConsumerStep, Consume, ConsumerEnds, Hang
  <2> QED BY <2>1, <2>2, VersionFacts DEF VersionInv
<1>2. CASE Consume(w) /\ w = Telemetry
  <2>1. SettingOf(taken[w]) \in Settings
      BY <1>2, VersionFacts DEF Consume, VersionInv
  <2>2. PICK ok \in BOOLEAN : tracer' = Configure(tracer, SettingOf(taken[w]), ok)
      BY <1>2 DEF Consume
  <2> QED BY <1>1, <2>1, <2>2, ConfigureCorrect
<1>3. CASE ~(Consume(w) /\ w = Telemetry)
  <2>1. UNCHANGED tracer
      BY <1>3 DEF ConsumerStep, Consume, ConsumerEnds, Stop, Hang
  <2> QED BY <1>1, <2>1 DEF TracerInv, TracerFollowsConfiguration
<1> QED BY <1>2, <1>3

(* The operator sends what it has stored, in whatever order; a stream that *)
(* breaks keeps the first of those it has received.                        *)
LEMMA OutsideKeepsVersions ==
    ASSUME VersionInv, NEW w \in Watchers, OperatorStep(w) \/ Break(w)
    PROVE  VersionInv' /\ UNCHANGED tracer
<1> USE VersionFacts DEF mainVars, watchVars, readVars, VersionInv
<1>1. version[Telemetry] \in Versions
    OBVIOUS
<1>2. ASSUME NEW v \in Versions, Transmit(w, v)
      PROVE  DOMAIN inbox' = Watchers /\ inbox'[Telemetry] \in Seq(Versions)
  <2>1. w = Telemetry => Append(inbox[w], v) \in Seq(Versions)
      OBVIOUS
  <2> QED BY <1>2, <2>1 DEF Transmit
<1>3. CASE Change(w)
  <2>1. w = Telemetry => /\ version'[w] = version[w] + 1 /\ events'[w] = events[w] - 1
                         /\ events[w] > 0
      BY <1>3 DEF Change
  <2>2. w # Telemetry => version'[Telemetry] = version[Telemetry] /\ events'[Telemetry] = events[Telemetry]
      BY <1>3 DEF Change
  <2>3. version'[Telemetry] \in Nat \ {0} /\ events'[Telemetry] \in Nat
      BY <2>1, <2>2
  <2>4. version'[Telemetry] + events'[Telemetry] = version[Telemetry] + events[Telemetry]
      BY <2>1, <2>2
  <2> QED BY <1>3, <2>3, <2>4 DEF Change
<1>4. CASE Announce(w)
    BY <1>1, <1>4 DEF Announce
<1>5. CASE Register(w)
    BY <1>5 DEF Register
<1>6. CASE Replay(w)
  <2>1. DOMAIN inbox' = Watchers /\ inbox'[Telemetry] \in Seq(Versions)
    <3>1. CASE w = Telemetry
        BY <1>1, <1>2, <1>6, <3>1 DEF Replay
    <3>2. CASE w # Telemetry
        BY <1>6, <3>2 DEF Replay, Transmit
    <3> QED BY <3>1, <3>2
  <2> QED BY <1>6, <2>1 DEF Replay
<1>7. CASE Deliver(w)
  <2>1. PICK v \in sending[w] : sending' = [sending EXCEPT ![w] = @ \ {v}] /\ Transmit(w, v)
      BY <1>7 DEF Deliver
  <2>2. DOMAIN inbox' = Watchers /\ inbox'[Telemetry] \in Seq(Versions)
    <3>1. CASE w = Telemetry
        BY <1>2, <2>1, <3>1
    <3>2. CASE w # Telemetry
        BY <2>1, <3>2 DEF Transmit
    <3> QED BY <3>1, <3>2
  <2> QED BY <1>7, <2>1, <2>2 DEF Deliver
<1>8. CASE Break(w)
  <2>1. PICK n \in 0 .. Len(inbox[w]) : inbox' = [inbox EXCEPT ![w] = SubSeq(@, 1, n)]
      BY <1>8 DEF Break
  <2>2. w = Telemetry => SubSeq(inbox[w], 1, n) \in Seq(Versions)
      BY <2>1
  <2>3. events'[Telemetry] \in Nat /\ events'[Telemetry] <= events[Telemetry] /\ DOMAIN events' = Watchers
      BY <1>8 DEF Break
  <2>4. 1 .. version[Telemetry] + events'[Telemetry] \subseteq Versions
      BY <2>3
  <2> QED BY <1>8, <2>1, <2>2, <2>3, <2>4 DEF Break
<1> QED BY <1>3, <1>4, <1>5, <1>6, <1>7, <1>8 DEF OperatorStep

(* Every step keeps the versions and the tracer.                           *)
LEMMA NextTelemetryInv == TelemetryInv /\ [ProcessNext]_processVars => TelemetryInv'
<1> SUFFICES ASSUME TelemetryInv, [ProcessNext]_processVars PROVE TelemetryInv'
    OBVIOUS
<1> USE DEF TelemetryInv
<1>1. ASSUME UNCHANGED <<watchVars, events, version, readVars>>, sending' \in {sending, [w \in Watchers |-> {}]}
      PROVE  TelemetryInv'
    BY <1>1, VersionFacts DEF watchVars, readVars, VersionInv, TracerInv, TracerFollowsConfiguration
<1>2. CASE UNCHANGED processVars
    BY <1>1, <1>2 DEF processVars, operatorVars
<1>3. CASE MainStep \/ Interrupt \/ ServeReturns \/ ServeFails \/ DiagFails
    BY <1>1, <1>3 DEF MainStep, DiagStart, DiagEnds, ServeReturns, Exit, Interrupt, ServeFails, DiagFails, operatorVars
<1>4. ASSUME NEW w \in Watchers, WatcherStep(w) \/ OperatorStep(w) \/ Break(w) PROVE TelemetryInv'
  <2>1. VersionInv' /\ UNCHANGED tracer
      BY <1>4, WatcherKeepsVersions, OutsideKeepsVersions
  <2> QED BY <2>1 DEF TracerInv, TracerFollowsConfiguration
<1> QED BY <1>2, <1>3, <1>4, ConsumerKeepsTelemetry DEF ProcessNext

(* The tracer that is installed is that of the last valid configuration,   *)
(* for any sequence of settings and failures (diagnostics.go:25).          *)
THEOREM TracerCorrect == ProcessSpec => []TracerFollowsConfiguration
<1>1. TelemetryInv => TracerFollowsConfiguration
    BY DEF TelemetryInv, TracerInv
<1> QED BY <1>1, InitTelemetryInv, NextTelemetryInv, PTL DEF ProcessSpec

(* A watcher that sends to a consumer which hangs waits for ever, and main *)
(* with it: the process does not end, whatever is interrupted, as the send *)
(* does not look at the context (client.go:76, sidecar.go:94).             *)
THEOREM HungConsumerKeepsProcess ==
    ProcessSpec => \A w \in Watchers : [](SendsForEver(w) => [](SendsForEver(w) /\ main # "exited"))
<1> SUFFICES ASSUME NEW w \in Watchers
             PROVE  ProcessSpec => [](SendsForEver(w) => [](SendsForEver(w) /\ main # "exited"))
    OBVIOUS
<1>1. GroupInv /\ SendsForEver(w) => main # "exited"
    BY DEF GroupInv, RegisteredWatchersEnd, SendsForEver
<1>2. GroupInv /\ TelemetryInv /\ SendsForEver(w) /\ [ProcessNext]_processVars => SendsForEver(w)'
  <2> SUFFICES ASSUME WatcherInv, DOMAIN consumer = Watchers, SendsForEver(w), [ProcessNext]_processVars PROVE SendsForEver(w)'
      BY DEF GroupInv, TelemetryInv, VersionInv
  <2> USE DEF SendsForEver, WatcherInv
  <2>1. CASE UNCHANGED processVars
      BY <2>1 DEF processVars, watchVars, readVars
  <2>2. ASSUME NEW v \in Watchers, WatcherStep(v) PROVE SendsForEver(w)'
    <3>1. v # w \/ Send(w)
        BY <2>2 DEF WatcherStep, Start, Select, Recv, RecvFails, Reconnect, CloseChannel, Done, SendList, GoTo
    <3>2. v # w /\ pc'[w] = pc[w]
        BY <2>2, <3>1 DEF WatcherStep, Start, Select, Recv, RecvFails, Reconnect, CloseChannel, Done, Send, SendList, GoTo, Hand
    <3>3. consumer'[w] = consumer[w]
        BY <2>2, <3>2 DEF WatcherStep, Start, Select, Recv, RecvFails, Reconnect, CloseChannel, Done, Send, SendList, Hand, readVars
    <3> QED BY <3>2, <3>3
  <2>3. ASSUME NEW v \in Watchers, ConsumerStep(v) \/ Hang(v) PROVE SendsForEver(w)'
      BY <2>3 DEF ConsumerStep, Consume, ConsumerEnds, Hang, watchVars
  <2>4. ASSUME NEW v \in Watchers, OperatorStep(v) \/ Break(v) PROVE SendsForEver(w)'
      BY <2>4 DEF OperatorStep, Change, Announce, Register, Replay, Deliver, Break, watchVars, readVars
  <2>5. CASE MainStep \/ Interrupt \/ ServeReturns \/ ServeFails \/ DiagFails
      BY <2>5 DEF MainStep, DiagStart, DiagEnds, ServeReturns, Exit, Interrupt, ServeFails, DiagFails, watchVars, readVars
  <2> QED BY <2>1, <2>2, <2>3, <2>4, <2>5 DEF ProcessNext
<1> QED BY <1>1, <1>2, InitGroupInv, NextGroupInv, InitTelemetryInv, NextTelemetryInv, PTL DEF ProcessSpec

-----------------------------------------------------------------------------
(* A pubsub that is not installed yet counts as connected.                 *)
ConnsInv ==
    /\ hcInstalled \subseteq Conns /\ Conns \ hcInstalled \subseteq hcUp
    /\ DOMAIN hcProbe = Probes /\ DOMAIN hcExpired = Probes /\ DOMAIN hcManager = Probes
    /\ DOMAIN hcRuntime = Probes /\ DOMAIN hcReader = Probes /\ DOMAIN hcLeft = Probes
    /\ DOMAIN hcWasUp = Probes /\ DOMAIN hcWasDown = Probes /\ DOMAIN hcHadNone = Probes

(* A reason for the manager's check to fail.                               *)
Reason(p) == hcWasDown[p] # {} \/ hcHadNone[p]
AllWereUp(p) == hcInstalled # {} /\ hcInstalled \subseteq hcWasUp[p]

(* While a probe lasts, what is so now has been so during it; what its     *)
(* reader has asked was connected; each result has a reason.               *)
ObservedInv(p) ==
    /\ hcInstalled \cap hcUp \subseteq hcWasUp[p]
    /\ hcInstalled \ hcUp \subseteq hcWasDown[p] /\ hcWasDown[p] \subseteq hcInstalled
    /\ hcInstalled = {} => hcHadNone[p]
ReaderInv(p) ==
    /\ hcReader[p] = "reading" => hcLeft[p] \subseteq hcInstalled /\ hcInstalled \ hcLeft[p] \subseteq hcWasUp[p]
    /\ hcReader[p] = "healthy" => AllWereUp(p)
    /\ hcReader[p] = "unhealthy" => Reason(p)
ResultsInv(p) ==
    /\ hcManager[p] \in {"waiting", "healthy", "unhealthy"}
    /\ hcManager[p] = "healthy" => AllWereUp(p)
    /\ hcManager[p] = "unhealthy" => hcExpired[p] \/ Reason(p)
    /\ hcRuntime[p] \in {"waiting", "healthy", "unhealthy"}
    /\ hcRuntime[p] = "healthy" => RuntimeHealth = "healthy"
    /\ hcRuntime[p] = "unhealthy" => hcExpired[p] \/ RuntimeHealth = "unhealthy"
ProbeInv(p) == ObservedInv(p) /\ ReaderInv(p) /\ ResultsInv(p)

(* A probe that has not arrived has neither reader nor results.            *)
IdleInv(p) == hcReader[p] = "none" /\ hcManager[p] = "waiting" /\ hcRuntime[p] = "waiting"

HealthInv ==
    /\ ConnsInv
    /\ \A p \in Probes : /\ hcProbe[p] = "none" => IdleInv(p)
                         /\ Checking(p) => ProbeInv(p)

(* The version check has one answer, which no step changes.                *)
LEMMA RuntimeHealthFacts ==
    /\ RuntimeHealth \in {"healthy", "unhealthy"}
    /\ hcMin' = hcMin => RuntimeHealth' = RuntimeHealth
BY DEF RuntimeHealth, LessString

(* No probe has arrived at first.                                          *)
LEMMA InitHealthInv == HealthInit => HealthInv
BY DEF HealthInit, HealthInv, ConnsInv, IdleInv, Checking, Each

(* What a probe, its reader and its checkers do.                           *)
LEMMA ProbeKeepsHealthInv ==
    ASSUME HealthInv, NEW p \in Probes,
           \/ Arrive(p) \/ BeginReading(p) \/ EndReading(p) \/ ManagerAnswers(p)
           \/ RuntimeAnswers(p) \/ Expire(p) \/ Respond(p)
           \/ \E c \in Conns : AskPubSub(p, c)
    PROVE  HealthInv'
<1> USE RuntimeHealthFacts DEF HealthInv, ConnsInv, IdleInv, Checking, ProbeInv, ObservedInv,
        ReaderInv, ResultsInv, AllWereUp, Reason, history
<1>1. CASE Arrive(p)
    BY <1>1 DEF Arrive
<1>2. CASE BeginReading(p)
    BY <1>2 DEF BeginReading
<1>3. CASE EndReading(p)
    BY <1>3 DEF EndReading
<1>4. CASE ManagerAnswers(p)
    BY <1>4 DEF ManagerAnswers
<1>5. CASE RuntimeAnswers(p)
    BY <1>5 DEF RuntimeAnswers
<1>6. CASE Expire(p)
    BY <1>6 DEF Expire
<1>7. CASE Respond(p)
    BY <1>7 DEF Respond
<1>8. CASE \E c \in Conns : AskPubSub(p, c)
    BY <1>8 DEF AskPubSub
<1> QED BY <1>1, <1>2, <1>3, <1>4, <1>5, <1>6, <1>7, <1>8

(* What is installed or breaks is noticed by all probes that last.         *)
LEMMA ConnsKeepHealthInv ==
    ASSUME HealthInv, NEW c \in Conns, InstallConn(c) \/ ConnectionChanges(c)
    PROVE  HealthInv'
<1>1. /\ UNCHANGED <<hcMin, hcHadNone, hcProbe, hcExpired, hcManager, hcRuntime, hcReader, hcLeft>>
      /\ hcInstalled \subseteq hcInstalled'
      /\ hcWasUp' = [p \in Probes |-> IF Checking(p) THEN hcWasUp[p] \cup (hcInstalled' \cap hcUp') ELSE hcWasUp[p]]
      /\ hcWasDown' = [p \in Probes |-> IF Checking(p) THEN hcWasDown[p] \cup (hcInstalled' \ hcUp') ELSE hcWasDown[p]]
    BY DEF InstallConn, ConnectionChanges, Observe, probeVars
<1>2. ConnsInv'
    BY <1>1 DEF HealthInv, ConnsInv, InstallConn, ConnectionChanges
<1>3. RuntimeHealth' = RuntimeHealth
    BY <1>1, RuntimeHealthFacts
<1>4. SUFFICES ASSUME NEW p \in Probes, Checking(p) PROVE ProbeInv(p)'
    BY <1>1, <1>2 DEF HealthInv, IdleInv, Checking
<1>5. ObservedInv(p)'
    BY <1>1, <1>4 DEF HealthInv, ProbeInv, ObservedInv, InstallConn, ConnectionChanges
<1>6. AllWereUp(p) => AllWereUp(p)'
    BY <1>1, <1>2, <1>4 DEF AllWereUp, HealthInv, ConnsInv, ProbeInv, ObservedInv, InstallConn, ConnectionChanges
<1>7. Reason(p) => Reason(p)'
    BY <1>1, <1>4 DEF Reason
<1>8. ReaderInv(p)'
  <2>1. hcReader[p] = "reading" => hcInstalled' = hcInstalled
      BY DEF InstallConn, ConnectionChanges
  <2> QED BY <1>1, <1>4, <1>6, <1>7, <2>1 DEF HealthInv, ProbeInv, ReaderInv
<1>9. ResultsInv(p)'
    BY <1>1, <1>3, <1>4, <1>6, <1>7 DEF HealthInv, ProbeInv, ResultsInv
<1> QED BY <1>5, <1>8, <1>9 DEF ProbeInv

(* Whatever connects, breaks or is installed while probes last, and        *)
(* whichever checks time out, each answer has its reason (health.go:55).   *)
THEOREM ProbesCorrect == HealthSpec => ProbesTellTheTruth
<1>1. HealthInv /\ [HealthNext]_hcVars => HealthInv'
  <2> SUFFICES ASSUME HealthInv, [HealthNext]_hcVars PROVE HealthInv'
      OBVIOUS
  <2>1. CASE UNCHANGED hcVars
      BY <2>1, RuntimeHealthFacts DEF hcVars, HealthInv, ConnsInv, IdleInv, Checking, ProbeInv, ObservedInv,
         ReaderInv, ResultsInv, AllWereUp, Reason
  <2> QED BY <2>1, ProbeKeepsHealthInv, ConnsKeepHealthInv DEF HealthNext
<1>2. HealthInv /\ [HealthNext]_hcVars =>
        [\A p \in Probes :
            /\ hcProbe'[p] = "200" /\ Checking(p) =>
                  hcWasDown[p] \subseteq hcWasUp[p] /\ RuntimeHealth = "healthy" /\ hcInstalled # {}
            /\ hcProbe'[p] = "503" /\ Checking(p) /\ ~hcExpired[p] =>
                  hcWasDown[p] # {} \/ hcHadNone[p] \/ RuntimeHealth = "unhealthy"]_hcVars
  <2> SUFFICES ASSUME HealthInv, HealthNext, NEW p \in Probes, Checking(p), hcProbe'[p] \in {"200", "503"}
               PROVE  /\ hcProbe'[p] = "200" =>
                            hcWasDown[p] \subseteq hcWasUp[p] /\ RuntimeHealth = "healthy" /\ hcInstalled # {}
                      /\ hcProbe'[p] = "503" /\ ~hcExpired[p] =>
                            hcWasDown[p] # {} \/ hcHadNone[p] \/ RuntimeHealth = "unhealthy"
      OBVIOUS
  <2>1. ProbeInv(p) /\ ConnsInv
      BY DEF HealthInv
  <2>2. Respond(p)
      BY <2>1 DEF HealthNext, Arrive, BeginReading, EndReading, ManagerAnswers, RuntimeAnswers, Expire, Respond,
         AskPubSub, InstallConn, ConnectionChanges, Observe, probeVars, Checking, ConnsInv
  <2>3. /\ "waiting" \notin {hcManager[p], hcRuntime[p]}
        /\ hcProbe'[p] = IF "unhealthy" \in {hcManager[p], hcRuntime[p]} THEN "503" ELSE "200"
      BY <2>1, <2>2 DEF Respond, ConnsInv
  <2>4. CASE hcProbe'[p] = "200"
    <3>1. hcManager[p] = "healthy" /\ hcRuntime[p] = "healthy"
        BY <2>1, <2>3, <2>4 DEF ProbeInv, ResultsInv
    <3> QED BY <2>1, <2>4, <3>1 DEF ProbeInv, ResultsInv, ObservedInv, AllWereUp
  <2>5. CASE hcProbe'[p] = "503"
    <3>1. hcManager[p] = "unhealthy" \/ hcRuntime[p] = "unhealthy"
        BY <2>3, <2>5
    <3> QED BY <2>1, <2>5, <3>1 DEF ProbeInv, ResultsInv, Reason
  <2> QED BY <2>4, <2>5
<1> QED BY <1>1, <1>2, InitHealthInv, PTL DEF HealthSpec, ProbesTellTheTruth
=============================================================================
