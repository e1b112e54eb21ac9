--------------------------- MODULE Sidecar_proofs ---------------------------
(***************************************************************************)
(* The sidecar implements its components manager and its server, whose     *)
(* invariants carry over; and a parked stream that is not up to date has a *)
(* Refresh coming or was left behind, for any number of streams, names,    *)
(* types, configurations and updates.                                      *)
(***************************************************************************)
EXTENDS Sidecar, TLAPS

ServerP == INSTANCE SubscriptionServer_proofs WITH Refreshers <- Watchers
ManagerP == INSTANCE ComponentsManager_proofs WITH pc <- mpc

(* What the prover needs to know of the types of the composition.          *)
ShapeInv ==
    /\ appConfig \in 0..Len(PubSubOf) /\ due \subseteq Watchers
    /\ DOMAIN instance = Streams /\ DOMAIN pipeline = Streams
    /\ DOMAIN pc = Streams /\ DOMAIN rpc = Watchers
    /\ DOMAIN todo = Watchers /\ DOMAIN sendingTo = Watchers

(* A stream holds what it looked up until it unsubscribes.                 *)
HeldInv ==
    \A s \in Streams :
        /\ instance[s] # 0 => pc[s] \in {"subscribe", "getChan", "select", "unsub"}
        /\ pc[s] \in {"getChan", "select"} => instance[s] # 0

(* There are no streams before the server serves, which it does with a     *)
(* configuration.                                                          *)
StartInv ==
    /\ serve = "starting" => \A s \in Streams : pc[s] = "idle"
    /\ appConfig = 0 => serve = "starting"
    /\ watcher = "starting" => appConfig = 0

(* What a stream has looked up is what it would get now, or a Refresh is   *)
(* coming, or the stream is left behind.                                   *)
Told(s) == RefreshComing(s) \/ LeftBehind(s)

FreshInv ==
    \A s \in Streams :
        /\ instance[s] # 0 /\ pc[s] \in {"subscribe", "getChan", "select"} =>
              instance[s] = CurrentInstance(s) \/ Told(s)
        /\ pc[s] \in {"getChan", "select"} => pipeline[s] = appConfig \/ Told(s)

IInv == ShapeInv /\ HeldInv /\ StartInv /\ FreshInv

-----------------------------------------------------------------------------
(* The manager of the sidecar takes the steps of ComponentsManager.        *)
LEMMA ManagerMovesRefines ==
    ASSUME Manager!ManagerStep PROVE ManagerP!ManagerStep
<1> USE DEF Manager!Goto, ManagerP!Goto, Manager!Return, ManagerP!Return, Manager!Key, ManagerP!Key,
        Manager!mapVars, ManagerP!mapVars, Manager!history, ManagerP!history
<1>1. CASE Manager!Ignore \/ Manager!Reject \/ Manager!LogError
    BY <1>1 DEF Manager!Ignore, Manager!Reject, Manager!LogError, ManagerP!ManagerStep,
         ManagerP!Ignore, ManagerP!Reject, ManagerP!LogError
<1>2. CASE Manager!Dispatch
    BY <1>2 DEF Manager!Dispatch, ManagerP!Dispatch, ManagerP!ManagerStep
<1>3. CASE Manager!CloseOld \/ Manager!CloseFails
    BY <1>3 DEF Manager!CloseOld, Manager!CloseFails, ManagerP!CloseOld, ManagerP!CloseFails,
         Manager!Instance, ManagerP!Instance, Manager!Closed, ManagerP!Closed, ManagerP!ManagerStep
<1>4. CASE Manager!InitPubSub \/ Manager!InitFails \/ Manager!Install
    BY <1>4 DEF Manager!InitPubSub, Manager!InitFails, Manager!Install, ManagerP!ManagerStep,
         ManagerP!InitPubSub, ManagerP!InitFails, ManagerP!Install
<1>5. CASE Manager!StoreComponent
    BY <1>5 DEF Manager!StoreComponent, ManagerP!StoreComponent, ManagerP!ManagerStep
<1>6. CASE Manager!PublishChange
    BY <1>6 DEF Manager!PublishChange, ManagerP!PublishChange, ManagerP!ManagerStep
<1> QED
    BY <1>1, <1>2, <1>3, <1>4, <1>5, <1>6 DEF Manager!ManagerStep

(* The actions that change the state of the manager.                       *)
LEMMA ManagerActs ==
    ASSUME [Next]_vars
    PROVE  \/ UNCHANGED managerVars
           \/ NewRuntime \/ ComponentsRefreshed \/ ComponentChanges \/ ManagerMoves \/ LoaderActs
<1>1. CASE \E s \in Streams : StreamStep(s) \/ StreamWaits(s) \/ ClientActs(s)
    BY <1>1 DEF StreamStep, LookUp, Subscribe, SubscribeFails, Unsubscribe, StreamMoves,
         StreamWaits, ClientActs
<1>2. CASE \E w \in Watchers : WatcherStep(w) \/ RefreshBegins(w)
    BY <1>2 DEF WatcherStep, Refresh, RefreshSends, RefreshBegins
<1>3. CASE Run \/ Stops \/ ConfigurationChanges
    BY <1>3 DEF Run, Stops, ConfigurationChanges
<1>4. CASE UNCHANGED vars
    BY <1>4 DEF vars
<1> QED
    BY <1>1, <1>2, <1>3, <1>4 DEF Next

(* A step of the sidecar is a step of the manager or leaves it unchanged.  *)
LEMMA ManagerStepRefines ==
    ASSUME [Next]_vars
    PROVE  [ManagerP!Next]_ManagerP!vars
<1> USE DEF managerVars, ManagerP!vars, ManagerP!mapVars, ManagerP!mgrVars, ManagerP!history,
        Manager!mapVars, Manager!mgrVars, Manager!history
<1>1. CASE UNCHANGED managerVars
    BY <1>1
<1>2. CASE NewRuntime \/ ComponentsRefreshed
    BY <1>2 DEF NewRuntime, ComponentsRefreshed, Manager!StartWatcher, Manager!RefreshReturns,
         ManagerP!Next, ManagerP!StartWatcher, ManagerP!RefreshReturns
<1>3. CASE ComponentChanges
    BY <1>3, ManagerMovesRefines DEF ComponentChanges, Manager!ManagerStep, ManagerP!Next
<1>4. CASE ManagerMoves
    BY <1>4, ManagerMovesRefines DEF ManagerMoves, ManagerP!Next
<1>5. CASE LoaderActs
    BY <1>5 DEF LoaderActs, ManagerP!Next, Manager!Receive, Manager!LoaderEnds, Manager!WatcherEnds,
         ManagerP!Receive, ManagerP!LoaderEnds, ManagerP!WatcherEnds, Manager!Goto, ManagerP!Goto,
         Manager!Specs, ManagerP!Specs, Manager!Types, ManagerP!Types
<1> QED
    BY <1>1, <1>2, <1>3, <1>4, <1>5, ManagerActs

(* The sidecar implements its components manager.                          *)
THEOREM ImplementsManager == Spec => ManagerP!Spec
<1>1. Init => ManagerP!Init
    BY DEF Init, Manager!Init, ManagerP!Init, Manager!Types, ManagerP!Types
<1>2. [Next]_vars => [ManagerP!Next]_ManagerP!vars
    BY ManagerStepRefines
<1> QED
    BY <1>1, <1>2, PTL DEF Spec, ManagerP!Spec

(* So the invariant of the manager holds in the sidecar.                   *)
LEMMA ManagerCorrect == Spec => []ManagerP!IInv
<1>1. ManagerP!Spec => []ManagerP!IInv
    BY ManagerP!Inductive, SidecarAssumption
    DEF Manager!Specs, Manager!Types, ManagerP!Specs, ManagerP!Types
<1> QED
    BY <1>1, ImplementsManager, PTL

-----------------------------------------------------------------------------
(* The list of instances only grows and keeps their specs.                 *)
LEMMA MadeGrows ==
    ASSUME ManagerP!IInv, [ManagerP!Next]_ManagerP!vars
    PROVE  \A i \in DOMAIN made : i \in DOMAIN made' /\ made'[i].spec = made[i].spec
<1> DEFINE Grows == \A i \in DOMAIN made : i \in DOMAIN made' /\ made'[i].spec = made[i].spec
<1>0. made \in Seq([spec : ManagerP!Specs, open : BOOLEAN])
    BY DEF ManagerP!IInv, ManagerP!TypeOK
<1>1. CASE UNCHANGED made
    BY <1>1
<1>2. CASE ManagerP!CloseOld \/ ManagerP!CloseFails
    BY <1>0, <1>2 DEF ManagerP!CloseOld, ManagerP!CloseFails, ManagerP!Closed
<1>3. CASE ManagerP!InitPubSub
    BY <1>0, <1>3 DEF ManagerP!InitPubSub
<1>4. UNCHANGED made \/ ManagerP!CloseOld \/ ManagerP!CloseFails \/ ManagerP!InitPubSub
    BY DEF ManagerP!Next, ManagerP!ManagerStep, ManagerP!vars, ManagerP!mapVars, ManagerP!Receive,
         ManagerP!LoaderEnds, ManagerP!Ignore, ManagerP!Reject, ManagerP!Dispatch, ManagerP!InitFails,
         ManagerP!Install, ManagerP!StoreComponent, ManagerP!LogError, ManagerP!PublishChange,
         ManagerP!StartWatcher, ManagerP!RefreshReturns, ManagerP!WatcherEnds
<1> QED
    BY <1>1, <1>2, <1>3, <1>4

(* A name that has had several types keeps them.                           *)
LEMMA TypesDiffer ==
    ASSUME ManagerP!IInv, [ManagerP!Next]_ManagerP!vars, NEW n, ~Manager!SameTypes(n)
    PROVE  ~Manager!SameTypes(n)'
BY MadeGrows DEF Manager!SameTypes

(* An instance of a name is replaced in an update, unless its type changes. *)
LEMMA ReplacedByUpdate ==
    ASSUME ManagerP!IInv, [ManagerP!Next]_ManagerP!vars,
           NEW n \in Names, pubSubInstances[n] # 0, pubSubInstances'[n] # pubSubInstances[n]
    PROVE  \/ mpc' = "store" /\ operation' = "Update" /\ ~err'
           \/ ~Manager!SameTypes(n)'
<1>1. ManagerP!Install
    BY DEF ManagerP!Next, ManagerP!ManagerStep, ManagerP!vars, ManagerP!mapVars, ManagerP!Receive,
         ManagerP!LoaderEnds, ManagerP!Ignore, ManagerP!Reject, ManagerP!Dispatch, ManagerP!InitFails,
         ManagerP!CloseOld, ManagerP!CloseFails, ManagerP!InitPubSub,
         ManagerP!StoreComponent, ManagerP!LogError, ManagerP!PublishChange,
         ManagerP!StartWatcher, ManagerP!RefreshReturns, ManagerP!WatcherEnds
<1>2. /\ mpc = "install" /\ mpc' = "store" /\ UNCHANGED <<components, made, spec, operation, err>>
      /\ n = spec.name /\ pubSubInstances'[n] = Len(made)
      /\ pubSubInstances \in [Names -> 0..Len(made)]
    BY <1>1 DEF ManagerP!Install, ManagerP!Goto, ManagerP!IInv, ManagerP!TypeOK
<1>3. /\ ~err /\ (operation = "Update" <=> components[ManagerP!Key(spec)] # None)
      /\ Len(made) > 0 /\ made[Len(made)].spec = spec
    BY <1>2 DEF ManagerP!IInv, ManagerP!LocalsInv, ManagerP!NewestInv
<1> DEFINE i == pubSubInstances[n]
<1>4. i \in 1..Len(made) /\ i # Len(made) /\ Len(made) \in 1..Len(made) /\ DOMAIN made = 1..Len(made)
    BY <1>2, <1>3 DEF ManagerP!IInv, ManagerP!TypeOK
<1>5. made[i].spec.name = n /\ components[ManagerP!Key(made[i].spec)] # None
    BY <1>4 DEF ManagerP!IInv, ManagerP!NameInv, ManagerP!MadeInv
<1>6. ASSUME Manager!SameTypes(n)
      PROVE  operation = "Update"
  <2>1. made[i].spec.type = spec.type
      BY <1>2, <1>3, <1>4, <1>5, <1>6 DEF Manager!SameTypes
  <2> QED BY <1>2, <1>3, <1>5, <2>1 DEF ManagerP!Key
<1>7. Manager!SameTypes(n)' <=> Manager!SameTypes(n)
    BY <1>2 DEF Manager!SameTypes
<1> QED
    BY <1>2, <1>3, <1>6, <1>7

(* The manager announces an update once the instance is installed.         *)
LEMMA UpdateAnnounced ==
    ASSUME [Next]_vars, mpc \in {"store", "publish"}, operation = "Update", ~err
    PROVE  \/ mpc' \in {"store", "publish"} /\ operation' = "Update" /\ ~err'
           \/ due' # {}
<1>1. CASE UNCHANGED managerVars
    BY <1>1 DEF managerVars
<1>2. CASE NewRuntime \/ ComponentsRefreshed \/ LoaderActs
    BY <1>2 DEF NewRuntime, ComponentsRefreshed, LoaderActs, Manager!StartWatcher,
         Manager!RefreshReturns, Manager!Receive, Manager!LoaderEnds, Manager!WatcherEnds,
         Manager!Goto, Manager!mapVars, Manager!mgrVars, Manager!history
<1>3. CASE ComponentChanges
    BY <1>3 DEF ComponentChanges
<1>4. CASE ManagerMoves
    BY <1>4 DEF ManagerMoves, Manager!ManagerStep, Manager!Goto, Manager!Return,
         Manager!Ignore, Manager!Reject, Manager!Dispatch, Manager!CloseOld, Manager!CloseFails,
         Manager!InitPubSub, Manager!InitFails, Manager!Install, Manager!StoreComponent,
         Manager!LogError, Manager!PublishChange, Manager!mapVars, Manager!history
<1> QED
    BY <1>1, <1>2, <1>3, <1>4, ManagerActs

-----------------------------------------------------------------------------
(* What a step does to one stream: it looks its instance up and subscribes *)
(* with what holds at that moment, and keeps both until it unsubscribes.   *)
Holding == {"subscribe", "getChan", "select"}

(* The actions of the runtime, the manager and the loader do not touch it. *)
LEMMA OthersKeepStreams ==
    ASSUME IInv, \/ NewRuntime \/ Run \/ Stops
                 \/ ConfigurationChanges \/ ComponentChanges \/ ComponentsRefreshed
                 \/ ManagerMoves \/ LoaderActs
    PROVE  UNCHANGED <<pc, instance, pipeline, missed, rpc, todo, sendingTo>>
BY DEF NewRuntime, Run, Stops, ConfigurationChanges, ComponentChanges, ComponentsRefreshed,
    ManagerMoves, LoaderActs, serverVars, lookupVars, Server!Listen, Server!Shutdown,
    Server!GracefulStop, Server!ServeReturns, Server!streamVars, Server!refreshVars

LEMMA StreamKeeps ==
    ASSUME IInv, NEW t \in Streams, StreamStep(t) \/ StreamWaits(t) \/ ClientActs(t), NEW s \in Streams
    PROVE  /\ pc'[s] \in Holding /\ instance'[s] # 0 =>
                 \/ pc[s] \in Holding /\ instance'[s] = instance[s]
                 \/ instance'[s] = CurrentInstance(s)
           /\ pc'[s] \in {"getChan", "select"} =>
                 \/ pc[s] \in {"getChan", "select"} /\ pipeline'[s] = pipeline[s]
                 \/ pipeline'[s] = appConfig
           /\ pc'[s] \in Holding /\ instance'[s] # 0 /\ s \in missed => s \in missed'
           /\ UNCHANGED <<managerVars, appConfig, due, rpc, todo, sendingTo>>
<1> USE DEF IInv, ShapeInv, HeldInv, Holding
<1>1. CASE LookUp(t)
    BY <1>1 DEF LookUp, serverVars
<1>2. CASE Subscribe(t)
    BY <1>2 DEF Subscribe, Server!Attach, Server!Goto, Server!refreshVars
<1>3. CASE SubscribeFails(t)
    BY <1>3 DEF SubscribeFails, Forget, Server!AttachFails, Server!Goto, Server!refreshVars
<1>4. CASE Unsubscribe(t)
    BY <1>4 DEF Unsubscribe, Forget, Server!Unsubscribe, Server!Goto, Server!refreshVars
<1>5. CASE StreamMoves(t)
    BY <1>5 DEF StreamMoves, Server!GetRefreshChan, Server!LeaveSelect, Server!RemoveRefreshChan,
         Server!Goto, Server!refreshVars, lookupVars
<1>6. CASE StreamWaits(t)
    BY <1>6 DEF StreamWaits, Server!AnnounceLock, Server!streamVars, Server!refreshVars, lookupVars
<1>7. CASE ClientActs(t)
    BY <1>7 DEF ClientActs, Server!Accept, Server!RecvRequest, Server!RecvInvalid,
         Server!CloseStream, Server!Goto, Server!refreshVars, lookupVars
<1> QED
    BY <1>1, <1>2, <1>3, <1>4, <1>5, <1>6, <1>7 DEF StreamStep

(* A watcher that refreshes does not touch what a stream looked up.        *)
LEMMA WatcherKeeps ==
    ASSUME IInv, NEW w \in Watchers, WatcherStep(w) \/ RefreshBegins(w), NEW s \in Streams
    PROVE  /\ UNCHANGED <<managerVars, appConfig, instance, pipeline>>
           /\ pc'[s] # pc[s] => pc'[s] = "unsub"
           /\ missed \subseteq missed'
<1> USE DEF IInv, ShapeInv
<1>1. CASE Refresh(w)
    BY <1>1 DEF Refresh, Server!CallRefresh, Server!RefreshNoServer, Server!streamVars, lookupVars
<1>2. CASE RefreshBegins(w)
    BY <1>2 DEF RefreshBegins, Server!RLockRefresh, Server!streamVars
<1>3. CASE RefreshSends(w)
    BY <1>3 DEF RefreshSends, Server!RefreshStep, Server!NextChannel, Server!SendRefresh,
         Server!RefreshReturn, Server!Goto, Server!streamVars, lookupVars
<1> QED
    BY <1>1, <1>2, <1>3 DEF WatcherStep

(* A Refresh that is coming for a stream that holds an instance comes      *)
(* nearer, finds it unregistered or reaches it.                            *)
LEMMA RefreshComesNearer ==
    ASSUME IInv, NEW w \in Watchers, WatcherStep(w) \/ RefreshBegins(w), NEW s \in Streams,
           instance[s] # 0, pc[s] \in Holding, pc'[s] \in Holding,
           due # {} \/ \E v \in Watchers : rpc[v] = "rlock" \/ s \in todo[v] \/ sendingTo[v] = s
    PROVE  \/ due' # {} \/ s \in missed'
           \/ \E v \in Watchers : rpc'[v] = "rlock" \/ s \in todo'[v] \/ sendingTo'[v] = s
<1> USE DEF IInv, ShapeInv, Holding
<1>1. CASE Refresh(w)
  <2>1. ~Server!RefreshNoServer(w)
      BY DEF StartInv, Server!RefreshNoServer
  <2>2. rpc' = [rpc EXCEPT ![w] = "rlock"] /\ DOMAIN rpc = Watchers
      BY <1>1, <2>1 DEF Refresh, Server!CallRefresh
  <2> QED BY <2>2
<1>2. CASE RefreshBegins(w)
  <2>1. /\ UNCHANGED <<due, sendingTo>> /\ todo' = [todo EXCEPT ![w] = refreshChannels]
        /\ rpc[w] = "rlock" /\ rpc' = [rpc EXCEPT ![w] = "sending"]
        /\ missed' = missed \cup {t \in Streams \ refreshChannels : instance[t] # 0}
      BY <1>2 DEF RefreshBegins, Server!RLockRefresh
  <2>2. s \in missed' \/ s \in todo'[w]
      BY <2>1
  <2> QED BY <2>2
<1>3. CASE RefreshSends(w)
  <2>1. UNCHANGED <<due, missed>>
      BY <1>3 DEF RefreshSends, lookupVars
  <2>2. CASE Server!NextChannel(w)
    <3>1. PICK t \in todo[w] : sendingTo' = [sendingTo EXCEPT ![w] = t] /\ todo' = [todo EXCEPT ![w] = @ \ {t}]
        BY <2>2 DEF Server!NextChannel
    <3>2. UNCHANGED rpc /\ sendingTo[w] = NoOne /\ NoOne # s
        BY <2>2, SidecarAssumption DEF Server!NextChannel
    <3>3. \A v \in Watchers : s \in todo[v] => s \in todo'[v] \/ sendingTo'[v] = s
        BY <3>1
    <3>4. \A v \in Watchers : sendingTo[v] = s => sendingTo'[v] = s
        BY <3>1, <3>2
    <3> QED BY <2>1, <3>2, <3>3, <3>4
  <2>3. CASE Server!SendRefresh(w)
    <3>1. sendingTo[w] # s
        BY <2>3 DEF Server!SendRefresh, Server!Goto
    <3>2. UNCHANGED <<todo, rpc>> /\ \A v \in Watchers \ {w} : sendingTo'[v] = sendingTo[v]
        BY <2>3 DEF Server!SendRefresh
    <3> QED BY <2>1, <3>1, <3>2
  <2>4. CASE Server!RefreshReturn(w)
      BY <2>1, <2>4 DEF Server!RefreshReturn
  <2> QED BY <1>3, <2>2, <2>3, <2>4 DEF RefreshSends, Server!RefreshStep
<1> QED
    BY <1>1, <1>2, <1>3 DEF WatcherStep

-----------------------------------------------------------------------------
Others == \/ NewRuntime \/ Run \/ Stops
          \/ ConfigurationChanges \/ ComponentChanges \/ ComponentsRefreshed
          \/ ManagerMoves \/ LoaderActs

(* A configuration arrives before there are streams, or with a Refresh.    *)
LEMMA ConfigurationArrives ==
    ASSUME IInv, [Next]_vars
    PROVE  appConfig' = appConfig \/ due' # {} \/ \A s \in Streams : pc[s] = "idle"
<1>1. CASE \E s \in Streams : StreamStep(s) \/ StreamWaits(s) \/ ClientActs(s)
    BY <1>1 DEF StreamStep, LookUp, Subscribe, SubscribeFails, Unsubscribe, StreamMoves,
         StreamWaits, ClientActs
<1>2. CASE \E w \in Watchers : WatcherStep(w) \/ RefreshBegins(w)
    BY <1>2 DEF WatcherStep, Refresh, RefreshSends, RefreshBegins
<1>3. CASE NewRuntime
    BY <1>3 DEF NewRuntime, Manager!StartWatcher, IInv, StartInv
<1>4. CASE Others /\ ~NewRuntime
    BY <1>4 DEF Others, Run, Stops, ConfigurationChanges, ComponentChanges, ComponentsRefreshed,
         ManagerMoves, LoaderActs
<1>5. CASE UNCHANGED vars
    BY <1>5 DEF vars
<1> QED
    BY <1>1, <1>2, <1>3, <1>4, <1>5 DEF Next, Others

(* Nor do they take back that a watcher is about to call Refresh.          *)
LEMMA OthersKeepDue ==
    ASSUME Others PROVE due \subseteq due'
BY DEF Others, NewRuntime, Run, Stops, ConfigurationChanges, ComponentChanges, ComponentsRefreshed,
    ManagerMoves, LoaderActs

(* What a stream holds is kept, or it is what holds now.                   *)
LEMMA StreamHolds ==
    ASSUME IInv, [Next]_vars, NEW s \in Streams
    PROVE  /\ pc'[s] \in Holding /\ instance'[s] # 0 =>
                 \/ pc[s] \in Holding /\ instance'[s] = instance[s]
                 \/ instance'[s] = CurrentInstance(s)'
           /\ pc'[s] \in {"getChan", "select"} =>
                 \/ pc[s] \in {"getChan", "select"} /\ pipeline'[s] = pipeline[s]
                 \/ pipeline'[s] = appConfig'
           /\ pc'[s] \in Holding /\ instance'[s] # 0 /\ s \in missed => s \in missed'
<1>1. CASE \E t \in Streams : StreamStep(t) \/ StreamWaits(t) \/ ClientActs(t)
    BY <1>1, StreamKeeps DEF managerVars, CurrentInstance, PubSubName
<1>2. CASE \E w \in Watchers : WatcherStep(w) \/ RefreshBegins(w)
    BY <1>2, WatcherKeeps DEF Holding
<1>3. CASE Others
    BY <1>3, OthersKeepStreams DEF Others
<1>4. CASE UNCHANGED vars
    BY <1>4 DEF vars, serverVars, lookupVars
<1> QED
    BY <1>1, <1>2, <1>3, <1>4 DEF Next, Others

(* A stream that is left behind stays so until it unsubscribes or another  *)
(* configuration tells it to.                                              *)
LEMMA StaysBehind ==
    ASSUME IInv, ManagerP!IInv, [Next]_vars, NEW s \in Streams, LeftBehind(s),
           pc[s] \in Holding, pc'[s] \in Holding, instance'[s] # 0
    PROVE  Told(s)'
<1>1. CASE due' # {}
    BY <1>1 DEF Told, RefreshComing
<1>2. CASE appConfig' = appConfig
  <2>1. s \in missed => s \in missed'
      BY StreamHolds
  <2>2. ASSUME ~Manager!SameTypes(PubSubName(s))
        PROVE  ~Manager!SameTypes(PubSubName(s))'
    <3>1. PubSubName(s)' = PubSubName(s)
        BY <1>2 DEF PubSubName
    <3>2. PICK n : n = PubSubName(s)
        OBVIOUS
    <3>3. ~Manager!SameTypes(n)'
        BY <2>2, <3>2, TypesDiffer, ManagerStepRefines
    <3> QED BY <3>1, <3>2, <3>3 DEF Manager!SameTypes
  <2> QED BY <2>1, <2>2 DEF LeftBehind, Told
<1> QED
    BY <1>1, <1>2, ConfigurationArrives DEF Holding

(* A stream that is told stays so until it unsubscribes.                   *)
LEMMA StaysTold ==
    ASSUME IInv, ManagerP!IInv, [Next]_vars, NEW s \in Streams, Told(s),
           pc[s] \in Holding, pc'[s] \in Holding, instance[s] # 0, instance'[s] # 0
    PROVE  Told(s)'
<1>1. CASE LeftBehind(s)
    BY <1>1, StaysBehind
<1>2. CASE mpc \in {"store", "publish"} /\ operation = "Update" /\ ~err
    BY <1>2, UpdateAnnounced DEF Told, RefreshComing
<1> DEFINE Called == due # {} \/ \E v \in Watchers : rpc[v] = "rlock" \/ s \in todo[v] \/ sendingTo[v] = s
<1>3. CASE Called
  <2>1. CASE \E t \in Streams : StreamStep(t) \/ StreamWaits(t) \/ ClientActs(t)
    <3>1. UNCHANGED <<due, rpc, todo, sendingTo>>
        BY <2>1, StreamKeeps
    <3> QED BY <1>3, <3>1 DEF Told, RefreshComing
  <2>2. CASE \E w \in Watchers : WatcherStep(w) \/ RefreshBegins(w)
      BY <1>3, <2>2, RefreshComesNearer DEF Told, RefreshComing, LeftBehind
  <2>3. CASE Others
    <3>1. UNCHANGED <<rpc, todo, sendingTo>> /\ due \subseteq due'
        BY <2>3, OthersKeepStreams, OthersKeepDue DEF Others
    <3> QED BY <1>3, <3>1 DEF Told, RefreshComing
  <2>4. CASE UNCHANGED vars
    <3>1. UNCHANGED <<due, rpc, todo, sendingTo>>
        BY <2>4 DEF vars, serverVars
    <3> QED BY <1>3, <3>1 DEF Told, RefreshComing
  <2> QED BY <2>1, <2>2, <2>3, <2>4 DEF Next, Others
<1> QED
    BY <1>1, <1>2, <1>3 DEF Told, RefreshComing

(* A stream that subscribes does so with a configuration, which names a    *)
(* pubsub or none.                                                         *)
LEMMA NameOfPubSub ==
    ASSUME IInv, NEW s \in Streams, pc[s] # "idle"
    PROVE  PubSubName(s) \in Names \cup {None}
<1>1. appConfig \in 1..Len(PubSubOf)
    BY SidecarAssumption DEF IInv, ShapeInv, StartInv
<1>2. PubSubOf[appConfig] \in Names \cup {None} /\ Requested[s] \in Names \cup {None}
    BY <1>1, SidecarAssumption
<1> QED
    BY <1>2 DEF PubSubName

(* The instance a stream would get is not replaced without its being told. *)
LEMMA ReplacedIsTold ==
    ASSUME IInv, ManagerP!IInv, [Next]_vars, NEW s \in Streams,
           pc[s] \in Holding, CurrentInstance(s) # 0
    PROVE  CurrentInstance(s)' = CurrentInstance(s) \/ Told(s)'
<1>1. CASE due' # {}
    BY <1>1 DEF Told, RefreshComing
<1>2. CASE appConfig' = appConfig
  <2>1. PubSubName(s)' = PubSubName(s)
      BY <1>2 DEF PubSubName
  <2>2. PICK n \in Names : n = PubSubName(s)
      BY NameOfPubSub DEF CurrentInstance, Holding
  <2>3. n # None
      BY SidecarAssumption
  <2>4. CASE pubSubInstances'[n] = pubSubInstances[n]
      BY <2>1, <2>2, <2>4 DEF CurrentInstance
  <2>5. CASE pubSubInstances'[n] # pubSubInstances[n]
    <3>1. pubSubInstances[n] # 0
        BY <2>2, <2>3 DEF CurrentInstance
    <3>2. \/ mpc' = "store" /\ operation' = "Update" /\ ~err'
          \/ ~Manager!SameTypes(n)'
        BY <2>5, <3>1, ReplacedByUpdate, ManagerStepRefines
    <3>3. ~Manager!SameTypes(n)' => ~Manager!SameTypes(PubSubName(s))'
        BY <2>1, <2>2 DEF Manager!SameTypes
    <3> QED BY <3>2, <3>3 DEF Told, RefreshComing, LeftBehind
  <2> QED BY <2>4, <2>5
<1> QED
    BY <1>1, <1>2, ConfigurationArrives DEF Holding

(* FreshInv is inductive relative to the rest.                             *)
LEMMA FreshStep ==
    ASSUME IInv, ManagerP!IInv, [Next]_vars, HeldInv'
    PROVE  FreshInv'
<1> SUFFICES ASSUME NEW s \in Streams, pc'[s] \in Holding, instance'[s] # 0
             PROVE  /\ instance'[s] = CurrentInstance(s)' \/ Told(s)'
                    /\ pc'[s] \in {"getChan", "select"} => pipeline'[s] = appConfig' \/ Told(s)'
    BY DEF FreshInv, HeldInv, Holding
<1>1. ASSUME pc[s] \in Holding, instance'[s] = instance[s]
      PROVE  instance'[s] = CurrentInstance(s)' \/ Told(s)'
  <2>1. instance[s] = CurrentInstance(s) \/ Told(s)
      BY <1>1 DEF IInv, FreshInv, Holding
  <2> QED BY <1>1, <2>1, StaysTold, ReplacedIsTold
<1>2. instance'[s] = CurrentInstance(s)' \/ Told(s)'
    BY <1>1, StreamHolds
<1>3. ASSUME pc'[s] \in {"getChan", "select"}, pc[s] \in {"getChan", "select"}, pipeline'[s] = pipeline[s]
      PROVE  pipeline'[s] = appConfig' \/ Told(s)'
  <2>1. (pipeline[s] = appConfig \/ Told(s)) /\ instance[s] # 0
      BY <1>3 DEF IInv, FreshInv, HeldInv
  <2>2. appConfig' = appConfig \/ Told(s)'
      BY <1>3, ConfigurationArrives DEF Told, RefreshComing
  <2> QED BY <1>3, <2>1, <2>2, StaysTold DEF Holding
<1> QED
    BY <1>2, <1>3, StreamHolds

-----------------------------------------------------------------------------
(* The other parts of the invariant: the steps of a stream,                *)
LEMMA StreamShape ==
    ASSUME IInv, NEW t \in Streams, StreamStep(t) \/ StreamWaits(t) \/ ClientActs(t)
    PROVE  ShapeInv' /\ HeldInv' /\ StartInv'
<1> USE DEF IInv, ShapeInv, HeldInv, StartInv
<1>1. CASE LookUp(t)
    BY <1>1 DEF LookUp, serverVars, managerVars
<1>2. CASE Subscribe(t)
    BY <1>2 DEF Subscribe, Server!Attach, Server!Goto, Server!refreshVars, Server!serverVars, managerVars
<1>3. CASE SubscribeFails(t)
    BY <1>3 DEF SubscribeFails, Forget, Server!AttachFails, Server!Goto, Server!refreshVars,
         Server!serverVars, managerVars
<1>4. CASE Unsubscribe(t)
    BY <1>4 DEF Unsubscribe, Forget, Server!Unsubscribe, Server!Goto, Server!refreshVars,
         Server!serverVars, managerVars
<1>5. CASE StreamMoves(t)
    BY <1>5 DEF StreamMoves, Server!GetRefreshChan, Server!LeaveSelect, Server!RemoveRefreshChan,
         Server!Goto, Server!refreshVars, Server!serverVars, lookupVars, managerVars
<1>6. CASE StreamWaits(t)
    BY <1>6 DEF StreamWaits, Server!AnnounceLock, Server!streamVars, Server!refreshVars,
         Server!serverVars, lookupVars, managerVars
<1>7. CASE ClientActs(t)
    BY <1>7 DEF ClientActs, Server!Accept, Server!RecvRequest, Server!RecvInvalid,
         Server!CloseStream, Server!Goto, Server!refreshVars, Server!serverVars, lookupVars, managerVars
<1> QED
    BY <1>1, <1>2, <1>3, <1>4, <1>5, <1>6, <1>7 DEF StreamStep

(* of a watcher,                                                           *)
LEMMA WatcherShape ==
    ASSUME IInv, NEW w \in Watchers, WatcherStep(w) \/ RefreshBegins(w)
    PROVE  ShapeInv' /\ HeldInv' /\ StartInv'
<1> USE DEF IInv, ShapeInv, HeldInv, StartInv
<1>1. CASE Refresh(w)
    BY <1>1 DEF Refresh, Server!CallRefresh, Server!RefreshNoServer, Server!streamVars,
         Server!serverVars, lookupVars, managerVars
<1>2. CASE RefreshBegins(w)
    BY <1>2 DEF RefreshBegins, Server!RLockRefresh, Server!streamVars, Server!serverVars, managerVars
<1>3. CASE RefreshSends(w)
    BY <1>3 DEF RefreshSends, Server!RefreshStep, Server!NextChannel, Server!SendRefresh,
         Server!RefreshReturn, Server!Goto, Server!streamVars, Server!serverVars, lookupVars, managerVars
<1> QED
    BY <1>1, <1>2, <1>3 DEF WatcherStep

(* and the others.                                                         *)
LEMMA OthersShape ==
    ASSUME IInv, Others
    PROVE  ShapeInv' /\ HeldInv' /\ StartInv'
<1> USE DEF IInv, ShapeInv, HeldInv, StartInv
<1>1. UNCHANGED <<pc, instance, pipeline, missed, rpc, todo, sendingTo>>
    BY OthersKeepStreams DEF Others
<1>2. CASE NewRuntime
  <2>1. Len(PubSubOf) >= 1
      BY <1>2, SidecarAssumption DEF NewRuntime
  <2> QED BY <1>1, <1>2, <2>1 DEF NewRuntime, Manager!StartWatcher, serverVars
<1>3. CASE Run
    BY <1>1, <1>3, SidecarAssumption DEF Run, Server!Listen, managerVars
<1>4. CASE Stops
    BY <1>1, <1>4 DEF Stops, Server!Shutdown, Server!GracefulStop, Server!ServeReturns, managerVars
<1>5. CASE ConfigurationChanges
    BY <1>1, <1>5, SidecarAssumption DEF ConfigurationChanges, serverVars, managerVars, Watchers
<1>6. CASE ComponentChanges
    BY <1>1, <1>6 DEF ComponentChanges, Manager!PublishChange, serverVars, Watchers
<1>7. CASE ComponentsRefreshed
    BY <1>1, <1>7 DEF ComponentsRefreshed, Manager!RefreshReturns, serverVars
<1>8. CASE ManagerMoves
    BY <1>1, <1>8 DEF ManagerMoves, Manager!ManagerStep, Manager!Ignore, Manager!Reject,
         Manager!Dispatch, Manager!CloseOld, Manager!CloseFails, Manager!InitPubSub,
         Manager!InitFails, Manager!Install, Manager!StoreComponent, Manager!LogError,
         Manager!PublishChange, Manager!Goto, Manager!Return, serverVars
<1>9. CASE LoaderActs
    BY <1>1, <1>9 DEF LoaderActs, Manager!Receive, Manager!LoaderEnds, Manager!WatcherEnds, serverVars
<1> QED
    BY <1>2, <1>3, <1>4, <1>5, <1>6, <1>7, <1>8, <1>9 DEF Others

LEMMA InitIInv == Init => IInv
<1> SUFFICES ASSUME Init PROVE IInv
    OBVIOUS
<1>1. Len(PubSubOf) \in Nat
    BY SidecarAssumption
<1> QED
    BY <1>1 DEF Init, Server!Init, Manager!Init, IInv, ShapeInv, HeldInv, StartInv, FreshInv

LEMMA NextIInv ==
    ASSUME IInv, ManagerP!IInv, [Next]_vars PROVE IInv'
<1>1. ShapeInv' /\ HeldInv' /\ StartInv'
  <2>1. CASE UNCHANGED vars
      BY <2>1 DEF vars, serverVars, managerVars, lookupVars, IInv, ShapeInv, HeldInv, StartInv
  <2> QED BY <2>1, StreamShape, WatcherShape, OthersShape DEF Next, Others
<1> QED
    BY <1>1, FreshStep DEF IInv

LEMMA Inductive == Spec => []IInv
<1>1. Init => IInv
    BY InitIInv
<1>2. IInv /\ ManagerP!IInv /\ [Next]_vars => IInv'
    BY NextIInv
<1> QED
    BY <1>1, <1>2, ManagerCorrect, PTL DEF Spec

(* A parked stream is on a replaced instance or an old configuration only  *)
(* if a Refresh is coming for it or it is left behind: no order of lookups,*)
(* registrations, replacements and refreshes loses the announcement.       *)
THEOREM StaleStreamsCorrect == Spec => []StaleStreamsAreRefreshed
<1>1. IInv => StaleStreamsAreRefreshed
    BY DEF IInv, FreshInv, HeldInv, StaleStreamsAreRefreshed, UpToDate, Told
<1> QED
    BY <1>1, Inductive, PTL

-----------------------------------------------------------------------------
(* The server of the sidecar takes the steps of SubscriptionServer.        *)
LEMMA ServerStreamRefines ==
    ASSUME NEW s \in Streams, StreamStep(s) \/ StreamWaits(s) \/ ClientActs(s)
    PROVE  ServerP!Next \/ UNCHANGED serverVars
<1> USE DEF Server!Goto, ServerP!Goto, Server!streamVars, ServerP!streamVars, Server!refreshVars,
        ServerP!refreshVars, Server!serverVars, ServerP!serverVars, ServerP!Next, ServerP!StreamStep
<1>1. CASE LookUp(s)
    BY <1>1 DEF LookUp
<1>2. CASE Subscribe(s) \/ SubscribeFails(s) \/ Unsubscribe(s)
    BY <1>2 DEF Subscribe, SubscribeFails, Unsubscribe, Server!Attach, Server!AttachFails,
         Server!Unsubscribe, ServerP!Attach, ServerP!AttachFails, ServerP!Unsubscribe
<1>3. CASE StreamMoves(s)
    BY <1>3 DEF StreamMoves, Server!GetRefreshChan, Server!LeaveSelect, Server!RemoveRefreshChan,
         Server!SelectDone, ServerP!SelectDone, Server!WriteLocked, ServerP!WriteLocked,
         Server!Released, ServerP!Released,
         ServerP!GetRefreshChan, ServerP!LeaveSelect, ServerP!RemoveRefreshChan
<1>4. CASE StreamWaits(s)
    BY <1>4 DEF StreamWaits, Server!AnnounceLock, ServerP!AnnounceLock, Server!NoWriter,
         ServerP!NoWriter, Server!Announced, ServerP!Announced
<1>5. CASE ClientActs(s)
    BY <1>5 DEF ClientActs, Server!Accept, Server!RecvRequest, Server!RecvInvalid, Server!CloseStream,
         ServerP!Accept, ServerP!RecvRequest, ServerP!RecvInvalid, ServerP!CloseStream,
         Server!Running, ServerP!Running
<1> QED
    BY <1>1, <1>2, <1>3, <1>4, <1>5 DEF StreamStep

LEMMA ServerRefreshRefines ==
    ASSUME NEW w \in Watchers, WatcherStep(w) \/ RefreshBegins(w)
    PROVE  ServerP!Next
<1> USE DEF Server!Goto, ServerP!Goto, Server!streamVars, ServerP!streamVars, Server!refreshVars,
        ServerP!refreshVars, Server!serverVars, ServerP!serverVars, ServerP!Next, ServerP!RefreshStep
<1>1. CASE Refresh(w)
    BY <1>1 DEF Refresh, Server!CallRefresh, Server!RefreshNoServer, ServerP!CallRefresh,
         ServerP!RefreshNoServer
<1>2. CASE RefreshBegins(w)
    BY <1>2 DEF RefreshBegins, Server!RLockRefresh, ServerP!RLockRefresh, Server!NoWriter,
         ServerP!NoWriter, Server!ReadLocked, ServerP!ReadLocked
<1>3. CASE RefreshSends(w)
    BY <1>3 DEF RefreshSends, Server!RefreshStep, Server!NextChannel, Server!SendRefresh,
         Server!RefreshReturn, ServerP!NextChannel, ServerP!SendRefresh, ServerP!RefreshReturn,
         Server!ReadReleased, ServerP!ReadReleased
<1> QED
    BY <1>1, <1>2, <1>3 DEF WatcherStep

LEMMA ServerStepRefines ==
    ASSUME [Next]_vars
    PROVE  [ServerP!Next]_ServerP!vars
<1> USE DEF serverVars, ServerP!vars, ServerP!streamVars, ServerP!refreshVars, ServerP!serverVars
<1>1. CASE Run \/ Stops
    BY <1>1 DEF Run, Stops, Server!Listen, Server!Shutdown, Server!GracefulStop, Server!ServeReturns,
         ServerP!Next, ServerP!ServerStep, ServerP!Listen, ServerP!Shutdown, ServerP!GracefulStop,
         ServerP!ServeReturns, Server!streamVars, Server!refreshVars, Server!Running, ServerP!Running
<1>2. CASE Others /\ ~Run /\ ~Stops
    BY <1>2 DEF Others, NewRuntime, ConfigurationChanges, ComponentChanges, ComponentsRefreshed,
         ManagerMoves, LoaderActs
<1>3. CASE UNCHANGED vars
    BY <1>3 DEF vars
<1> QED
    BY <1>1, <1>2, <1>3, ServerStreamRefines, ServerRefreshRefines DEF Next, Others

(* The sidecar implements its subscription server.                         *)
THEOREM ImplementsServer == Spec => ServerP!Spec
<1>1. Init => ServerP!Init
    BY DEF Init, Server!Init, ServerP!Init, Server!Unlocked, ServerP!Unlocked
<1>2. [Next]_vars => [ServerP!Next]_ServerP!vars
    BY ServerStepRefines
<1> QED
    BY <1>1, <1>2, PTL DEF Spec, ServerP!Spec

(* So the invariant of the server holds in the sidecar.                    *)
LEMMA ServerCorrect == Spec => []ServerP!IInv
<1>1. ServerP!Spec => []ServerP!IInv
  <2>1. MaxRefresh \in Nat
      BY SidecarAssumption DEF MaxRefresh
  <2> QED BY <2>1, ServerP!Inductive, SidecarAssumption DEF IsFiniteSet, ServerP!IsFiniteSet
<1> QED
    BY <1>1, ImplementsServer, PTL

-----------------------------------------------------------------------------
(* The types of the composition, beside those of its parts.                *)
LookupTypes ==
    /\ instance \in [Streams -> 0..Len(made)]
    /\ pipeline \in [Streams -> 0..Len(PubSubOf)]
    /\ missed \subseteq Streams

(* A lookup yields an instance that has been made.                         *)
LEMMA LookupsTyped ==
    ASSUME IInv, ManagerP!IInv, LookupTypes, [Next]_vars
    PROVE  /\ instance' \in [Streams -> 0..Len(made)]
           /\ pipeline' \in [Streams -> 0..Len(PubSubOf)]
           /\ missed' \subseteq Streams
<1> USE DEF LookupTypes
<1>1. ASSUME NEW t \in Streams, LookUp(t)
      PROVE  CurrentInstance(t) \in 0..Len(made)
  <2>1. PubSubName(t) \in Names
      BY <1>1, NameOfPubSub DEF LookUp, CurrentInstance
  <2> QED BY <1>1, <2>1 DEF LookUp, CurrentInstance, ManagerP!IInv, ManagerP!TypeOK
<1>2. ASSUME NEW t \in Streams, StreamStep(t) \/ StreamWaits(t) \/ ClientActs(t)
      PROVE  /\ instance' \in [Streams -> 0..Len(made)]
             /\ pipeline' \in [Streams -> 0..Len(PubSubOf)]
             /\ missed' \subseteq Streams
  <2>1. CASE LookUp(t)
      BY <1>1, <2>1 DEF LookUp
  <2>2. CASE Subscribe(t)
      BY <2>2 DEF Subscribe, IInv, ShapeInv
  <2>3. CASE SubscribeFails(t) \/ Unsubscribe(t)
    <3>1. Len(made) \in Nat /\ Len(PubSubOf) \in Nat
        BY SidecarAssumption DEF ManagerP!IInv, ManagerP!TypeOK
    <3> QED BY <2>3, <3>1 DEF SubscribeFails, Unsubscribe, Forget
  <2>4. CASE StreamMoves(t) \/ StreamWaits(t) \/ ClientActs(t)
      BY <2>4 DEF StreamMoves, StreamWaits, ClientActs, lookupVars
  <2> QED BY <1>2, <2>1, <2>2, <2>3, <2>4 DEF StreamStep
<1>3. CASE \E w \in Watchers : WatcherStep(w) \/ RefreshBegins(w)
    BY <1>3 DEF WatcherStep, Refresh, RefreshBegins, RefreshSends, lookupVars
<1>4. CASE Others
    BY <1>4, OthersKeepStreams DEF Others
<1>5. CASE UNCHANGED vars
    BY <1>5 DEF vars, lookupVars
<1> QED
    BY <1>2, <1>3, <1>4, <1>5 DEF Next, Others

LEMMA MadeIsLonger ==
    ASSUME ManagerP!IInv, ManagerP!IInv', [ManagerP!Next]_ManagerP!vars
    PROVE  0..Len(made) \subseteq 0..Len(made')
<1>1. made \in Seq([spec : ManagerP!Specs, open : BOOLEAN]) /\ made' \in Seq([spec : ManagerP!Specs, open : BOOLEAN])
    BY DEF ManagerP!IInv, ManagerP!TypeOK
<1>2. Len(made) \in Nat /\ Len(made') \in Nat /\ DOMAIN made = 1..Len(made) /\ DOMAIN made' = 1..Len(made')
    BY <1>1
<1> QED
    BY <1>2, MadeGrows

(* Every variable has its type; in particular a stream never looks up an   *)
(* instance that has not been made, nor builds a pipeline from a           *)
(* configuration that has not arrived.                                     *)
THEOREM TypeCorrect == Spec => []TypeOK
<1> DEFINE Parts == IInv /\ ManagerP!IInv /\ ServerP!IInv
<1>1. Init => LookupTypes
    BY SidecarAssumption DEF Init, Manager!Init, LookupTypes
<1>2. ASSUME Parts, ManagerP!IInv', LookupTypes, [Next]_vars
      PROVE  LookupTypes'
    BY <1>2, LookupsTyped, MadeIsLonger, ManagerStepRefines DEF LookupTypes
<1>3. Parts /\ LookupTypes => TypeOK
  <2>1. ManagerP!IInv => Manager!TypeOK
      BY DEF ManagerP!IInv, ManagerP!TypeOK, Manager!TypeOK, Manager!Types, ManagerP!Types,
         Manager!Specs, ManagerP!Specs
  <2>2. ServerP!IInv => Server!TypeOK
      BY DEF ServerP!IInv, ServerP!TypeOK, Server!TypeOK, Server!StreamPc, ServerP!StreamPc,
         Server!RWMutex, ServerP!RWMutex
  <2> QED BY <2>1, <2>2 DEF TypeOK, LookupTypes, IInv, ShapeInv
<1> QED
    BY <1>1, <1>2, <1>3, Inductive, ManagerCorrect, ServerCorrect, PTL DEF Spec

-----------------------------------------------------------------------------
(* A Refresh that waits for ever stops the watcher that called it.         *)

(* The watcher of the components does nothing else while it refreshes.     *)
WaitsForRefresh ==
    "components" \in due \/ rpc["components"] # "idle" => watcher = "refresh"

LEMMA WaitsStep ==
    ASSUME IInv, WaitsForRefresh, [Next]_vars
    PROVE  WaitsForRefresh'
<1> USE DEF WaitsForRefresh
<1>1. CASE \E t \in Streams : StreamStep(t) \/ StreamWaits(t) \/ ClientActs(t)
    BY <1>1, StreamKeeps DEF managerVars
<1>2. CASE \E w \in Watchers : WatcherStep(w) \/ RefreshBegins(w)
  <2>1. PICK w \in Watchers : WatcherStep(w) \/ RefreshBegins(w)
      BY <1>2
  <2>2. UNCHANGED watcher
      BY <2>1 DEF WatcherStep, Refresh, RefreshSends, RefreshBegins, managerVars
  <2>3. due' \subseteq due
      BY <2>1 DEF WatcherStep, Refresh, RefreshSends, RefreshBegins
  <2>4. rpc'["components"] # "idle" => rpc["components"] # "idle" \/ "components" \in due
    <3> USE DEF IInv, ShapeInv, Watchers
    <3>1. CASE Refresh(w)
      <4>1. w \in due /\ (rpc' = [rpc EXCEPT ![w] = "rlock"] \/ rpc' = rpc)
          BY <3>1 DEF Refresh, Server!CallRefresh, Server!RefreshNoServer
      <4> QED BY <4>1
    <3>2. CASE RefreshBegins(w)
        BY <3>2 DEF RefreshBegins, Server!RLockRefresh
    <3>3. CASE RefreshSends(w)
      <4>1. rpc' = [rpc EXCEPT ![w] = "idle"] \/ rpc' = rpc
          BY <3>3 DEF RefreshSends, Server!RefreshStep, Server!NextChannel, Server!SendRefresh,
             Server!RefreshReturn
      <4> QED BY <4>1
    <3> QED BY <2>1, <3>1, <3>2, <3>3 DEF WatcherStep
  <2> QED BY <2>2, <2>3, <2>4
<1>3. CASE Others
  <2>1. UNCHANGED rpc
      BY <1>3, OthersKeepStreams DEF Others
  <2>2. CASE ComponentsRefreshed
      BY <2>1, <2>2 DEF ComponentsRefreshed, Idle
  <2>3. CASE ComponentChanges
      BY <2>1, <2>3 DEF ComponentChanges, Manager!PublishChange
  <2>4. CASE NewRuntime
      BY <2>1, <2>4 DEF NewRuntime, Manager!StartWatcher
  <2>5. CASE ConfigurationChanges
      BY <2>1, <2>5 DEF ConfigurationChanges, managerVars
  <2>6. CASE Run \/ Stops
      BY <2>1, <2>6 DEF Run, Stops, managerVars
  <2>7. CASE ManagerMoves
      BY <2>1, <2>7 DEF ManagerMoves, Manager!ManagerStep, Manager!Ignore, Manager!Reject,
         Manager!Dispatch, Manager!CloseOld, Manager!CloseFails, Manager!InitPubSub,
         Manager!InitFails, Manager!Install, Manager!StoreComponent, Manager!LogError,
         Manager!PublishChange, Manager!Goto, Manager!Return, Manager!mapVars, Manager!history
  <2>8. CASE LoaderActs
      BY <2>1, <2>8 DEF LoaderActs, Manager!Receive, Manager!LoaderEnds, Manager!WatcherEnds
  <2> QED BY <1>3, <2>2, <2>3, <2>4, <2>5, <2>6, <2>7, <2>8 DEF Others
<1>4. CASE UNCHANGED vars
    BY <1>4 DEF vars, serverVars, managerVars
<1> QED BY <1>1, <1>2, <1>3, <1>4 DEF Next, Others

Stuck(w, s) == sendingTo[w] = s /\ pc[s] # "select"

(* What holds of the server holds of the server of the sidecar.            *)
LEMMA ServerStuck ==
    ASSUME ServerP!IInv, NEW w \in Watchers, NEW s \in Streams, Stuck(w, s)
    PROVE  /\ rpc[w] = "sending" /\ s # NoOne /\ pc[s] # "idle"
           /\ [Next]_vars => Stuck(w, s)'
<1>1. ServerP!SubscriptionServerAssumption
  <2>1. MaxRefresh \in Nat
      BY SidecarAssumption DEF MaxRefresh
  <2> QED BY <2>1, SidecarAssumption
          DEF IsFiniteSet, ServerP!IsFiniteSet, ServerP!SubscriptionServerAssumption
<1>2. ServerP!Stuck(w, s)
    BY DEF Stuck, ServerP!Stuck
<1>3. rpc[w] = "sending" /\ s # NoOne
    BY <1>1, <1>2, ServerP!StuckHolds
<1>4. pc[s] # "idle"
    BY <1>2, <1>3 DEF ServerP!IInv, ServerP!RefreshTargetsRegistered,
       ServerP!RegistryMatchesStreams, ServerP!Stuck
<1>5. ASSUME [Next]_vars PROVE Stuck(w, s)'
  <2>1. ServerP!Stuck(w, s)'
      BY <1>1, <1>2, <1>5, ServerStepRefines, ServerP!StuckStep
  <2> QED BY <2>1 DEF Stuck, ServerP!Stuck
<1> QED BY <1>3, <1>4, <1>5


(* While the configuration's watcher refreshes no configuration arrives;   *)
(* while that of the components does, no change is received.               *)
LEMMA StuckKeeps ==
    ASSUME IInv, ServerP!IInv, WaitsForRefresh, [Next]_vars, NEW s \in Streams
    PROVE  /\ Stuck("configuration", s) => UNCHANGED appConfig
           /\ Stuck("components", s) /\ mpc = "publish" => mpc' = "publish"
<1>1. ASSUME Stuck("configuration", s) PROVE UNCHANGED appConfig
  <2>1. rpc["configuration"] # "idle" /\ pc[s] # "idle"
      BY <1>1, ServerStuck DEF Watchers
  <2>2. ~NewRuntime /\ ~ConfigurationChanges
      BY <2>1 DEF NewRuntime, Manager!StartWatcher, ConfigurationChanges, Idle, IInv, StartInv
  <2>3. CASE \E t \in Streams : StreamStep(t) \/ StreamWaits(t) \/ ClientActs(t)
      BY <2>3, StreamKeeps
  <2>4. CASE \E w \in Watchers : WatcherStep(w) \/ RefreshBegins(w)
      BY <2>4 DEF WatcherStep, Refresh, RefreshSends, RefreshBegins
  <2>5. CASE Others
      BY <2>2, <2>5 DEF Others, Run, Stops, ComponentChanges, ComponentsRefreshed, ManagerMoves,
         LoaderActs
  <2>6. CASE UNCHANGED vars
      BY <2>6 DEF vars
  <2> QED BY <2>3, <2>4, <2>5, <2>6 DEF Next, Others
<1>2. ASSUME Stuck("components", s), mpc = "publish" PROVE mpc' = "publish"
  <2>1. rpc["components"] # "idle"
      BY <1>2, ServerStuck DEF Watchers
  <2>2. ~ComponentChanges
      BY <2>1 DEF WaitsForRefresh, ComponentChanges, Manager!PublishChange
  <2>3. CASE UNCHANGED managerVars
      BY <1>2, <2>3 DEF managerVars
  <2>4. CASE NewRuntime \/ ComponentsRefreshed
      BY <1>2, <2>4 DEF NewRuntime, ComponentsRefreshed, Manager!StartWatcher,
         Manager!RefreshReturns, Manager!mgrVars
  <2>5. CASE ManagerMoves
      BY <1>2, <2>5 DEF ManagerMoves
  <2>6. CASE LoaderActs
      BY <1>2, <2>6 DEF LoaderActs, Manager!Receive, Manager!LoaderEnds, Manager!WatcherEnds,
         Manager!Goto, Manager!mgrVars
  <2> QED BY <2>2, <2>3, <2>4, <2>5, <2>6, ManagerActs
<1> QED BY <1>1, <1>2

LEMMA WaitsInvariant == Spec => []WaitsForRefresh
<1>1. Init => WaitsForRefresh
    BY DEF Init, Server!Init, WaitsForRefresh, Watchers
<1>2. IInv /\ WaitsForRefresh /\ [Next]_vars => WaitsForRefresh'
    BY WaitsStep
<1> QED BY <1>1, <1>2, Inductive, PTL DEF Spec

(* A Refresh that waits for a stream that has left its select waits for    *)
(* ever, and stops what called it: once that is the watcher of the         *)
(* configuration (runtime.go:76) the sidecar keeps the configuration it    *)
(* has, whatever arrives; once it is that of the components                *)
(* (runtime.go:91) a manager that announces a change waits for ever too,  *)
(* and takes no update.                                                    *)
THEOREM BlockedRefreshStopsItsWatcher ==
    ASSUME NEW s \in Streams
    PROVE  Spec =>
        /\ [](Stuck("configuration", s) =>
                 []Stuck("configuration", s) /\ [][UNCHANGED appConfig]_vars)
        /\ [](Stuck("components", s) =>
                 []Stuck("components", s) /\ [](mpc = "publish" => [](mpc = "publish")))
<1> DEFINE Parts == IInv /\ ServerP!IInv /\ WaitsForRefresh
<1>1. ASSUME Parts, [Next]_vars, Stuck("configuration", s)
      PROVE  Stuck("configuration", s)' /\ [UNCHANGED appConfig]_vars
    BY <1>1, ServerStuck, StuckKeeps DEF Watchers
<1>2. ASSUME Parts, [Next]_vars, Stuck("components", s)
      PROVE  Stuck("components", s)' /\ (mpc = "publish" => (mpc = "publish")')
    BY <1>2, ServerStuck, StuckKeeps DEF Watchers
<1> QED BY <1>1, <1>2, Inductive, ServerCorrect, WaitsInvariant, PTL DEF Spec
=============================================================================
