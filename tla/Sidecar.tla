------------------------------- MODULE Sidecar -------------------------------
(***************************************************************************)
(* The sidecar as cmd/rusid puts it together: the components manager, the  *)
(* runtime (pkg/runtime/runtime.go) with its two watchers, and the         *)
(* subscription server.  The manager replaces pubsub instances and the     *)
(* runtime replaces the configuration while streams look both up and       *)
(* subscribe; after each replacement a watcher calls Refresh, so that the  *)
(* streams look them up again.                                             *)
(*                                                                         *)
(* SubscriptionServer and ComponentsManager are used as they are: a step   *)
(* of the sidecar is a step of one of them, or of both, or of the runtime. *)
(***************************************************************************)
EXTENDS Integers, Sequences, FiniteSets

CONSTANTS Streams, Leavers, MayStop, NoOne,       (* see SubscriptionServer  *)
          Names, PubSubTypes, PlainTypes, OtherTypes, Metadata, None,
          MaxUpdates,                             (* see ComponentsManager   *)
          Requested,  (* the pubsub each stream names in its request, or None *)
          PubSubOf    (* the pubsub named by each configuration that arrives  *)

(* The goroutines of the runtime that call Refresh. *)
Watchers == {"components", "configuration"}

MaxRefresh == MaxUpdates + Len(PubSubOf)

VARIABLES
    (* of the subscription server                                            *)
    mainDone, streamDone, pc, exit, attached, refreshChannels, mu,
    subsWaitGroup, serve, todo, sendingTo, rpc, refreshes,
    (* of the components manager, whose own place is mpc                      *)
    components, made, pubSubInstances, mpc, spec, operation, err, updates,
    watcher, broken, refreshed,
    (* of the runtime                                                        *)
    appConfig,   (* the number of the configuration, 0 before the first one  *)
    due,         (* the watchers that are about to call Refresh              *)
    instance,    (* the instance each stream has looked up, or 0             *)
    pipeline,    (* the configuration each stream built its pipeline from    *)
    missed       (* the streams that had looked up their instance, but were  *)
                 (* not registered, when a Refresh read the registry         *)

serverVars  == <<mainDone, streamDone, pc, exit, attached, refreshChannels, mu,
                 subsWaitGroup, serve, todo, sendingTo, rpc, refreshes>>
managerVars == <<components, made, pubSubInstances, mpc, spec, operation, err,
                 updates, watcher, broken, refreshed>>
lookupVars  == <<instance, pipeline, missed>>
vars == <<serverVars, managerVars, appConfig, due, lookupVars>>

Server == INSTANCE SubscriptionServer WITH Refreshers <- Watchers
Manager == INSTANCE ComponentsManager WITH pc <- mpc

ASSUME SidecarAssumption ==
    /\ Requested \in [Streams -> Names \cup {None}]
    /\ PubSubOf \in Seq(Names \cup {None})
    /\ None \notin Names \cup Metadata \cup Manager!Specs
    /\ IsFiniteSet(Streams) /\ Leavers \subseteq Streams /\ MayStop \in BOOLEAN
    /\ Streams \cap Watchers = {} /\ NoOne \notin Streams \cup Watchers
    /\ PubSubTypes \cap (PlainTypes \cup OtherTypes) = {}
    /\ PlainTypes \cap OtherTypes = {}
    /\ MaxUpdates \in Nat

TypeOK ==
    /\ Server!TypeOK /\ Manager!TypeOK
    /\ appConfig \in 0..Len(PubSubOf)
    /\ due \subseteq Watchers
    /\ instance \in [Streams -> 0..Len(made)]
    /\ pipeline \in [Streams -> 0..Len(PubSubOf)]
    /\ missed \subseteq Streams

Init ==
    /\ Server!Init /\ Manager!Init
    /\ appConfig = 0
    /\ due = {}
    /\ instance = [s \in Streams |-> 0]
    /\ pipeline = [s \in Streams |-> 0]
    /\ missed = {}

-----------------------------------------------------------------------------
(* SubscribeHandler, which a stream calls to attach. *)

(* The pubsub a stream gets: its own choice or that of the configuration.  *)
PubSubName(s) == IF Requested[s] # None THEN Requested[s] ELSE PubSubOf[appConfig]

(* The instance that lookup returns now; 0 is an error.                    *)
CurrentInstance(s) ==
    IF PubSubName(s) = None THEN 0 ELSE pubSubInstances[PubSubName(s)]

(* Mutant of LookUp: the stream gets the instance after the current one. *)
LookUpNext(s) ==
    /\ pc[s] = "subscribe"
    /\ instance[s] = 0
    /\ CurrentInstance(s) # 0
    /\ instance' = [instance EXCEPT ![s] = CurrentInstance(s) + 1]
    /\ UNCHANGED <<serverVars, managerVars, appConfig, due, pipeline, missed>>

(* GetSubscriber. *)
LookUp(s) ==
    /\ pc[s] = "subscribe" /\ instance[s] = 0 /\ CurrentInstance(s) # 0
    /\ instance' = [instance EXCEPT ![s] = CurrentInstance(s)]
    /\ UNCHANGED <<serverVars, managerVars, appConfig, due, pipeline, missed>>

(* The pipeline is built from the configuration of this moment, and the    *)
(* instance, which may have been closed since, accepts the subscription.   *)
Subscribe(s) ==
    /\ instance[s] # 0 /\ Server!Attach(s)
    /\ pipeline' = [pipeline EXCEPT ![s] = appConfig]
    /\ UNCHANGED <<managerVars, appConfig, due, instance, missed>>

(* What it looked up is dropped. *)
Forget(s) ==
    /\ instance' = [instance EXCEPT ![s] = 0]
    /\ pipeline' = [pipeline EXCEPT ![s] = 0]
    /\ missed' = missed \ {s}

(* There is no such pubsub or middleware, or the instance refuses.         *)
SubscribeFails(s) ==
    /\ Server!AttachFails(s) /\ Forget(s)
    /\ UNCHANGED <<managerVars, appConfig, due>>

(* The rest of the Subscribe RPC, its client and the server.               *)
Unsubscribe(s) ==
    /\ Server!Unsubscribe(s) /\ Forget(s)
    /\ UNCHANGED <<managerVars, appConfig, due>>

StreamWaits(s) ==
    /\ Server!AnnounceLock(s)
    /\ UNCHANGED <<managerVars, appConfig, due, lookupVars>>

StreamMoves(s) ==
    /\ Server!GetRefreshChan(s) \/ Server!LeaveSelect(s) \/ Server!RemoveRefreshChan(s)
    /\ UNCHANGED <<managerVars, appConfig, due, lookupVars>>

ClientActs(s) ==
    /\ Server!Accept(s) \/ Server!RecvRequest(s) \/ Server!RecvInvalid(s) \/ Server!CloseStream(s)
    /\ UNCHANGED <<managerVars, appConfig, due, lookupVars>>

-----------------------------------------------------------------------------
(* The runtime. *)

(* NewRuntime returns with the first configuration; its watchers start,    *)
(* and then Run serves.                                                    *)
NewRuntime ==
    /\ Manager!StartWatcher
    /\ PubSubOf # <<>> /\ appConfig' = 1
    /\ UNCHANGED <<serverVars, due, lookupVars>>

Run ==
    /\ appConfig > 0 /\ Server!Listen
    /\ UNCHANGED <<managerVars, appConfig, due, lookupVars>>

Stops ==
    /\ Server!Shutdown \/ Server!GracefulStop \/ Server!ServeReturns
    /\ UNCHANGED <<managerVars, appConfig, due, lookupVars>>

Idle(w) == w \notin due /\ rpc[w] = "idle"

(* Mutant of ConfigurationChanges: Refresh is not called. *)
ConfigurationChangesQuietly ==
    /\ appConfig \in 1..(Len(PubSubOf) - 1)
    /\ Idle("configuration")
    /\ appConfig' = appConfig + 1
    /\ UNCHANGED <<due, serverVars, managerVars, lookupVars>>

(* watchConfigurationUpdates receives another configuration; one that is   *)
(* equal to the last is ignored.                                           *)
ConfigurationChanges ==
    /\ appConfig \in 1..(Len(PubSubOf) - 1) /\ Idle("configuration")
    /\ appConfig' = appConfig + 1
    /\ due' = due \cup {"configuration"}
    /\ UNCHANGED <<serverVars, managerVars, lookupVars>>

(* Mutant of ComponentChanges: Refresh is called for insertions only. *)
ComponentChangesQuietly ==
    /\ Manager!PublishChange
    /\ due' = (IF operation = "Insert" THEN due \cup {"components"} ELSE due)
    /\ UNCHANGED <<serverVars, appConfig, lookupVars>>

(* watchComponentsUpdates receives a change. *)
ComponentChanges ==
    /\ Manager!PublishChange
    /\ due' = IF operation = "Update" THEN due \cup {"components"} ELSE due
    /\ UNCHANGED <<serverVars, appConfig, lookupVars>>

(* The watcher calls Refresh, which returns at once before Serve. *)
Refresh(w) ==
    /\ w \in due
    /\ Server!CallRefresh(w) \/ Server!RefreshNoServer(w)
    /\ due' = due \ {w}
    /\ UNCHANGED <<managerVars, appConfig, lookupVars>>

(* Refresh reads the registry. *)
RefreshBegins(w) ==
    /\ Server!RLockRefresh(w)
    /\ missed' = missed \cup {s \in Streams \ refreshChannels : instance[s] # 0}
    /\ UNCHANGED <<managerVars, appConfig, due, instance, pipeline>>

RefreshSends(w) ==
    /\ Server!RefreshStep(w)
    /\ UNCHANGED <<managerVars, appConfig, due, lookupVars>>

(* Mutant of ComponentsRefreshed: the watcher ends after a refresh. *)
ComponentsRefreshedOnce ==
    /\ Idle("components") /\ watcher = "refresh" /\ watcher' = "ended"
    /\ UNCHANGED <<components, made, pubSubInstances, mpc, spec, operation, err, updates>>
    /\ UNCHANGED <<broken, refreshed, serverVars, appConfig, due, lookupVars>>

(* Refresh returns, the watcher waits for the next change. *)
ComponentsRefreshed ==
    /\ Idle("components") /\ Manager!RefreshReturns
    /\ UNCHANGED <<serverVars, appConfig, due, lookupVars>>

-----------------------------------------------------------------------------
(* The components manager and its loader. *)

ManagerMoves ==
    /\ mpc # "publish" /\ Manager!ManagerStep
    /\ UNCHANGED <<serverVars, appConfig, due, lookupVars>>

LoaderActs ==
    /\ Manager!Receive \/ Manager!LoaderEnds \/ Manager!WatcherEnds
    /\ UNCHANGED <<serverVars, appConfig, due, lookupVars>>

-----------------------------------------------------------------------------
StreamStep(s) ==
    LookUp(s) \/ Subscribe(s) \/ SubscribeFails(s) \/ Unsubscribe(s) \/ StreamMoves(s)

WatcherStep(w) == Refresh(w) \/ RefreshSends(w)

Next ==
    \/ \E s \in Streams : StreamStep(s) \/ StreamWaits(s) \/ ClientActs(s)
    \/ \E w \in Watchers : WatcherStep(w) \/ RefreshBegins(w)
    \/ NewRuntime \/ Run \/ Stops
    \/ ConfigurationChanges \/ ComponentChanges \/ ComponentsRefreshed
    \/ ManagerMoves \/ LoaderActs

Spec == Init /\ [][Next]_vars

(* As in the parts.  Neither the loader nor the clients need act.          *)
Fairness ==
    /\ \A s \in Streams : WF_vars(StreamStep(s)) /\ SF_vars(StreamWaits(s))
    /\ \A w \in Watchers : WF_vars(WatcherStep(w)) /\ SF_vars(RefreshBegins(w))
    /\ WF_vars(Run) /\ WF_vars(ManagerMoves)
    /\ WF_vars(ComponentChanges) /\ WF_vars(ComponentsRefreshed)

FairSpec == Spec /\ Fairness

-----------------------------------------------------------------------------
(* The stream runs on the instance and the pipeline that it would get if   *)
(* it subscribed now.                                                      *)
UpToDate(s) == instance[s] = CurrentInstance(s) /\ pipeline[s] = appConfig

(* It does not and will not be told.  A Refresh found it between its       *)
(* lookup and its registration (grpc_api.go:141 and 161), or its component *)
(* came back with another type, which is an insertion, not an update.      *)
LeftBehind(s) == s \in missed \/ ~Manager!SameTypes(PubSubName(s))

(* A Refresh that will reach the stream is on its way, or will be once the *)
(* manager has announced the replacement.                                  *)
RefreshComing(s) ==
    \/ due # {}
    \/ \E w \in Watchers : rpc[w] = "rlock" \/ s \in todo[w] \/ sendingTo[w] = s
    \/ mpc \in {"store", "publish"} /\ operation = "Update" /\ ~err

(* Whatever the order of replacements, lookups, registrations and          *)
(* refreshes, a parked stream is on a replaced instance or an old          *)
(* configuration only if a Refresh is coming for it or it is left behind.  *)
StaleStreamsAreRefreshed ==
    \A s \in Streams :
        pc[s] = "select" => UpToDate(s) \/ RefreshComing(s) \/ LeftBehind(s)

(* A Refresh waits for a stream that waits for the lock the Refresh holds. *)
RefreshBlocked ==
    \E w \in Watchers : sendingTo[w] # NoOne /\ pc[sendingTo[w]] # "select"

(* Again and again the parked streams are up to date: changes reach all    *)
(* that are not left behind, but for the deadlock of Refresh.              *)
StreamsFollowChanges ==
    []<>(RefreshBlocked \/
         \A s \in Streams : pc[s] = "select" => UpToDate(s) \/ LeftBehind(s))

(* The announcement of a change is received, the manager goes on to the    *)
(* next one: nothing but the deadlock of Refresh holds it up once the      *)
(* runtime has started.                                                    *)
ChangesAreReceived ==
    mpc = "publish" ~> (mpc # "publish" \/ watcher = "starting" \/ RefreshBlocked)
=============================================================================
