-------------------------- MODULE ComponentsManager --------------------------
(***************************************************************************)
(* pkg/runtime/components_manager.go, with the watcher of component changes *)
(* in pkg/runtime/runtime.go: one goroutine turns the specs of the loader   *)
(* into pubsub instances, stores them and announces each change on an       *)
(* unbuffered channel; another receives the changes and refreshes the       *)
(* subscriptions.  mux guards single reads and writes of the two maps and   *)
(* nothing blocks under it, so each of its critical sections is one step.   *)
(***************************************************************************)
EXTENDS Naturals, Sequences

CONSTANTS Names,        (* the names of the components                        *)
          PubSubTypes,  (* the types of category pubsub                       *)
          PlainTypes,   (* those of bindings, middleware and secret stores    *)
          OtherTypes,   (* those of no category                               *)
          Metadata, None, (* the metadata of a spec, and no component         *)
          MaxUpdates    (* bound on the specs the loader sends                *)

Types == PubSubTypes \cup PlainTypes \cup OtherTypes
Specs == [name : Names, type : Types, metadata : Metadata]
Key(s) == <<s.name, s.type>>

ASSUME ComponentsManagerAssumption ==
    /\ PubSubTypes \cap (PlainTypes \cup OtherTypes) = {}
    /\ PlainTypes \cap OtherTypes = {}
    /\ None \notin Metadata \cup Specs
    /\ MaxUpdates \in Nat

VARIABLES
    components,       (* the metadata stored under each name and type         *)
    made,             (* all pubsub instances ever initialised                *)
    pubSubInstances,  (* the place in made of each name's instance, or 0      *)
    pc,               (* where watchComponentsUpdates of the manager is       *)
    spec, operation, err, (* the variables of addOrUpdateComponent            *)
    updates,          (* the number of specs received                         *)
    watcher,          (* where watchComponentsUpdates of the runtime is       *)
    broken,           (* the names whose last change of a pubsub failed       *)
    refreshed         (* the length of made when the last refresh began       *)

mapVars  == <<components, made, pubSubInstances>>
mgrVars  == <<pc, spec, operation, err, updates>>
history  == <<broken, refreshed>>
vars == <<mapVars, mgrVars, watcher, history>>

TypeOK ==
    /\ components \in [Names \X Types -> Metadata \cup {None}]
    /\ made \in Seq([spec : Specs, open : BOOLEAN])
    /\ pubSubInstances \in [Names -> 0..Len(made)]
    /\ pc \in {"recv", "check", "close", "init", "install", "store", "publish", "return", "ended"}
    /\ spec \in Specs \cup {None} /\ operation \in {"Insert", "Update"} /\ err \in BOOLEAN
    /\ updates \in 0..MaxUpdates
    /\ watcher \in {"starting", "recv", "refresh", "ended"}
    /\ broken \subseteq Names
    /\ refreshed \in 0..Len(made)

Init ==
    /\ components = [k \in Names \X Types |-> None]
    /\ made = <<>>
    /\ pubSubInstances = [n \in Names |-> 0]
    /\ pc = "recv"
    /\ spec = None /\ operation = "Insert" /\ err = FALSE
    /\ updates = 0
    /\ watcher = "starting"
    /\ broken = {}
    /\ refreshed = 0

-----------------------------------------------------------------------------
(* watchComponentsUpdates and addOrUpdateComponent of the manager. *)

Goto(from, to) == pc = from /\ pc' = to
Return(from) == Goto(from, "recv") /\ spec' = None /\ operation' = "Insert" /\ err' = FALSE

Receive ==
    /\ Goto("recv", "check") /\ updates < MaxUpdates
    /\ spec' \in Specs
    /\ updates' = updates + 1
    /\ UNCHANGED <<operation, err, mapVars, watcher, history>>

(* The loader closes its channel, the manager closes its own.              *)
LoaderEnds ==
    /\ Goto("recv", "ended")
    /\ UNCHANGED <<spec, operation, err, updates, mapVars, watcher, history>>

(* The same metadata again, whatever became of the earlier attempt.        *)
Ignore ==
    /\ Return("check")
    /\ components[Key(spec)] = spec.metadata
    /\ UNCHANGED <<updates, mapVars, watcher, history>>

Reject ==
    /\ Return("check")
    /\ components[Key(spec)] # spec.metadata /\ spec.type \in OtherTypes
    /\ UNCHANGED <<updates, mapVars, watcher, history>>

(* The switch over category and operation.                                 *)
Dispatch ==
    /\ pc = "check" /\ components[Key(spec)] # spec.metadata /\ spec.type \notin OtherTypes
    /\ operation' = IF components[Key(spec)] = None THEN "Insert" ELSE "Update"
    /\ Goto("check", IF spec.type \in PlainTypes THEN "store"
                     ELSE IF operation' = "Update" THEN "close" ELSE "init")
    /\ UNCHANGED <<spec, err, updates, mapVars, watcher, history>>

Instance == pubSubInstances[spec.name]
Closed(m) == [spec |-> m.spec, open |-> FALSE]

(* Mutant of CloseOld: the old instance is not closed. *)
CloseNothing ==
    /\ Goto("close", "init")
    /\ UNCHANGED <<made, components, pubSubInstances, spec, operation, err, updates, watcher, history>>

(* updatePubSub closes the instance of the name, if there is one.          *)
CloseOld ==
    /\ Goto("close", "init")
    /\ made' = IF Instance = 0 THEN made ELSE [made EXCEPT ![Instance] = Closed(@)]
    /\ UNCHANGED <<components, pubSubInstances, spec, operation, err, updates, watcher, history>>

(* ps.Close() returns an error, having closed the instance all the same.   *)
CloseFails ==
    /\ Goto("close", "store") /\ err' = TRUE
    /\ Instance # 0
    /\ made' = [made EXCEPT ![Instance] = Closed(@)]
    /\ UNCHANGED <<components, pubSubInstances, spec, operation, updates, watcher, history>>

(* initPubSub: the registry makes an instance and the broker accepts it,   *)
InitPubSub ==
    /\ Goto("init", "install")
    /\ made' = Append(made, [spec |-> spec, open |-> TRUE])
    /\ UNCHANGED <<components, pubSubInstances, spec, operation, err, updates, watcher, history>>

(* Mutant of InitFails: the error is lost. *)
InitFailsSilently ==
    /\ Goto("init", "store")
    /\ UNCHANGED <<err, spec, operation, updates, mapVars, watcher, history>>

(* or one of them does not.                                                *)
InitFails ==
    /\ Goto("init", "store") /\ err' = TRUE
    /\ UNCHANGED <<spec, operation, updates, mapVars, watcher, history>>

(* Mutant of Install: the instance is not put in the map. *)
InstallNothing ==
    /\ Goto("install", "store")
    /\ UNCHANGED <<pubSubInstances, components, made, spec, operation, err, updates, watcher, history>>

(* Mutant of Install: the map refers to the instance after it. *)
InstallNext ==
    /\ Goto("install", "store")
    /\ pubSubInstances' = [pubSubInstances EXCEPT ![spec.name] = Len(made) + 1]
    /\ UNCHANGED <<components, made, spec, operation, err, updates, watcher, history>>

Install ==
    /\ Goto("install", "store")
    /\ pubSubInstances' = [pubSubInstances EXCEPT ![spec.name] = Len(made)]
    /\ UNCHANGED <<components, made, spec, operation, err, updates, watcher, history>>

(* storeComponent, also after an error,                                    *)
StoreComponent ==
    /\ Goto("store", IF err THEN "return" ELSE "publish")
    /\ components' = [components EXCEPT ![Key(spec)] = spec.metadata]
    /\ broken' = IF err THEN broken \cup {spec.name}
                 ELSE IF spec.type \in PubSubTypes THEN broken \ {spec.name} ELSE broken
    /\ UNCHANGED <<made, pubSubInstances, spec, operation, err, updates, watcher, refreshed>>

(* which is logged and forgotten.                                          *)
LogError ==
    /\ Return("return")
    /\ UNCHANGED <<updates, mapVars, watcher, history>>

(* Mutant of PublishChange: the runtime does not receive insertions. *)
PublishUpdatesOnly ==
    /\ watcher = "recv"
    /\ operation = "Update"
    /\ Return("publish")
    /\ watcher' = "refresh"
    /\ refreshed' = Len(made)
    /\ UNCHANGED <<updates, mapVars, broken>>

(* Mutant of PublishChange: the wrong operation leads to a refresh. *)
RefreshAfterInsert ==
    /\ watcher = "recv"
    /\ Return("publish")
    /\ watcher' = (IF operation = "Insert" THEN "refresh" ELSE "recv")
    /\ refreshed' = (IF operation = "Insert" THEN Len(made) ELSE refreshed)
    /\ UNCHANGED <<updates, mapVars, broken>>

(* publishChange meets the runtime, which refreshes after an update only.  *)
PublishChange ==
    /\ watcher = "recv"
    /\ Return("publish")
    /\ watcher' = IF operation = "Update" THEN "refresh" ELSE "recv"
    /\ refreshed' = IF operation = "Update" THEN Len(made) ELSE refreshed
    /\ UNCHANGED <<updates, mapVars, broken>>

-----------------------------------------------------------------------------
(* watchComponentsUpdates of the runtime. *)

(* NewRuntime starts it once the first configuration has arrived.          *)
StartWatcher ==
    /\ watcher = "starting" /\ watcher' = "recv"
    /\ UNCHANGED <<mapVars, mgrVars, history>>

(* api.Refresh returns: nothing here says that it does.                    *)
RefreshReturns ==
    /\ watcher = "refresh" /\ watcher' = "recv"
    /\ UNCHANGED <<mapVars, mgrVars, history>>

WatcherEnds ==
    /\ watcher = "recv" /\ pc = "ended" /\ watcher' = "ended"
    /\ UNCHANGED <<mapVars, mgrVars, history>>

-----------------------------------------------------------------------------
ManagerStep ==
    \/ Ignore \/ Reject \/ Dispatch \/ CloseOld \/ CloseFails
    \/ InitPubSub \/ InitFails \/ Install \/ StoreComponent \/ LogError \/ PublishChange

Next ==
    \/ Receive \/ LoaderEnds \/ ManagerStep
    \/ StartWatcher \/ RefreshReturns \/ WatcherEnds

Spec == Init /\ [][Next]_vars

(* Both goroutines run; calls of the broker return.                        *)
FairSpec == Spec /\ WF_vars(ManagerStep) /\ WF_vars(WatcherEnds)
-----------------------------------------------------------------------------
(* Safety. *)

IsFirst(i) == \A j \in DOMAIN made : made[j].spec.name = made[i].spec.name => i <= j
SameTypes(n) ==
    \A i, j \in DOMAIN made :
        made[i].spec.name = n /\ made[j].spec.name = n => made[i].spec.type = made[j].spec.type

(* Between two updates the instance that publishers and subscribers get is *)
(* open and was made from the metadata stored for it, and every stored     *)
(* pubsub has one, unless its last change failed: the two maps agree       *)
(* although they are written one after the other.                          *)
InstancesMatchComponents ==
    pc \in {"recv", "publish"} =>
        \A n \in Names \ broken :
            /\ pubSubInstances[n] # 0 =>
                  LET m == made[pubSubInstances[n]] IN
                  m.open /\ components[Key(m.spec)] = m.spec.metadata
            /\ (\E t \in PubSubTypes : components[<<n, t>>] # None) => pubSubInstances[n] # 0

(* An instance that another one replaces is closed: its connection and its *)
(* subscriptions do not live on.  A component that changes its type is not *)
(* updated but inserted, so the rule stops at names with several types.    *)
ReplacedInstancesAreClosed ==
    \A i \in DOMAIN made :
        LET n == made[i].spec.name IN
        made[i].open /\ SameTypes(n) =>
            \/ i = pubSubInstances[n]
            \/ i = Len(made) /\ pc = "install"

(* When the manager turns to the next update, the subscriptions have been  *)
(* told to refresh since the latest replacement of an instance.            *)
ReplacementsAreRefreshed ==
    pc \in {"recv", "check"} =>
        \A i \in DOMAIN made :
            i > refreshed /\ SameTypes(made[i].spec.name) => IsFirst(i)

(* A subscription made while the change is announced uses the new one: the *)
(* refresh does not send the subscribers back to the instance it replaced. *)
AnnouncedIsInstalled ==
    [][pc = "publish" /\ PublishChange /\ spec.type \in PubSubTypes =>
        \E i \in DOMAIN made :
            i = pubSubInstances[spec.name] /\ made[i].spec = spec /\ made[i].open]_vars

(* Liveness. *)

(* The manager takes the next update, unless the runtime has not started   *)
(* or a refresh is under way.                                              *)
UpdatesAreTaken ==
    pc \notin {"recv", "ended"} ~> (pc = "recv" \/ watcher \in {"starting", "refresh"})
=============================================================================
