---------------------------- MODULE ObjectWatcher ----------------------------
(***************************************************************************)
(* objectWatcher (pkg/operator/operator.go) and the Watch RPCs of the      *)
(* operator (pkg/operator/server.go): how the sidecars learn the           *)
(* components and the configurations of the Kubernetes cluster.            *)
(*                                                                         *)
(* The two kinds of object have the same code and share one lock.  The     *)
(* informer of a kind is one goroutine: it stores the new version of an    *)
(* object, then starts a goroutine per listener that sends the object on   *)
(* the listener's unbuffered channel.  A listener is a Watch RPC; when it  *)
(* is added a goroutine replays the stored objects to it, holding the lock *)
(* for reading until the last of them is received.                         *)
(***************************************************************************)
EXTENDS Integers, FiniteSets, GoRWMutex

CONSTANTS Kinds,      (* component and configuration; their informers        *)
          Objects,    (* the UIDs of the cluster                             *)
          Listeners,  (* the Watch RPCs                                      *)
          KindOf,     (* of each object and of each listener                 *)
          Matches,    (* the objects in the namespace, and with the name,    *)
                      (* that each RPC asks for                              *)
          MayLeave,   (* the listeners whose stream may close                *)
          Updated,    (* the objects that change more than once              *)
          MaxVersion  (* bound on the versions of an object                  *)

ASSUME ObjectWatcherAssumption ==
    /\ KindOf \in [Objects \cup Listeners -> Kinds]
    /\ Matches \in [Listeners -> SUBSET Objects]
    /\ Kinds \cap Listeners = {} /\ NoOne \notin Kinds \cup Listeners \cup Objects
    /\ MayLeave \subseteq Listeners
    /\ MaxVersion \in Nat

VARIABLES
    stored,     (* componentsMap, configurationsMap: the version by UID, 0 none *)
    chans,      (* compChans, configChans: the registered listeners           *)
    mu,         (* the lock; a listener in readers is its replay goroutine    *)
    informer,   (* what the informer of each kind is doing                    *)
    pending,    (* the goroutines that wait to send: <<listener, object, version>> *)
    pc,         (* where each Watch RPC is                                    *)
    replay,     (* where the replay goroutine of each listener is             *)
    todo,       (* the objects it has yet to read from the map                *)
    item,       (* the objects it has read and is sending                     *)
    seen,       (* what each RPC has sent to its client so far                *)
    last        (* the version of each object the client was sent last        *)

informerVars == <<stored, informer>>
replayVars   == <<replay, todo, item>>
clientVars   == <<seen, last>>
vars == <<informerVars, replayVars, clientVars, chans, mu, pending, pc>>

Versions == 1..MaxVersion
Idle == [pc |-> "idle", object |-> NoOne, version |-> 0]
Of(k) == {o \in Objects : KindOf[o] = k}

TypeOK ==
    /\ stored \in [Objects -> 0..MaxVersion]
    /\ chans \subseteq Listeners
    /\ mu \in RWMutex(Kinds \cup Listeners)
    /\ informer \in [Kinds -> {Idle} \cup
          [pc : {"lock", "rlock"}, object : Objects, version : Versions]]
    /\ pending \subseteq Listeners \X Objects \X Versions
    /\ pc \in [Listeners -> {"idle", "add", "loop", "remove", "gone"}]
    /\ replay \in [Listeners -> {"none", "rlock", "sending", "done"}]
    /\ todo \in [Listeners -> SUBSET Objects]
    /\ item \in [Listeners -> SUBSET (Objects \X Versions)]
    /\ seen \in [Listeners -> SUBSET (Objects \X Versions)]
    /\ last \in [Listeners -> [Objects -> 0..MaxVersion]]

Init ==
    /\ stored = [o \in Objects |-> 0]
    /\ chans = {} /\ mu = Unlocked
    /\ informer = [k \in Kinds |-> Idle]
    /\ pending = {}
    /\ pc = [l \in Listeners |-> "idle"]
    /\ replay = [l \in Listeners |-> "none"]
    /\ todo = [l \in Listeners |-> {}]
    /\ item = [l \in Listeners |-> {}]
    /\ seen = [l \in Listeners |-> {}]
    /\ last = [l \in Listeners |-> [o \in Objects |-> 0]]

-----------------------------------------------------------------------------
(* Everyone who asks for the write lock announces itself first. *)
AnnounceLock(g) ==
    /\ \/ g \in Kinds /\ informer[g].pc = "lock"
       \/ g \in Listeners /\ pc[g] \in {"add", "remove"}
    /\ NoWriter(mu)
    /\ mu' = Announced(mu, g)
    /\ UNCHANGED <<informerVars, replayVars, clientVars, chans, pending, pc>>

(* The informer calls AddFunc or UpdateFunc; DeleteFunc changes nothing.   *)
ObjectChanges(o) ==
    LET k == KindOf[o] IN
    /\ informer[k] = Idle
    /\ stored[o] < MaxVersion /\ (stored[o] = 0 \/ o \in Updated)
    /\ informer' = [informer EXCEPT ![k] =
                       [pc |-> "lock", object |-> o, version |-> stored[o] + 1]]
    /\ UNCHANGED <<stored, replayVars, clientVars, chans, mu, pending, pc>>

(* updateComponent stores the object. *)
Store(k) ==
    /\ WriteLocked(mu, k) /\ informer[k].pc = "lock"
    /\ stored' = [stored EXCEPT ![informer[k].object] = informer[k].version]
    /\ informer' = [informer EXCEPT ![k].pc = "rlock"]
    /\ mu' = Released(mu)
    /\ UNCHANGED <<replayVars, clientVars, chans, pending, pc>>

(* componentChange starts a goroutine for each listener of the kind.       *)
Notify(k) ==
    /\ informer[k].pc = "rlock" /\ NoWriter(mu)
    /\ pending' = pending \cup
          {<<l, informer[k].object, informer[k].version>> :
              l \in {l \in chans : KindOf[l] = k}}
    /\ informer' = [informer EXCEPT ![k] = Idle]
    /\ UNCHANGED <<stored, replayVars, clientVars, chans, mu, pc>>

-----------------------------------------------------------------------------
(* The Watch RPC of a listener. *)

Watch(l) ==
    /\ pc[l] = "idle"
    /\ pc' = [pc EXCEPT ![l] = "add"]
    /\ UNCHANGED <<informerVars, replayVars, clientVars, chans, mu, pending>>

(* Mutant of AddListener: nothing is replayed to it. *)
AddListenerOnly(l) ==
    /\ WriteLocked(mu, l)
    /\ pc[l] = "add"
    /\ chans' = chans \cup {l}
    /\ pc' = [pc EXCEPT ![l] = "loop"]
    /\ replay' = [replay EXCEPT ![l] = "done"]
    /\ mu' = Released(mu)
    /\ UNCHANGED <<informerVars, todo, item, clientVars, pending>>

AddListener(l) ==
    /\ WriteLocked(mu, l) /\ pc[l] = "add"
    /\ chans' = chans \cup {l}
    /\ pc' = [pc EXCEPT ![l] = "loop"]
    /\ replay' = [replay EXCEPT ![l] = "rlock"]
    /\ mu' = Released(mu)
    /\ UNCHANGED <<informerVars, todo, item, clientVars, pending>>

(* The select of the RPC receives an object: it goes to the client if the  *)
(* client asked for it.                                                    *)
Receive(l, o, v) ==
    /\ pc[l] = "loop"
    /\ IF o \in Matches[l]
       THEN /\ seen' = [seen EXCEPT ![l] = @ \cup {<<o, v>>}]
            /\ last' = [last EXCEPT ![l][o] = v]
       ELSE UNCHANGED clientVars

(* One of the waiting goroutines sends: any of them. *)
ReceiveChange(l) ==
    /\ \E p \in pending :
          p[1] = l /\ Receive(l, p[2], p[3]) /\ pending' = pending \ {p}
    /\ UNCHANGED <<informerVars, replayVars, chans, mu, pc>>

StreamDone(l) ==
    /\ l \in MayLeave /\ pc[l] = "loop"
    /\ pc' = [pc EXCEPT ![l] = "remove"]
    /\ UNCHANGED <<informerVars, replayVars, clientVars, chans, mu, pending>>

(* Mutant of RemoveListener: the channel stays in the list. *)
KeepListener(l) ==
    /\ WriteLocked(mu, l)
    /\ pc[l] = "remove"
    /\ pc' = [pc EXCEPT ![l] = "gone"]
    /\ mu' = Released(mu)
    /\ UNCHANGED <<chans, informerVars, replayVars, clientVars, pending>>

RemoveListener(l) ==
    /\ WriteLocked(mu, l) /\ pc[l] = "remove"
    /\ chans' = chans \ {l}
    /\ pc' = [pc EXCEPT ![l] = "gone"]
    /\ mu' = Released(mu)
    /\ UNCHANGED <<informerVars, replayVars, clientVars, pending>>

-----------------------------------------------------------------------------
(* The goroutine that replays the stored objects to a new listener. *)

(* Mutant of ReplayLock: the replay covers what is not stored, too. *)
ReplayLockAll(l) ==
    /\ replay[l] = "rlock"
    /\ NoWriter(mu)
    /\ replay' = [replay EXCEPT ![l] = "sending"]
    /\ todo' = [todo EXCEPT ![l] = Of(KindOf[l])]
    /\ mu' = ReadLocked(mu, l)
    /\ UNCHANGED <<informerVars, item, clientVars, chans, pending, pc>>

(* Mutant of ReplayLock: the replay does not take the lock. *)
ReplayUnlocked(l) ==
    /\ replay[l] = "rlock"
    /\ replay' = [replay EXCEPT ![l] = "sending"]
    /\ todo' = [todo EXCEPT ![l] = {o \in Of(KindOf[l]) : stored[o] > 0}]
    /\ UNCHANGED <<mu, informerVars, item, clientVars, chans, pending, pc>>

ReplayLock(l) ==
    /\ replay[l] = "rlock" /\ NoWriter(mu)
    /\ replay' = [replay EXCEPT ![l] = "sending"]
    /\ todo' = [todo EXCEPT ![l] = {o \in Of(KindOf[l]) : stored[o] > 0}]
    /\ mu' = ReadLocked(mu, l)
    /\ UNCHANGED <<informerVars, item, clientVars, chans, pending, pc>>

(* The range takes the next item of the map, in any order. *)
ReplayNext(l) ==
    /\ replay[l] = "sending" /\ item[l] = {}
    /\ \E o \in todo[l] :
          /\ item' = [item EXCEPT ![l] = {<<o, stored[o]>>}]
          /\ todo' = [todo EXCEPT ![l] = @ \ {o}]
    /\ UNCHANGED <<informerVars, replay, clientVars, chans, mu, pending, pc>>

ReplaySend(l) ==
    /\ \E i \in item[l] : Receive(l, i[1], i[2])
    /\ item' = [item EXCEPT ![l] = {}]
    /\ UNCHANGED <<informerVars, replay, todo, chans, mu, pending, pc>>

(* Mutant of ReplayDone: the read lock is not released. *)
ReplayDoneLocked(l) ==
    /\ replay[l] = "sending"
    /\ todo[l] = {}
    /\ item[l] = {}
    /\ replay' = [replay EXCEPT ![l] = "done"]
    /\ UNCHANGED <<mu, informerVars, todo, item, clientVars, chans, pending, pc>>

ReplayDone(l) ==
    /\ replay[l] = "sending" /\ todo[l] = {} /\ item[l] = {}
    /\ replay' = [replay EXCEPT ![l] = "done"]
    /\ mu' = ReadReleased(mu, l)
    /\ UNCHANGED <<informerVars, todo, item, clientVars, chans, pending, pc>>

-----------------------------------------------------------------------------
(* The goroutines, once started: the informers, the RPCs, the replays. *)
InformerStep(k) == AnnounceLock(k) \/ Store(k) \/ Notify(k)
WatchStep(l) == AnnounceLock(l) \/ AddListener(l) \/ ReceiveChange(l) \/ RemoveListener(l)
ReplayStep(l) == ReplayLock(l) \/ ReplayNext(l) \/ ReplaySend(l) \/ ReplayDone(l)

Next ==
    \/ \E o \in Objects : ObjectChanges(o)
    \/ \E k \in Kinds : InformerStep(k)
    \/ \E l \in Listeners : Watch(l) \/ StreamDone(l) \/ WatchStep(l) \/ ReplayStep(l)

Spec == Init /\ [][Next]_vars

(* Every goroutine that can run, or can again and again get the lock or be *)
(* chosen by a select, eventually goes on.  The cluster need not change    *)
(* and the clients need not come or leave.                                 *)
Fairness ==
    /\ \A k \in Kinds : SF_vars(InformerStep(k))
    /\ \A l \in Listeners : SF_vars(WatchStep(l)) /\ SF_vars(ReplayStep(l))

FairSpec == Spec /\ Fairness

-----------------------------------------------------------------------------
(* Safety. *)

(* The channels that updates are sent on are those of the running RPCs: a  *)
(* returned RPC gets no new goroutine blocked on it.                       *)
ChansAreRunning == chans = {l \in Listeners : pc[l] \in {"loop", "remove"}}

(* Between the listener's registration, its replay and the two separate    *)
(* critical sections of an update, no object falls through: the stored     *)
(* version of everything a running RPC asked for was sent to its client or *)
(* is on its way there.                                                    *)
OnItsWay(l, o) ==
    LET k == KindOf[l] IN
    \/ <<l, o, stored[o]>> \in pending
    \/ replay[l] = "rlock" \/ o \in todo[l] \/ <<o, stored[o]>> \in item[l]
    \/ informer[k].pc = "rlock" /\ informer[k].object = o

NoUpdateLost ==
    \A l \in Listeners : pc[l] = "loop" =>
        \A o \in Matches[l] \cap Of(KindOf[l]) :
            stored[o] > 0 => <<o, stored[o]>> \in seen[l] \/ OnItsWay(l, o)

(* No informer writes the maps, and no RPC the list of channels, while a   *)
(* replay ranges over a map.                                               *)
ReplayRangesOverStableMap ==
    [][(\E l \in Listeners : replay[l] = "sending") => UNCHANGED <<stored, chans>>]_vars

(* Once the current version of an object is not on its way any more, a     *)
(* running RPC's client was sent it last.  That is so only as long as the  *)
(* goroutines of two updates do not overtake each other on their way to a  *)
(* client: no version follows a newer one.                                 *)
WatchersConverge ==
    \A l \in Listeners : pc[l] = "loop" =>
        \A o \in Matches[l] \cap Of(KindOf[l]) : ~OnItsWay(l, o) => last[l][o] = stored[o]

InOrder == \A l \in Listeners : \A o \in Objects : last[l][o] <= last'[l][o]
UpdatesInOrder == [][InOrder]_vars

(* Liveness. *)

(* An update is stored and announced: the informer serves the next one.    *)
UpdatesProceed == \A k \in Kinds : informer[k] # Idle ~> informer[k] = Idle

(* It is, as long as no RPC leaves.                                        *)
SomeoneLeft == \E l \in Listeners : pc[l] \in {"remove", "gone"}

UndisturbedUpdatesProceed ==
    \A k \in Kinds : informer[k] # Idle ~> (informer[k] = Idle \/ SomeoneLeft)

(* Again and again every running RPC's client has been sent what is stored *)
(* of the objects it asked for, unless an RPC leaves: once the cluster     *)
(* comes to rest, nothing is held back.                                    *)
UpdatesArrive ==
    []<>(SomeoneLeft \/
         \A l \in Listeners : pc[l] = "loop" =>
             \A o \in Matches[l] \cap Of(KindOf[l]) :
                 stored[o] > 0 => <<o, stored[o]>> \in seen[l])
=============================================================================
