------------------------- MODULE ObjectWatcher_proofs -------------------------
(***************************************************************************)
(* No update is lost between the informers and the watchers of the         *)
(* operator, for any number of kinds, objects, versions and watchers.      *)
(***************************************************************************)
EXTENDS ObjectWatcher, TLAPS

(* Only an informer about to store and an RPC that registers or leaves     *)
(* want the write lock; the readers that stay are the replays, and a       *)
(* replay that does not range has nothing left to send.                    *)
LockInv ==
    /\ mu.writer \in Kinds => informer[mu.writer].pc = "lock"
    /\ mu.writer \in Listeners => pc[mu.writer] \in {"add", "remove"}
    /\ mu.readers = {l \in Listeners : replay[l] = "sending"}
    /\ \A l \in Listeners : replay[l] # "sending" => todo[l] = {} /\ item[l] = {}

(* A replay sends one item at a time. *)
ItemInv == \A l \in Listeners : \A i, j \in item[l] : i = j

(* A replay has only objects in its list that the map holds. *)
TodoInv == \A l \in Listeners : \A o \in todo[l] : stored[o] > 0

(* An informer works on objects of its kind, and what it announces is what *)
(* it stored: nobody else stores that object.                              *)
InformerInv ==
    \A k \in Kinds : informer[k] # Idle =>
        /\ KindOf[informer[k].object] = k
        /\ informer[k].pc = "rlock" => informer[k].version = stored[informer[k].object]

IInv ==
    /\ TypeOK /\ LockInv /\ ItemInv /\ TodoInv /\ InformerInv
    /\ ChansAreRunning /\ NoUpdateLost

(* The operator starts in the invariant. *)
LEMMA InitIInv == Init => IInv
<1> SUFFICES ASSUME Init PROVE IInv
    OBVIOUS
<1> USE ObjectWatcherAssumption DEF Init
<1>1. mu \in RWMutex(Kinds \cup Listeners) /\ mu.writer = NoOne /\ mu.readers = {}
    BY DEF RWMutex, Unlocked
<1>2. TypeOK
  <2>1. stored \in [Objects -> 0..MaxVersion] /\ last \in [Listeners -> [Objects -> 0..MaxVersion]]
      OBVIOUS
  <2> QED BY <1>1, <2>1 DEF TypeOK
<1>3. LockInv /\ ItemInv /\ TodoInv /\ InformerInv
    BY <1>1 DEF LockInv, ItemInv, TodoInv, InformerInv
<1>4. ChansAreRunning /\ NoUpdateLost
    BY DEF ChansAreRunning, NoUpdateLost
<1> QED
    BY <1>2, <1>3, <1>4 DEF IInv

(* The informers, and everyone who asks for the lock, keep the invariant. *)
LEMMA InformerPreserves ==
    ASSUME IInv, \/ \E g \in Kinds \cup Listeners : AnnounceLock(g)
                 \/ \E o \in Objects : ObjectChanges(o)
                 \/ \E k \in Kinds : Store(k) \/ Notify(k)
    PROVE  IInv'
<1> USE ObjectWatcherAssumption DEF IInv, Idle
<1>1. CASE \E g \in Kinds \cup Listeners : AnnounceLock(g)
  <2> USE <1>1 DEF AnnounceLock, NoWriter, Announced, informerVars, replayVars, clientVars
  <2>1. TypeOK'
      BY DEF TypeOK, RWMutex, Versions
  <2>2. LockInv' /\ ItemInv' /\ TodoInv' /\ InformerInv'
      BY DEF TypeOK, RWMutex, LockInv, ItemInv, TodoInv, InformerInv
  <2>3. ChansAreRunning'
      BY DEF TypeOK, ChansAreRunning
  <2>4. NoUpdateLost'
      BY DEF TypeOK, Of, ChansAreRunning, LockInv, ItemInv, InformerInv, NoUpdateLost, OnItsWay
  <2> QED BY <2>1, <2>2, <2>3, <2>4
<1>2. CASE \E o \in Objects : ObjectChanges(o)
  <2>0. PICK o \in Objects : ObjectChanges(o)
      BY <1>2
  <2> DEFINE k == KindOf[o]
             work == [pc |-> "lock", object |-> o, version |-> stored[o] + 1]
  <2>1. /\ k \in Kinds /\ work.pc = "lock" /\ KindOf[work.object] = k
        /\ work \in [pc : {"lock", "rlock"}, object : Objects, version : Versions]
      BY <2>0 DEF ObjectChanges, TypeOK, Versions
  <2>2. /\ informer[k] = Idle /\ informer' = [informer EXCEPT ![k] = work]
        /\ UNCHANGED <<stored, replay, todo, item, seen, last, chans, mu, pending, pc>>
      BY <2>0 DEF ObjectChanges, replayVars, clientVars
  <2> HIDE DEF k, work
  <2>3. TypeOK'
    <3>1. informer' \in [Kinds -> {Idle} \cup [pc : {"lock", "rlock"}, object : Objects, version : Versions]]
        BY <2>1, <2>2 DEF TypeOK
    <3> QED BY <2>2, <3>1 DEF TypeOK
  <2>4. LockInv' /\ ItemInv' /\ TodoInv' /\ InformerInv'
      BY <2>1, <2>2 DEF TypeOK, RWMutex, LockInv, ItemInv, TodoInv, InformerInv
  <2>5. ChansAreRunning' /\ NoUpdateLost'
      BY <2>1, <2>2 DEF TypeOK, Of, ChansAreRunning, NoUpdateLost, OnItsWay
  <2> QED BY <2>3, <2>4, <2>5
<1>3. CASE \E k \in Kinds : Store(k)
  <2> USE <1>3 DEF Store, WriteLocked, Released, replayVars, clientVars
  <2>1. TypeOK'
    <3>0. PICK k \in Kinds : Store(k)
        OBVIOUS
    <3>1. informer[k] \in [pc : {"lock", "rlock"}, object : Objects, version : Versions]
        BY <3>0 DEF TypeOK
    <3>2. [informer[k] EXCEPT !.pc = "rlock"] \in
             [pc : {"lock", "rlock"}, object : Objects, version : Versions]
        BY <3>1
    <3>3. informer' = [informer EXCEPT ![k] = [informer[k] EXCEPT !.pc = "rlock"]]
        BY <3>0
    <3>4. informer' \in [Kinds -> {Idle} \cup [pc : {"lock", "rlock"}, object : Objects, version : Versions]]
        BY <3>2, <3>3 DEF TypeOK
    <3>5. stored' \in [Objects -> 0..MaxVersion]
        BY <3>0, <3>1 DEF TypeOK, Versions
    <3> QED BY <3>0, <3>4, <3>5 DEF TypeOK, RWMutex
  <2>2. LockInv' /\ ItemInv' /\ TodoInv' /\ InformerInv'
      BY DEF TypeOK, RWMutex, LockInv, ItemInv, TodoInv, InformerInv
  <2>3. ChansAreRunning'
      BY DEF TypeOK, ChansAreRunning
  <2>4. NoUpdateLost'
      BY DEF TypeOK, Of, ChansAreRunning, LockInv, ItemInv, InformerInv, NoUpdateLost, OnItsWay
  <2> QED BY <2>1, <2>2, <2>3, <2>4
<1>4. CASE \E k \in Kinds : Notify(k)
  <2> USE <1>4 DEF Notify, replayVars, clientVars
  <2>1. TypeOK'
      BY DEF TypeOK, RWMutex, Versions
  <2>2. LockInv' /\ ItemInv' /\ TodoInv' /\ InformerInv'
      BY DEF TypeOK, RWMutex, LockInv, ItemInv, TodoInv, InformerInv
  <2>3. ChansAreRunning'
      BY DEF TypeOK, ChansAreRunning
  <2>4. NoUpdateLost'
    <3>0. PICK k \in Kinds : Notify(k)
        OBVIOUS
    <3> SUFFICES ASSUME NEW l \in Listeners, pc[l] = "loop",
                        NEW o \in Matches[l] \cap Of(KindOf[l]), stored[o] > 0
                 PROVE  <<o, stored[o]>> \in seen[l] \/ OnItsWay(l, o)'
        BY <3>0 DEF NoUpdateLost, Of
    <3>1. <<o, stored[o]>> \in seen[l] \/ OnItsWay(l, o)
        BY DEF NoUpdateLost
    <3>2. CASE informer[KindOf[l]].pc = "rlock" /\ informer[KindOf[l]].object = o /\ KindOf[l] = k
      <4>1. l \in chans /\ informer[k].version = stored[o]
          BY <3>2 DEF ChansAreRunning, InformerInv
      <4> QED BY <3>0, <3>2, <4>1 DEF OnItsWay
    <3>3. CASE informer[KindOf[l]].pc = "rlock" /\ informer[KindOf[l]].object = o /\ KindOf[l] # k
      <4>1. informer'[KindOf[l]] = informer[KindOf[l]]
          BY <3>0, <3>3 DEF TypeOK
      <4> QED BY <3>3, <4>1 DEF OnItsWay
    <3>4. CASE ~(informer[KindOf[l]].pc = "rlock" /\ informer[KindOf[l]].object = o)
        BY <3>0, <3>1, <3>4 DEF OnItsWay
    <3> QED BY <3>2, <3>3, <3>4
  <2> QED BY <2>1, <2>2, <2>3, <2>4
<1> QED
    BY <1>1, <1>2, <1>3, <1>4

(* What receiving an object does to what the clients were sent. *)
LEMMA ReceiveSends ==
    ASSUME TypeOK, NEW l \in Listeners, NEW o \in Objects, NEW v \in Versions, Receive(l, o, v)
    PROVE  /\ pc[l] = "loop"
           /\ seen' \in [Listeners -> SUBSET (Objects \X Versions)]
           /\ last' \in [Listeners -> [Objects -> 0..MaxVersion]]
           /\ \A m \in Listeners : seen[m] \subseteq seen'[m]
           /\ o \in Matches[l] => <<o, v>> \in seen'[l]
<1>1. CASE o \in Matches[l]
  <2>1. /\ seen' = [seen EXCEPT ![l] = @ \cup {<<o, v>>}]
        /\ last' = [last EXCEPT ![l][o] = v] /\ pc[l] = "loop"
      BY <1>1 DEF Receive
  <2>2. seen' \in [Listeners -> SUBSET (Objects \X Versions)]
      BY <2>1 DEF TypeOK
  <2>3. last' \in [Listeners -> [Objects -> 0..MaxVersion]]
    <3>1. [last[l] EXCEPT ![o] = v] \in [Objects -> 0..MaxVersion]
        BY ObjectWatcherAssumption DEF TypeOK, Versions
    <3>2. last' = [last EXCEPT ![l] = [last[l] EXCEPT ![o] = v]]
        BY <2>1
    <3> QED BY <3>1, <3>2 DEF TypeOK
  <2> QED BY <2>1, <2>2, <2>3 DEF TypeOK
<1>2. CASE o \notin Matches[l]
    BY <1>2 DEF Receive, clientVars, TypeOK
<1> QED BY <1>1, <1>2

(* The Watch RPCs and their replays keep the invariant. *)
LEMMA ListenerPreserves ==
    ASSUME IInv, NEW l \in Listeners,
           \/ Watch(l) \/ AddListener(l) \/ ReceiveChange(l) \/ StreamDone(l)
           \/ RemoveListener(l) \/ ReplayStep(l)
    PROVE  IInv'
<1> USE ObjectWatcherAssumption DEF IInv
<1>1. CASE Watch(l)
  <2> USE <1>1 DEF Watch, informerVars, replayVars, clientVars
  <2>1. TypeOK'
      BY DEF TypeOK, RWMutex, Versions
  <2>2. LockInv' /\ ItemInv' /\ TodoInv' /\ InformerInv'
      BY DEF TypeOK, RWMutex, LockInv, ItemInv, TodoInv, InformerInv
  <2>3. ChansAreRunning'
      BY DEF TypeOK, ChansAreRunning
  <2>4. NoUpdateLost'
      BY DEF TypeOK, Of, ChansAreRunning, LockInv, ItemInv, InformerInv, NoUpdateLost, OnItsWay
  <2> QED BY <2>1, <2>2, <2>3, <2>4
<1>2. CASE AddListener(l)
  <2> USE <1>2 DEF AddListener, WriteLocked, Released, informerVars, clientVars
  <2>1. TypeOK'
      BY DEF TypeOK, RWMutex, Versions
  <2>2. LockInv' /\ ItemInv' /\ TodoInv' /\ InformerInv'
      BY DEF TypeOK, RWMutex, LockInv, ItemInv, TodoInv, InformerInv
  <2>3. ChansAreRunning'
      BY DEF TypeOK, ChansAreRunning
  <2>4. NoUpdateLost'
      BY DEF TypeOK, Of, ChansAreRunning, LockInv, ItemInv, InformerInv, NoUpdateLost, OnItsWay
  <2> QED BY <2>1, <2>2, <2>3, <2>4
<1>3. CASE RemoveListener(l)
  <2> USE <1>3 DEF RemoveListener, WriteLocked, Released, informerVars, replayVars, clientVars
  <2>1. TypeOK'
      BY DEF TypeOK, RWMutex, Versions
  <2>2. LockInv' /\ ItemInv' /\ TodoInv' /\ InformerInv'
      BY DEF TypeOK, RWMutex, LockInv, ItemInv, TodoInv, InformerInv
  <2>3. ChansAreRunning'
      BY DEF TypeOK, ChansAreRunning
  <2>4. NoUpdateLost'
      BY DEF TypeOK, Of, ChansAreRunning, LockInv, ItemInv, InformerInv, NoUpdateLost, OnItsWay
  <2> QED BY <2>1, <2>2, <2>3, <2>4
<1>4. CASE ReceiveChange(l)
  <2>0. PICK p \in pending : p[1] = l /\ Receive(l, p[2], p[3]) /\ pending' = pending \ {p}
      BY <1>4 DEF ReceiveChange
  <2>1. p[2] \in Objects /\ p[3] \in Versions /\ p = <<l, p[2], p[3]>>
      BY <2>0 DEF TypeOK
  <2>2. /\ pc[l] = "loop"
        /\ seen' \in [Listeners -> SUBSET (Objects \X Versions)]
        /\ last' \in [Listeners -> [Objects -> 0..MaxVersion]]
        /\ \A m \in Listeners : seen[m] \subseteq seen'[m]
        /\ p[2] \in Matches[l] => <<p[2], p[3]>> \in seen'[l]
      BY <2>0, <2>1, ReceiveSends
  <2>3. UNCHANGED <<stored, informer, replay, todo, item, chans, mu, pc>>
      BY <1>4 DEF ReceiveChange, informerVars, replayVars
  <2>4. TypeOK'
      BY <2>0, <2>2, <2>3 DEF TypeOK
  <2>5. LockInv' /\ ItemInv' /\ TodoInv' /\ InformerInv' /\ ChansAreRunning'
      BY <2>3 DEF LockInv, ItemInv, TodoInv, InformerInv, ChansAreRunning
  <2>6. NoUpdateLost'
    <3> SUFFICES ASSUME NEW m \in Listeners, pc[m] = "loop",
                        NEW o \in Matches[m] \cap Of(KindOf[m]), stored[o] > 0
                 PROVE  <<o, stored[o]>> \in seen'[m] \/ OnItsWay(m, o)'
        BY <2>3 DEF NoUpdateLost, Of
    <3>1. <<o, stored[o]>> \in seen[m] \/ OnItsWay(m, o)
        BY DEF NoUpdateLost
    <3>2. CASE <<m, o, stored[o]>> = p
        BY <3>2, <2>1, <2>2
    <3>3. CASE <<m, o, stored[o]>> # p
        BY <3>1, <3>3, <2>0, <2>2, <2>3 DEF OnItsWay
    <3> QED BY <3>2, <3>3
  <2> QED BY <2>4, <2>5, <2>6
<1>5. CASE StreamDone(l)
  <2> USE <1>5 DEF StreamDone, informerVars, replayVars, clientVars
  <2>1. TypeOK'
      BY DEF TypeOK, RWMutex, Versions
  <2>2. LockInv' /\ ItemInv' /\ TodoInv' /\ InformerInv'
      BY DEF TypeOK, RWMutex, LockInv, ItemInv, TodoInv, InformerInv
  <2>3. ChansAreRunning'
      BY DEF TypeOK, ChansAreRunning
  <2>4. NoUpdateLost'
      BY DEF TypeOK, Of, ChansAreRunning, LockInv, ItemInv, InformerInv, NoUpdateLost, OnItsWay
  <2> QED BY <2>1, <2>2, <2>3, <2>4
<1>6. CASE ReplayLock(l)
  <2> USE <1>6 DEF ReplayLock, NoWriter, ReadLocked, informerVars, clientVars
  <2>0. {o \in Of(KindOf[l]) : stored[o] > 0} \in SUBSET Objects
      BY DEF Of
  <2>1. TypeOK'
      BY <2>0 DEF TypeOK, RWMutex
  <2>2. LockInv' /\ ItemInv' /\ TodoInv' /\ InformerInv'
      BY DEF TypeOK, RWMutex, LockInv, ItemInv, TodoInv, InformerInv
  <2>3. ChansAreRunning'
      BY DEF TypeOK, ChansAreRunning
  <2>4. NoUpdateLost'
      BY DEF TypeOK, Of, NoUpdateLost, OnItsWay
  <2> QED BY <2>1, <2>2, <2>3, <2>4
<1>7. CASE ReplayNext(l)
  <2>0. PICK o \in todo[l] : /\ item' = [item EXCEPT ![l] = {<<o, stored[o]>>}]
                             /\ todo' = [todo EXCEPT ![l] = @ \ {o}]
      BY <1>7 DEF ReplayNext
  <2> USE <1>7, <2>0 DEF ReplayNext, informerVars, clientVars
  <2>1. stored[o] > 0 /\ o \in Objects /\ <<o, stored[o]>> \in Objects \X Versions
      BY DEF TypeOK, TodoInv, Versions
  <2>2. TypeOK'
      BY <2>1 DEF TypeOK
  <2>3. LockInv' /\ InformerInv' /\ TodoInv'
      BY DEF TypeOK, LockInv, InformerInv, TodoInv
  <2>6. \A m \in Listeners : item'[m] = IF m = l THEN {<<o, stored[o]>>} ELSE item[m]
      BY DEF TypeOK
  <2>7. ItemInv'
      BY <2>6, ItemInv DEF ItemInv
  <2>4. ChansAreRunning'
      BY DEF ChansAreRunning
  <2>5. NoUpdateLost'
      BY DEF TypeOK, Of, NoUpdateLost, OnItsWay
  <2> QED BY <2>2, <2>3, <2>4, <2>5, <2>7
<1>8. CASE ReplaySend(l)
  <2>0. PICK i \in item[l] : Receive(l, i[1], i[2])
      BY <1>8 DEF ReplaySend
  <2>1. i[1] \in Objects /\ i[2] \in Versions /\ i = <<i[1], i[2]>> /\ item[l] = {i}
      BY <2>0 DEF TypeOK, ItemInv
  <2>2. /\ seen' \in [Listeners -> SUBSET (Objects \X Versions)]
        /\ last' \in [Listeners -> [Objects -> 0..MaxVersion]]
        /\ \A m \in Listeners : seen[m] \subseteq seen'[m]
        /\ i[1] \in Matches[l] => <<i[1], i[2]>> \in seen'[l]
      BY <2>0, <2>1, ReceiveSends
  <2>3. /\ item' = [item EXCEPT ![l] = {}]
        /\ UNCHANGED <<stored, informer, replay, todo, chans, mu, pending, pc>>
      BY <1>8 DEF ReplaySend, informerVars
  <2>4. TypeOK'
      BY <2>2, <2>3 DEF TypeOK
  <2>5. LockInv' /\ ItemInv' /\ InformerInv' /\ TodoInv' /\ ChansAreRunning'
      BY <2>3 DEF TypeOK, LockInv, ItemInv, InformerInv, TodoInv, ChansAreRunning
  <2>6. NoUpdateLost'
    <3> SUFFICES ASSUME NEW m \in Listeners, pc[m] = "loop",
                        NEW o \in Matches[m] \cap Of(KindOf[m]), stored[o] > 0
                 PROVE  <<o, stored[o]>> \in seen'[m] \/ OnItsWay(m, o)'
        BY <2>3 DEF NoUpdateLost, Of
    <3>1. <<o, stored[o]>> \in seen[m] \/ OnItsWay(m, o)
        BY DEF NoUpdateLost
    <3>2. CASE m = l /\ <<o, stored[o]>> = i
        BY <3>2, <2>1, <2>2
    <3>3. CASE ~(m = l /\ <<o, stored[o]>> = i)
        BY <3>1, <3>3, <2>1, <2>2, <2>3 DEF TypeOK, OnItsWay
    <3> QED BY <3>2, <3>3
  <2> QED BY <2>4, <2>5, <2>6
<1>9. CASE ReplayDone(l)
  <2> USE <1>9 DEF ReplayDone, ReadReleased, informerVars, clientVars
  <2>1. TypeOK'
      BY DEF TypeOK, RWMutex, Versions
  <2>2. LockInv' /\ ItemInv' /\ TodoInv' /\ InformerInv'
      BY DEF TypeOK, RWMutex, LockInv, ItemInv, TodoInv, InformerInv
  <2>3. ChansAreRunning'
      BY DEF TypeOK, ChansAreRunning
  <2>4. NoUpdateLost'
      BY DEF TypeOK, Of, ChansAreRunning, LockInv, ItemInv, InformerInv, NoUpdateLost, OnItsWay
  <2> QED BY <2>1, <2>2, <2>3, <2>4
<1> QED
    BY <1>1, <1>2, <1>3, <1>4, <1>5, <1>6, <1>7, <1>8, <1>9 DEF ReplayStep

LEMMA StutterPreserves ==
    ASSUME IInv, UNCHANGED vars
    PROVE  IInv'
BY DEF IInv, vars, informerVars, replayVars, clientVars, TypeOK, LockInv, ItemInv, TodoInv,
       InformerInv, ChansAreRunning, NoUpdateLost, OnItsWay

(* The invariant is inductive. *)
THEOREM Inductive == Spec => []IInv
<1>1. IInv /\ [Next]_vars => IInv'
    BY InformerPreserves, ListenerPreserves, StutterPreserves
    DEF Next, InformerStep, WatchStep
<1> QED
    BY InitIInv, <1>1, PTL DEF Spec

-----------------------------------------------------------------------------
(* Every variable of the operator keeps its type. *)
THEOREM TypeCorrect == Spec => []TypeOK
BY Inductive, PTL DEF IInv

(* No update falls between a registration, a replay and an announcement.   *)
THEOREM UpdatesAreNotLost == Spec => []NoUpdateLost
BY Inductive, PTL DEF IInv

(* Updates are announced to the running RPCs and to no other.              *)
THEOREM ChansCorrect == Spec => []ChansAreRunning
BY Inductive, PTL DEF IInv

(* Neither the maps nor the lists of channels change under a replay.       *)
THEOREM StableMaps == Spec => ReplayRangesOverStableMap
<1> DEFINE Stable == (\E l \in Listeners : replay[l] = "sending") => UNCHANGED <<stored, chans>>
<1>1. ASSUME IInv, Next PROVE Stable
  <2>1. ASSUME NEW g \in Kinds \cup Listeners, WriteLocked(mu, g) PROVE Stable
      BY <1>1, <2>1 DEF WriteLocked, IInv, LockInv
  <2>2. CASE \/ \E k \in Kinds : Store(k)
             \/ \E l \in Listeners : AddListener(l) \/ RemoveListener(l)
      BY <2>1, <2>2 DEF Store, AddListener, RemoveListener
  <2>3. CASE ~ \/ \E k \in Kinds : Store(k)
               \/ \E l \in Listeners : AddListener(l) \/ RemoveListener(l)
      BY <1>1, <2>3
      DEF Next, InformerStep, WatchStep, ReplayStep, AnnounceLock, ObjectChanges, Notify, Watch, ReceiveChange,
          StreamDone, ReplayLock, ReplayNext, ReplaySend, ReplayDone, informerVars
  <2> QED BY <2>2, <2>3
<1>2. ASSUME IInv, [Next]_vars PROVE [Stable]_vars
    BY <1>1, <1>2
<1> QED
    BY <1>2, Inductive, PTL DEF Spec, ReplayRangesOverStableMap
-----------------------------------------------------------------------------
(* Clients converge unless updates overtake each other.                    *)

(* Nothing that is stored, announced, replayed or received is newer than   *)
(* what the map holds, and what is about to be stored is the next version. *)
VersionInv ==
    /\ \A k \in Kinds : informer[k].pc = "lock" =>
          informer[k].version = stored[informer[k].object] + 1
    /\ \A p \in pending : p[3] <= stored[p[2]]
    /\ \A l \in Listeners : \A i \in item[l] : i[2] <= stored[i[1]]
    /\ \A l \in Listeners : \A o \in Objects : last[l][o] <= stored[o]

(* If no update is overtaken, the last version is the newest of those that *)
(* were sent.                                                              *)
SeenInv == \A l \in Listeners : \A i \in seen[l] : i[2] <= last[l][i[1]]

LEMMA ReceivedVersion ==
    ASSUME TypeOK, NEW l \in Listeners, NEW o \in Objects, NEW v \in Versions, Receive(l, o, v)
    PROVE  /\ \A m \in Listeners : \A x \in Objects :
                 last'[m][x] = last[m][x] \/ (m = l /\ x = o /\ last'[m][x] = v)
           /\ \A m \in Listeners : \A i \in seen'[m] :
                 i \in seen[m] \/ (m = l /\ i = <<o, v>> /\ last'[m][o] = v)
<1>1. CASE o \in Matches[l]
  <2>1. /\ seen' = [seen EXCEPT ![l] = @ \cup {<<o, v>>}]
        /\ last' = [last EXCEPT ![l] = [last[l] EXCEPT ![o] = v]]
      BY <1>1 DEF Receive
  <2>2. seen \in [Listeners -> SUBSET (Objects \X Versions)] /\ last \in [Listeners -> [Objects -> 0..MaxVersion]]
      BY DEF TypeOK
  <2>3. last'[l] = [last[l] EXCEPT ![o] = v] /\ \A m \in Listeners \ {l} : last'[m] = last[m]
      BY <2>1, <2>2
  <2>4. last[l] \in [Objects -> 0..MaxVersion]
      BY <2>2
  <2>5. last'[l][o] = v /\ \A x \in Objects \ {o} : last'[l][x] = last[l][x]
      BY <2>3, <2>4
  <2>6. seen'[l] = seen[l] \cup {<<o, v>>} /\ \A m \in Listeners \ {l} : seen'[m] = seen[m]
      BY <2>1, <2>2
  <2> QED BY <2>3, <2>5, <2>6
<1>2. CASE o \notin Matches[l]
    BY <1>2 DEF Receive, clientVars
<1> QED BY <1>1, <1>2

LEMMA VersionsKept == ASSUME IInv, VersionInv, [Next]_vars PROVE VersionInv'
<1> USE ObjectWatcherAssumption
<1>1. /\ TypeOK /\ ItemInv /\ InformerInv
      /\ stored \in [Objects -> 0..MaxVersion] /\ 0..MaxVersion \subseteq Nat
      /\ pending \subseteq Listeners \X Objects \X Versions
      /\ item \in [Listeners -> SUBSET (Objects \X Versions)]
      /\ last \in [Listeners -> [Objects -> 0..MaxVersion]]
    BY DEF IInv, TypeOK
<1>2. ASSUME NEW o \in Objects, ObjectChanges(o) PROVE VersionInv'
  <2>1. /\ informer' = [informer EXCEPT ![KindOf[o]] = [pc |-> "lock", object |-> o, version |-> stored[o] + 1]]
        /\ UNCHANGED <<stored, pending, item, last>>
      BY <1>2 DEF ObjectChanges, replayVars, clientVars
  <2>2. \A k \in Kinds : informer'[k] = informer[k] \/ informer'[k] = [pc |-> "lock", object |-> o, version |-> stored[o] + 1]
      BY <2>1 DEF IInv, TypeOK
  <2> QED BY <2>1, <2>2 DEF VersionInv
<1>3. ASSUME NEW k \in Kinds, Store(k) PROVE VersionInv'
  <2> DEFINE o == informer[k].object
             n == informer[k].version
  <2>1. /\ informer[k].pc = "lock" /\ stored' = [stored EXCEPT ![o] = n]
        /\ informer' = [informer EXCEPT ![k] = [informer[k] EXCEPT !.pc = "rlock"]]
        /\ UNCHANGED <<pending, item, last>>
      BY <1>3 DEF Store, replayVars, clientVars
  <2>2. informer[k] \in [pc : {"lock", "rlock"}, object : Objects, version : Versions]
      BY <2>1 DEF IInv, TypeOK, Idle
  <2>3. o \in Objects /\ KindOf[o] = k /\ n = stored[o] + 1
      BY <1>1, <2>1, <2>2 DEF InformerInv, VersionInv, Idle
  <2>4. \A x \in Objects : stored[x] \in Nat /\ stored'[x] \in Nat /\ stored[x] <= stored'[x]
                          /\ (x # o => stored'[x] = stored[x])
      BY <1>1, <2>1, <2>3
  <2>5. \A j \in Kinds : informer'[j].pc = "lock" => j # k /\ informer'[j] = informer[j]
      BY <2>1, <2>2 DEF IInv, TypeOK
  <2>6. ASSUME NEW j \in Kinds, informer'[j].pc = "lock"
        PROVE  informer'[j].version = stored'[informer'[j].object] + 1
    <3>1. j # k /\ informer'[j] = informer[j] /\ informer[j].pc = "lock"
        BY <2>5, <2>6
    <3>2. informer[j].object \in Objects /\ KindOf[informer[j].object] = j
        BY <1>1, <3>1 DEF InformerInv, IInv, TypeOK, Idle
    <3>3. informer[j].object # o
        BY <2>3, <3>1, <3>2
    <3> QED BY <2>4, <3>1, <3>2, <3>3 DEF VersionInv
  <2>7. \A p \in pending' : p[3] <= stored'[p[2]]
    <3>1. \A p \in pending : p[2] \in Objects /\ p[3] \in Nat /\ p[3] <= stored[p[2]]
        BY <1>1 DEF VersionInv, Versions
    <3> QED BY <2>1, <2>4, <3>1
  <2>8. \A l \in Listeners : \A i \in item'[l] : i[2] <= stored'[i[1]]
    <3>1. \A l \in Listeners : \A i \in item[l] : i[1] \in Objects /\ i[2] \in Nat /\ i[2] <= stored[i[1]]
        BY <1>1 DEF VersionInv, Versions
    <3> QED BY <2>1, <2>4, <3>1
  <2>9. \A l \in Listeners : \A x \in Objects : last'[l][x] <= stored'[x]
    <3>1. \A l \in Listeners : \A x \in Objects : last[l][x] \in Nat /\ last[l][x] <= stored[x]
        BY <1>1 DEF VersionInv
    <3> QED BY <2>1, <2>4, <3>1
  <2> QED BY <2>6, <2>7, <2>8, <2>9 DEF VersionInv
<1>4. ASSUME NEW k \in Kinds, Notify(k) PROVE VersionInv'
  <2>1. /\ informer[k].pc = "rlock" /\ informer' = [informer EXCEPT ![k] = Idle]
        /\ pending' = pending \cup {<<l, informer[k].object, informer[k].version>> :
                                        l \in {l \in chans : KindOf[l] = k}}
        /\ UNCHANGED <<stored, item, last>>
      BY <1>4 DEF Notify, replayVars, clientVars
  <2>2. informer[k].object \in Objects /\ informer[k].version = stored[informer[k].object]
      BY <1>1, <2>1 DEF InformerInv, IInv, TypeOK, Idle
  <2>3. \A j \in Kinds : informer'[j].pc = "lock" => informer'[j] = informer[j]
      BY <2>1 DEF IInv, TypeOK, Idle
  <2>4. \A p \in pending' : p[3] <= stored[p[2]]
      BY <1>1, <2>1, <2>2 DEF VersionInv
  <2> QED BY <2>1, <2>3, <2>4 DEF VersionInv
<1>5. ASSUME NEW l \in Listeners, ReceiveChange(l) PROVE VersionInv'
  <2>1. PICK p \in pending : p[1] = l /\ Receive(l, p[2], p[3]) /\ pending' = pending \ {p}
      BY <1>5 DEF ReceiveChange
  <2>2. p[2] \in Objects /\ p[3] \in Versions /\ p[3] <= stored[p[2]]
      BY <1>1, <2>1 DEF VersionInv
  <2>3. UNCHANGED <<stored, informer, item>>
      BY <1>5 DEF ReceiveChange, informerVars, replayVars
  <2>4. \A m \in Listeners : \A x \in Objects : last'[m][x] = last[m][x] \/ (x = p[2] /\ last'[m][x] = p[3])
      BY <1>1, <2>1, <2>2, ReceivedVersion
  <2>5. \A m \in Listeners : \A x \in Objects : last'[m][x] <= stored[x]
      BY <2>2, <2>4 DEF VersionInv
  <2> QED BY <2>1, <2>3, <2>5 DEF VersionInv
<1>6. ASSUME NEW l \in Listeners, ReplayNext(l) PROVE VersionInv'
  <2>1. PICK o \in todo[l] : item' = [item EXCEPT ![l] = {<<o, stored[o]>>}]
      BY <1>6 DEF ReplayNext
  <2>2. o \in Objects /\ stored[o] \in Nat
      BY <1>1, <2>1 DEF TypeOK
  <2>3. UNCHANGED <<stored, informer, pending, last>>
      BY <1>6 DEF ReplayNext, informerVars, clientVars
  <2>4. \A m \in Listeners : \A i \in item'[m] : i \in item[m] \/ i = <<o, stored[o]>>
      BY <1>1, <2>1
  <2>5. \A m \in Listeners : \A i \in item'[m] : i[2] <= stored[i[1]]
      BY <2>2, <2>4 DEF VersionInv
  <2> QED BY <2>3, <2>5 DEF VersionInv
<1>7. ASSUME NEW l \in Listeners, ReplaySend(l) PROVE VersionInv'
  <2>1. PICK i \in item[l] : Receive(l, i[1], i[2])
      BY <1>7 DEF ReplaySend
  <2>2. i[1] \in Objects /\ i[2] \in Versions /\ i[2] <= stored[i[1]]
      BY <1>1, <2>1 DEF VersionInv
  <2>3. item' = [item EXCEPT ![l] = {}] /\ UNCHANGED <<stored, informer, pending>>
      BY <1>7 DEF ReplaySend, informerVars
  <2>4. \A m \in Listeners : \A x \in Objects : last'[m][x] = last[m][x] \/ (x = i[1] /\ last'[m][x] = i[2])
      BY <1>1, <2>1, <2>2, ReceivedVersion
  <2>5. \A m \in Listeners : \A x \in Objects : last'[m][x] <= stored[x]
      BY <2>2, <2>4 DEF VersionInv
  <2>6. \A m \in Listeners : item'[m] \subseteq item[m]
      BY <1>1, <2>3
  <2> QED BY <2>3, <2>5, <2>6 DEF VersionInv
<1>8. ASSUME UNCHANGED <<stored, informer, pending, item, last>> PROVE VersionInv'
    BY <1>8 DEF VersionInv
<1>9. CASE \/ UNCHANGED vars \/ \E g \in Kinds \cup Listeners : AnnounceLock(g)
           \/ \E l \in Listeners : \/ Watch(l) \/ StreamDone(l) \/ AddListener(l) \/ RemoveListener(l)
                                   \/ ReplayLock(l) \/ ReplayDone(l)
  <2>1. UNCHANGED <<stored, informer, pending, item, last>>
      BY <1>9 DEF vars, AnnounceLock, Watch, StreamDone, AddListener, RemoveListener, ReplayLock, ReplayDone,
         informerVars, replayVars, clientVars
  <2> QED BY <1>8, <2>1
<1> QED BY <1>2, <1>3, <1>4, <1>5, <1>6, <1>7, <1>9 DEF Next, InformerStep, WatchStep, ReplayStep

LEMMA SeenKept == ASSUME IInv, SeenInv, [Next /\ InOrder]_vars PROVE SeenInv'
<1> USE ObjectWatcherAssumption
<1>1. /\ TypeOK
      /\ pending \subseteq Listeners \X Objects \X Versions
      /\ item \in [Listeners -> SUBSET (Objects \X Versions)]
      /\ seen \in [Listeners -> SUBSET (Objects \X Versions)]
      /\ last \in [Listeners -> [Objects -> 0..MaxVersion]]
    BY DEF IInv, TypeOK
<1>2. CASE UNCHANGED clientVars
    BY <1>2 DEF SeenInv, clientVars
<1>3. ASSUME NEW l \in Listeners, NEW o \in Objects, NEW v \in Versions, Receive(l, o, v), InOrder
      PROVE  SeenInv'
  <2>1. last' \in [Listeners -> [Objects -> 0..MaxVersion]]
      BY <1>1, <1>3, ReceiveSends
  <2>2. ASSUME NEW m \in Listeners, NEW i \in seen'[m] PROVE i[2] <= last'[m][i[1]]
    <3>1. CASE i \in seen[m]
      <4>1. i[1] \in Objects /\ i[2] \in Nat /\ i[2] <= last[m][i[1]]
          BY <1>1, <3>1 DEF SeenInv, Versions
      <4>2. last[m][i[1]] <= last'[m][i[1]]
          BY <1>3, <4>1 DEF InOrder
      <4>3. last[m][i[1]] \in Nat /\ last'[m][i[1]] \in Nat
          BY <1>1, <2>1, <4>1
      <4> QED BY <4>1, <4>2, <4>3
    <3>2. CASE i \notin seen[m]
      <4>1. m = l /\ i = <<o, v>> /\ last'[m][o] = v
          BY <1>1, <1>3, <2>2, <3>2, ReceivedVersion
      <4> QED BY <4>1 DEF Versions
    <3> QED BY <3>1, <3>2
  <2> QED BY <2>2 DEF SeenInv
<1>4. CASE Next /\ InOrder /\ \E l \in Listeners : ReceiveChange(l)
  <2>1. PICK l \in Listeners, p \in pending : p[1] = l /\ Receive(l, p[2], p[3])
      BY <1>4 DEF ReceiveChange
  <2>2. p[2] \in Objects /\ p[3] \in Versions
      BY <1>1
  <2> QED BY <1>3, <1>4, <2>1, <2>2
<1>5. CASE Next /\ InOrder /\ \E l \in Listeners : ReplaySend(l)
  <2>1. PICK l \in Listeners : ReplaySend(l)
      BY <1>5
  <2>2. PICK i \in item[l] : Receive(l, i[1], i[2])
      BY <2>1 DEF ReplaySend
  <2>3. i[1] \in Objects /\ i[2] \in Versions
      BY <1>1
  <2> QED BY <1>3, <1>5, <2>2, <2>3
<1>6. CASE Next /\ ~\E l \in Listeners : ReceiveChange(l) \/ ReplaySend(l)
  <2>1. UNCHANGED clientVars
      BY <1>6 DEF Next, InformerStep, WatchStep, ReplayStep, AnnounceLock, ObjectChanges, Store, Notify, Watch,
         StreamDone, AddListener, RemoveListener, ReplayLock, ReplayNext, ReplayDone
  <2> QED BY <1>2, <2>1
<1>7. CASE UNCHANGED vars
    BY <1>2, <1>7 DEF vars
<1> QED BY <1>4, <1>5, <1>6, <1>7

(* If updates are received in order, a client has the newest version of    *)
(* each of its objects once nothing of it is on its way: a sidecar is only *)
(* ever left with a stale object because the goroutine of an update was    *)
(* overtaken, by no other interleaving of registration, replay and update. *)
THEOREM OnlyOvertakingMakesStale == Spec /\ UpdatesInOrder => []WatchersConverge
<1>1. Init => VersionInv /\ SeenInv
    BY DEF Init, VersionInv, SeenInv, Idle
<1>2. ASSUME IInv, VersionInv, SeenInv PROVE WatchersConverge
  <2> SUFFICES ASSUME NEW l \in Listeners, pc[l] = "loop",
                      NEW o \in Matches[l] \cap Of(KindOf[l]), ~OnItsWay(l, o)
               PROVE  last[l][o] = stored[o]
      BY DEF WatchersConverge
  <2>1. o \in Objects
      BY DEF Of
  <2>2. stored[o] \in Nat /\ last[l][o] \in Nat
      BY <1>2, <2>1 DEF IInv, TypeOK
  <2>3. last[l][o] <= stored[o]
      BY <1>2, <2>1 DEF VersionInv
  <2>4. stored[o] > 0 => <<o, stored[o]>> \in seen[l]
      BY <1>2 DEF IInv, NoUpdateLost
  <2>5. stored[o] > 0 => stored[o] <= last[l][o]
      BY <1>2, <2>4 DEF SeenInv
  <2> QED BY <2>2, <2>3, <2>5
<1>3. ASSUME [Next]_vars, [InOrder]_vars PROVE [Next /\ InOrder]_vars
    BY <1>3
<1> QED BY <1>1, <1>2, <1>3, VersionsKept, SeenKept, Inductive, PTL DEF Spec, UpdatesInOrder

-----------------------------------------------------------------------------
(* The deadlock of a replay, and what an RPC that has left leaves behind.  *)

(* The replay of a listener sends an object to an RPC that has left its loop. *)
Stuck(l) == item[l] # {} /\ pc[l] \in {"remove", "gone"}

(* An RPC that has left its loop does not come back.                       *)
LEMMA LeftStays ==
    ASSUME IInv, [Next]_vars, NEW l \in Listeners, pc[l] \in {"remove", "gone"}
    PROVE  pc'[l] \in {"remove", "gone"}
<1>1. pc \in [Listeners -> {"idle", "add", "loop", "remove", "gone"}]
    BY DEF IInv, TypeOK
<1>2. CASE \E m \in Listeners : Watch(m) \/ StreamDone(m) \/ AddListener(m) \/ RemoveListener(m)
    BY <1>1, <1>2 DEF Watch, StreamDone, AddListener, RemoveListener
<1>3. CASE ~\E m \in Listeners : Watch(m) \/ StreamDone(m) \/ AddListener(m) \/ RemoveListener(m)
  <2>1. UNCHANGED pc
      BY <1>3 DEF Next, InformerStep, WatchStep, ReplayStep, vars, AnnounceLock, ObjectChanges, Store, Notify,
         ReceiveChange, ReplayLock, ReplayNext, ReplaySend, ReplayDone
  <2> QED BY <2>1
<1> QED BY <1>2, <1>3

LEMMA StuckStep ==
    ASSUME IInv, [Next]_vars, NEW l \in Listeners, Stuck(l)
    PROVE  /\ Stuck(l)' /\ UNCHANGED <<stored, chans>>
           /\ \A g \in Kinds \cup Listeners : ~WriteLocked(mu, g)
<1>1. replay[l] = "sending" /\ l \in mu.readers
    BY DEF IInv, LockInv, Stuck
<1>2. \A g \in Kinds \cup Listeners : ~WriteLocked(mu, g)
    BY <1>1 DEF WriteLocked
<1>3. /\ ~\E k \in Kinds : Store(k)
      /\ ~\E m \in Listeners : AddListener(m) \/ RemoveListener(m)
    BY <1>2 DEF Store, AddListener, RemoveListener
<1>4. UNCHANGED <<stored, chans>>
    BY <1>3 DEF Next, InformerStep, WatchStep, ReplayStep, vars, informerVars, AnnounceLock, ObjectChanges,
       Notify, Watch, ReceiveChange, StreamDone, ReplayLock, ReplayNext, ReplaySend, ReplayDone
<1>5. item'[l] = item[l]
  <2>1. item \in [Listeners -> SUBSET (Objects \X Versions)]
      BY DEF IInv, TypeOK
  <2>2. CASE \E m \in Listeners : ReplayNext(m) \/ ReplaySend(m)
    <3>1. PICK m \in Listeners : ReplayNext(m) \/ ReplaySend(m)
        BY <2>2
    <3>2. m # l
        BY <3>1 DEF ReplayNext, ReplaySend, Receive, Stuck
    <3> QED BY <2>1, <3>1, <3>2 DEF ReplayNext, ReplaySend
  <2>3. CASE ~\E m \in Listeners : ReplayNext(m) \/ ReplaySend(m)
    <3>1. UNCHANGED item
        BY <1>3, <2>3 DEF Next, InformerStep, WatchStep, ReplayStep, vars, replayVars, AnnounceLock,
           ObjectChanges, Notify, Watch, ReceiveChange, StreamDone, ReplayLock, ReplayDone
    <3> QED BY <3>1
  <2> QED BY <2>2, <2>3
<1> QED BY <1>2, <1>4, <1>5, LeftStays DEF Stuck

(* A replay that is stuck stays so, and with it the operator: no informer  *)
(* stores an update, of either kind, and no RPC comes or goes any more.    *)
THEOREM StuckForEver ==
    ASSUME NEW l \in Listeners
    PROVE  Spec => [](Stuck(l) =>
                        /\ [](Stuck(l) /\ \A g \in Kinds \cup Listeners : ~WriteLocked(mu, g))
                        /\ [][UNCHANGED <<stored, chans>>]_vars)
<1>1. ASSUME IInv, [Next]_vars, Stuck(l)
      PROVE  /\ Stuck(l)' /\ [UNCHANGED <<stored, chans>>]_vars
             /\ \A g \in Kinds \cup Listeners : ~WriteLocked(mu, g)
    BY <1>1, StuckStep
<1> QED BY <1>1, Inductive, PTL DEF Spec

(* A goroutine that waits to send an update to an RPC that has left its    *)
(* loop waits for ever: what an RPC leaves in flight is never freed.       *)
THEOREM SendersAreLeftBehind ==
    ASSUME NEW p \in Listeners \X Objects \X Versions
    PROVE  Spec => [](p \in pending /\ pc[p[1]] \in {"remove", "gone"} => [](p \in pending))
<1>1. ASSUME IInv, [Next]_vars, p \in pending, pc[p[1]] \in {"remove", "gone"}
      PROVE  (p \in pending)' /\ (pc[p[1]] \in {"remove", "gone"})'
  <2>1. pc'[p[1]] \in {"remove", "gone"}
      BY <1>1, LeftStays
  <2>2. CASE \E m \in Listeners : ReceiveChange(m)
    <3>1. PICK m \in Listeners, q \in pending : q[1] = m /\ Receive(m, q[2], q[3]) /\ pending' = pending \ {q}
        BY <2>2 DEF ReceiveChange
    <3>2. p # q
        BY <1>1, <3>1 DEF Receive
    <3> QED BY <1>1, <2>1, <3>1, <3>2
  <2>3. CASE ~\E m \in Listeners : ReceiveChange(m)
    <3>1. pending \subseteq pending'
        BY <1>1, <2>3 DEF Next, InformerStep, WatchStep, ReplayStep, vars, AnnounceLock, ObjectChanges, Store,
           Notify, Watch, StreamDone, AddListener, RemoveListener, ReplayLock, ReplayNext, ReplaySend, ReplayDone
    <3> QED BY <1>1, <2>1, <3>1
  <2> QED BY <2>2, <2>3
<1> QED BY <1>1, Inductive, PTL DEF Spec

=============================================================================
