----------------------- MODULE ComponentsManager_proofs -----------------------
(***************************************************************************)
(* The safety of ComponentsManager for any components and any number of    *)
(* updates.                                                                *)
(***************************************************************************)
EXTENDS ComponentsManager, TLAPS

ManagerPc == {"recv", "check", "close", "init", "install", "store", "publish", "return", "ended"}

(* What the local variables of addOrUpdateComponent are along its way: the *)
(* spec has passed the switch, and the operation tells whether the map of  *)
(* components has an entry for it.                                         *)
LocalsInv ==
    /\ pc \notin {"recv", "ended"} => spec \in Specs
    /\ pc \in {"close", "init", "install"} => spec.type \in PubSubTypes
    /\ pc \in {"store", "publish"} => spec.type \notin OtherTypes
    /\ pc = "close" => operation = "Update"
    /\ pc \in {"close", "init", "install", "store"} =>
          (operation = "Update" <=> components[Key(spec)] # None)
    /\ err => pc \in {"store", "return"} /\ spec.type \in PubSubTypes

(* Every instance belongs to a stored component, but for the one that was  *)
(* made last and whose component is about to be stored.                    *)
MadeInv ==
    \A i \in 1..Len(made) :
        /\ made[i].spec.type \in PubSubTypes
        /\ \/ components[Key(made[i].spec)] # None
           \/ i = Len(made) /\ made[i].spec = spec /\ pc \in {"install", "store"} /\ ~err

(* An instance is installed under its own name. *)
NameInv ==
    \A n \in Names : pubSubInstances[n] # 0 => made[pubSubInstances[n]].spec.name = n

(* The instance of the update under way is made, and then installed. *)
NewestInv ==
    /\ pc = "install" => Len(made) > 0 /\ made[Len(made)] = [spec |-> spec, open |-> TRUE]
    /\ pc \in {"store", "publish"} /\ ~err /\ spec.type \in PubSubTypes =>
          /\ pubSubInstances[spec.name] # 0
          /\ made[pubSubInstances[spec.name]] = [spec |-> spec, open |-> TRUE]

(* The name whose pubsub is being replaced. *)
Pending(n) ==
    pc \in {"init", "install", "store"} /\ n = spec.name /\ spec.type \in PubSubTypes

(* The maps agree on every other name, at every step. *)
MatchInv ==
    \A n \in Names \ broken :
        ~Pending(n) =>
            /\ pubSubInstances[n] # 0 =>
                  LET m == made[pubSubInstances[n]] IN
                  m.open /\ components[Key(m.spec)] = m.spec.metadata
            /\ (\E t \in PubSubTypes : components[<<n, t>>] # None) => pubSubInstances[n] # 0

(* Before an instance is made, the earlier ones of its component are       *)
(* closed; an open instance of the name is then of another type.           *)
ClosedInv ==
    \A i \in 1..Len(made) :
        LET n == made[i].spec.name IN
        made[i].open /\ SameTypes(n) =>
            /\ i = pubSubInstances[n] \/ (i = Len(made) /\ pc = "install")
            /\ pc = "init" /\ n = spec.name => made[i].spec.type # spec.type
            /\ pc = "install" /\ n = spec.name => i = Len(made)

(* Since the last refresh nothing was replaced but by the update under way, *)
(* which is one that leads to a refresh.                                   *)
RefreshInv ==
    \A i \in 1..Len(made) :
        i > refreshed /\ SameTypes(made[i].spec.name) =>
            \/ IsFirst(i)
            \/ /\ i = Len(made) /\ operation = "Update" /\ ~err
               /\ pc \in {"install", "store", "publish"}

IInv ==
    /\ TypeOK /\ LocalsInv /\ MadeInv /\ NameInv /\ NewestInv
    /\ MatchInv /\ ClosedInv /\ RefreshInv

(* A sequence of instances is a function on the numbers up to its length.  *)
LEMMA MadeType ==
    ASSUME TypeOK
    PROVE  /\ Len(made) \in Nat /\ DOMAIN made = 1..Len(made)
           /\ \A i \in 1..Len(made) : /\ made[i].spec \in Specs /\ made[i].open \in BOOLEAN
                                      /\ Key(made[i].spec) \in Names \X Types
<1> DEFINE Instances == [spec : Specs, open : BOOLEAN]
<1>1. made \in Seq(Instances)
    BY DEF TypeOK
<1>2. Len(made) \in Nat /\ DOMAIN made = 1..Len(made)
    BY <1>1
<1>3. ASSUME NEW i \in 1..Len(made)
      PROVE  /\ made[i].spec \in Specs /\ made[i].open \in BOOLEAN
             /\ Key(made[i].spec) \in Names \X Types
  <2> HIDE DEF Instances
  <2>1. made[i] \in Instances
      BY <1>1
  <2> USE DEF Instances
  <2>2. made[i].spec \in Specs /\ made[i].open \in BOOLEAN
      BY <2>1
  <2> QED BY <2>2 DEF Specs, Key
<1> QED BY <1>2, <1>3

(* Whether an instance is the first of its name, and whether all have one  *)
(* type, depends on the specs only.                                        *)
LEMMA SameSpecs ==
    ASSUME TypeOK, TypeOK', Len(made') = Len(made),
           \A i \in 1..Len(made) : made'[i].spec = made[i].spec
    PROVE  /\ \A i \in 1..Len(made) : IsFirst(i)' = IsFirst(i)
           /\ \A n : SameTypes(n)' = SameTypes(n)
<1>1. DOMAIN made = 1..Len(made) /\ DOMAIN made' = 1..Len(made)
    BY MadeType DEF TypeOK
<1> QED BY <1>1 DEF IsFirst, SameTypes

(* The manager starts in the invariant. *)
LEMMA InitIInv == Init => IInv
<1> SUFFICES ASSUME Init PROVE IInv
    OBVIOUS
<1> USE ComponentsManagerAssumption DEF Init
<1>1. TypeOK
  <2>1. made \in Seq([spec : Specs, open : BOOLEAN]) /\ Len(made) = 0
      OBVIOUS
  <2>2. pubSubInstances \in [Names -> 0..Len(made)] /\ refreshed \in 0..Len(made)
      BY <2>1
  <2>3. components \in [Names \X Types -> Metadata \cup {None}]
      OBVIOUS
  <2> HIDE DEF Init
  <2>4. spec = None /\ operation = "Insert" /\ err = FALSE /\ updates = 0 /\ watcher = "starting"
        /\ pc = "recv" /\ broken = {}
      BY DEF Init
  <2>5. updates \in 0..MaxUpdates
      BY <2>4
  <2> QED BY <2>1, <2>2, <2>3, <2>4, <2>5 DEF TypeOK
<1>2. Len(made) = 0 /\ 1..Len(made) = {}
    OBVIOUS
<1>3. LocalsInv /\ NameInv /\ NewestInv
    BY DEF LocalsInv, NameInv, NewestInv
<1>4. MatchInv
    BY DEF MatchInv, Types
<1>5. MadeInv /\ ClosedInv /\ RefreshInv
    BY <1>2 DEF MadeInv, ClosedInv, RefreshInv
<1> QED BY <1>1, <1>3, <1>4, <1>5 DEF IInv

(* Nothing in the invariant but its type speaks of the watcher. *)
LEMMA UnchangedPreserves ==
    ASSUME IInv, UNCHANGED <<mapVars, mgrVars, history>>,
           watcher' \in {"starting", "recv", "refresh", "ended"}
    PROVE  IInv'
<1> USE DEF IInv, mapVars, mgrVars, history
<1>1. TypeOK'
    BY DEF TypeOK
<1>2. LocalsInv' /\ MadeInv' /\ NameInv' /\ NewestInv' /\ MatchInv'
    BY DEF LocalsInv, MadeInv, NameInv, NewestInv, MatchInv, Pending
<1>3. ClosedInv' /\ RefreshInv'
    BY DEF ClosedInv, RefreshInv, IsFirst, SameTypes
<1> QED BY <1>1, <1>2, <1>3

(* A step that writes neither map, makes no instance and refreshes nobody. *)
LEMMA WatcherPreserves ==
    ASSUME IInv, StartWatcher \/ RefreshReturns \/ WatcherEnds
    PROVE  IInv'
<1>1. UNCHANGED <<mapVars, mgrVars, history>> /\ watcher' \in {"starting", "recv", "refresh", "ended"}
    BY DEF StartWatcher, RefreshReturns, WatcherEnds
<1> QED
    BY <1>1, UnchangedPreserves DEF mapVars, mgrVars, history
(* Taking a spec and giving it up change neither map. *)
LEMMA LoopPreserves ==
    ASSUME IInv, Receive \/ LoaderEnds \/ Ignore \/ Reject \/ LogError
    PROVE  IInv'
<1> USE ComponentsManagerAssumption DEF IInv, mapVars, history
<1>1. /\ UNCHANGED <<mapVars, watcher, history>> /\ pc' \in {"recv", "check", "ended"}
      /\ pc \in {"recv", "check", "return"}
      /\ pc' = "check" => spec' \in Specs /\ err' = FALSE
      /\ pc' = "recv" => err' = FALSE
      /\ pc' = "ended" => pc = "recv" /\ UNCHANGED <<spec, err>>
      /\ spec' \in Specs \cup {None} /\ operation' \in {"Insert", "Update"} /\ err' \in BOOLEAN
      /\ updates' \in 0..MaxUpdates
  <2>1. spec \in Specs \cup {None} /\ operation \in {"Insert", "Update"} /\ err \in BOOLEAN
        /\ updates \in 0..MaxUpdates /\ (err => pc \in {"store", "return"})
      BY DEF TypeOK, LocalsInv
  <2> HIDE DEF IInv
  <2>2. CASE Receive
      BY <2>1, <2>2 DEF Receive, Goto
  <2>3. CASE LoaderEnds
      BY <2>1, <2>3 DEF LoaderEnds, Goto
  <2>4. CASE Ignore \/ Reject \/ LogError
      BY <2>1, <2>4 DEF Ignore, Reject, LogError, Return, Goto
  <2> QED BY <2>2, <2>3, <2>4
<1>2. TypeOK'
    BY <1>1 DEF TypeOK
<1>3. LocalsInv'
    BY <1>1 DEF LocalsInv
<1>4. MadeInv' /\ NameInv' /\ NewestInv' /\ MatchInv'
    BY <1>1 DEF MadeInv, NameInv, NewestInv, MatchInv, Pending
<1>5. ClosedInv' /\ RefreshInv'
    BY <1>1 DEF ClosedInv, RefreshInv, IsFirst, SameTypes
<1> QED BY <1>2, <1>3, <1>4, <1>5

(* The switch. *)
LEMMA DispatchPreserves ==
    ASSUME IInv, Dispatch
    PROVE  IInv'
<1> USE DEF IInv, mapVars, history
<1>1. /\ UNCHANGED <<mapVars, spec, err, updates, watcher, history>>
      /\ pc = "check" /\ pc' \in {"store", "close", "init"}
      /\ pc' \in {"close", "init"} <=> spec.type \notin PlainTypes
      /\ pc' = "close" => operation' = "Update"
      /\ operation' \in {"Insert", "Update"}
      /\ operation' = "Update" <=> components[Key(spec)] # None
    BY DEF Dispatch, Goto
<1>2. spec \in Specs /\ spec.type \in Types /\ spec.type \notin OtherTypes /\ ~err
    BY DEF Dispatch, LocalsInv, Specs
<1>3. spec.type \notin PlainTypes <=> spec.type \in PubSubTypes
    BY <1>2, ComponentsManagerAssumption DEF Types
<1>4. TypeOK' /\ LocalsInv'
    BY <1>1, <1>2, <1>3 DEF TypeOK, LocalsInv
<1>5. MadeInv' /\ NameInv' /\ MatchInv'
    BY <1>1 DEF MadeInv, NameInv, MatchInv, Pending
<1>6. NewestInv'
    BY <1>1, <1>3 DEF NewestInv
<1>7. RefreshInv'
    BY <1>1 DEF RefreshInv, IsFirst, SameTypes
<1>8. ClosedInv'
  <2> SUFFICES ASSUME NEW i \in 1..Len(made), made[i].open, SameTypes(made[i].spec.name)
               PROVE  /\ i = pubSubInstances[made[i].spec.name]
                      /\ pc' = "init" /\ made[i].spec.name = spec.name =>
                            made[i].spec.type # spec.type
      BY <1>1 DEF ClosedInv, SameTypes
  <2>1. i = pubSubInstances[made[i].spec.name]
      BY <1>1 DEF ClosedInv
  <2>2. components[Key(made[i].spec)] # None
      BY <1>1 DEF MadeInv
  <2>3. pc' = "init" => components[Key(spec)] = None
      BY DEF Dispatch, Goto
  <2> QED BY <2>1, <2>2, <2>3 DEF Key
<1> QED BY <1>4, <1>5, <1>6, <1>7, <1>8
(* Closing the instance of the name leaves the others as they are. *)
LEMMA ClosePreserves ==
    ASSUME IInv, CloseOld \/ CloseFails
    PROVE  IInv'
<1> USE ComponentsManagerAssumption DEF IInv
<1>1. /\ UNCHANGED <<components, pubSubInstances, spec, operation, updates, watcher, broken, refreshed>>
      /\ pc = "close" /\ err = FALSE
      /\ pc' \in {"init", "store"} /\ err' = (pc' = "store")
      /\ spec \in Specs /\ spec.type \in PubSubTypes /\ spec.name \in Names /\ operation = "Update"
      /\ components[Key(spec)] # None
    BY DEF CloseOld, CloseFails, Goto, LocalsInv, TypeOK, Specs, history
<1> DEFINE Instances == [spec : Specs, open : BOOLEAN]
<1>2. /\ made \in Seq(Instances) /\ Instance \in 0..Len(made) /\ Len(made) \in Nat
    BY <1>1 DEF TypeOK, Instance
<1>3. made' = IF Instance = 0 THEN made ELSE [made EXCEPT ![Instance] = Closed(@)]
    BY DEF CloseOld, CloseFails
<1>4. /\ made' \in Seq(Instances) /\ Len(made') = Len(made)
      /\ \A i \in 1..Len(made) :
            /\ made'[i].spec = made[i].spec
            /\ i = Instance => ~made'[i].open
            /\ i # Instance => made'[i] = made[i]
  <2>1. CASE Instance = 0
      BY <1>2, <1>3, <2>1
  <2>2. CASE Instance # 0
    <3> HIDE DEF Instances
    <3>1. Instance \in 1..Len(made) /\ made[Instance] \in Instances
        BY <1>2, <2>2
    <3>2. DOMAIN made = 1..Len(made)
        BY <1>2
    <3>3. made' = [made EXCEPT ![Instance] = [spec |-> made[Instance].spec, open |-> FALSE]]
        BY <1>3, <2>2 DEF Closed
    <3>4. [spec |-> made[Instance].spec, open |-> FALSE] \in Instances
        BY <3>1 DEF Instances
    <3>5. made' \in Seq(Instances) /\ Len(made') = Len(made)
        BY <1>2, <3>1, <3>3, <3>4
    <3>6. \A i \in 1..Len(made) :
             made'[i] = IF i = Instance THEN [spec |-> made[Instance].spec, open |-> FALSE]
                                        ELSE made[i]
        BY <3>2, <3>3
    <3> QED BY <3>5, <3>6
  <2> QED BY <2>1, <2>2
<1> HIDE DEF Instances
<1>5. TypeOK'
    BY <1>1, <1>4 DEF TypeOK, Instances
<1>6. LocalsInv'
    BY <1>1 DEF LocalsInv
<1>7. MadeInv'
    BY <1>1, <1>4 DEF MadeInv
<1>8. NameInv'
    BY <1>1, <1>4 DEF NameInv, TypeOK
<1>9. NewestInv'
    BY <1>1 DEF NewestInv
<1>10. MatchInv'
  <2> SUFFICES ASSUME NEW n \in Names \ broken, n # spec.name
               PROVE  /\ pubSubInstances[n] # 0 =>
                             LET m == made'[pubSubInstances[n]] IN
                             m.open /\ components[Key(m.spec)] = m.spec.metadata
                      /\ (\E t \in PubSubTypes : components[<<n, t>>] # None) => pubSubInstances[n] # 0
      BY <1>1 DEF MatchInv, Pending
  <2>1. pubSubInstances[n] \in 0..Len(made)
      BY DEF TypeOK
  <2>2. pubSubInstances[n] # 0 => pubSubInstances[n] # Instance
      BY <1>1 DEF NameInv, Instance
  <2> QED BY <1>1, <1>2, <1>4, <2>1, <2>2 DEF MatchInv, Pending
<1>11. /\ \A i \in 1..Len(made) : IsFirst(i)' = IsFirst(i)
       /\ \A n : SameTypes(n)' = SameTypes(n)
    BY <1>4, <1>5, SameSpecs
<1>12. ClosedInv'
    BY <1>1, <1>4, <1>11 DEF ClosedInv, Instance
<1>13. RefreshInv'
    BY <1>1, <1>4, <1>11 DEF RefreshInv
<1> QED BY <1>5, <1>6, <1>7, <1>8, <1>9, <1>10, <1>12, <1>13

(* What an instance added at the end changes. *)
LEMMA MadeAppended ==
    ASSUME TypeOK, spec \in Specs, made' = Append(made, [spec |-> spec, open |-> TRUE])
    PROVE  /\ made' \in Seq([spec : Specs, open : BOOLEAN])
           /\ Len(made) \in Nat /\ Len(made') = Len(made) + 1
           /\ \A i \in 1..Len(made) : made'[i] = made[i]
           /\ made'[Len(made) + 1] = [spec |-> spec, open |-> TRUE]
           /\ DOMAIN made = 1..Len(made) /\ DOMAIN made' = 1..(Len(made) + 1)
<1> DEFINE Instances == [spec : Specs, open : BOOLEAN]
<1>1. made \in Seq(Instances) /\ [spec |-> spec, open |-> TRUE] \in Instances
    BY DEF TypeOK
<1> HIDE DEF Instances
<1> QED BY <1>1 DEF Instances

(* The new instance is the last one, and open; the earlier ones of its     *)
(* component are closed, and if there are any the operation is an update.  *)
LEMMA InitPubSubPreserves ==
    ASSUME IInv, InitPubSub
    PROVE  IInv'
<1> USE ComponentsManagerAssumption DEF IInv
<1>1. /\ UNCHANGED <<components, pubSubInstances, spec, operation, err, updates, watcher, broken, refreshed>>
      /\ pc = "init" /\ pc' = "install" /\ err = FALSE
      /\ spec \in Specs /\ spec.type \in PubSubTypes /\ spec.name \in Names
      /\ operation = "Update" <=> components[Key(spec)] # None
    BY DEF InitPubSub, Goto, LocalsInv, TypeOK, Specs, history
<1>2. /\ made' \in Seq([spec : Specs, open : BOOLEAN])
      /\ Len(made) \in Nat /\ Len(made') = Len(made) + 1
      /\ \A i \in 1..Len(made) : made'[i] = made[i]
      /\ made'[Len(made) + 1] = [spec |-> spec, open |-> TRUE]
      /\ DOMAIN made = 1..Len(made) /\ DOMAIN made' = 1..(Len(made) + 1)
    BY <1>1, MadeAppended DEF InitPubSub
<1>3. TypeOK'
  <2>1. pubSubInstances \in [Names -> 0..(Len(made) + 1)] /\ refreshed \in 0..(Len(made) + 1)
      BY <1>2 DEF TypeOK
  <2> QED BY <1>1, <1>2, <2>1 DEF TypeOK
<1>4. LocalsInv'
    BY <1>1 DEF LocalsInv
<1>5. MadeInv'
    BY <1>1, <1>2 DEF MadeInv
<1>6. \A n \in Names : pubSubInstances[n] # 0 =>
         pubSubInstances[n] \in 1..Len(made) /\ made'[pubSubInstances[n]] = made[pubSubInstances[n]]
    BY <1>2 DEF TypeOK
<1>7. NameInv'
    BY <1>1, <1>6 DEF NameInv
<1>8. NewestInv'
    BY <1>1, <1>2 DEF NewestInv
<1>9. MatchInv'
    BY <1>1, <1>6 DEF MatchInv, Pending
<1>10. \A n : SameTypes(n)' => SameTypes(n)
    BY <1>2 DEF SameTypes
<1>11. \A i \in 1..Len(made) : IsFirst(i) => IsFirst(i)'
    BY <1>2 DEF IsFirst
<1>12. ClosedInv'
  <2> SUFFICES ASSUME NEW i \in 1..(Len(made) + 1), made'[i].open, SameTypes(made[i].spec.name)'
               PROVE  /\ i = pubSubInstances[made'[i].spec.name] \/ i = Len(made) + 1
                      /\ made'[i].spec.name = spec.name => i = Len(made) + 1
      BY <1>1, <1>2 DEF ClosedInv
  <2>1. CASE i = Len(made) + 1
      BY <2>1
  <2>2. CASE i \in 1..Len(made)
    <3>1. made'[i] = made[i] /\ SameTypes(made[i].spec.name)
        BY <1>2, <1>10, <2>2
    <3>2. /\ i = pubSubInstances[made[i].spec.name]
          /\ made[i].spec.name = spec.name => made[i].spec.type # spec.type
        BY <1>1, <2>2, <3>1 DEF ClosedInv
    <3>3. made[i].spec.name = spec.name => made[i].spec.type = spec.type
        BY <1>2, <2>2, <3>1 DEF SameTypes
    <3> QED BY <3>1, <3>2, <3>3
  <2> QED BY <1>2, <2>1, <2>2
<1>13. RefreshInv'
  <2> SUFFICES ASSUME NEW i \in 1..(Len(made) + 1), i > refreshed, SameTypes(made[i].spec.name)'
               PROVE  IsFirst(i)' \/ (i = Len(made) + 1 /\ operation = "Update")
      BY <1>1, <1>2 DEF RefreshInv
  <2>1. CASE i \in 1..Len(made)
    <3>1. IsFirst(i)
        BY <1>1, <1>2, <1>10, <2>1 DEF RefreshInv
    <3> QED BY <1>11, <2>1, <3>1
  <2>2. CASE i = Len(made) + 1 /\ operation # "Update"
    <3>1. components[Key(spec)] = None
        BY <1>1, <2>2
    <3>2. ASSUME NEW j \in 1..Len(made) PROVE made[j].spec.name # spec.name
      <4>1. components[Key(made[j].spec)] # None
          BY <1>1 DEF MadeInv
      <4>2. made[j].spec.name = spec.name => made[j].spec.type = spec.type
          BY <1>2, <2>2 DEF SameTypes
      <4> QED BY <3>1, <4>1, <4>2 DEF Key
    <3> QED BY <1>2, <2>2, <3>2 DEF IsFirst
  <2> QED BY <1>2, <2>1, <2>2
<1> QED BY <1>3, <1>4, <1>5, <1>7, <1>8, <1>9, <1>12, <1>13
(* A component that cannot be initialised leaves the maps as they are. *)
LEMMA InitFailsPreserves ==
    ASSUME IInv, InitFails
    PROVE  IInv'
<1> USE DEF IInv, mapVars, history
<1>1. /\ UNCHANGED <<mapVars, spec, operation, updates, watcher, history>>
      /\ pc = "init" /\ pc' = "store" /\ err' = TRUE
    BY DEF InitFails, Goto
<1>2. TypeOK'
    BY <1>1 DEF TypeOK
<1>3. LocalsInv' /\ MadeInv' /\ NameInv' /\ NewestInv' /\ MatchInv'
    BY <1>1, ComponentsManagerAssumption DEF LocalsInv, MadeInv, NameInv, NewestInv, MatchInv, Pending
<1>4. ClosedInv' /\ RefreshInv'
    BY <1>1 DEF ClosedInv, RefreshInv, IsFirst, SameTypes
<1> QED BY <1>2, <1>3, <1>4

(* Installing the new instance leaves no other of its component open. *)
LEMMA InstallPreserves ==
    ASSUME IInv, Install
    PROVE  IInv'
<1> USE DEF IInv, history
<1>1. /\ UNCHANGED <<components, made, spec, operation, err, updates, watcher, broken, refreshed>>
      /\ pc = "install" /\ pc' = "store" /\ err = FALSE
      /\ pubSubInstances' = [pubSubInstances EXCEPT ![spec.name] = Len(made)]
    BY DEF Install, Goto, LocalsInv, TypeOK
<1>2. /\ spec \in Specs /\ spec.name \in Names /\ spec.type \in PubSubTypes
      /\ Len(made) \in Nat /\ Len(made) > 0 /\ made[Len(made)] = [spec |-> spec, open |-> TRUE]
      /\ pubSubInstances \in [Names -> 0..Len(made)]
    BY <1>1, MadeType DEF LocalsInv, NewestInv, Specs, TypeOK
<1>3. \A n \in Names : pubSubInstances'[n] = IF n = spec.name THEN Len(made) ELSE pubSubInstances[n]
    BY <1>1, <1>2
<1>4. TypeOK'
  <2>1. pubSubInstances' \in [Names -> 0..Len(made)]
      BY <1>1, <1>2
  <2> QED BY <1>1, <2>1 DEF TypeOK
<1>5. LocalsInv'
    BY <1>1, <1>2, ComponentsManagerAssumption DEF LocalsInv
<1>6. MadeInv'
    BY <1>1 DEF MadeInv
<1>7. NameInv' /\ NewestInv'
    BY <1>1, <1>2, <1>3 DEF NameInv, NewestInv
<1>8. MatchInv'
    BY <1>1, <1>2, <1>3 DEF MatchInv, Pending
<1>9. ClosedInv'
  <2>1. \A i \in 1..Len(made) : made[i].spec.name \in Names
      BY MadeType DEF Specs
  <2> QED BY <1>1, <1>2, <1>3, <2>1 DEF ClosedInv, SameTypes
<1>10. RefreshInv'
    BY <1>1 DEF RefreshInv, IsFirst, SameTypes
<1> QED BY <1>4, <1>5, <1>6, <1>7, <1>8, <1>9, <1>10

(* Storing the spec makes the maps agree on its name, or marks it broken.  *)
LEMMA StorePreserves ==
    ASSUME IInv, StoreComponent
    PROVE  IInv'
<1> USE ComponentsManagerAssumption DEF IInv
<1>1. /\ UNCHANGED <<made, pubSubInstances, spec, operation, err, updates, watcher, refreshed>>
      /\ pc = "store" /\ pc' = IF err THEN "return" ELSE "publish"
      /\ components' = [components EXCEPT ![Key(spec)] = spec.metadata]
      /\ broken' = IF err THEN broken \cup {spec.name}
                   ELSE IF spec.type \in PubSubTypes THEN broken \ {spec.name} ELSE broken
    BY DEF StoreComponent, Goto
<1>2. /\ spec \in Specs /\ spec.name \in Names /\ spec.type \in Types /\ spec.metadata \in Metadata
      /\ Key(spec) \in Names \X Types /\ spec.metadata # None /\ spec.type \notin OtherTypes
      /\ (err => spec.type \in PubSubTypes)
    BY <1>1 DEF LocalsInv, Specs, Key
<1>3. /\ components \in [Names \X Types -> Metadata \cup {None}]
      /\ \A k \in Names \X Types :
            components'[k] = IF k = Key(spec) THEN spec.metadata ELSE components[k]
      /\ components' \in [Names \X Types -> Metadata \cup {None}]
    BY <1>1, <1>2 DEF TypeOK
<1>4. TypeOK'
    BY <1>1, <1>2, <1>3 DEF TypeOK
<1>5. LocalsInv'
    BY <1>1, <1>2 DEF LocalsInv, TypeOK
<1>6. MadeInv'
    BY <1>1, <1>2, <1>3, MadeType DEF MadeInv
<1>7. NameInv' /\ NewestInv'
    BY <1>1 DEF NameInv, NewestInv
<1>8. MatchInv'
  <2> SUFFICES ASSUME NEW n \in Names \ broken'
               PROVE  /\ pubSubInstances[n] # 0 =>
                             LET m == made[pubSubInstances[n]] IN
                             m.open /\ components'[Key(m.spec)] = m.spec.metadata
                      /\ (\E t \in PubSubTypes : components'[<<n, t>>] # None) => pubSubInstances[n] # 0
      BY <1>1 DEF MatchInv
  <2>1. CASE n = spec.name /\ spec.type \in PubSubTypes
      BY <1>1, <1>2, <1>3, <2>1 DEF NewestInv
  <2>2. CASE ~(n = spec.name /\ spec.type \in PubSubTypes)
    <3>1. /\ pubSubInstances[n] # 0 =>
                 LET m == made[pubSubInstances[n]] IN
                 m.open /\ components[Key(m.spec)] = m.spec.metadata
          /\ (\E t \in PubSubTypes : components[<<n, t>>] # None) => pubSubInstances[n] # 0
        BY <1>1, <1>2, <2>2 DEF MatchInv, Pending
    <3>2. pubSubInstances[n] # 0 =>
             LET m == made[pubSubInstances[n]] IN
             /\ m.spec.name = n /\ m.spec.type \in PubSubTypes
             /\ Key(m.spec) \in Names \X Types /\ Key(m.spec) # Key(spec)
      <4>1. pubSubInstances[n] \in 0..Len(made) /\ Len(made) \in Nat
          BY MadeType DEF TypeOK
      <4>2. pubSubInstances[n] # 0 => pubSubInstances[n] \in 1..Len(made)
          BY <4>1
      <4>3. pubSubInstances[n] # 0 =>
               /\ made[pubSubInstances[n]].spec.name = n
               /\ made[pubSubInstances[n]].spec.type \in PubSubTypes
               /\ Key(made[pubSubInstances[n]].spec) \in Names \X Types
          BY <4>2, MadeType DEF NameInv, MadeInv
      <4> QED BY <2>2, <4>3 DEF Key
    <3>3. \A t \in PubSubTypes : <<n, t>> \in Names \X Types /\ <<n, t>> # Key(spec)
        BY <2>2 DEF Key, Types
    <3> QED BY <1>3, <3>1, <3>2, <3>3
  <2> QED BY <2>1, <2>2
<1>9. ClosedInv' /\ RefreshInv'
    BY <1>1 DEF ClosedInv, RefreshInv, IsFirst, SameTypes
<1> QED BY <1>4, <1>5, <1>6, <1>7, <1>8, <1>9

(* A refresh begins after each update, and after nothing else; an          *)
(* insertion has made the first instance of its component.                 *)
LEMMA PublishPreserves ==
    ASSUME IInv, PublishChange
    PROVE  IInv'
<1> USE ComponentsManagerAssumption DEF IInv, mapVars
<1>1. /\ UNCHANGED <<mapVars, broken, updates>>
      /\ pc = "publish" /\ pc' = "recv" /\ spec' = None /\ operation' = "Insert" /\ err' = FALSE
      /\ watcher' \in {"starting", "recv", "refresh", "ended"}
      /\ refreshed' = IF operation = "Update" THEN Len(made) ELSE refreshed
    BY DEF PublishChange, Return, Goto
<1>2. Len(made) \in Nat /\ refreshed' \in 0..Len(made) /\ refreshed <= refreshed'
    BY <1>1, MadeType DEF TypeOK
<1>3. TypeOK'
    BY <1>1, <1>2 DEF TypeOK
<1>4. LocalsInv' /\ MadeInv' /\ NameInv' /\ NewestInv' /\ MatchInv'
    BY <1>1 DEF LocalsInv, MadeInv, NameInv, NewestInv, MatchInv, Pending
<1>5. ClosedInv'
    BY <1>1 DEF ClosedInv, SameTypes
<1>6. RefreshInv'
    BY <1>1, <1>2 DEF RefreshInv, IsFirst, SameTypes, TypeOK
<1> QED BY <1>3, <1>4, <1>5, <1>6

(* The invariant holds throughout. *)
LEMMA Inductive == Spec => []IInv
<1>1. ASSUME IInv, [Next]_vars PROVE IInv'
  <2>1. CASE Next
      BY <1>1, <2>1, LoopPreserves, DispatchPreserves, ClosePreserves, InitPubSubPreserves,
         InitFailsPreserves, InstallPreserves, StorePreserves, PublishPreserves, WatcherPreserves
      DEF Next, ManagerStep
  <2>2. CASE UNCHANGED vars
    <3>1. watcher' \in {"starting", "recv", "refresh", "ended"}
        BY <1>1, <2>2 DEF vars, IInv, TypeOK
    <3> QED BY <1>1, <2>2, <3>1, UnchangedPreserves DEF vars
  <2> QED BY <1>1, <2>1, <2>2
<1> QED BY InitIInv, <1>1, PTL DEF Spec

(* Every variable keeps its type; in particular a name never refers to an  *)
(* instance that was not made.                                             *)
THEOREM TypeCorrect == Spec => []TypeOK
BY Inductive, PTL DEF IInv

(* The instance of a name is open and made from the spec stored for it,    *)
(* between any two updates, unless the last one failed.                    *)
THEOREM MapsAgree == Spec => []InstancesMatchComponents
<1>1. IInv => InstancesMatchComponents
    BY DEF IInv, MatchInv, Pending, InstancesMatchComponents
<1> QED BY <1>1, Inductive, PTL

(* No replaced instance stays open, at any point of an update. *)
THEOREM NoInstanceLeaks == Spec => []ReplacedInstancesAreClosed
<1>1. IInv => ReplacedInstancesAreClosed
    BY MadeType DEF IInv, ClosedInv, ReplacedInstancesAreClosed
<1> QED BY <1>1, Inductive, PTL

(* No replacement goes without a refresh. *)
THEOREM SubscribersAreTold == Spec => []ReplacementsAreRefreshed
<1>1. IInv => ReplacementsAreRefreshed
    BY MadeType DEF IInv, RefreshInv, ReplacementsAreRefreshed
<1> QED BY <1>1, Inductive, PTL

(* The refresh begins when the new instance is the one to subscribe to. *)
THEOREM RefreshFindsTheNewInstance == Spec => AnnouncedIsInstalled
<1> DEFINE Installed ==
        \E i \in DOMAIN made :
            i = pubSubInstances[spec.name] /\ made[i].spec = spec /\ made[i].open
<1>1. ASSUME IInv, pc = "publish", spec.type \in PubSubTypes
      PROVE  Installed
  <2>1. /\ pubSubInstances[spec.name] # 0 /\ spec.name \in Names
        /\ made[pubSubInstances[spec.name]] = [spec |-> spec, open |-> TRUE]
      BY <1>1 DEF IInv, LocalsInv, NewestInv, Specs
  <2>2. made \in Seq([spec : Specs, open : BOOLEAN]) /\ pubSubInstances \in [Names -> 0..Len(made)]
      BY <1>1 DEF IInv, TypeOK
  <2>3. pubSubInstances[spec.name] \in 1..Len(made) /\ DOMAIN made = 1..Len(made)
      BY <2>1, <2>2
  <2> QED BY <2>1, <2>3
<1>2. IInv => [pc = "publish" /\ PublishChange /\ spec.type \in PubSubTypes => Installed]_vars
    BY <1>1
<1> QED BY <1>2, Inductive, PTL DEF AnnouncedIsInstalled
=============================================================================
