---------------------- MODULE SubscriptionServer_proofs ----------------------
(***************************************************************************)
(* The safety of SubscriptionServer for any number of streams and of       *)
(* concurrent Refresh calls, and its refinement of SubscriptionLifecycle.  *)
(***************************************************************************)
EXTENDS SubscriptionServer, FiniteSetTheorems, TLAPS

(* Who may hold or want srv.mu: only a stream on its way in or out of the  *)
(* registry writes, exactly the Refresh calls that iterate read, and a     *)
(* Refresh that does not iterate has nothing left to send.                 *)
LockInv ==
    /\ mu.writer \in Streams \cup {NoOne}
    /\ mu.writer # NoOne => pc[mu.writer] \in {"getChan", "remove"}
    /\ mu.readers = {r \in Refreshers : rpc[r] = "sending"}
    /\ \A r \in Refreshers : rpc[r] # "sending" => todo[r] = {} /\ sendingTo[r] = NoOne

(* While a Refresh iterates, every channel it has still to send on is      *)
(* registered: the map it ranges over does not lose an entry under it.     *)
RefreshTargetsRegistered ==
    \A r \in Refreshers : todo[r] \cup ({sendingTo[r]} \ {NoOne}) \subseteq refreshChannels

CountInv == subsWaitGroup = Cardinality(Running)

ServeInv == serve = "returned" => Running = {}

IInv ==
    /\ TypeOK /\ LockInv /\ OneSubscriptionPerStream
    /\ RegistryMatchesStreams /\ RefreshTargetsRegistered
    /\ CountInv /\ ServeInv

(* The server starts in the invariant. *)
LEMMA InitIInv == Init => IInv
<1> SUFFICES ASSUME Init PROVE IInv
    OBVIOUS
<1> USE SubscriptionServerAssumption DEF Init
<1>1. TypeOK
  <2>1. mu \in RWMutex(Streams \cup Refreshers)
      BY DEF RWMutex, Unlocked
  <2>2. refreshes \in 0..MaxRefresh
      OBVIOUS
  <2>3. /\ todo \in [Refreshers -> SUBSET Streams]
        /\ sendingTo \in [Refreshers -> Streams \cup {NoOne}]
        /\ rpc \in [Refreshers -> {"idle", "rlock", "sending"}]
      OBVIOUS
  <2>4. /\ pc \in [Streams -> StreamPc] /\ exit \in [Streams -> BOOLEAN]
        /\ attached \in [Streams -> Int]
      BY DEF StreamPc
  <2>5. /\ mainDone \in BOOLEAN /\ streamDone \subseteq Streams
        /\ refreshChannels \subseteq Streams
        /\ serve \in {"starting", "serving", "draining", "returned"}
      OBVIOUS
  <2>6. subsWaitGroup \in Nat
      OBVIOUS
  <2> HIDE DEF Init
  <2> QED BY <2>1, <2>2, <2>3, <2>4, <2>5, <2>6 DEF TypeOK
<1>2. LockInv
    BY DEF LockInv, Unlocked
<1>3. OneSubscriptionPerStream /\ RegistryMatchesStreams /\ RefreshTargetsRegistered
    BY DEF OneSubscriptionPerStream, RegistryMatchesStreams, RefreshTargetsRegistered
<1>4. Running = {}
    BY DEF Running
<1>5. CountInv /\ ServeInv
    BY <1>4, FS_EmptySet DEF CountInv, ServeInv
<1> QED
    BY <1>1, <1>2, <1>3, <1>5 DEF IInv

(* What a step of one stream's program counter does to the set of running  *)
(* streams and to the wait group.                                          *)
LEMMA RunningSteps ==
    ASSUME TypeOK, NEW s \in Streams, NEW from \in StreamPc, NEW to \in StreamPc,
           Goto(s, from, to)
    PROVE  /\ IsFiniteSet(Running)
           /\ from = "idle" /\ to \notin {"idle", "done"} =>
                 /\ Running' = Running \cup {s}
                 /\ Cardinality(Running') = Cardinality(Running) + 1
           /\ from \notin {"idle", "done"} /\ to = "done" =>
                 /\ Running' = Running \ {s}
                 /\ Cardinality(Running') = Cardinality(Running) - 1
                 /\ Cardinality(Running') \in Nat
           /\ from \notin {"idle", "done"} /\ to \notin {"idle", "done"} =>
                 Running' = Running
           /\ Cardinality(Running) \in Nat
<1>1. IsFiniteSet(Running)
    BY FS_Subset, SubscriptionServerAssumption DEF Running
<1>2. /\ pc' = [pc EXCEPT ![s] = to] /\ pc[s] = from /\ pc \in [Streams -> StreamPc]
    BY DEF Goto, TypeOK
<1>3. ASSUME from = "idle", to \notin {"idle", "done"}
      PROVE  Running' = Running \cup {s} /\ Cardinality(Running') = Cardinality(Running) + 1
  <2>1. Running' = Running \cup {s} /\ s \notin Running
      BY <1>2, <1>3 DEF Running
  <2> QED BY <1>1, <2>1, FS_AddElement
<1>4. ASSUME from \notin {"idle", "done"}, to = "done"
      PROVE  /\ Running' = Running \ {s}
             /\ Cardinality(Running') = Cardinality(Running) - 1
             /\ Cardinality(Running') \in Nat
  <2>1. Running' = Running \ {s} /\ s \in Running
      BY <1>2, <1>4 DEF Running
  <2>2. IsFiniteSet(Running \ {s}) /\ Cardinality(Running \ {s}) = Cardinality(Running) - 1
      BY <1>1, <2>1, FS_RemoveElement
  <2>3. Cardinality(Running \ {s}) \in Nat
      BY <2>2, FS_CardinalityType
  <2> QED BY <2>1, <2>2, <2>3
<1>5. ASSUME from \notin {"idle", "done"}, to \notin {"idle", "done"}
      PROVE  Running' = Running
    BY <1>2, <1>5 DEF Running
<1>6. Cardinality(Running) \in Nat
    BY <1>1, FS_CardinalityType
<1> QED
    BY <1>1, <1>3, <1>4, <1>5, <1>6

(* Every step of a stream and of its client keeps the invariant. *)
LEMMA StreamPreserves ==
    ASSUME IInv, NEW s \in Streams,
           \/ Accept(s) \/ RecvRequest(s) \/ RecvInvalid(s)
           \/ AnnounceLock(s) \/ StreamStep(s) \/ CloseStream(s)
    PROVE  IInv'
<1> USE SubscriptionServerAssumption DEF IInv
<1>1. CASE Accept(s)
  <2> USE <1>1 DEF Accept, serverVars, refreshVars
  <2>1. TypeOK'
      BY DEF TypeOK, Goto, StreamPc
  <2>2. LockInv' /\ OneSubscriptionPerStream' /\ RegistryMatchesStreams' /\ RefreshTargetsRegistered'
      BY DEF TypeOK, Goto, LockInv, OneSubscriptionPerStream, RegistryMatchesStreams, RefreshTargetsRegistered
  <2>3. CountInv' /\ ServeInv'
      BY RunningSteps DEF CountInv, ServeInv, StreamPc
  <2> QED BY <2>1, <2>2, <2>3
<1>2. CASE RecvRequest(s)
  <2> USE <1>2 DEF RecvRequest, serverVars, refreshVars
  <2>1. TypeOK'
      BY DEF TypeOK, Goto, StreamPc
  <2>2. LockInv' /\ OneSubscriptionPerStream' /\ RegistryMatchesStreams' /\ RefreshTargetsRegistered'
      BY DEF TypeOK, Goto, LockInv, OneSubscriptionPerStream, RegistryMatchesStreams, RefreshTargetsRegistered
  <2>3. CountInv' /\ ServeInv'
      BY RunningSteps DEF CountInv, ServeInv, StreamPc
  <2> QED BY <2>1, <2>2, <2>3
<1>3. CASE RecvInvalid(s)
  <2> USE <1>3 DEF RecvInvalid, serverVars, refreshVars
  <2>0. subsWaitGroup' \in Nat
      BY RunningSteps DEF CountInv, StreamPc
  <2>1. TypeOK'
      BY <2>0 DEF TypeOK, Goto, StreamPc
  <2>2. LockInv' /\ OneSubscriptionPerStream' /\ RegistryMatchesStreams' /\ RefreshTargetsRegistered'
      BY DEF TypeOK, Goto, LockInv, OneSubscriptionPerStream, RegistryMatchesStreams, RefreshTargetsRegistered
  <2>3. CountInv' /\ ServeInv'
      BY RunningSteps DEF CountInv, ServeInv, StreamPc
  <2> QED BY <2>1, <2>2, <2>3
<1>4. CASE AnnounceLock(s)
  <2> USE <1>4 DEF AnnounceLock, Announced, streamVars, serverVars, refreshVars
  <2>1. TypeOK'
      BY DEF TypeOK, RWMutex
  <2>2. LockInv'
      BY DEF TypeOK, LockInv, RWMutex
  <2>3. OneSubscriptionPerStream' /\ RegistryMatchesStreams' /\ RefreshTargetsRegistered'
      BY DEF OneSubscriptionPerStream, RegistryMatchesStreams, RefreshTargetsRegistered
  <2>4. CountInv' /\ ServeInv'
      BY DEF CountInv, ServeInv, Running
  <2> QED BY <2>1, <2>2, <2>3, <2>4
<1>5. CASE Attach(s)
  <2> USE <1>5 DEF Attach, serverVars, refreshVars
  <2>1. TypeOK'
      BY DEF TypeOK, Goto, StreamPc
  <2>2. LockInv' /\ RegistryMatchesStreams' /\ RefreshTargetsRegistered'
      BY DEF TypeOK, Goto, LockInv, RegistryMatchesStreams, RefreshTargetsRegistered
  <2>3. OneSubscriptionPerStream'
      BY DEF TypeOK, Goto, OneSubscriptionPerStream
  <2>4. CountInv' /\ ServeInv'
      BY RunningSteps DEF CountInv, ServeInv, StreamPc
  <2> QED BY <2>1, <2>2, <2>3, <2>4
<1>6. CASE AttachFails(s)
  <2> USE <1>6 DEF AttachFails, serverVars, refreshVars
  <2>1. TypeOK'
      BY DEF TypeOK, Goto, StreamPc
  <2>2. LockInv' /\ OneSubscriptionPerStream' /\ RegistryMatchesStreams' /\ RefreshTargetsRegistered'
      BY DEF TypeOK, Goto, LockInv, OneSubscriptionPerStream, RegistryMatchesStreams, RefreshTargetsRegistered
  <2>3. CountInv' /\ ServeInv'
      BY RunningSteps DEF CountInv, ServeInv, StreamPc
  <2> QED BY <2>1, <2>2, <2>3
<1>7. CASE GetRefreshChan(s)
  <2> USE <1>7 DEF GetRefreshChan, WriteLocked, Released, serverVars, refreshVars
  <2>1. TypeOK'
      BY DEF TypeOK, Goto, StreamPc, RWMutex
  <2>2. LockInv'
      BY DEF TypeOK, Goto, LockInv, RWMutex
  <2>3. OneSubscriptionPerStream' /\ RegistryMatchesStreams' /\ RefreshTargetsRegistered'
      BY DEF TypeOK, Goto, OneSubscriptionPerStream, RegistryMatchesStreams, RefreshTargetsRegistered
  <2>4. CountInv' /\ ServeInv'
      BY RunningSteps DEF CountInv, ServeInv, StreamPc
  <2> QED BY <2>1, <2>2, <2>3, <2>4
<1>8. CASE LeaveSelect(s)
  <2> USE <1>8 DEF LeaveSelect, serverVars, refreshVars
  <2>1. TypeOK'
      BY DEF TypeOK, Goto, StreamPc
  <2>2. LockInv' /\ OneSubscriptionPerStream' /\ RegistryMatchesStreams' /\ RefreshTargetsRegistered'
      BY DEF TypeOK, Goto, LockInv, OneSubscriptionPerStream, RegistryMatchesStreams, RefreshTargetsRegistered
  <2>3. CountInv' /\ ServeInv'
      BY RunningSteps DEF CountInv, ServeInv, StreamPc
  <2> QED BY <2>1, <2>2, <2>3
<1>9. CASE Unsubscribe(s)
  <2> DEFINE to == IF exit[s] THEN "remove" ELSE "subscribe"
  <2> USE <1>9 DEF Unsubscribe, serverVars, refreshVars
  <2>1. TypeOK'
      BY DEF TypeOK, Goto, StreamPc
  <2>2. LockInv' /\ RegistryMatchesStreams' /\ RefreshTargetsRegistered'
      BY DEF TypeOK, Goto, LockInv, RegistryMatchesStreams, RefreshTargetsRegistered
  <2>3. OneSubscriptionPerStream'
      BY DEF TypeOK, Goto, OneSubscriptionPerStream
  <2>4. to \in StreamPc /\ to \notin {"idle", "done"} /\ Goto(s, "unsub", to)
      BY DEF StreamPc
  <2>5. CountInv' /\ ServeInv'
      BY <2>4, RunningSteps DEF CountInv, ServeInv, StreamPc
  <2> QED BY <2>1, <2>2, <2>3, <2>5
<1>10. CASE RemoveRefreshChan(s)
  <2> USE <1>10 DEF RemoveRefreshChan, WriteLocked, Released, serverVars, refreshVars
  <2>0. subsWaitGroup' \in Nat
      BY RunningSteps DEF CountInv, StreamPc
  <2>1. TypeOK'
      BY <2>0 DEF TypeOK, Goto, StreamPc, RWMutex
  <2>2. LockInv'
      BY DEF TypeOK, Goto, LockInv, RWMutex
  <2>3. OneSubscriptionPerStream' /\ RegistryMatchesStreams'
      BY DEF TypeOK, Goto, OneSubscriptionPerStream, RegistryMatchesStreams
  <2>4. RefreshTargetsRegistered'
    <3>1. \A r \in Refreshers : todo[r] = {} /\ sendingTo[r] = NoOne
        BY DEF LockInv
    <3> QED BY <3>1 DEF RefreshTargetsRegistered
  <2>5. CountInv' /\ ServeInv'
      BY RunningSteps DEF CountInv, ServeInv, StreamPc
  <2> QED BY <2>1, <2>2, <2>3, <2>4, <2>5
<1>11. CASE CloseStream(s)
  <2> USE <1>11 DEF CloseStream, serverVars, refreshVars
  <2>1. TypeOK'
      BY DEF TypeOK
  <2>2. LockInv' /\ OneSubscriptionPerStream' /\ RegistryMatchesStreams' /\ RefreshTargetsRegistered'
      BY DEF LockInv, OneSubscriptionPerStream, RegistryMatchesStreams, RefreshTargetsRegistered
  <2>3. CountInv' /\ ServeInv'
      BY DEF CountInv, ServeInv, Running
  <2> QED BY <2>1, <2>2, <2>3
<1> QED
    BY <1>1, <1>2, <1>3, <1>4, <1>5, <1>6, <1>7, <1>8, <1>9, <1>10, <1>11 DEF StreamStep

(* Every step of a Refresh call keeps the invariant. *)
LEMMA RefreshPreserves ==
    ASSUME IInv, NEW r \in Refreshers,
           RefreshNoServer(r) \/ CallRefresh(r) \/ RLockRefresh(r) \/ RefreshStep(r)
    PROVE  IInv'
<1> USE SubscriptionServerAssumption DEF IInv
<1>1. CASE RefreshNoServer(r)
  <2> USE <1>1 DEF RefreshNoServer, streamVars, serverVars
  <2>1. TypeOK'
      BY DEF TypeOK
  <2>2. LockInv' /\ OneSubscriptionPerStream' /\ RegistryMatchesStreams' /\ RefreshTargetsRegistered'
      BY DEF LockInv, OneSubscriptionPerStream, RegistryMatchesStreams, RefreshTargetsRegistered
  <2>3. CountInv' /\ ServeInv'
      BY DEF CountInv, ServeInv, Running
  <2> QED BY <2>1, <2>2, <2>3
<1>2. CASE CallRefresh(r)
  <2> USE <1>2 DEF CallRefresh, streamVars, serverVars
  <2>1. TypeOK'
      BY DEF TypeOK
  <2>2. LockInv'
      BY DEF TypeOK, LockInv
  <2>3. OneSubscriptionPerStream' /\ RegistryMatchesStreams' /\ RefreshTargetsRegistered'
      BY DEF OneSubscriptionPerStream, RegistryMatchesStreams, RefreshTargetsRegistered
  <2>4. CountInv' /\ ServeInv'
      BY DEF CountInv, ServeInv, Running
  <2> QED BY <2>1, <2>2, <2>3, <2>4
<1>3. CASE RLockRefresh(r)
  <2> USE <1>3 DEF RLockRefresh, ReadLocked, streamVars, serverVars
  <2>1. TypeOK'
      BY DEF TypeOK, RWMutex
  <2>2. LockInv'
      BY DEF TypeOK, LockInv, RWMutex
  <2>3. OneSubscriptionPerStream' /\ RegistryMatchesStreams'
      BY DEF OneSubscriptionPerStream, RegistryMatchesStreams
  <2>4. RefreshTargetsRegistered'
      BY DEF TypeOK, LockInv, RefreshTargetsRegistered
  <2>5. CountInv' /\ ServeInv'
      BY DEF CountInv, ServeInv, Running
  <2> QED BY <2>1, <2>2, <2>3, <2>4, <2>5
<1>4. CASE NextChannel(r)
  <2> PICK s \in todo[r] : /\ sendingTo' = [sendingTo EXCEPT ![r] = s]
                           /\ todo' = [todo EXCEPT ![r] = @ \ {s}]
      BY <1>4 DEF NextChannel
  <2> USE <1>4 DEF NextChannel, streamVars, serverVars
  <2>1. TypeOK'
      BY DEF TypeOK
  <2>2. LockInv'
      BY DEF TypeOK, LockInv
  <2>3. OneSubscriptionPerStream' /\ RegistryMatchesStreams'
      BY DEF OneSubscriptionPerStream, RegistryMatchesStreams
  <2>4. RefreshTargetsRegistered'
      BY DEF TypeOK, RefreshTargetsRegistered
  <2>5. CountInv' /\ ServeInv'
      BY DEF CountInv, ServeInv, Running
  <2> QED BY <2>1, <2>2, <2>3, <2>4, <2>5
<1>5. CASE SendRefresh(r)
  <2> PICK s \in Streams : /\ sendingTo[r] = s
                           /\ Goto(s, "select", "unsub")
                           /\ exit' = [exit EXCEPT ![s] = FALSE]
                           /\ sendingTo' = [sendingTo EXCEPT ![r] = NoOne]
                           /\ UNCHANGED <<streamDone, attached, subsWaitGroup, todo, rpc, refreshes, serverVars, refreshChannels, mu>>
      BY <1>5 DEF SendRefresh
  <2> USE DEF streamVars, serverVars
  <2>1. TypeOK'
      BY DEF TypeOK, Goto, StreamPc
  <2>2. LockInv'
      BY DEF TypeOK, Goto, LockInv
  <2>3. OneSubscriptionPerStream' /\ RegistryMatchesStreams'
      BY DEF TypeOK, Goto, OneSubscriptionPerStream, RegistryMatchesStreams
  <2>4. RefreshTargetsRegistered'
      BY DEF TypeOK, RefreshTargetsRegistered
  <2>5. CountInv' /\ ServeInv'
      BY RunningSteps DEF CountInv, ServeInv, StreamPc
  <2> QED BY <2>1, <2>2, <2>3, <2>4, <2>5
<1>6. CASE RefreshReturn(r)
  <2> USE <1>6 DEF RefreshReturn, ReadReleased, streamVars, serverVars
  <2>1. TypeOK'
      BY DEF TypeOK, RWMutex
  <2>2. LockInv'
      BY DEF TypeOK, LockInv, RWMutex
  <2>3. OneSubscriptionPerStream' /\ RegistryMatchesStreams' /\ RefreshTargetsRegistered'
      BY DEF OneSubscriptionPerStream, RegistryMatchesStreams, RefreshTargetsRegistered
  <2>4. CountInv' /\ ServeInv'
      BY DEF CountInv, ServeInv, Running
  <2> QED BY <2>1, <2>2, <2>3, <2>4
<1> QED
    BY <1>1, <1>2, <1>3, <1>4, <1>5, <1>6 DEF RefreshStep

(* Every step of the server and the cancellation keep the invariant. *)
LEMMA ServerPreserves ==
    ASSUME IInv, ServerStep \/ Shutdown
    PROVE  IInv'
<1> USE DEF IInv, ServerStep, Listen, Shutdown, GracefulStop, ServeReturns, streamVars, refreshVars
<1>1. TypeOK'
    BY DEF TypeOK
<1>2. LockInv' /\ OneSubscriptionPerStream' /\ RegistryMatchesStreams' /\ RefreshTargetsRegistered'
    BY DEF LockInv, OneSubscriptionPerStream, RegistryMatchesStreams, RefreshTargetsRegistered
<1>3. CountInv' /\ ServeInv'
    BY DEF CountInv, ServeInv, Running
<1> QED BY <1>1, <1>2, <1>3

LEMMA StutterPreserves ==
    ASSUME IInv, UNCHANGED vars
    PROVE  IInv'
BY DEF IInv, vars, streamVars, refreshVars, serverVars, TypeOK, LockInv,
       OneSubscriptionPerStream, RegistryMatchesStreams, RefreshTargetsRegistered,
       CountInv, ServeInv, Running

(* The invariant is inductive. *)
THEOREM Inductive == Spec => []IInv
<1>1. IInv /\ [Next]_vars => IInv'
    BY StreamPreserves, RefreshPreserves, ServerPreserves, StutterPreserves DEF Next
<1> QED
    BY InitIInv, <1>1, PTL DEF Spec

-----------------------------------------------------------------------------
(* Every variable of the server keeps its type. *)
THEOREM TypeCorrect == Spec => []TypeOK
BY Inductive, PTL DEF IInv

(* No stream ever holds two subscriptions or leaves one behind. *)
THEOREM NoLeakedSubscription == Spec => []OneSubscriptionPerStream
BY Inductive, PTL DEF IInv

(* A Refresh finds every parked stream and no other that is gone, and what *)
(* it has still to send on stays registered.                               *)
THEOREM RegistryCorrect == Spec => [](RegistryMatchesStreams /\ RefreshTargetsRegistered)
BY Inductive, PTL DEF IInv

(* Serve does not return before the streams have left. *)
THEOREM ServeReturnsLast == Spec => []ServeWaitsForStreams
<1>1. IInv => ServeWaitsForStreams
  <2> SUFFICES ASSUME IInv, serve = "returned"
               PROVE  /\ Running = {} /\ refreshChannels = {} /\ subsWaitGroup = 0
                      /\ \A s \in Streams : attached[s] = 0
      BY DEF ServeWaitsForStreams
  <2>1. Running = {}
      BY DEF IInv, ServeInv
  <2>2. subsWaitGroup = 0
      BY <2>1, FS_EmptySet DEF IInv, CountInv
  <2>3. \A s \in Streams : pc[s] \in {"idle", "done"}
      BY <2>1 DEF Running
  <2>4. refreshChannels = {}
      BY <2>3 DEF IInv, TypeOK, RegistryMatchesStreams
  <2>5. \A s \in Streams : attached[s] = 0
      BY <2>3 DEF IInv, OneSubscriptionPerStream
  <2> QED BY <2>1, <2>2, <2>4, <2>5
<1> QED
    BY <1>1, Inductive, PTL

(* The map a Refresh ranges over is not written under it: a writer of the  *)
(* registry holds the lock, and a Refresh that iterates is among its       *)
(* readers.                                                                *)
THEOREM StableMap == Spec => RefreshRangesOverStableMap
<1> DEFINE Stable == (\E r \in Refreshers : rpc[r] = "sending") => UNCHANGED refreshChannels
<1>1. ASSUME IInv, Next PROVE Stable
  <2>1. ASSUME NEW s \in Streams, WriteLocked(mu, s) PROVE Stable
      BY <1>1, <2>1 DEF WriteLocked, IInv, LockInv
  <2>2. CASE \E s \in Streams : GetRefreshChan(s) \/ RemoveRefreshChan(s)
      BY <2>1, <2>2 DEF GetRefreshChan, RemoveRefreshChan
  <2>3. CASE ~\E s \in Streams : GetRefreshChan(s) \/ RemoveRefreshChan(s)
      BY <1>1, <2>3
      DEF Next, StreamStep, RefreshStep, ServerStep, Accept, RecvRequest, RecvInvalid,
          AnnounceLock, Attach, AttachFails, LeaveSelect, Unsubscribe, CloseStream,
          RefreshNoServer, CallRefresh, RLockRefresh, NextChannel, SendRefresh,
          RefreshReturn, Listen, GracefulStop, ServeReturns, Shutdown
  <2> QED BY <2>2, <2>3
<1>2. ASSUME IInv, [Next]_vars PROVE [Stable]_vars
    BY <1>1, <1>2
<1> QED
    BY <1>2, Inductive, PTL DEF Spec, RefreshRangesOverStableMap

-----------------------------------------------------------------------------
(* Refinement: a step of the server is a step of the life cycle, or the    *)
(* client sees nothing of it.                                              *)

(* A step of one stream changes the phase of no other. *)
LEMMA PhaseOfOne ==
    ASSUME NEW s \in Streams,
           \A t \in Streams \ {s} : pc'[t] = pc[t] /\ attached'[t] = attached[t]
    PROVE  Phase' = [Phase EXCEPT ![s] = PhaseOf(pc'[s], attached'[s])]
<1>1. \A t \in Streams \ {s} : PhaseOf(pc'[t], attached'[t]) = PhaseOf(pc[t], attached[t])
    OBVIOUS
<1> QED
    BY <1>1 DEF Phase

(* While a stream runs the server has not stopped. *)
LEMMA NotStopped ==
    ASSUME IInv, NEW s \in Streams, pc[s] \notin {"idle", "done"}
    PROVE  serve # "returned"
BY DEF IInv, ServeInv, Running

LEMMA StreamRefines ==
    ASSUME IInv, NEW s \in Streams,
           \/ Accept(s) \/ RecvRequest(s) \/ RecvInvalid(s)
           \/ AnnounceLock(s) \/ StreamStep(s) \/ CloseStream(s)
    PROVE  [Lifecycle!Next]_(Lifecycle!vars)
<1> USE DEF Goto, serverVars
<1>1. pc \in [Streams -> StreamPc] /\ attached \in [Streams -> Int]
    BY DEF IInv, TypeOK
<1>2. attached[s] = IF pc[s] \in {"getChan", "select", "unsub"} THEN 1 ELSE 0
    BY DEF IInv, OneSubscriptionPerStream
<1>3. \A t \in Streams \ {s} : pc'[t] = pc[t] /\ attached'[t] = attached[t]
    BY <1>1 DEF Accept, RecvRequest, RecvInvalid, AnnounceLock, StreamStep, CloseStream, Attach,
       AttachFails, GetRefreshChan, LeaveSelect, Unsubscribe, RemoveRefreshChan, streamVars
<1>4. /\ Phase[s] = PhaseOf(pc[s], attached[s])
      /\ Phase' = [Phase EXCEPT ![s] = PhaseOf(pc'[s], attached'[s])]
    BY <1>3, PhaseOfOne DEF Phase
<1>5. ASSUME Phase' = [Phase EXCEPT ![s] = Phase[s]] PROVE UNCHANGED Phase
    BY <1>5 DEF Phase
<1>6. CASE Accept(s)
  <2>1. /\ pc[s] = "idle" /\ pc'[s] = "recv" /\ attached'[s] = 0
        /\ serve = "serving" /\ UNCHANGED serve
      BY <1>1, <1>2, <1>6 DEF Accept
  <2>2. Phase[s] = "absent" /\ Phase' = [Phase EXCEPT ![s] = "open"]
      BY <1>4, <2>1 DEF PhaseOf
  <2> QED BY <2>1, <2>2 DEF Lifecycle!Next, Lifecycle!Open, Lifecycle!Become
<1>7. CASE RecvInvalid(s) \/ RemoveRefreshChan(s)
  <2>1. /\ pc[s] \in {"recv", "remove"} /\ pc'[s] = "done" /\ attached[s] = 0
        /\ UNCHANGED serve
      BY <1>1, <1>2, <1>7 DEF RecvInvalid, RemoveRefreshChan
  <2>2. Phase[s] = "open" /\ Phase' = [Phase EXCEPT ![s] = "closed"]
      BY <1>4, <2>1 DEF PhaseOf
  <2> QED BY <2>1, <2>2, NotStopped DEF Lifecycle!Next, Lifecycle!Close, Lifecycle!Become
<1>8. CASE Attach(s)
  <2>1. /\ pc[s] = "subscribe" /\ pc'[s] = "getChan" /\ attached[s] = 0 /\ attached'[s] = 1
        /\ UNCHANGED serve
      BY <1>1, <1>2, <1>8 DEF Attach
  <2>2. Phase[s] = "open" /\ Phase' = [Phase EXCEPT ![s] = "attached"]
      BY <1>4, <2>1 DEF PhaseOf
  <2> QED BY <2>1, <2>2, NotStopped DEF Lifecycle!Next, Lifecycle!Attach, Lifecycle!Become
<1>9. CASE Unsubscribe(s)
  <2>1. /\ pc[s] = "unsub" /\ pc'[s] \in {"remove", "subscribe"}
        /\ attached[s] = 1 /\ attached'[s] = 0 /\ UNCHANGED serve
      BY <1>1, <1>2, <1>9 DEF Unsubscribe
  <2>2. Phase[s] = "attached" /\ Phase' = [Phase EXCEPT ![s] = "open"]
    <3>1. PhaseOf(pc[s], attached[s]) = "attached" /\ PhaseOf(pc'[s], attached'[s]) = "open"
        BY <2>1 DEF PhaseOf
    <3> QED BY <1>4, <3>1
  <2> QED BY <2>1, <2>2, NotStopped DEF Lifecycle!Next, Lifecycle!Detach, Lifecycle!Become
<1>10. CASE RecvRequest(s) \/ AttachFails(s) \/ GetRefreshChan(s) \/ LeaveSelect(s)
  <2>1. /\ pc[s] \notin {"idle", "done"} /\ pc'[s] \notin {"idle", "done"}
        /\ attached'[s] = attached[s] /\ UNCHANGED serve
      BY <1>1, <1>10 DEF RecvRequest, AttachFails, GetRefreshChan, LeaveSelect
  <2>2. UNCHANGED Phase
      BY <1>4, <1>5, <2>1 DEF PhaseOf
  <2> QED BY <2>1, <2>2 DEF Lifecycle!vars
<1>11. CASE AnnounceLock(s) \/ CloseStream(s)
    BY <1>11 DEF AnnounceLock, CloseStream, streamVars, Phase, Lifecycle!vars
<1> QED
    BY <1>6, <1>7, <1>8, <1>9, <1>10, <1>11 DEF StreamStep

LEMMA RefreshRefines ==
    ASSUME IInv, NEW r \in Refreshers,
           RefreshNoServer(r) \/ CallRefresh(r) \/ RLockRefresh(r) \/ RefreshStep(r)
    PROVE  UNCHANGED Lifecycle!vars
<1> USE DEF serverVars, streamVars
<1>1. CASE SendRefresh(r)
  <2> PICK s \in Streams : Goto(s, "select", "unsub") /\ UNCHANGED <<attached, serve>>
      BY <1>1 DEF SendRefresh
  <2>1. \A t \in Streams : PhaseOf(pc'[t], attached[t]) = PhaseOf(pc[t], attached[t])
      BY DEF Goto, IInv, TypeOK, PhaseOf
  <2> QED BY <2>1 DEF Phase, Lifecycle!vars
<1>2. CASE ~SendRefresh(r)
    BY <1>2 DEF RefreshStep, RefreshNoServer, CallRefresh, RLockRefresh, NextChannel,
                RefreshReturn, Phase, Lifecycle!vars
<1> QED BY <1>1, <1>2

LEMMA ServerRefines ==
    ASSUME IInv, ServerStep \/ Shutdown
    PROVE  [Lifecycle!Next]_(Lifecycle!vars)
<1>1. UNCHANGED Phase
    BY DEF ServerStep, Listen, GracefulStop, ServeReturns, Shutdown, streamVars, Phase
<1>2. CASE ServeReturns
  <2>1. \A s \in Streams : Phase[s] \in {"absent", "closed"}
      BY <1>2 DEF ServeReturns, Running, Phase, PhaseOf
  <2> QED BY <1>1, <1>2, <2>1 DEF ServeReturns, Lifecycle!Next, Lifecycle!Stop
<1>3. CASE Listen \/ GracefulStop \/ Shutdown
    BY <1>1, <1>3 DEF Listen, GracefulStop, Shutdown, Lifecycle!vars
<1> QED BY <1>2, <1>3 DEF ServerStep

(* The server implements the life cycle of SubscriptionLifecycle, for any  *)
(* number of streams and of concurrent Refresh calls.                      *)
THEOREM Refinement == Spec => ImplementsLifecycle
<1>1. Init => Lifecycle!Init
    BY DEF Init, Lifecycle!Init, Phase, PhaseOf
<1>2. ASSUME IInv, [Next]_vars PROVE [Lifecycle!Next]_(Lifecycle!vars)
  <2>1. CASE UNCHANGED vars
      BY <2>1 DEF vars, streamVars, serverVars, Phase, Lifecycle!vars
  <2> QED BY <1>2, <2>1, StreamRefines, RefreshRefines, ServerRefines DEF Next
<1> QED
    BY <1>1, <1>2, Inductive, PTL DEF Spec, Lifecycle!Spec, ImplementsLifecycle
-----------------------------------------------------------------------------
(* The deadlock of Refresh: it can only come about if something disturbs   *)
(* the Refresh, and it never ends.                                         *)

(* The Refresh call sends to a stream that is not in its select.           *)
Stuck(r, s) == sendingTo[r] = s /\ pc[s] # "select"

(* What makes a Refresh stuck is what keeps it so: it holds the lock for   *)
(* reading, and the stream needs it for writing to get back to its select. *)
LEMMA StuckHolds ==
    ASSUME IInv, NEW r \in Refreshers, NEW s \in Streams, Stuck(r, s)
    PROVE  /\ rpc[r] = "sending" /\ serve # "returned" /\ s # NoOne
           /\ \A t \in Streams : ~WriteLocked(mu, t)
<1> USE SubscriptionServerAssumption DEF Stuck
<1>1. rpc[r] = "sending" /\ r \in mu.readers /\ s # NoOne
    BY DEF IInv, LockInv
<1>2. \A t \in Streams : ~WriteLocked(mu, t)
    BY <1>1 DEF WriteLocked
<1>3. s \in refreshChannels
    BY <1>1 DEF IInv, RefreshTargetsRegistered
<1>4. s \in Running
    BY <1>3 DEF IInv, RegistryMatchesStreams, Running
<1>5. serve # "returned"
    BY <1>4 DEF IInv, ServeInv
<1> QED BY <1>1, <1>2, <1>5

LEMMA StuckStep ==
    ASSUME IInv, [Next]_vars, NEW r \in Refreshers, NEW s \in Streams, Stuck(r, s)
    PROVE  Stuck(r, s)' /\ UNCHANGED refreshChannels
<1> USE DEF Stuck
<1>1. s # NoOne /\ \A t \in Streams : ~WriteLocked(mu, t)
    BY StuckHolds
<1>2. /\ pc \in [Streams -> StreamPc] /\ sendingTo \in [Refreshers -> Streams \cup {NoOne}]
    BY DEF IInv, TypeOK
<1>3. CASE \E q \in Refreshers : SendRefresh(q)
  <2>1. PICK q \in Refreshers : SendRefresh(q)
      BY <1>3
  <2>2. PICK t \in Streams : /\ sendingTo[q] = t /\ Goto(t, "select", "unsub")
                             /\ sendingTo' = [sendingTo EXCEPT ![q] = NoOne]
                             /\ UNCHANGED refreshChannels
      BY <2>1 DEF SendRefresh
  <2>3. t # s /\ q # r
      BY <2>2 DEF Goto
  <2> QED BY <1>2, <2>2, <2>3 DEF Goto
<1>4. CASE \E q \in Refreshers : NextChannel(q)
  <2>1. PICK q \in Refreshers : NextChannel(q)
      BY <1>4
  <2>2. q # r
      BY <1>1, <2>1 DEF NextChannel
  <2> QED BY <1>2, <2>1, <2>2 DEF NextChannel, streamVars
<1>5. CASE /\ ~\E q \in Refreshers : SendRefresh(q) \/ NextChannel(q)
           /\ ~\E t \in Streams : GetRefreshChan(t) \/ RemoveRefreshChan(t)
  <2>1. UNCHANGED <<sendingTo, refreshChannels>>
      BY <1>5 DEF Next, StreamStep, RefreshStep, ServerStep, Accept, RecvRequest, RecvInvalid,
         AnnounceLock, Attach, AttachFails, LeaveSelect, Unsubscribe, CloseStream,
         RefreshNoServer, CallRefresh, RLockRefresh, RefreshReturn, Listen, GracefulStop,
         ServeReturns, Shutdown, vars, refreshVars
  <2>2. UNCHANGED pc \/ \E t \in Streams, to \in StreamPc \ {"select"} : pc' = [pc EXCEPT ![t] = to]
      BY <1>5 DEF Next, StreamStep, RefreshStep, ServerStep, Accept, RecvRequest, RecvInvalid,
         AnnounceLock, Attach, AttachFails, LeaveSelect, Unsubscribe, CloseStream, Goto, StreamPc,
         RefreshNoServer, CallRefresh, RLockRefresh, RefreshReturn, Listen, GracefulStop,
         ServeReturns, Shutdown, vars, streamVars
  <2> QED BY <1>2, <2>1, <2>2
<1> QED
    BY <1>1, <1>3, <1>4, <1>5 DEF GetRefreshChan, RemoveRefreshChan

(* A Refresh that is stuck stays so: it never returns, no stream gets the  *)
(* lock of the registry any more, which stays as it is, so that no stream  *)
(* comes back to its select or ends, and Serve does not return.            *)
THEOREM StuckForEver ==
    ASSUME NEW r \in Refreshers, NEW s \in Streams
    PROVE  Spec => [](Stuck(r, s) =>
                        /\ [](Stuck(r, s) /\ rpc[r] = "sending" /\ serve # "returned")
                        /\ []\A t \in Streams : ~WriteLocked(mu, t)
                        /\ [][UNCHANGED refreshChannels]_vars)
<1>1. ASSUME IInv, Stuck(r, s)
      PROVE  /\ Stuck(r, s) /\ rpc[r] = "sending" /\ serve # "returned"
             /\ \A t \in Streams : ~WriteLocked(mu, t)
    BY <1>1, StuckHolds
<1>2. ASSUME IInv, [Next]_vars, Stuck(r, s) PROVE Stuck(r, s)' /\ [UNCHANGED refreshChannels]_vars
    BY <1>2, StuckStep
<1> QED BY <1>1, <1>2, Inductive, PTL DEF Spec

(* While nothing disturbs it there is one Refresh at most, and a stream    *)
(* that is registered stays in its select until that Refresh has sent to   *)
(* it.                                                                     *)
Calm ==
    /\ refreshes = 0 => \A r \in Refreshers : rpc[r] = "idle"
    /\ \A r, q \in Refreshers : rpc[r] # "idle" /\ rpc[q] # "idle" => r = q
    /\ refreshes = 0 \/ (\E r \in Refreshers : rpc[r] = "rlock") =>
          \A s \in refreshChannels : pc[s] = "select"
    /\ \A r \in Refreshers : \A s \in Streams :
          s \in todo[r] \/ s = sendingTo[r] => pc[s] = "select"
    /\ \A r \in Refreshers : sendingTo[r] \notin todo[r]

CalmInv == ~Disturbed => Calm

(* What has disturbed a Refresh stays.                                     *)
LEMMA DisturbedStays ==
    ASSUME IInv, [Next]_vars, ~Disturbed'
    PROVE  ~Disturbed
<1>1. refreshes \in Nat
    BY SubscriptionServerAssumption DEF IInv, TypeOK
<1>2. /\ mainDone => mainDone'
      /\ streamDone \subseteq streamDone'
      /\ refreshes' = refreshes \/ refreshes' = refreshes + 1
    BY DEF Next, StreamStep, RefreshStep, ServerStep, Accept, RecvRequest, RecvInvalid, AnnounceLock,
       Attach, AttachFails, GetRefreshChan, LeaveSelect, Unsubscribe, RemoveRefreshChan, CloseStream,
       RefreshNoServer, CallRefresh, RLockRefresh, NextChannel, SendRefresh, RefreshReturn,
       Listen, GracefulStop, ServeReturns, Shutdown, vars, streamVars, refreshVars, serverVars
<1> QED BY <1>1, <1>2 DEF Disturbed

LEMMA StreamStaysCalm ==
    ASSUME IInv, Calm, ~Disturbed, NEW s \in Streams,
           \/ Accept(s) \/ RecvRequest(s) \/ RecvInvalid(s)
           \/ AnnounceLock(s) \/ StreamStep(s) \/ CloseStream(s)
    PROVE  Calm'
<1>1. pc \in [Streams -> StreamPc] /\ refreshChannels \subseteq Streams
    BY DEF IInv, TypeOK
<1>2. ~LeaveSelect(s)
    BY DEF LeaveSelect, SelectDone, Disturbed
<1>3. UNCHANGED refreshVars
    BY DEF Accept, RecvRequest, RecvInvalid, AnnounceLock, StreamStep, CloseStream, Attach,
       AttachFails, GetRefreshChan, LeaveSelect, Unsubscribe, RemoveRefreshChan
<1>4. \A t \in Streams : pc[t] = "select" => pc'[t] = "select"
    BY <1>1, <1>2 DEF Accept, RecvRequest, RecvInvalid, AnnounceLock, StreamStep, CloseStream, Attach,
       AttachFails, GetRefreshChan, Unsubscribe, RemoveRefreshChan, Goto, streamVars
<1>5. \A t \in refreshChannels' : t \in refreshChannels \/ (t = s /\ pc'[s] = "select")
    BY <1>1 DEF Accept, RecvRequest, RecvInvalid, AnnounceLock, StreamStep, CloseStream, Attach,
       AttachFails, GetRefreshChan, LeaveSelect, Unsubscribe, RemoveRefreshChan, Goto
<1> QED BY <1>1, <1>3, <1>4, <1>5 DEF Calm, refreshVars

LEMMA RefreshStaysCalm ==
    ASSUME IInv, Calm, ~Disturbed', NEW r \in Refreshers,
           RefreshNoServer(r) \/ CallRefresh(r) \/ RLockRefresh(r) \/ RefreshStep(r)
    PROVE  Calm'
<1> USE SubscriptionServerAssumption
<1>1. /\ pc \in [Streams -> StreamPc] /\ refreshChannels \subseteq Streams
      /\ rpc \in [Refreshers -> {"idle", "rlock", "sending"}]
      /\ todo \in [Refreshers -> SUBSET Streams]
      /\ sendingTo \in [Refreshers -> Streams \cup {NoOne}]
      /\ refreshes \in Nat
    BY DEF IInv, TypeOK
<1>2. \A q \in Refreshers : rpc[q] # "sending" => todo[q] = {} /\ sendingTo[q] = NoOne
    BY DEF IInv, LockInv
<1>3. CASE RefreshNoServer(r)
    BY <1>1, <1>3 DEF RefreshNoServer, Calm, streamVars
<1>4. CASE CallRefresh(r)
  <2>1. refreshes = 0
      BY <1>1, <1>4 DEF CallRefresh, Disturbed
  <2> QED BY <1>1, <1>2, <1>4, <2>1 DEF CallRefresh, Calm, streamVars
<1>5. CASE RLockRefresh(r)
  <2>1. \A s \in refreshChannels : pc[s] = "select"
      BY <1>5 DEF RLockRefresh, Calm
  <2>2. \A q \in Refreshers \ {r} : rpc[q] = "idle"
      BY <1>5 DEF RLockRefresh, Calm
  <2> QED BY <1>1, <1>2, <1>5, <2>1, <2>2 DEF RLockRefresh, Calm, streamVars
<1>6. CASE NextChannel(r)
    BY <1>1, <1>6 DEF NextChannel, Calm, streamVars
<1>7. CASE SendRefresh(r)
  <2>1. PICK s \in Streams :
              /\ sendingTo[r] = s /\ pc' = [pc EXCEPT ![s] = "unsub"]
              /\ sendingTo' = [sendingTo EXCEPT ![r] = NoOne]
              /\ UNCHANGED <<todo, rpc, refreshes, refreshChannels>>
      BY <1>7 DEF SendRefresh, Goto
  <2>2. rpc[r] = "sending" /\ s # NoOne
      BY <1>2, <2>1
  <2>3. refreshes # 0 /\ \A q \in Refreshers \ {r} : rpc[q] = "idle"
      BY <2>2 DEF Calm
  <2>4. s \notin todo[r] /\ \A q \in Refreshers \ {r} : todo[q] = {} /\ sendingTo[q] = NoOne
      BY <1>2, <2>1, <2>3 DEF Calm
  <2>5. \A q \in Refreshers : \A t \in Streams :
            t \in todo'[q] \/ t = sendingTo'[q] => pc'[t] = "select"
      BY <1>1, <2>1, <2>4 DEF Calm
  <2>6. \A q \in Refreshers : sendingTo'[q] \notin todo'[q]
      BY <1>1, <2>1, <2>4
  <2> QED BY <2>1, <2>2, <2>3, <2>5, <2>6 DEF Calm
<1>8. CASE RefreshReturn(r)
  <2>1. refreshes # 0 /\ \A q \in Refreshers \ {r} : rpc[q] = "idle"
      BY <1>8 DEF RefreshReturn, Calm
  <2> QED BY <1>1, <1>8, <2>1 DEF RefreshReturn, Calm, streamVars
<1> QED BY <1>3, <1>4, <1>5, <1>6, <1>7, <1>8 DEF RefreshStep

(* A Refresh is only stuck when a stream or the sidecar ends, or another   *)
(* Refresh runs, while it is sending: one Refresh among streams that stay  *)
(* finds each of them in its select.                                       *)
THEOREM UndisturbedIsNotStuck ==
    Spec => []((\E r \in Refreshers, s \in Streams : Stuck(r, s)) => Disturbed)
<1>1. Init => CalmInv
    BY SubscriptionServerAssumption DEF Init, CalmInv, Calm
<1>2. ASSUME IInv, CalmInv, [Next]_vars PROVE CalmInv'
  <2>1. SUFFICES ASSUME ~Disturbed' PROVE Calm'
      BY DEF CalmInv
  <2>2. Calm /\ ~Disturbed
      BY <1>2, <2>1, DisturbedStays DEF CalmInv
  <2>3. CASE ServerStep \/ Shutdown \/ UNCHANGED vars
      BY <2>2, <2>3 DEF Calm, ServerStep, Listen, GracefulStop, ServeReturns, Shutdown, vars,
         streamVars, refreshVars
  <2> QED BY <1>2, <2>1, <2>2, <2>3, StreamStaysCalm, RefreshStaysCalm DEF Next
<1>3. CalmInv => ((\E r \in Refreshers, s \in Streams : Stuck(r, s)) => Disturbed)
    BY DEF CalmInv, Calm, Stuck
<1> QED BY <1>1, <1>2, <1>3, Inductive, PTL DEF Spec

=============================================================================
