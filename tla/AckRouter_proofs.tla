--------------------------- MODULE AckRouter_proofs ---------------------------
(***************************************************************************)
(* The safety of AckRouter for any number of deliveries, of ids, of        *)
(* refreshes and of acks.                                                  *)
(***************************************************************************)
EXTENDS AckRouter, TLAPS

(* Only handlers on their way in or out of the map write it, and the       *)
(* receiver reads it exactly while it sends.                               *)
LockInv ==
    /\ mu.writer # NoOne => mu.writer \in Deliveries /\ pc[mu.writer] \in {"register", "cleanup"}
    /\ mu.readers = IF receiver = "send" THEN {Receiver} ELSE {}

(* What the receiver is working on: an ack it has not consumed, and the    *)
(* handler of that very id.                                                *)
TargetInv ==
    /\ receiver \in {"rlock", "send"} => nextAck <= Len(acks)
    /\ receiver = "send" => target \in Deliveries /\ IdOf[target] = acks[nextAck].id

(* A message without an id goes no further than Invoke. *)
IdInv == \A d \in Deliveries : pc[d] \in {"register"} \cup Registered => IdOf[d] \in Ids

(* Deliveries are settled by acks the receiver is done with.               *)
SettledInv == \A d \in Deliveries : settledBy[d] < nextAck

IInv ==
    /\ TypeOK /\ LockInv /\ TargetInv /\ IdInv /\ SettledInv
    /\ OutcomeIsTheClients /\ OneAckOneDelivery
    /\ MapHoldsLiveHandlers /\ WaitersAreFound

(* The stream starts in the invariant. *)
LEMMA InitIInv == Init => IInv
<1> SUFFICES ASSUME Init PROVE IInv
    OBVIOUS
<1> USE AckRouterAssumption DEF Init, Registered
<1>1. mu \in RWMutex(Deliveries \cup {Receiver}) /\ mu.writer = NoOne /\ mu.readers = {}
    BY DEF RWMutex, Unlocked
<1>2. acks \in Seq(Ack) /\ Len(acks) = 0 /\ nextAck \in 1..Len(acks) + 1
    OBVIOUS
<1>3. gen \in 1..MaxGen /\ genOf \in [Deliveries -> 0..MaxGen]
    OBVIOUS
<1>4. /\ pc \in [Deliveries -> {"idle", "register", "returned"} \cup Registered]
      /\ outcome \in [Deliveries -> {"none", "ok", "nack", "cancelled", "error"}]
      /\ settledBy \in [Deliveries -> Nat]
      /\ subAckMap \in [Ids -> Deliveries \cup {NoOne}]
    OBVIOUS
<1>5. /\ live \in BOOLEAN /\ streamDone \in BOOLEAN
      /\ expired \subseteq Deliveries /\ sent \subseteq Deliveries
      /\ receiver \in {"recv", "rlock", "send", "exited"}
      /\ target \in Deliveries \cup {NoOne}
    OBVIOUS
<1>6. TypeOK
  <2> HIDE DEF Init
  <2> QED BY <1>1, <1>2, <1>3, <1>4, <1>5 DEF TypeOK
<1>7. LockInv /\ TargetInv /\ IdInv /\ SettledInv
    BY <1>1 DEF LockInv, TargetInv, IdInv, SettledInv
<1>8. OutcomeIsTheClients /\ OneAckOneDelivery /\ MapHoldsLiveHandlers /\ WaitersAreFound
    BY DEF OutcomeIsTheClients, OneAckOneDelivery, MapHoldsLiveHandlers, WaitersAreFound
<1> QED
    BY <1>6, <1>7, <1>8 DEF IInv

(* Every step of a handler keeps the invariant. *)
LEMMA HandlerPreserves ==
    ASSUME IInv, NEW d \in Deliveries,
           Invoke(d) \/ AnnounceLock(d) \/ HandlerStep(d) \/ ClosePubSub(d)
    PROVE  IInv'
<1> USE AckRouterAssumption DEF IInv, Goto, Registered
<1>1. CASE Invoke(d)
  <2> USE <1>1 DEF Invoke, subVars, recvVars, clientVars
  <2>1. CASE IdOf[d] = NoId
    <3> pc' = [pc EXCEPT ![d] = "returned"] /\ outcome' = [outcome EXCEPT ![d] = "error"]
        BY <2>1
    <3>1. TypeOK'
        BY <2>1 DEF TypeOK
    <3>2. LockInv' /\ TargetInv' /\ IdInv' /\ SettledInv'
        BY <2>1 DEF TypeOK, RWMutex, LockInv, TargetInv, IdInv, SettledInv
    <3>3. OutcomeIsTheClients' /\ OneAckOneDelivery'
        BY <2>1 DEF TypeOK, OutcomeIsTheClients, OneAckOneDelivery
    <3>4. MapHoldsLiveHandlers' /\ WaitersAreFound'
        BY <2>1 DEF TypeOK, MapHoldsLiveHandlers, WaitersAreFound
    <3> QED BY <3>1, <3>2, <3>3, <3>4
  <2>2. CASE IdOf[d] # NoId
    <3> pc' = [pc EXCEPT ![d] = "register"] /\ UNCHANGED outcome
        BY <2>2
    <3>1. TypeOK'
        BY <2>2 DEF TypeOK
    <3>2. LockInv' /\ TargetInv' /\ IdInv' /\ SettledInv'
        BY <2>2 DEF TypeOK, RWMutex, LockInv, TargetInv, IdInv, SettledInv
    <3>3. OutcomeIsTheClients' /\ OneAckOneDelivery'
        BY <2>2 DEF TypeOK, OutcomeIsTheClients, OneAckOneDelivery
    <3>4. MapHoldsLiveHandlers' /\ WaitersAreFound'
        BY <2>2 DEF TypeOK, MapHoldsLiveHandlers, WaitersAreFound
    <3> QED BY <3>1, <3>2, <3>3, <3>4
  <2> QED BY <2>1, <2>2
<1>2. CASE AnnounceLock(d)
  <2> USE <1>2 DEF AnnounceLock, NoWriter, Announced, handlerVars, subVars, recvVars, clientVars
  <2>1. TypeOK'
      BY DEF TypeOK, RWMutex, Ack
  <2>2. LockInv' /\ TargetInv' /\ IdInv' /\ SettledInv'
      BY DEF TypeOK, RWMutex, LockInv, TargetInv, IdInv, SettledInv
  <2>3. OutcomeIsTheClients' /\ OneAckOneDelivery'
      BY DEF TypeOK, OutcomeIsTheClients, OneAckOneDelivery
  <2>4. MapHoldsLiveHandlers' /\ WaitersAreFound'
      BY DEF TypeOK, IdInv, MapHoldsLiveHandlers, WaitersAreFound
  <2> QED BY <2>1, <2>2, <2>3, <2>4
<1>3. CASE Register(d)
  <2> USE <1>3 DEF Register, WriteLocked, Released, subVars, recvVars, clientVars
  <2>1. TypeOK'
      BY DEF TypeOK, RWMutex, Ack
  <2>2. LockInv' /\ TargetInv' /\ IdInv' /\ SettledInv'
      BY DEF TypeOK, RWMutex, LockInv, TargetInv, IdInv, SettledInv
  <2>3. OutcomeIsTheClients' /\ OneAckOneDelivery'
      BY DEF TypeOK, OutcomeIsTheClients, OneAckOneDelivery
  <2>4. MapHoldsLiveHandlers' /\ WaitersAreFound'
      BY DEF TypeOK, IdInv, MapHoldsLiveHandlers, WaitersAreFound
  <2> QED BY <2>1, <2>2, <2>3, <2>4
<1>4. CASE SendToClient(d)
  <2> USE <1>4 DEF SendToClient, subVars, recvVars, clientVars
  <2>1. TypeOK'
      BY DEF TypeOK, RWMutex, Ack
  <2>2. LockInv' /\ TargetInv' /\ IdInv' /\ SettledInv'
      BY DEF TypeOK, RWMutex, LockInv, TargetInv, IdInv, SettledInv
  <2>3. OutcomeIsTheClients' /\ OneAckOneDelivery'
      BY DEF TypeOK, OutcomeIsTheClients, OneAckOneDelivery
  <2>4. MapHoldsLiveHandlers' /\ WaitersAreFound'
      BY DEF TypeOK, IdInv, MapHoldsLiveHandlers, WaitersAreFound
  <2> QED BY <2>1, <2>2, <2>3, <2>4
<1>5. CASE SendFails(d)
  <2> USE <1>5 DEF SendFails, Finish, subVars, recvVars, clientVars
  <2>1. TypeOK'
      BY DEF TypeOK, RWMutex, Ack
  <2>2. LockInv' /\ TargetInv' /\ IdInv' /\ SettledInv'
      BY DEF TypeOK, RWMutex, LockInv, TargetInv, IdInv, SettledInv
  <2>3. OutcomeIsTheClients' /\ OneAckOneDelivery'
      BY DEF TypeOK, OutcomeIsTheClients, OneAckOneDelivery
  <2>4. MapHoldsLiveHandlers' /\ WaitersAreFound'
      BY DEF TypeOK, IdInv, MapHoldsLiveHandlers, WaitersAreFound
  <2> QED BY <2>1, <2>2, <2>3, <2>4
<1>6. CASE Cancelled(d)
  <2> USE <1>6 DEF Cancelled, Finish, subVars, recvVars, clientVars
  <2>1. TypeOK'
      BY DEF TypeOK, RWMutex, Ack
  <2>2. LockInv' /\ TargetInv' /\ IdInv' /\ SettledInv'
      BY DEF TypeOK, RWMutex, LockInv, TargetInv, IdInv, SettledInv
  <2>3. OutcomeIsTheClients' /\ OneAckOneDelivery'
      BY DEF TypeOK, OutcomeIsTheClients, OneAckOneDelivery
  <2>4. MapHoldsLiveHandlers' /\ WaitersAreFound'
      BY DEF TypeOK, IdInv, MapHoldsLiveHandlers, WaitersAreFound
  <2> QED BY <2>1, <2>2, <2>3, <2>4
<1>7. CASE Cleanup(d)
  <2> USE <1>7 DEF Cleanup, WriteLocked, Released, subVars, recvVars, clientVars
  <2>1. TypeOK'
      BY DEF TypeOK, RWMutex, Ack
  <2>2. LockInv' /\ TargetInv' /\ IdInv' /\ SettledInv'
      BY DEF TypeOK, RWMutex, LockInv, TargetInv, IdInv, SettledInv
  <2>3. OutcomeIsTheClients' /\ OneAckOneDelivery'
      BY DEF TypeOK, OutcomeIsTheClients, OneAckOneDelivery
  <2>4. MapHoldsLiveHandlers' /\ WaitersAreFound'
      BY DEF TypeOK, IdInv, MapHoldsLiveHandlers, WaitersAreFound
  <2> QED BY <2>1, <2>2, <2>3, <2>4
<1>8. CASE ClosePubSub(d)
  <2> USE <1>8 DEF ClosePubSub, subVars, recvVars, clientVars
  <2>1. TypeOK'
      BY DEF TypeOK, RWMutex, Ack
  <2>2. LockInv' /\ TargetInv' /\ IdInv' /\ SettledInv'
      BY DEF TypeOK, RWMutex, LockInv, TargetInv, IdInv, SettledInv
  <2>3. OutcomeIsTheClients' /\ OneAckOneDelivery'
      BY DEF TypeOK, OutcomeIsTheClients, OneAckOneDelivery
  <2>4. MapHoldsLiveHandlers' /\ WaitersAreFound'
      BY DEF TypeOK, IdInv, MapHoldsLiveHandlers, WaitersAreFound
  <2> QED BY <2>1, <2>2, <2>3, <2>4
<1> QED
    BY <1>1, <1>2, <1>3, <1>4, <1>5, <1>6, <1>7, <1>8 DEF HandlerStep

(* Every step of the ack receiver keeps the invariant. *)
LEMMA ReceiverPreserves ==
    ASSUME IInv, ReceiverStep \/ Lookup \/ DropAck
    PROVE  IInv'
<1> USE AckRouterAssumption DEF IInv, Goto, Registered
<1>0. ASSUME receiver \in {"rlock", "send"}
      PROVE  nextAck \in 1..Len(acks) /\ acks[nextAck] \in Ack /\ acks[nextAck].id \in Ids
  <2>1. nextAck \in 1..Len(acks)
      BY <1>0 DEF TypeOK, TargetInv
  <2>2. acks[nextAck] \in Ack
      BY <2>1 DEF TypeOK
  <2> QED BY <2>1, <2>2 DEF Ack
<1>1. CASE RecvAck
  <2> USE <1>1 DEF RecvAck, subVars, handlerVars, clientVars
  <2>1. TypeOK'
      BY DEF TypeOK, RWMutex, Ack
  <2>2. LockInv' /\ TargetInv' /\ IdInv' /\ SettledInv'
      BY DEF TypeOK, RWMutex, LockInv, TargetInv, IdInv, SettledInv
  <2>3. OutcomeIsTheClients' /\ OneAckOneDelivery'
      BY DEF TypeOK, OutcomeIsTheClients, OneAckOneDelivery
  <2>4. MapHoldsLiveHandlers' /\ WaitersAreFound'
      BY DEF TypeOK, IdInv, MapHoldsLiveHandlers, WaitersAreFound
  <2> QED BY <2>1, <2>2, <2>3, <2>4
<1>2. CASE Lookup
  <2> DEFINE d == subAckMap[acks[nextAck].id]
  <2> USE <1>2 DEF Lookup, ReadLocked, subVars, handlerVars, clientVars
  <2>1. nextAck \in 1..Len(acks) /\ acks[nextAck].id \in Ids
      BY <1>0
  <2>2. d \in Deliveries /\ IdOf[d] = acks[nextAck].id /\ target' = d
      BY <2>1 DEF TypeOK, MapHoldsLiveHandlers
  <2> HIDE DEF d
  <2>3. TypeOK'
      BY <2>2 DEF TypeOK, RWMutex
  <2>4. LockInv' /\ TargetInv' /\ IdInv' /\ SettledInv'
      BY <2>1, <2>2 DEF TypeOK, RWMutex, LockInv, TargetInv, IdInv, SettledInv
  <2>5. OutcomeIsTheClients' /\ OneAckOneDelivery' /\ MapHoldsLiveHandlers' /\ WaitersAreFound'
      BY DEF OutcomeIsTheClients, OneAckOneDelivery, MapHoldsLiveHandlers, WaitersAreFound
  <2> QED BY <2>3, <2>4, <2>5
<1>3. CASE DropAck
  <2> USE <1>3 DEF DropAck, subVars, handlerVars, clientVars
  <2>1. TypeOK'
      BY <1>0 DEF TypeOK
  <2>2. LockInv' /\ TargetInv' /\ IdInv' /\ SettledInv'
      BY DEF TypeOK, LockInv, TargetInv, IdInv, SettledInv
  <2>3. OutcomeIsTheClients' /\ OneAckOneDelivery' /\ MapHoldsLiveHandlers' /\ WaitersAreFound'
      BY DEF OutcomeIsTheClients, OneAckOneDelivery, MapHoldsLiveHandlers, WaitersAreFound
  <2> QED BY <2>1, <2>2, <2>3
<1>4. CASE DeliverAck
  <2> DEFINE result == IF acks[nextAck].ok THEN "ok" ELSE "nack"
  <2> PICK d \in Deliveries :
         /\ receiver = "send" /\ target = d
         /\ pc[d] = "wait" /\ pc' = [pc EXCEPT ![d] = "cleanup"]
         /\ outcome' = [outcome EXCEPT ![d] = result]
      BY <1>4 DEF DeliverAck, Finish
  <2>0. /\ settledBy' = [settledBy EXCEPT ![d] = nextAck]
        /\ nextAck' = nextAck + 1 /\ receiver' = "recv" /\ target' = NoOne
        /\ mu' = ReadReleased(mu, Receiver)
        /\ UNCHANGED <<genOf, expired, sent, gen, live, acks, streamDone, subAckMap>>
      BY <1>4 DEF DeliverAck, subVars, clientVars
  <2>1. nextAck \in 1..Len(acks) /\ acks[nextAck] = [id |-> IdOf[d], ok |-> result = "ok"]
      BY <1>0 DEF TargetInv, Ack
  <2>2. result \in {"ok", "nack"}
      OBVIOUS
  <2> HIDE DEF result
  <2>3. TypeOK'
    <3>1. outcome' \in [Deliveries -> {"none", "ok", "nack", "cancelled", "error"}]
        BY <2>2 DEF TypeOK
    <3>2. pc' \in [Deliveries -> {"idle", "register", "returned"} \cup Registered]
        BY DEF TypeOK
    <3>3. settledBy' \in [Deliveries -> Nat] /\ nextAck' \in 1..Len(acks') + 1
        BY <2>0, <2>1 DEF TypeOK
    <3>4. mu' \in RWMutex(Deliveries \cup {Receiver})
        BY <2>0 DEF TypeOK, RWMutex, ReadReleased
    <3> QED BY <2>0, <3>1, <3>2, <3>3, <3>4 DEF TypeOK
  <2>4. LockInv' /\ TargetInv' /\ IdInv' /\ SettledInv'
      BY <2>0, <2>1 DEF TypeOK, RWMutex, ReadReleased, LockInv, TargetInv, IdInv, SettledInv
  <2>5. OutcomeIsTheClients'
    <3> SUFFICES ASSUME NEW e \in Deliveries, outcome'[e] \in {"ok", "nack"}
                 PROVE  /\ settledBy'[e] \in 1..Len(acks)
                        /\ acks[settledBy'[e]] = [id |-> IdOf[e], ok |-> outcome'[e] = "ok"]
        BY <2>0 DEF OutcomeIsTheClients
    <3>1. CASE e = d
      <4>1. settledBy'[d] = nextAck /\ outcome'[d] = result
          BY <2>0 DEF TypeOK
      <4> QED BY <3>1, <4>1, <2>1
    <3>2. CASE e # d
        BY <3>2, <2>0 DEF TypeOK, OutcomeIsTheClients
    <3> QED BY <3>1, <3>2
  <2>6. OneAckOneDelivery'
      BY <2>0, <2>1 DEF TypeOK, SettledInv, OneAckOneDelivery
  <2>7. MapHoldsLiveHandlers' /\ WaitersAreFound'
      BY <2>0 DEF TypeOK, MapHoldsLiveHandlers, WaitersAreFound
  <2> QED BY <2>3, <2>4, <2>5, <2>6, <2>7
<1>5. CASE ReceiverExit
  <2> USE <1>5 DEF ReceiverExit, subVars, handlerVars, clientVars
  <2>1. TypeOK'
      BY DEF TypeOK, RWMutex, Ack
  <2>2. LockInv' /\ TargetInv' /\ IdInv' /\ SettledInv'
      BY DEF TypeOK, RWMutex, LockInv, TargetInv, IdInv, SettledInv
  <2>3. OutcomeIsTheClients' /\ OneAckOneDelivery'
      BY DEF TypeOK, OutcomeIsTheClients, OneAckOneDelivery
  <2>4. MapHoldsLiveHandlers' /\ WaitersAreFound'
      BY DEF TypeOK, IdInv, MapHoldsLiveHandlers, WaitersAreFound
  <2> QED BY <2>1, <2>2, <2>3, <2>4
<1> QED
    BY <1>1, <1>2, <1>3, <1>4, <1>5 DEF ReceiverStep

(* Cancellation, refresh and the client keep the invariant. *)
LEMMA EnvironmentPreserves ==
    ASSUME IInv, HCancel \/ Reattach \/ CloseStream \/ \E i \in Ids : ClientAck(i)
    PROVE  IInv'
<1> USE AckRouterAssumption DEF IInv, Registered
<1>1. CASE HCancel
  <2> USE <1>1 DEF HCancel, handlerVars, recvVars, clientVars
  <2>1. TypeOK'
      BY DEF TypeOK, RWMutex, Ack
  <2>2. LockInv' /\ TargetInv' /\ IdInv' /\ SettledInv'
      BY DEF TypeOK, RWMutex, LockInv, TargetInv, IdInv, SettledInv
  <2>3. OutcomeIsTheClients' /\ OneAckOneDelivery'
      BY DEF TypeOK, OutcomeIsTheClients, OneAckOneDelivery
  <2>4. MapHoldsLiveHandlers' /\ WaitersAreFound'
      BY DEF TypeOK, IdInv, MapHoldsLiveHandlers, WaitersAreFound
  <2> QED BY <2>1, <2>2, <2>3, <2>4
<1>2. CASE Reattach
  <2> USE <1>2 DEF Reattach, handlerVars, recvVars, clientVars
  <2>1. TypeOK'
      BY DEF TypeOK, RWMutex, Ack
  <2>2. LockInv' /\ TargetInv' /\ IdInv' /\ SettledInv'
      BY DEF TypeOK, RWMutex, LockInv, TargetInv, IdInv, SettledInv
  <2>3. OutcomeIsTheClients' /\ OneAckOneDelivery'
      BY DEF TypeOK, OutcomeIsTheClients, OneAckOneDelivery
  <2>4. MapHoldsLiveHandlers' /\ WaitersAreFound'
      BY DEF TypeOK, IdInv, MapHoldsLiveHandlers, WaitersAreFound
  <2> QED BY <2>1, <2>2, <2>3, <2>4
<1>3. CASE CloseStream
  <2> USE <1>3 DEF CloseStream, subVars, handlerVars, recvVars
  <2>1. TypeOK'
      BY DEF TypeOK, RWMutex, Ack
  <2>2. LockInv' /\ TargetInv' /\ IdInv' /\ SettledInv'
      BY DEF TypeOK, RWMutex, LockInv, TargetInv, IdInv, SettledInv
  <2>3. OutcomeIsTheClients' /\ OneAckOneDelivery'
      BY DEF TypeOK, OutcomeIsTheClients, OneAckOneDelivery
  <2>4. MapHoldsLiveHandlers' /\ WaitersAreFound'
      BY DEF TypeOK, IdInv, MapHoldsLiveHandlers, WaitersAreFound
  <2> QED BY <2>1, <2>2, <2>3, <2>4
<1>4. CASE \E i \in Ids : ClientAck(i)
  <2> USE <1>4 DEF ClientAck, subVars, handlerVars, recvVars
  <2>1. TypeOK'
      BY DEF TypeOK, RWMutex, Ack
  <2>2. LockInv' /\ TargetInv' /\ IdInv' /\ SettledInv'
      BY DEF TypeOK, RWMutex, LockInv, TargetInv, IdInv, SettledInv
  <2>3. OutcomeIsTheClients' /\ OneAckOneDelivery'
      BY DEF TypeOK, OutcomeIsTheClients, OneAckOneDelivery
  <2>4. MapHoldsLiveHandlers' /\ WaitersAreFound'
      BY DEF TypeOK, IdInv, MapHoldsLiveHandlers, WaitersAreFound
  <2> QED BY <2>1, <2>2, <2>3, <2>4
<1> QED
    BY <1>1, <1>2, <1>3, <1>4

LEMMA StutterPreserves ==
    ASSUME IInv, UNCHANGED vars
    PROVE  IInv'
BY DEF IInv, vars, subVars, handlerVars, recvVars, clientVars, TypeOK, LockInv, TargetInv,
       IdInv, SettledInv, OutcomeIsTheClients, OneAckOneDelivery, MapHoldsLiveHandlers,
       WaitersAreFound

(* The invariant is inductive. *)
THEOREM Inductive == Spec => []IInv
<1>1. IInv /\ [Next]_vars => IInv'
    BY HandlerPreserves, ReceiverPreserves, EnvironmentPreserves, StutterPreserves DEF Next
<1> QED
    BY InitIInv, <1>1, PTL DEF Spec

-----------------------------------------------------------------------------
(* Every variable of the stream keeps its type. *)
THEOREM TypeCorrect == Spec => []TypeOK
BY Inductive, PTL DEF IInv

(* A pubsub is told what the client said of that message, and one ack of   *)
(* the client settles one delivery at most, redeliveries included.         *)
THEOREM AcksReachTheirMessages == Spec => [](OutcomeIsTheClients /\ OneAckOneDelivery)
BY Inductive, PTL DEF IInv

(* The map of a stream holds exactly what it should: no handler that has   *)
(* returned, and every handler that waits as long as ids are not reused.   *)
THEOREM MapCorrect == Spec => [](MapHoldsLiveHandlers /\ WaitersAreFound)
BY Inductive, PTL DEF IInv

(* No handler writes the map that the receiver ranges over: it would hold  *)
(* the write lock, and the receiver is a reader for as long as it sends.   *)
THEOREM StableMap == Spec => MapStableUnderReceiver
<1> DEFINE Stable == receiver = "send" => UNCHANGED subAckMap
<1>1. ASSUME IInv, Next PROVE Stable
  <2>1. ASSUME NEW d \in Deliveries, WriteLocked(mu, d) PROVE receiver # "send"
      BY <2>1, <1>1 DEF WriteLocked, IInv, LockInv
  <2>2. CASE \E d \in Deliveries : Register(d) \/ Cleanup(d)
      BY <2>1, <2>2 DEF Register, Cleanup
  <2>3. CASE ~\E d \in Deliveries : Register(d) \/ Cleanup(d)
      BY <1>1, <2>3
      DEF Next, HandlerStep, ReceiverStep, Invoke, AnnounceLock, SendToClient, SendFails,
          Cancelled, ClosePubSub, RecvAck, Lookup, DropAck, DeliverAck, ReceiverExit,
          HCancel, Reattach, CloseStream, ClientAck
  <2> QED BY <2>2, <2>3
<1>2. ASSUME IInv, [Next]_vars PROVE [Stable]_vars
    BY <1>1, <1>2
<1> QED
    BY <1>2, Inductive, PTL DEF Spec, MapStableUnderReceiver
-----------------------------------------------------------------------------
(* The deadlock of a late ack: it only comes about if the handler had a    *)
(* reason not to wait any more, and it never ends.                         *)

(* The receiver sends to a handler that is on its way out.                 *)
Stuck(d) == receiver = "send" /\ target = d /\ pc[d] = "cleanup"

(* The receiver holds the lock for reading, and the handler needs it for   *)
(* writing.                                                                *)
LEMMA StuckHolds ==
    ASSUME IInv, NEW d \in Deliveries, Stuck(d)
    PROVE  \A e \in Deliveries : ~WriteLocked(mu, e)
BY DEF IInv, LockInv, Stuck, WriteLocked

LEMMA StuckStep ==
    ASSUME IInv, [Next]_vars, NEW d \in Deliveries, Stuck(d)
    PROVE  Stuck(d)' /\ UNCHANGED <<subAckMap, nextAck>>
<1> USE DEF Stuck
<1>1. ~\E e \in Deliveries : Register(e) \/ Cleanup(e)
    BY StuckHolds DEF Register, Cleanup
<1>2. ~RecvAck /\ ~Lookup /\ ~DropAck /\ ~ReceiverExit
    BY DEF RecvAck, Lookup, DropAck, ReceiverExit
<1>3. ~DeliverAck
    BY DEF DeliverAck, Finish, Goto
<1>4. pc \in [Deliveries -> {"idle", "register", "returned"} \cup Registered]
    BY DEF IInv, TypeOK
<1>5. UNCHANGED recvVars /\ UNCHANGED subAckMap
    BY <1>1, <1>2, <1>3 DEF Next, HandlerStep, ReceiverStep, Invoke, AnnounceLock, SendToClient,
       SendFails, Cancelled, ClosePubSub, HCancel, Reattach, CloseStream, ClientAck, vars
<1>6. pc'[d] = "cleanup"
    BY <1>1, <1>2, <1>3, <1>4 DEF Next, HandlerStep, ReceiverStep, Invoke, AnnounceLock,
       SendToClient, SendFails, Cancelled, ClosePubSub, HCancel, Reattach, CloseStream, ClientAck,
       Finish, Goto, handlerVars, vars
<1> QED BY <1>5, <1>6 DEF recvVars

(* A receiver that is stuck stays so: it consumes no other ack, and no     *)
(* handler gets the lock any more, to register a message or to return; the *)
(* map stays as it is.                                                     *)
THEOREM StuckForEver ==
    ASSUME NEW d \in Deliveries
    PROVE  Spec => [](Stuck(d) =>
                        /\ [](Stuck(d) /\ \A e \in Deliveries : ~WriteLocked(mu, e))
                        /\ [][UNCHANGED <<subAckMap, nextAck>>]_vars)
<1>1. ASSUME IInv, Stuck(d) PROVE Stuck(d) /\ \A e \in Deliveries : ~WriteLocked(mu, e)
    BY <1>1, StuckHolds
<1>2. ASSUME IInv, [Next]_vars, Stuck(d)
      PROVE  Stuck(d)' /\ [UNCHANGED <<subAckMap, nextAck>>]_vars
    BY <1>2, StuckStep
<1> QED BY <1>1, <1>2, Inductive, PTL DEF Spec

(* Why a handler gives up waiting: its subscription or its pubsub has      *)
(* ended, or its message could not be sent.                                *)
GivesUp(d) == BuildCtxDone(d) \/ d \in expired \/ streamDone \/ d \in MayFail

CauseInv ==
    \A d \in Deliveries :
        /\ genOf[d] <= gen
        /\ pc[d] = "cleanup" => outcome[d] \in {"ok", "nack"} \/ GivesUp(d)

LEMMA CauseKept == ASSUME IInv, CauseInv, [Next]_vars PROVE CauseInv'
<1> USE AckRouterAssumption DEF GivesUp, BuildCtxDone
<1>1. /\ pc \in [Deliveries -> {"idle", "register", "returned"} \cup Registered]
      /\ outcome \in [Deliveries -> {"none", "ok", "nack", "cancelled", "error"}]
      /\ genOf \in [Deliveries -> 0..MaxGen] /\ gen \in 1..MaxGen
    BY DEF IInv, TypeOK
<1>2. ASSUME NEW d \in Deliveries, Invoke(d) PROVE CauseInv'
  <2>1. /\ genOf' = [genOf EXCEPT ![d] = gen] /\ UNCHANGED <<gen, live, expired, streamDone>>
        /\ \A e \in Deliveries : pc'[e] = "cleanup" => /\ pc[e] = "cleanup" /\ e # d
                                                      /\ outcome'[e] = outcome[e]
      BY <1>1, <1>2 DEF Invoke, Goto, subVars, clientVars
  <2>2. \A e \in Deliveries : e # d => genOf'[e] = genOf[e]
      BY <1>1, <2>1
  <2>3. genOf'[d] = gen
      BY <1>1, <2>1
  <2> QED BY <1>1, <2>1, <2>2, <2>3 DEF CauseInv
<1>3. ASSUME NEW d \in Deliveries, SendFails(d) \/ Cancelled(d) PROVE CauseInv'
  <2>1. /\ UNCHANGED <<gen, live, genOf, expired, streamDone>>
        /\ GivesUp(d)
        /\ \A e \in Deliveries : e # d => pc'[e] = pc[e] /\ outcome'[e] = outcome[e]
      BY <1>1, <1>3 DEF SendFails, Cancelled, Finish, Goto, subVars, clientVars
  <2> QED BY <2>1 DEF CauseInv
<1>4. CASE DeliverAck
  <2>1. PICK d \in Deliveries :
            /\ UNCHANGED <<gen, live, genOf, expired, streamDone>>
            /\ pc' = [pc EXCEPT ![d] = "cleanup"]
            /\ outcome' = [outcome EXCEPT ![d] = IF acks[nextAck].ok THEN "ok" ELSE "nack"]
      BY <1>4 DEF DeliverAck, Finish, Goto, subVars, clientVars
  <2>2. outcome'[d] \in {"ok", "nack"}
      BY <1>1, <2>1
  <2>3. \A e \in Deliveries : e # d => pc'[e] = pc[e] /\ outcome'[e] = outcome[e]
      BY <1>1, <2>1
  <2> QED BY <2>1, <2>2, <2>3 DEF CauseInv
<1>5. CASE Reattach
  <2>1. gen' = gen + 1 /\ UNCHANGED <<genOf, pc, outcome, expired, streamDone>>
      BY <1>5 DEF Reattach, handlerVars, clientVars
  <2>2. \A d \in Deliveries : genOf[d] < gen' /\ genOf[d] \in Nat
      BY <1>1, <2>1 DEF CauseInv
  <2> QED BY <1>1, <2>1, <2>2 DEF CauseInv
<1>6. CASE HCancel \/ CloseStream \/ (\E d \in Deliveries : ClosePubSub(d))
  <2>1. /\ UNCHANGED <<gen, genOf, pc, outcome>> /\ (live' => live)
        /\ expired \subseteq expired' /\ (streamDone => streamDone')
      BY <1>6 DEF HCancel, CloseStream, ClosePubSub, handlerVars, subVars, clientVars
  <2> QED BY <2>1 DEF CauseInv
<1>7. CASE \/ RecvAck \/ Lookup \/ DropAck \/ ReceiverExit \/ (\E i \in Ids : ClientAck(i)) \/ UNCHANGED vars
           \/ \E d \in Deliveries : AnnounceLock(d) \/ Register(d) \/ SendToClient(d) \/ Cleanup(d)
  <2>1. /\ UNCHANGED <<gen, live, genOf, outcome, expired, streamDone>>
        /\ \A e \in Deliveries : pc'[e] = "cleanup" => pc[e] = "cleanup"
      BY <1>1, <1>7 DEF RecvAck, Lookup, DropAck, ReceiverExit, ClientAck, AnnounceLock, Register,
         SendToClient, Cleanup, Goto, vars, subVars, handlerVars, clientVars
  <2> QED BY <2>1 DEF CauseInv
<1> QED BY <1>2, <1>3, <1>4, <1>5, <1>6, <1>7 DEF Next, HandlerStep, ReceiverStep

(* The receiver is only stuck on a handler that has given up, or whose     *)
(* message was acknowledged before: one ack for each message never is      *)
(* stuck while its handler may wait.                                       *)
THEOREM StuckHasACause ==
    Spec => [](\A d \in Deliveries : Stuck(d) =>
                  GivesUp(d) \/ \E m \in 1..nextAck - 1 : acks[m].id = IdOf[d])
<1>1. Init => CauseInv
    BY AckRouterAssumption DEF Init, CauseInv
<1>2. ASSUME IInv, CauseInv, NEW d \in Deliveries, Stuck(d), ~GivesUp(d)
      PROVE  \E m \in 1..nextAck - 1 : acks[m].id = IdOf[d]
  <2>1. outcome[d] \in {"ok", "nack"}
      BY <1>2 DEF Stuck, CauseInv
  <2>2. settledBy[d] \in 1..Len(acks) /\ acks[settledBy[d]].id = IdOf[d]
    <3>1. OutcomeIsTheClients
        BY <1>2 DEF IInv
    <3>2. /\ settledBy[d] \in 1..Len(acks)
          /\ acks[settledBy[d]] = [id |-> IdOf[d], ok |-> outcome[d] = "ok"]
        BY <2>1, <3>1, Zenon DEF OutcomeIsTheClients
    <3> QED BY <3>2
  <2>3. settledBy[d] < nextAck /\ nextAck \in Nat
      BY <1>2 DEF IInv, SettledInv, TypeOK
  <2> QED BY <2>2, <2>3
<1>3. IInv /\ CauseInv => \A d \in Deliveries : Stuck(d) =>
                               GivesUp(d) \/ \E m \in 1..nextAck - 1 : acks[m].id = IdOf[d]
    BY <1>2
<1> QED BY <1>1, <1>3, CauseKept, Inductive, PTL DEF Spec

=============================================================================
