------------------------------ MODULE AckRouter ------------------------------
(***************************************************************************)
(* buildSubscribeHandler and startAckReceiverForStream of                  *)
(* pkg/api/runtime/grpc/grpc_api.go: how the messages of one Subscribe     *)
(* stream meet their acknowledgements.                                     *)
(*                                                                         *)
(* A delivery is one call of the handler by the pubsub, on a goroutine of  *)
(* its own.  It puts its channel in subAckMap under the message's id,      *)
(* sends the message to the client and waits until the ack receiver of the *)
(* stream sends on the channel, the subscription it was made for is        *)
(* cancelled (hCancel, on a refresh or at the end) or the pubsub closes.   *)
(* subAckMap and its lock belong to the stream: they survive a refresh.    *)
(***************************************************************************)
EXTENDS Integers, Sequences, FiniteSets, GoRWMutex

CONSTANTS Deliveries,   (* the calls of the handler                            *)
          Ids, NoId,    (* the message ids, and the empty one                  *)
          IdOf,         (* the id of the message of each delivery              *)
          Receiver,     (* the goroutine that reads the acks                   *)
          MaxGen,       (* bound on the times the stream attaches to a pubsub  *)
          MayCancel,    (* whether hCancel may be called                       *)
          MayExpire,    (* the deliveries whose pubsub may be closed           *)
          MayFail,      (* the deliveries that may fail to be sent             *)
          AcksPerMessage (* bound on the acks of a client for one message      *)

ASSUME AckRouterAssumption ==
    /\ IdOf \in [Deliveries -> Ids \cup {NoId}]
    /\ NoId \notin Ids
    /\ NoOne \notin Deliveries /\ Receiver \notin Deliveries \cup {NoOne}
    /\ MaxGen \in Nat \ {0} /\ AcksPerMessage \in Nat
    /\ MayCancel \in BOOLEAN
    /\ MayExpire \subseteq Deliveries /\ MayFail \subseteq Deliveries

VARIABLES
    gen,        (* the number of contexts hCtx made so far                   *)
    live,       (* the latest of them is not cancelled                       *)
    genOf,      (* the context each delivery was built with                  *)
    expired,    (* the deliveries whose own context ctx is done              *)
    pc,         (* where the goroutine of each delivery is                   *)
    outcome,    (* what each delivery returns to its pubsub                  *)
    settledBy,  (* the ack, by its place in acks, that settled each delivery *)
    sent,       (* the deliveries whose message the client has               *)
    subAckMap,  (* the delivery whose channel each id maps to                *)
    mu,         (* the lock of subAckMap                                     *)
    acks,       (* all acks of the client, in the order of the stream        *)
    nextAck,    (* the ack the receiver reads next or is working on          *)
    receiver,   (* where the receiver is                                     *)
    target,     (* the delivery whose channel the receiver sends on          *)
    streamDone  (* the stream's context is done                              *)

subVars     == <<gen, live>>
handlerVars == <<genOf, expired, pc, outcome, settledBy, sent>>
recvVars    == <<nextAck, receiver, target>>
clientVars  == <<acks, streamDone>>
vars == <<subVars, handlerVars, recvVars, clientVars, subAckMap, mu>>

Ack == [id : Ids, ok : BOOLEAN]
Registered == {"send", "wait", "cleanup"}

TypeOK ==
    /\ gen \in 1..MaxGen /\ live \in BOOLEAN
    /\ genOf \in [Deliveries -> 0..MaxGen]
    /\ expired \subseteq Deliveries
    /\ pc \in [Deliveries -> {"idle", "register", "returned"} \cup Registered]
    /\ outcome \in [Deliveries -> {"none", "ok", "nack", "cancelled", "error"}]
    /\ settledBy \in [Deliveries -> Nat]
    /\ sent \subseteq Deliveries
    /\ subAckMap \in [Ids -> Deliveries \cup {NoOne}]
    /\ mu \in RWMutex(Deliveries \cup {Receiver})
    /\ acks \in Seq(Ack)
    /\ nextAck \in 1..Len(acks) + 1
    /\ receiver \in {"recv", "rlock", "send", "exited"}
    /\ target \in Deliveries \cup {NoOne}
    /\ streamDone \in BOOLEAN

Init ==
    /\ gen = 1 /\ live = TRUE
    /\ genOf = [d \in Deliveries |-> 0]
    /\ expired = {}
    /\ pc = [d \in Deliveries |-> "idle"]
    /\ outcome = [d \in Deliveries |-> "none"]
    /\ settledBy = [d \in Deliveries |-> 0]
    /\ sent = {}
    /\ subAckMap = [i \in Ids |-> NoOne]
    /\ mu = Unlocked
    /\ acks = <<>> /\ nextAck = 1
    /\ receiver = "recv" /\ target = NoOne
    /\ streamDone = FALSE

-----------------------------------------------------------------------------
(* The handler. *)

Goto(d, from, to) == pc[d] = from /\ pc' = [pc EXCEPT ![d] = to]

(* The pubsub calls the handler; a message without an id is an error.      *)
Invoke(d) ==
    /\ live
    /\ genOf' = [genOf EXCEPT ![d] = gen]
    /\ IF IdOf[d] = NoId
       THEN Goto(d, "idle", "returned") /\ outcome' = [outcome EXCEPT ![d] = "error"]
       ELSE Goto(d, "idle", "register") /\ UNCHANGED outcome
    /\ UNCHANGED <<expired, settledBy, sent, subVars, recvVars, clientVars, subAckMap, mu>>

AnnounceLock(d) ==
    /\ pc[d] \in {"register", "cleanup"}
    /\ NoWriter(mu)
    /\ mu' = Announced(mu, d)
    /\ UNCHANGED <<subVars, handlerVars, recvVars, clientVars, subAckMap>>

(* Mutant of Register: the channel is not put in the map. *)
RegisterNothing(d) ==
    /\ WriteLocked(mu, d)
    /\ Goto(d, "register", "send")
    /\ mu' = Released(mu)
    /\ UNCHANGED <<subAckMap, genOf, expired, outcome, settledBy, sent, subVars, recvVars, clientVars>>

Register(d) ==
    /\ WriteLocked(mu, d)
    /\ Goto(d, "register", "send")
    /\ subAckMap' = [subAckMap EXCEPT ![IdOf[d]] = d]
    /\ mu' = Released(mu)
    /\ UNCHANGED <<genOf, expired, outcome, settledBy, sent, subVars, recvVars, clientVars>>

SendToClient(d) ==
    /\ ~streamDone
    /\ Goto(d, "send", "wait")
    /\ sent' = sent \cup {d}
    /\ UNCHANGED <<genOf, expired, outcome, settledBy, subVars, recvVars, clientVars, subAckMap, mu>>

Finish(d, from, result) ==
    Goto(d, from, "cleanup") /\ outcome' = [outcome EXCEPT ![d] = result]

(* Marshal or Send fails: always so once the stream is gone.               *)
SendFails(d) ==
    /\ streamDone \/ d \in MayFail
    /\ Finish(d, "send", "error")
    /\ UNCHANGED <<genOf, expired, settledBy, sent, subVars, recvVars, clientVars, subAckMap, mu>>

BuildCtxDone(d) == genOf[d] < gen \/ ~live

(* Mutant of Cancelled: the select has no hCtx case. *)
CancelledByPubSubOnly(d) ==
    /\ d \in expired
    /\ Finish(d, "wait", "cancelled")
    /\ UNCHANGED <<genOf, expired, settledBy, sent, subVars, recvVars, clientVars, subAckMap, mu>>

(* The select takes one of its two Done cases.                             *)
Cancelled(d) ==
    /\ BuildCtxDone(d) \/ d \in expired
    /\ Finish(d, "wait", "cancelled")
    /\ UNCHANGED <<genOf, expired, settledBy, sent, subVars, recvVars, clientVars, subAckMap, mu>>

(* Mutant of Cleanup: the entry is not deleted. *)
CleanupNothing(d) ==
    /\ WriteLocked(mu, d)
    /\ Goto(d, "cleanup", "returned")
    /\ mu' = Released(mu)
    /\ UNCHANGED <<subAckMap, genOf, expired, outcome, settledBy, sent, subVars, recvVars, clientVars>>

(* The deferred delete, of whatever the id maps to by now.                 *)
Cleanup(d) ==
    /\ WriteLocked(mu, d)
    /\ Goto(d, "cleanup", "returned")
    /\ subAckMap' = [subAckMap EXCEPT ![IdOf[d]] = NoOne]
    /\ mu' = Released(mu)
    /\ UNCHANGED <<genOf, expired, outcome, settledBy, sent, subVars, recvVars, clientVars>>

-----------------------------------------------------------------------------
(* The ack receiver. *)

RecvAck ==
    /\ receiver = "recv" /\ nextAck <= Len(acks)
    /\ receiver' = "rlock"
    /\ UNCHANGED <<nextAck, target, subVars, handlerVars, clientVars, subAckMap, mu>>

(* Mutant of Lookup: the loop does not compare the ids. *)
LookupAny ==
    /\ receiver = "rlock"
    /\ NoWriter(mu)
    /\ (\E i \in Ids : subAckMap[i] # NoOne /\ target' = subAckMap[i])
    /\ receiver' = "send"
    /\ mu' = ReadLocked(mu, Receiver)
    /\ UNCHANGED <<nextAck, subVars, handlerVars, clientVars, subAckMap>>

(* Mutant of Lookup: the receiver does not take the lock. *)
LookupUnlocked ==
    /\ receiver = "rlock"
    /\ subAckMap[acks[nextAck].id] # NoOne
    /\ target' = subAckMap[acks[nextAck].id]
    /\ receiver' = "send"
    /\ UNCHANGED <<mu, nextAck, subVars, handlerVars, clientVars, subAckMap>>

(* RLock returns and the loop over the map finds the id.                   *)
Lookup ==
    /\ receiver = "rlock" /\ NoWriter(mu)
    /\ subAckMap[acks[nextAck].id] # NoOne
    /\ target' = subAckMap[acks[nextAck].id]
    /\ receiver' = "send"
    /\ mu' = ReadLocked(mu, Receiver)
    /\ UNCHANGED <<nextAck, subVars, handlerVars, clientVars, subAckMap>>

(* Mutant of DropAck: one ack too many is consumed. *)
DropAckTwice ==
    /\ receiver = "rlock"
    /\ NoWriter(mu)
    /\ subAckMap[acks[nextAck].id] = NoOne
    /\ receiver' = "recv"
    /\ nextAck' = nextAck + 2
    /\ UNCHANGED <<target, subVars, handlerVars, clientVars, subAckMap, mu>>

(* The loop does not find it: the ack is dropped.                          *)
DropAck ==
    /\ receiver = "rlock" /\ NoWriter(mu)
    /\ subAckMap[acks[nextAck].id] = NoOne
    /\ receiver' = "recv"
    /\ nextAck' = nextAck + 1
    /\ UNCHANGED <<target, subVars, handlerVars, clientVars, subAckMap, mu>>

(* Mutant of DeliverAck: the ack is not consumed. *)
DeliverAckAgain ==
    \E d \in Deliveries :
        /\ receiver = "send" /\ target = d
        /\ Finish(d, "wait", IF acks[nextAck].ok THEN "ok" ELSE "nack")
        /\ settledBy' = [settledBy EXCEPT ![d] = nextAck]
        /\ receiver' = "recv" /\ target' = NoOne
        /\ mu' = ReadReleased(mu, Receiver)
        /\ UNCHANGED <<nextAck, genOf, expired, sent, subVars, clientVars, subAckMap>>

(* ack.errCh <- err meets the select of the delivery.                      *)
DeliverAck ==
    \E d \in Deliveries :
        /\ receiver = "send" /\ target = d
        /\ Finish(d, "wait", IF acks[nextAck].ok THEN "ok" ELSE "nack")
        /\ settledBy' = [settledBy EXCEPT ![d] = nextAck]
        /\ nextAck' = nextAck + 1
        /\ receiver' = "recv" /\ target' = NoOne
        /\ mu' = ReadReleased(mu, Receiver)
        /\ UNCHANGED <<genOf, expired, sent, subVars, clientVars, subAckMap>>

ReceiverExit ==
    /\ receiver = "recv" /\ streamDone
    /\ receiver' = "exited"
    /\ UNCHANGED <<nextAck, target, subVars, handlerVars, clientVars, subAckMap, mu>>

-----------------------------------------------------------------------------
(* Around the handler: Subscribe, the pubsub and the client. *)

HCancel ==
    /\ MayCancel /\ live
    /\ live' = FALSE
    /\ UNCHANGED <<gen, handlerVars, recvVars, clientVars, subAckMap, mu>>

(* Mutant of Reattach: a refresh starts an empty map. *)
ReattachWithNewMap ==
    /\ ~live
    /\ gen < MaxGen
    /\ gen' = gen + 1
    /\ live' = TRUE
    /\ subAckMap' = [i \in Ids |-> NoOne]
    /\ UNCHANGED <<handlerVars, recvVars, clientVars, mu>>

(* The next round of Subscribe builds a handler with a new context.        *)
Reattach ==
    /\ ~live /\ gen < MaxGen
    /\ gen' = gen + 1 /\ live' = TRUE
    /\ UNCHANGED <<handlerVars, recvVars, clientVars, subAckMap, mu>>

ClosePubSub(d) ==
    /\ d \in MayExpire \ expired /\ pc[d] \in {"register", "send", "wait"}
    /\ expired' = expired \cup {d}
    /\ UNCHANGED <<genOf, pc, outcome, settledBy, sent, subVars, recvVars, clientVars, subAckMap, mu>>

(* A client acknowledges a message it was sent.                            *)
ClientAck(i) ==
    /\ ~streamDone
    /\ Cardinality({n \in DOMAIN acks : acks[n].id = i})
         < AcksPerMessage * Cardinality({d \in sent : IdOf[d] = i})
    /\ \E ok \in BOOLEAN : acks' = Append(acks, [id |-> i, ok |-> ok])
    /\ UNCHANGED <<streamDone, subVars, handlerVars, recvVars, subAckMap, mu>>

CloseStream ==
    /\ MayCancel /\ ~streamDone
    /\ streamDone' = TRUE
    /\ UNCHANGED <<acks, subVars, handlerVars, recvVars, subAckMap, mu>>

-----------------------------------------------------------------------------
HandlerStep(d) ==
    Register(d) \/ SendToClient(d) \/ SendFails(d) \/ Cancelled(d) \/ Cleanup(d)

ReceiverStep == RecvAck \/ DeliverAck \/ ReceiverExit

Next ==
    \/ \E d \in Deliveries :
          Invoke(d) \/ AnnounceLock(d) \/ HandlerStep(d) \/ ClosePubSub(d)
    \/ ReceiverStep \/ Lookup \/ DropAck
    \/ HCancel \/ Reattach \/ CloseStream
    \/ \E i \in Ids : ClientAck(i)

Spec == Init /\ [][Next]_vars

(* Every goroutine that can run eventually runs and the lock is fair; the  *)
(* client, the pubsub and the refreshes are under no obligation.           *)
Fairness ==
    /\ \A d \in Deliveries : WF_vars(HandlerStep(d)) /\ SF_vars(AnnounceLock(d))
    /\ WF_vars(ReceiverStep) /\ SF_vars(Lookup) /\ SF_vars(DropAck)

FairSpec == Spec /\ Fairness

-----------------------------------------------------------------------------
(* Safety. *)

(* What the pubsub is told is what the client said of that message: it is  *)
(* told "processed" or "failed" only on an ack, positive or negative, of   *)
(* the message's id, however late the ack and however often the            *)
(* subscription was refreshed in between.                                  *)
OutcomeIsTheClients ==
    \A d \in Deliveries : outcome[d] \in {"ok", "nack"} =>
        /\ settledBy[d] \in 1..Len(acks)
        /\ acks[settledBy[d]] = [id |-> IdOf[d], ok |-> outcome[d] = "ok"]

(* One ack of the client settles one delivery, never two.                  *)
OneAckOneDelivery ==
    \A d, e \in Deliveries : d # e /\ settledBy[d] # 0 => settledBy[d] # settledBy[e]

(* subAckMap holds no channel of a handler that has returned: a later ack  *)
(* would wait on it with the map locked.                                   *)
MapHoldsLiveHandlers ==
    \A i \in Ids : subAckMap[i] # NoOne =>
        IdOf[subAckMap[i]] = i /\ pc[subAckMap[i]] \in Registered

(* A handler that waits for its ack can be found by it, unless the pubsub  *)
(* has called the handler with the same message twice.                     *)
WaitersAreFound ==
    \A d \in Deliveries :
        (/\ pc[d] \in Registered
         /\ \A e \in Deliveries \ {d} : IdOf[e] = IdOf[d] => pc[e] = "idle")
            => subAckMap[IdOf[d]] = d

(* No handler writes the Go map while the receiver, which ranges over it,  *)
(* is sending to the entry it found.                                       *)
MapStableUnderReceiver == [][receiver = "send" => UNCHANGED subAckMap]_vars

(* Liveness. *)

(* A handler whose subscription is cancelled returns.                      *)
CancelledHandlersReturn ==
    \A d \in Deliveries : (pc[d] = "wait" /\ BuildCtxDone(d)) ~> pc[d] = "returned"

(* It does, if no ack can meet it on its way out.                          *)
UnackedHandlersReturn ==
    \A d \in Deliveries :
        (pc[d] = "wait" /\ BuildCtxDone(d)) ~> (pc[d] = "returned" \/ acks # <<>>)

(* The handler of a message the client has acknowledged returns, if no     *)
(* handler is cancelled and the client keeps the stream, and the message   *)
(* was not delivered twice.                                                *)
AckedHandlersReturn ==
    \A d \in Deliveries :
        (/\ pc[d] = "wait" /\ \E n \in DOMAIN acks : n >= nextAck /\ acks[n].id = IdOf[d]
         /\ \A e \in Deliveries \ {d} : IdOf[e] # IdOf[d])
            ~> (pc[d] = "returned" \/ ~live \/ gen > 1 \/ expired # {} \/ streamDone)
=============================================================================
