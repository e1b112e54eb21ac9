-------------------------- MODULE JetStreamConsumer --------------------------
(***************************************************************************)
(* One subscription of pkg/messaging/jetstream/jetstream.go: a loop takes a *)
(* slot of a semaphore for each goroutine it starts; a goroutine waits for  *)
(* a message on the shared iterator and runs the handler, or, on an error,  *)
(* closes the channel done that ends the loop.  A message is acknowledged   *)
(* to the server after its handler has succeeded; the server delivers it    *)
(* again when its ack wait has passed.                                      *)
(***************************************************************************)
EXTENDS Naturals, FiniteSets

CONSTANTS Messages,     (* the messages of the topic                          *)
          Workers,      (* names for goroutines, reused when one has ended    *)
          MaxInFlight,  (* the slots of the semaphore                         *)
          MaxDeliveries, (* bound on the deliveries of a message              *)
          MayFail,      (* whether pulling or the connection may fail         *)
          Nothing       (* no message                                         *)

ASSUME JetStreamConsumerAssumption ==
    /\ MaxInFlight \in Nat \ {0} /\ MaxDeliveries \in Nat \ {0}
    /\ IsFiniteSet(Workers)
    /\ MayFail \in BOOLEAN
    /\ Nothing \notin Messages

VARIABLES
    loop,        (* the loop is in its select or has returned                 *)
    pc, msg,     (* where each goroutine is, and the message it handles       *)
    sem,         (* the slots taken                                           *)
    done,        (* done is closed                                            *)
    panicked,    (* done was closed twice, which ends the process             *)
    cancelled,   (* the context of the handlers is done                       *)
    iterator,    (* "open", "stopped" by the subscriber, or "failed"          *)
    connected,   (* natsConn is open                                          *)
    waiting,     (* the messages the server has still to deliver              *)
    pulled,      (* the message that waits in the iterator                    *)
    deliveries,  (* how often each message was delivered                      *)
    processed,   (* the messages a handler has succeeded on                   *)
    acked        (* those acknowledged to the server                          *)

loopVars   == <<loop, sem, done, panicked>>
brokerVars == <<waiting, pulled, deliveries, acked>>
endVars    == <<cancelled, iterator, connected>>
vars == <<loopVars, pc, msg, endVars, brokerVars, processed>>

WorkerPc == {"idle", "next", "select", "close", "handle", "ack", "release"}

TypeOK ==
    /\ loop \in {"select", "returned"}
    /\ pc \in [Workers -> WorkerPc]
    /\ msg \in [Workers -> Messages \cup {Nothing}]
    /\ sem \in 0..MaxInFlight
    /\ done \in BOOLEAN /\ panicked \in BOOLEAN /\ cancelled \in BOOLEAN
    /\ iterator \in {"open", "stopped", "failed"}
    /\ connected \in BOOLEAN
    /\ waiting \subseteq Messages /\ pulled \in Messages \cup {Nothing}
    /\ deliveries \in [Messages -> 0..MaxDeliveries]
    /\ processed \subseteq Messages /\ acked \subseteq Messages

Init ==
    /\ loop = "select" /\ sem = 0 /\ done = FALSE /\ panicked = FALSE
    /\ pc = [w \in Workers |-> "idle"]
    /\ msg = [w \in Workers |-> Nothing]
    /\ cancelled = FALSE /\ iterator = "open" /\ connected = TRUE
    /\ waiting = Messages /\ pulled = Nothing
    /\ deliveries = [m \in Messages |-> 0]
    /\ processed = {} /\ acked = {}

-----------------------------------------------------------------------------
(* The loop. *)

Goto(w, from, to) == pc[w] = from /\ pc' = [pc EXCEPT ![w] = to]

(* Mutant of TakeSlot: the semaphore has no limit *)
TakeSlotUnbounded(w) ==
    /\ loop = "select"
    /\ sem' = sem + 1
    /\ Goto(w, "idle", "next")
    /\ UNCHANGED <<loop, done, panicked, msg, endVars, brokerVars, processed>>

(* sem <- struct{}{} succeeds and a goroutine starts.                      *)
TakeSlot(w) ==
    /\ loop = "select" /\ sem < MaxInFlight
    /\ sem' = sem + 1
    /\ Goto(w, "idle", "next")
    /\ UNCHANGED <<loop, done, panicked, msg, endVars, brokerVars, processed>>

LoopReturns ==
    /\ loop = "select" /\ done
    /\ loop' = "returned"
    /\ UNCHANGED <<sem, done, panicked, pc, msg, endVars, brokerVars, processed>>

-----------------------------------------------------------------------------
(* A goroutine. *)

NextMessage(w) ==
    /\ iterator = "open" /\ pulled # Nothing
    /\ Goto(w, "next", "handle")
    /\ msg' = [msg EXCEPT ![w] = pulled]
    /\ pulled' = Nothing
    /\ UNCHANGED <<loopVars, endVars, waiting, deliveries, acked, processed>>

(* Mutant of NextFails: the connection stays open *)
NextFailsQuietly(w) ==
    /\ iterator # "open"
    /\ Goto(w, "next", "select")
    /\ UNCHANGED <<loopVars, msg, endVars, brokerVars, processed>>

(* An error other than "iterator closed" closes the connection, too.       *)
NextFails(w) ==
    /\ iterator # "open"
    /\ Goto(w, "next", "select")
    /\ connected' = (connected /\ iterator = "stopped")
    /\ UNCHANGED <<loopVars, msg, cancelled, iterator, brokerVars, processed>>

(* The select on done takes its case or its default.                       *)
CheckDone(w) ==
    /\ Goto(w, "select", IF done THEN "release" ELSE "close")
    /\ UNCHANGED <<loopVars, msg, endVars, brokerVars, processed>>

(* Mutant of CloseDone: done stays open *)
CloseNothing(w) ==
    /\ Goto(w, "close", "release")
    /\ UNCHANGED <<loopVars, msg, endVars, brokerVars, processed>>

(* close(done) panics when it is closed.                                   *)
CloseDone(w) ==
    /\ Goto(w, "close", "release")
    /\ done' = TRUE /\ panicked' = done
    /\ UNCHANGED <<loop, sem, msg, endVars, brokerVars, processed>>

HandlerSucceeds(w) ==
    /\ Goto(w, "handle", "ack")
    /\ processed' = processed \cup {msg[w]}
    /\ UNCHANGED <<loopVars, msg, endVars, brokerVars>>

(* Mutant of HandlerFails: a failed message is acknowledged *)
HandlerFailsAcked(w) ==
    /\ Goto(w, "handle", "ack")
    /\ cancelled \/ deliveries[msg[w]] < MaxDeliveries
    /\ UNCHANGED <<loopVars, msg, endVars, brokerVars, processed>>

HandlerFails(w) ==
    /\ Goto(w, "handle", "release")
    /\ cancelled \/ deliveries[msg[w]] < MaxDeliveries
    /\ UNCHANGED <<loopVars, msg, endVars, brokerVars, processed>>

(* The error of an Ack on a closed connection is ignored.                  *)
Ack(w) ==
    /\ Goto(w, "ack", "release")
    /\ acked' = IF connected THEN acked \cup {msg[w]} ELSE acked
    /\ waiting' = IF connected THEN waiting \ {msg[w]} ELSE waiting
    /\ UNCHANGED <<loopVars, msg, endVars, pulled, deliveries, processed>>

(* Mutant of ReleaseSlot: a goroutine keeps its slot *)
ReleaseNothing(w) ==
    /\ Goto(w, "release", "idle")
    /\ msg' = [msg EXCEPT ![w] = Nothing]
    /\ UNCHANGED <<loopVars, endVars, brokerVars, processed>>

(* Mutant of ReleaseSlot: a goroutine releases the slots of all *)
ReleaseAll(w) ==
    /\ Goto(w, "release", "idle")
    /\ sem' = 0
    /\ msg' = [msg EXCEPT ![w] = Nothing]
    /\ UNCHANGED <<loop, done, panicked, endVars, brokerVars, processed>>

(* The deferred <-sem.                                                     *)
ReleaseSlot(w) ==
    /\ Goto(w, "release", "idle")
    /\ sem' = sem - 1
    /\ msg' = [msg EXCEPT ![w] = Nothing]
    /\ UNCHANGED <<loop, done, panicked, endVars, brokerVars, processed>>

-----------------------------------------------------------------------------
(* The subscriber and the manager. *)

(* Subscribe of the sidecar cancels its context, then calls unsub().       *)
Cancel ==
    /\ ~cancelled /\ cancelled' = TRUE
    /\ UNCHANGED <<loopVars, pc, msg, iterator, connected, brokerVars, processed>>

Unsubscribe ==
    /\ cancelled /\ iterator = "open"
    /\ iterator' = "stopped"
    /\ UNCHANGED <<loopVars, pc, msg, cancelled, connected, brokerVars, processed>>

(* Close of the pubsub: its context is cancelled and the connection closed. *)
ClosePubSub ==
    /\ connected
    /\ cancelled' = TRUE /\ connected' = FALSE
    /\ iterator' = IF iterator = "open" THEN "failed" ELSE iterator
    /\ UNCHANGED <<loopVars, pc, msg, brokerVars, processed>>

(* The consumer is deleted or the connection is given up.                  *)
PullingFails ==
    /\ MayFail /\ iterator = "open"
    /\ iterator' = "failed" /\ connected' \in {connected, FALSE}
    /\ UNCHANGED <<loopVars, pc, msg, cancelled, brokerVars, processed>>

-----------------------------------------------------------------------------
(* The server: at most one message waits in the iterator (PullMaxMessages). *)

Deliver(m) ==
    /\ connected /\ iterator = "open" /\ pulled = Nothing
    /\ m \in waiting /\ deliveries[m] < MaxDeliveries
    /\ waiting' = waiting \ {m} /\ pulled' = m
    /\ deliveries' = [deliveries EXCEPT ![m] = @ + 1]
    /\ UNCHANGED <<loopVars, pc, msg, endVars, acked, processed>>

(* The ack wait of a message passes, whether it is being handled or not.   *)
AckTimeout(m) ==
    /\ m \notin waiting \cup acked /\ deliveries[m] < MaxDeliveries
    /\ waiting' = waiting \cup {m}
    /\ UNCHANGED <<loopVars, pc, msg, endVars, pulled, deliveries, acked, processed>>

-----------------------------------------------------------------------------
WorkerStep(w) ==
    NextMessage(w) \/ NextFails(w) \/ CheckDone(w) \/ CloseDone(w) \/ Ack(w) \/ ReleaseSlot(w)

LoopStep == LoopReturns \/ \E w \in Workers : TakeSlot(w)

Next ==
    /\ ~panicked
    /\ \/ LoopStep
       \/ \E w \in Workers : WorkerStep(w) \/ HandlerSucceeds(w) \/ HandlerFails(w)
       \/ Cancel \/ Unsubscribe \/ ClosePubSub \/ PullingFails
       \/ \E m \in Messages : Deliver(m) \/ AckTimeout(m)

Spec == Init /\ [][Next]_vars

(* Goroutines run and the server delivers; a select with two cases ready   *)
(* picks one at random and so takes each in the end; a handler returns     *)
(* when it is cancelled, and otherwise only when the application cares to. *)
Fairness ==
    /\ WF_vars(LoopReturns /\ ~panicked)
    /\ WF_vars((\E w \in Workers : TakeSlot(w)) /\ ~panicked)
    /\ \A w \in Workers :
          /\ WF_vars(WorkerStep(w) /\ ~panicked)
          /\ WF_vars(HandlerFails(w) /\ cancelled /\ ~panicked)
    /\ \A m \in Messages : WF_vars(Deliver(m) /\ ~panicked)

FairSpec == Spec /\ Fairness

-----------------------------------------------------------------------------
(* Safety. *)

Handling == {w \in Workers : pc[w] \in {"handle", "ack"}}

(* No more messages are handled at a time than the subscription allows,    *)
(* however many goroutines end with an error or find the iterator stopped. *)
InFlightWithinLimit == Cardinality(Handling) <= MaxInFlight

(* The server is told that a message is done only if a handler succeeded   *)
(* on it: a failure, a cancellation or a shutdown leaves it to be          *)
(* delivered again.                                                        *)
OnlyProcessedIsAcked == acked \subseteq processed

(* "Channel is already closed, do nothing": no goroutine closes done twice. *)
DoneIsClosedOnce == ~panicked

(* Liveness. *)

FreeSlot == Cardinality(Handling) < MaxInFlight

(* No message waits for ever while a handler could take it.                *)
WaitingMessagesAreTaken ==
    \A m \in Messages :
        []<>(~ (/\ m \in waiting /\ deliveries[m] < MaxDeliveries
                /\ iterator = "open" /\ FreeSlot))

(* A subscription that can no longer pull is noticed, and its connection   *)
(* closed, once a handler is free: the health check then tells.            *)
FailureClosesConnection ==
    []<>(~ (iterator = "failed" /\ connected /\ FreeSlot /\ ~panicked))

(* After the subscriber has left no goroutine of the subscription remains, *)
(* unless two of them close done.                                          *)
NothingRemains ==
    (cancelled /\ iterator # "open") ~>
        (panicked \/ (loop = "returned" /\ \A w \in Workers : pc[w] = "idle"))
=============================================================================
