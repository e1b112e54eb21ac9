----------------------------- MODULE InMemoryBus -----------------------------
(***************************************************************************)
(* The bus of pkg/messaging/inmemory.go, on which the tests of the gRPC    *)
(* API rest: Publish reads the handlers of a topic and leaves the rest to  *)
(* a goroutine, which starts one more for each of them and waits for all;  *)
(* a counter says whether goroutines are at work.                          *)
(***************************************************************************)
EXTENDS Integers, FiniteSets

CONSTANTS Subscribers, Publishes, BusTopics,
          TopicOf       \* the topic of each publish and of each subscriber

ASSUME BusAssumption == IsFiniteSet(Publishes)

VARIABLES
    busHandlers,    \* the subscribers of each topic
    busSubscribed,  \* those that have subscribed, and have not but once
    busRuns,        \* runHandlers of each publish: "new", "called", "working", "ended"
    busSnapshot,    \* the handlers that Publish has read
    busRunning,     \* the handlers of each publish that have not returned
    busRan,         \* those that have been started
    busCounter      \* workingCounter
busVars == <<busHandlers, busSubscribed, busRuns, busSnapshot, busRunning, busRan, busCounter>>

BusInit ==
    /\ busHandlers = [t \in BusTopics |-> {}] /\ busSubscribed = {}
    /\ busRuns = [p \in Publishes |-> "new"]
    /\ busSnapshot = [p \in Publishes |-> {}]
    /\ busRunning = [p \in Publishes |-> {}] /\ busRan = [p \in Publishes |-> {}]
    /\ busCounter = 0

BusSubscribe(s) ==
    /\ s \notin busSubscribed
    /\ busSubscribed' = busSubscribed \cup {s}
    /\ busHandlers' = [busHandlers EXCEPT ![TopicOf[s]] = @ \cup {s}]
    /\ UNCHANGED <<busRuns, busSnapshot, busRunning, busRan, busCounter>>

BusUnsubscribe(s) ==
    /\ s \in busHandlers[TopicOf[s]]
    /\ busHandlers' = [busHandlers EXCEPT ![TopicOf[s]] = @ \ {s}]
    /\ UNCHANGED <<busSubscribed, busRuns, busSnapshot, busRunning, busRan, busCounter>>

BusRun(p, from, to) == busRuns[p] = from /\ busRuns' = [busRuns EXCEPT ![p] = to]

BusPublish(p) ==
    /\ BusRun(p, "new", "called")
    /\ busSnapshot' = [busSnapshot EXCEPT ![p] = busHandlers[TopicOf[p]]]
    /\ UNCHANGED <<busHandlers, busSubscribed, busRunning, busRan, busCounter>>

(* Mutant of RunHandlers: the handlers are read when the goroutine runs. *)
RunHandlersLate(p) ==
    LET now == busHandlers[TopicOf[p]]
    IN  /\ BusRun(p, "called", "working")
        /\ busCounter' = busCounter + 1
        /\ busRunning' = [busRunning EXCEPT ![p] = now] /\ busRan' = [busRan EXCEPT ![p] = now]
        /\ UNCHANGED <<busHandlers, busSubscribed, busSnapshot>>

\* The goroutine counts itself before it starts the handlers, not before Publish
\* has returned.
RunHandlers(p) ==
    /\ BusRun(p, "called", "working")
    /\ busCounter' = busCounter + 1
    /\ busRunning' = [busRunning EXCEPT ![p] = busSnapshot[p]]
    /\ busRan' = [busRan EXCEPT ![p] = busSnapshot[p]]
    /\ UNCHANGED <<busHandlers, busSubscribed, busSnapshot>>

\* A handler returns, with an error or after its five seconds as well.
BusHandlerReturns(p, s) ==
    /\ s \in busRunning[p]
    /\ busRunning' = [busRunning EXCEPT ![p] = @ \ {s}]
    /\ UNCHANGED <<busHandlers, busSubscribed, busRuns, busSnapshot, busRan, busCounter>>

(* Mutant of RunHandlersEnd: the goroutine does not wait for the handlers. *)
RunHandlersEndEarly(p) ==
    /\ BusRun(p, "working", "ended")
    /\ busCounter' = busCounter - 1
    /\ UNCHANGED <<busHandlers, busSubscribed, busSnapshot, busRunning, busRan>>

RunHandlersEnd(p) ==
    /\ busRunning[p] = {} /\ BusRun(p, "working", "ended")
    /\ busCounter' = busCounter - 1
    /\ UNCHANGED <<busHandlers, busSubscribed, busSnapshot, busRunning, busRan>>

BusNext ==
    \/ \E s \in Subscribers : BusSubscribe(s) \/ BusUnsubscribe(s)
    \/ \E p \in Publishes : \/ BusPublish(p) \/ RunHandlers(p) \/ RunHandlersEnd(p)
                            \/ \E s \in Subscribers : BusHandlerReturns(p, s)
BusSpec == BusInit /\ [][BusNext]_busVars

-----------------------------------------------------------------------------
\* A test that waits until IsDoneWorking, once the goroutines of its publishes have
\* begun, finds that every handler subscribed at the time of a publish was called
\* and has returned, however subscriptions change meanwhile (grpc_api_test.go:137).
DoneMeansHandled ==
    busCounter = 0 =>
        \A p \in Publishes :
            busRuns[p] \in {"working", "ended"} =>
                busRan[p] = busSnapshot[p] /\ busRunning[p] = {}
=============================================================================
