------------------------- MODULE SubscriptionServer -------------------------
(***************************************************************************)
(* rusiServerImpl of pkg/api/runtime/grpc/grpc_api.go: the Subscribe RPCs  *)
(* of the sidecar, the Refresh calls of the runtime's two watchers and the *)
(* shutdown of the server.                                                 *)
(*                                                                         *)
(* A stream is one Subscribe RPC with its fresh subId.  Its goroutine      *)
(* attaches to the pubsub component, then parks in a select until the      *)
(* sidecar stops, the client goes away or a Refresh call sends on the      *)
(* unbuffered channel kept for it in refreshChannels; on a refresh it      *)
(* detaches and attaches again.  refreshChannels is guarded by srv.mu,     *)
(* which Refresh holds for reading for as long as it sends.                *)
(***************************************************************************)
EXTENDS Integers, FiniteSets, GoRWMutex

CONSTANTS Streams,     (* the Subscribe RPCs                                 *)
          Refreshers,  (* the goroutines that call Refresh, one call at a time *)
          Leavers,     (* the streams whose client may close them            *)
          MayStop,     (* whether the main context may be cancelled          *)
          MaxRefresh   (* bound on the number of calls of Refresh            *)

ASSUME SubscriptionServerAssumption ==
    /\ IsFiniteSet(Streams)
    /\ Streams \cap Refreshers = {}
    /\ NoOne \notin Streams \cup Refreshers
    /\ Leavers \subseteq Streams
    /\ MayStop \in BOOLEAN
    /\ MaxRefresh \in Nat

VARIABLES
    mainDone,        (* srv.mainCtx is cancelled                             *)
    streamDone,      (* the streams whose Context() is done                  *)
    pc,              (* where the goroutine of each stream is                *)
    exit,            (* the local variable exit of each stream               *)
    attached,        (* the pubsub subscriptions each stream holds           *)
    refreshChannels, (* the streams with an entry in srv.refreshChannels     *)
    mu,              (* srv.mu                                               *)
    subsWaitGroup,   (* the counter of srv.subsWaitGroup                     *)
    serve,           (* the progress of grpcApi.Serve                        *)
    todo,            (* the channels each Refresh call has yet to send on    *)
    sendingTo,       (* the channel each Refresh call is blocked on          *)
    rpc,             (* where each Refresh call is                           *)
    refreshes        (* the number of Refresh calls so far                   *)

streamVars  == <<streamDone, pc, exit, attached, subsWaitGroup>>
refreshVars == <<todo, sendingTo, rpc, refreshes>>
serverVars  == <<mainDone, serve>>
vars == <<streamVars, refreshVars, serverVars, refreshChannels, mu>>

StreamPc == {"idle", "recv", "subscribe", "getChan", "select", "unsub", "remove", "done"}

(* The streams whose RPC is running. *)
Running == {s \in Streams : pc[s] \notin {"idle", "done"}}

TypeOK ==
    /\ mainDone \in BOOLEAN
    /\ streamDone \subseteq Streams
    /\ pc \in [Streams -> StreamPc]
    /\ exit \in [Streams -> BOOLEAN]
    /\ attached \in [Streams -> Int]
    /\ refreshChannels \subseteq Streams
    /\ mu \in RWMutex(Streams \cup Refreshers)
    /\ subsWaitGroup \in Nat   (* a negative counter panics *)
    /\ serve \in {"starting", "serving", "draining", "returned"}
    /\ todo \in [Refreshers -> SUBSET Streams]
    /\ sendingTo \in [Refreshers -> Streams \cup {NoOne}]
    /\ rpc \in [Refreshers -> {"idle", "rlock", "sending"}]
    /\ refreshes \in 0..MaxRefresh

Init ==
    /\ mainDone = FALSE
    /\ streamDone = {}
    /\ pc = [s \in Streams |-> "idle"]
    /\ exit = [s \in Streams |-> FALSE]
    /\ attached = [s \in Streams |-> 0]
    /\ refreshChannels = {}
    /\ mu = Unlocked
    /\ subsWaitGroup = 0
    /\ serve = "starting"
    /\ todo = [r \in Refreshers |-> {}]
    /\ sendingTo = [r \in Refreshers |-> NoOne]
    /\ rpc = [r \in Refreshers |-> "idle"]
    /\ refreshes = 0

-----------------------------------------------------------------------------
(* The Subscribe RPC of a stream. *)

Goto(s, from, to) == pc[s] = from /\ pc' = [pc EXCEPT ![s] = to]

(* Mutant of Accept: the RPC is not added to the wait group. *)
AcceptUncounted(s) ==
    /\ serve = "serving"
    /\ Goto(s, "idle", "recv")
    /\ UNCHANGED <<subsWaitGroup, streamDone, exit, attached, refreshVars, serverVars, refreshChannels, mu>>

(* gRPC starts the handler, whose first statement adds it to the wait group. *)
Accept(s) ==
    /\ serve = "serving"
    /\ Goto(s, "idle", "recv")
    /\ subsWaitGroup' = subsWaitGroup + 1
    /\ UNCHANGED <<streamDone, exit, attached, refreshVars, serverVars, refreshChannels, mu>>

(* The first message of the stream is a subscription request. *)
RecvRequest(s) ==
    /\ Goto(s, "recv", "subscribe")
    /\ UNCHANGED <<streamDone, exit, attached, subsWaitGroup, refreshVars, serverVars, refreshChannels, mu>>

(* Recv fails, or the message is no subscription request: the handler      *)
(* returns before removeRefreshChan is deferred.                           *)
RecvInvalid(s) ==
    /\ Goto(s, "recv", "done")
    /\ subsWaitGroup' = subsWaitGroup - 1
    /\ UNCHANGED <<streamDone, exit, attached, refreshVars, serverVars, refreshChannels, mu>>

(* subscribeHandler returns the function that closes the subscription. *)
Attach(s) ==
    /\ Goto(s, "subscribe", "getChan")
    /\ attached' = [attached EXCEPT ![s] = @ + 1]
    /\ UNCHANGED <<streamDone, exit, subsWaitGroup, refreshVars, serverVars, refreshChannels, mu>>

(* subscribeHandler fails: the RPC ends with its error. *)
AttachFails(s) ==
    /\ Goto(s, "subscribe", "remove")
    /\ UNCHANGED <<streamDone, exit, attached, subsWaitGroup, refreshVars, serverVars, refreshChannels, mu>>

(* getRefreshChan and removeRefreshChan ask for the write lock. *)
AnnounceLock(s) ==
    /\ pc[s] \in {"getChan", "remove"}
    /\ NoWriter(mu)
    /\ mu' = Announced(mu, s)
    /\ UNCHANGED <<streamVars, refreshVars, serverVars, refreshChannels>>

(* Entering the select evaluates getRefreshChan(subId), which makes the    *)
(* channel the first time.                                                 *)
GetRefreshChan(s) ==
    /\ WriteLocked(mu, s)
    /\ Goto(s, "getChan", "select")
    /\ refreshChannels' = refreshChannels \cup {s}
    /\ mu' = Released(mu)
    /\ UNCHANGED <<streamDone, exit, attached, subsWaitGroup, refreshVars, serverVars>>

(* Mutant of SelectDone: the select has no mainCtx case. *)
StreamDoneOnly(s) == s \in streamDone

(* Mutant of SelectDone: the select has no stream case. *)
MainDoneOnly(s) == mainDone

(* One of the two Done cases of the select is ready. *)
SelectDone(s) == mainDone \/ s \in streamDone

(* Mutant of LeaveSelect: the handler returns without unsub(). *)
LeaveSelectAttached(s) ==
    /\ SelectDone(s)
    /\ Goto(s, "select", "remove")
    /\ exit' = [exit EXCEPT ![s] = TRUE]
    /\ UNCHANGED <<streamDone, attached, subsWaitGroup, refreshVars, serverVars, refreshChannels, mu>>

LeaveSelect(s) ==
    /\ SelectDone(s)
    /\ Goto(s, "select", "unsub")
    /\ exit' = [exit EXCEPT ![s] = TRUE]
    /\ UNCHANGED <<streamDone, attached, subsWaitGroup, refreshVars, serverVars, refreshChannels, mu>>

(* Mutant of Unsubscribe: a refresh does not call unsub(). *)
UnsubscribeAtTheEnd(s) ==
    /\ Goto(s, "unsub", IF exit[s] THEN "remove" ELSE "subscribe")
    /\ attached' = (IF exit[s] THEN [attached EXCEPT ![s] = @ - 1] ELSE attached)
    /\ UNCHANGED <<streamDone, exit, subsWaitGroup, refreshVars, serverVars, refreshChannels, mu>>

(* hCancel and unsub; then the handler returns or goes round its loop. *)
Unsubscribe(s) ==
    /\ Goto(s, "unsub", IF exit[s] THEN "remove" ELSE "subscribe")
    /\ attached' = [attached EXCEPT ![s] = @ - 1]
    /\ UNCHANGED <<streamDone, exit, subsWaitGroup, refreshVars, serverVars, refreshChannels, mu>>

(* Mutant of RemoveRefreshChan: the channel stays in the registry. *)
KeepRefreshChan(s) ==
    /\ WriteLocked(mu, s)
    /\ Goto(s, "remove", "done")
    /\ mu' = Released(mu)
    /\ subsWaitGroup' = subsWaitGroup - 1
    /\ UNCHANGED <<refreshChannels, streamDone, exit, attached, refreshVars, serverVars>>

(* The deferred removeRefreshChan and subsWaitGroup.Done. *)
RemoveRefreshChan(s) ==
    /\ WriteLocked(mu, s)
    /\ Goto(s, "remove", "done")
    /\ refreshChannels' = refreshChannels \ {s}
    /\ mu' = Released(mu)
    /\ subsWaitGroup' = subsWaitGroup - 1
    /\ UNCHANGED <<streamDone, exit, attached, refreshVars, serverVars>>

(* The client closes its stream or its connection is lost. *)
CloseStream(s) ==
    /\ s \in (Leavers \cap Running) \ streamDone
    /\ streamDone' = streamDone \cup {s}
    /\ UNCHANGED <<pc, exit, attached, subsWaitGroup, refreshVars, serverVars, refreshChannels, mu>>

-----------------------------------------------------------------------------
(* Refresh. *)

(* Before Serve has made the server grpcApi.Refresh returns at once. *)
RefreshNoServer(r) ==
    /\ serve = "starting" /\ rpc[r] = "idle" /\ refreshes < MaxRefresh
    /\ refreshes' = refreshes + 1
    /\ UNCHANGED <<streamVars, todo, sendingTo, rpc, serverVars, refreshChannels, mu>>

CallRefresh(r) ==
    /\ serve # "starting" /\ rpc[r] = "idle" /\ refreshes < MaxRefresh
    /\ rpc' = [rpc EXCEPT ![r] = "rlock"]
    /\ refreshes' = refreshes + 1
    /\ UNCHANGED <<streamVars, todo, sendingTo, serverVars, refreshChannels, mu>>

(* Mutant of RLockRefresh: Refresh does not take the lock. *)
RefreshUnlocked(r) ==
    /\ rpc[r] = "rlock"
    /\ rpc' = [rpc EXCEPT ![r] = "sending"]
    /\ todo' = [todo EXCEPT ![r] = refreshChannels]
    /\ UNCHANGED <<mu, streamVars, sendingTo, refreshes, serverVars, refreshChannels>>

(* RLock returns and the loop over the map begins. *)
RLockRefresh(r) ==
    /\ rpc[r] = "rlock" /\ NoWriter(mu)
    /\ rpc' = [rpc EXCEPT ![r] = "sending"]
    /\ mu' = ReadLocked(mu, r)
    /\ todo' = [todo EXCEPT ![r] = refreshChannels]
    /\ UNCHANGED <<streamVars, sendingTo, refreshes, serverVars, refreshChannels>>

(* Mutant of NextChannel: the loop never ends. *)
SameChannelAgain(r) ==
    /\ rpc[r] = "sending"
    /\ sendingTo[r] = NoOne
    /\ (\E s \in todo[r] : sendingTo' = [sendingTo EXCEPT ![r] = s])
    /\ UNCHANGED <<todo, streamVars, rpc, refreshes, serverVars, refreshChannels, mu>>

(* The loop takes the next channel, in the order of a Go map: any. *)
NextChannel(r) ==
    /\ rpc[r] = "sending" /\ sendingTo[r] = NoOne
    /\ \E s \in todo[r] :
          /\ sendingTo' = [sendingTo EXCEPT ![r] = s]
          /\ todo' = [todo EXCEPT ![r] = @ \ {s}]
    /\ UNCHANGED <<streamVars, rpc, refreshes, serverVars, refreshChannels, mu>>

(* Mutant of SendRefresh: a refreshed stream ends. *)
RefreshEnds(r) ==
    \E s \in Streams :
        /\ sendingTo[r] = s
        /\ Goto(s, "select", "unsub")
        /\ exit' = [exit EXCEPT ![s] = TRUE]
        /\ sendingTo' = [sendingTo EXCEPT ![r] = NoOne]
        /\ UNCHANGED <<streamDone, attached, subsWaitGroup, todo, rpc, refreshes, serverVars, refreshChannels, mu>>

(* channel <- true meets the select of the stream. *)
SendRefresh(r) ==
    \E s \in Streams :
        /\ sendingTo[r] = s
        /\ Goto(s, "select", "unsub")
        /\ exit' = [exit EXCEPT ![s] = FALSE]
        /\ sendingTo' = [sendingTo EXCEPT ![r] = NoOne]
        /\ UNCHANGED <<streamDone, attached, subsWaitGroup, todo, rpc, refreshes, serverVars, refreshChannels, mu>>

RefreshReturn(r) ==
    /\ rpc[r] = "sending" /\ todo[r] = {} /\ sendingTo[r] = NoOne
    /\ rpc' = [rpc EXCEPT ![r] = "idle"]
    /\ mu' = ReadReleased(mu, r)
    /\ UNCHANGED <<streamVars, todo, sendingTo, refreshes, serverVars, refreshChannels>>

-----------------------------------------------------------------------------
(* Serve and the main context. *)

Listen ==
    /\ serve = "starting"
    /\ serve' = "serving"
    /\ UNCHANGED <<streamVars, refreshVars, mainDone, refreshChannels, mu>>

Shutdown ==
    /\ MayStop /\ ~mainDone
    /\ mainDone' = TRUE
    /\ UNCHANGED <<streamVars, refreshVars, serve, refreshChannels, mu>>

(* GracefulStop: no further RPC is accepted. *)
GracefulStop ==
    /\ mainDone /\ serve = "serving"
    /\ serve' = "draining"
    /\ UNCHANGED <<streamVars, refreshVars, mainDone, refreshChannels, mu>>

(* Mutant of ServeReturns: neither GracefulStop nor Wait waits. *)
ServeReturnsEarly ==
    /\ serve = "draining"
    /\ serve' = "returned"
    /\ UNCHANGED <<streamVars, refreshVars, mainDone, refreshChannels, mu>>

(* grpcServer.Serve returns when GracefulStop has seen every RPC end, and  *)
(* subsWaitGroup.Wait lets grpcApi.Serve return.                           *)
ServeReturns ==
    /\ serve = "draining" /\ Running = {} /\ subsWaitGroup = 0
    /\ serve' = "returned"
    /\ UNCHANGED <<streamVars, refreshVars, mainDone, refreshChannels, mu>>

-----------------------------------------------------------------------------
StreamStep(s) ==
    \/ Attach(s) \/ AttachFails(s)
    \/ GetRefreshChan(s) \/ LeaveSelect(s) \/ Unsubscribe(s) \/ RemoveRefreshChan(s)

RefreshStep(r) == NextChannel(r) \/ SendRefresh(r) \/ RefreshReturn(r)

ServerStep == Listen \/ GracefulStop \/ ServeReturns

Next ==
    \/ \E s \in Streams :
          \/ Accept(s) \/ RecvRequest(s) \/ RecvInvalid(s)
          \/ AnnounceLock(s) \/ StreamStep(s) \/ CloseStream(s)
    \/ \E r \in Refreshers :
          RefreshNoServer(r) \/ CallRefresh(r) \/ RLockRefresh(r) \/ RefreshStep(r)
    \/ ServerStep \/ Shutdown

Spec == Init /\ [][Next]_vars

(* Every goroutine that can run eventually runs, and Go's mutex starves    *)
(* neither a reader nor a writer.  Nothing is assumed of the clients.      *)
Fairness ==
    /\ \A s \in Streams : WF_vars(StreamStep(s)) /\ SF_vars(AnnounceLock(s))
    /\ \A r \in Refreshers : WF_vars(RefreshStep(r)) /\ SF_vars(RLockRefresh(r))
    /\ WF_vars(ServerStep)

FairSpec == Spec /\ Fairness

-----------------------------------------------------------------------------
(* Safety. *)

(* A stream holds exactly one pubsub subscription while it is parked or on *)
(* its way into or out of the select, and none before, between and after:  *)
(* no path through refresh, failure, close and shutdown attaches twice or  *)
(* leaves a subscription behind once Subscribe has returned.               *)
OneSubscriptionPerStream ==
    \A s \in Streams :
        attached[s] = IF pc[s] \in {"getChan", "select", "unsub"} THEN 1 ELSE 0

(* refreshChannels holds a channel for every parked stream, so that a      *)
(* Refresh reaches it, and none for a stream that has not subscribed yet   *)
(* or has returned, on whose channel a Refresh would wait for ever.        *)
RegistryMatchesStreams ==
    \A s \in Streams :
        /\ pc[s] = "select" => s \in refreshChannels
        /\ pc[s] \in {"idle", "recv", "done"} => s \notin refreshChannels

(* grpcApi.Serve returns only after every Subscribe RPC has detached from  *)
(* its pubsub and has dropped its channel: the process may then exit.      *)
ServeWaitsForStreams ==
    serve = "returned" =>
        /\ Running = {} /\ refreshChannels = {} /\ subsWaitGroup = 0
        /\ \A s \in Streams : attached[s] = 0

(* No stream writes the Go map while a Refresh ranges over it.             *)
RefreshRangesOverStableMap ==
    [][(\E r \in Refreshers : rpc[r] = "sending") => UNCHANGED refreshChannels]_vars

(* Liveness. *)

(* A Refresh call returns: a watcher that called it serves the next change. *)
RefreshReturns == \A r \in Refreshers : rpc[r] = "rlock" ~> rpc[r] = "idle"

(* What may meet a Refresh: a shutdown, a client that leaves, another one. *)
Disturbed == mainDone \/ streamDone # {} \/ refreshes > 1

(* An undisturbed Refresh returns, whatever streams open, attach and fail  *)
(* meanwhile.                                                              *)
UndisturbedRefreshReturns ==
    \A r \in Refreshers : rpc[r] = "rlock" ~> (rpc[r] = "idle" \/ Disturbed)

(* A stream that is parked when such a Refresh is called subscribes again: *)
(* the new configuration reaches it.                                       *)
ParkedStreamsResubscribe ==
    \A s \in Streams :
        (pc[s] = "select" /\ \E r \in Refreshers : rpc[r] = "rlock")
            ~> (pc[s] = "subscribe" \/ Disturbed)

(* Once the main context is cancelled Serve returns, unless a Refresh runs *)
(* or a client has opened a stream and sends nothing on it: GracefulStop   *)
(* waits for it.                                                           *)
RefreshRuns == \E r \in Refreshers : rpc[r] # "idle"

ShutdownCompletes ==
    mainDone ~> (serve = "returned" \/ RefreshRuns \/ \E s \in Streams : pc[s] = "recv")

(* A parked stream whose client has left ends its RPC, unless a Refresh runs. *)
LeaverReturns ==
    \A s \in Streams : (s \in streamDone /\ pc[s] = "select") ~> (pc[s] = "done" \/ RefreshRuns)

-----------------------------------------------------------------------------
(* What a client sees of its stream, for SubscriptionLifecycle. *)
PhaseOf(at, subscriptions) ==
    IF at = "idle" THEN "absent"
    ELSE IF at = "done" THEN "closed"
    ELSE IF subscriptions = 0 THEN "open" ELSE "attached"

Phase == [s \in Streams |-> PhaseOf(pc[s], attached[s])]

Lifecycle == INSTANCE SubscriptionLifecycle
                WITH phase <- Phase, stopped <- (serve = "returned")

(* The server implements the life cycle of its subscriptions.              *)
ImplementsLifecycle == Lifecycle!Spec
=============================================================================
