# rusi: verification of the sidecar and the operator

Specifications, in TLA+, of rusi (`src/`): the runtime sidecar `rusid`, which connects
an application to a message broker over gRPC streams, the operator, which watches
Kubernetes and tells the sidecars of components and configurations, and the injector,
which puts a sidecar into pods. TLC checks them on small instances, TLAPS proves
their safety for every instance.

## 1. The system

```
  Kubernetes --informers--> operator --Watch RPCs--> operator client
                                                       | components      | configuration
                                                       v                 v
                                             ComponentsManager        Runtime
                                              (pubsub instances) --change--> | Refresh()
                                                       ^                     v
  broker <--- pubsub instance <----- subscribe --- SubscriptionServer <--stream--> application
     |                                                 ^
     '---- message ----> handler -- Send / ack ---- AckRouter
```

Around it stands the process (`cmd/rusid`): flags, local files or watchers, the
telemetry configuration, the health endpoint and one wait group for the end. The
injector is a program of its own that only meets the API server of Kubernetes.

| Component | Source | State | Operations | Hard because of |
|---|---|---|---|---|
| Subscription server | `pkg/api/runtime/grpc/grpc_api.go` | refresh channels under `srv.mu`, wait group, one goroutine per stream | `Subscribe`, `Refresh`, `Serve` | unbuffered sends with a lock held; refresh, shutdown and a leaving client race |
| Ack routing | same file, `buildSubscribeHandler` | map of message id to ack channel, `RWMutex` | handler per message, ack receiver | late acks, redelivery, cancellation, sends with a lock held |
| Components manager | `pkg/runtime/components_manager.go` | `components`, `pubSubInstances` | `addOrUpdateComponent`, `GetPublisher`, `GetSubscriber`, `GetMiddleware` | two maps written in several critical sections, steps that fail half way, a blocking announcement |
| Runtime | `pkg/runtime/runtime.go` | `appConfig` | publish and subscribe handlers, two watchers | `appConfig` is shared without a lock, two goroutines call `Refresh` |
| JetStream pubsub | `pkg/messaging/jetstream` | semaphore, `done`, iterator, connection | `Subscribe`, unsubscribe, `Close` | goroutines of one subscription end by an error of the iterator only |
| NATS streaming pubsub | `pkg/messaging/nats` | connection, options | `Init`, `Subscribe`, `Publish`, `Close`, a goroutine per delivery | redelivery while a handler runs, answers and acks that are lost |
| Subscription options | `pkg/messaging/nats`, `jetstream` | options of the component | parse, merge with a request | precedence, numeric conversions |
| Pipelines, tracing | `pkg/messaging/pipeline.go`, `pkg/middleware` | the propagator (global) | spans and headers at both ends | the propagator is replaced between two ends of a message |
| In-memory bus | `pkg/messaging/inmemory.go` | handlers per topic, working counter | `Publish`, `Subscribe`, unsubscribe | counter raised late, handlers read before they run |
| Object watcher of the operator | `pkg/operator/operator.go`, `server.go` | items by key, listener channels, one `RWMutex` | informer callbacks, `WatchComponents`, `WatchConfiguration`, replay | one goroutine per update and listener, a replay that sends with the lock held |
| Operator client | `pkg/operator/client.go` | stream, channel | receive, hand over, reconnect, end | errors dropped, a send that ignores the context |
| Process | `cmd/rusid`, `pkg/runtime/config.go` | main context, wait group | flags, start, interrupt, end | goroutines that register with the wait group themselves |
| Loaders | `pkg/custom-resource/*/loader` | none | documents of files to specs | documents, files and kinds that are skipped |
| Telemetry configuration | `internal/diagnostics`, `internal/tracing` | previous configuration, stopper, installed tracer | start, stop | valid and invalid configurations in any order |
| Health checks | `pkg/healthcheck` | none | concurrent checkers with a timeout | results that come late, pubsubs that come and go |
| Injector | `pkg/injector` | accounts that may submit | admission review to pod patch | positions in lists, pods that are submitted again |

What makes each of them correct, in short: every stream holds at most one
subscription, and is told of every refresh; what the broker hears of a message
is what the application said of it; the instance that subscribers get is the one
the stored spec describes; the in-flight limit holds and nothing is acknowledged
unprocessed; no update of a component is lost between the cluster and a sidecar;
what a request asks is what the broker is asked; a caller is told of a success only
if it was one; once `Serve` has returned after an interrupt the process ends; a patch fits its pod; no goroutine
waits for ever. `PROJECT.json` lists every component with its
status, and every hazard with its line and the properties about it.

## 2. The modules

Go's `sync.RWMutex` is the module `GoRWMutex`: its readers and its writer, and a
writer that waits, which keeps new readers out. `Lock` is therefore two steps,
*announce* and *take*; Go's `select` is a choice among the cases that are ready;
a send on an unbuffered channel is one joint step of its two goroutines, and a
goroutine that has nobody to meet stays where it is.

Beside each action stands, now and then, an operator marked *Mutant of ...*: the
action with a plausible bug in it. It is used by no specification; put in the
action's place it makes the property named in `PROJECT.json` fail, which shows that
the property depends on that line of the code.

### SubscriptionServer

One `Subscribe` RPC is a stream `s`, its program counter `pc[s]` names the place
in the Go function:

| Action | Code |
|---|---|
| `Accept`, `RecvRequest`, `RecvInvalid` | entry, first `Recv` (122-137) |
| `Attach`, `AttachFails` | `subscribeHandler` (139-151) |
| `AnnounceLock`, `GetRefreshChan` | `getRefreshChan`, evaluated by the select (102-113) |
| `LeaveSelect`, `SendRefresh` | the cases of the select (153-164) |
| `Unsubscribe`, `RemoveRefreshChan` | `hCancel`, `unsub`, the deferred removal (165-175) |
| `CallRefresh`, `RLockRefresh`, `NextChannel`, `RefreshReturn` | `Refresh` (93-100) |
| `Listen`, `Shutdown`, `GracefulStop`, `ServeReturns` | `Serve` (48-70) |

`SubscriptionLifecycle` is the abstract specification: a stream is absent, open,
attached or closed, and the server stops when all are closed. `Phase` is the
refinement mapping and `ImplementsLifecycle` the property.

### AckRouter

The messages of one stream: a handler `d` per delivery registers a channel under
its message's id, sends the message to the client and waits for an ack, for the
end of the subscription (`BuildCtxDone`) or of its own context. The receiver looks
up each ack with the map read-locked and sends on the channel it found. Ids are
few, so that a redelivery overwrites the entry of the first delivery. Acks are kept
in the order in which the client sent them (`acks`, `nextAck`).

### ComponentsManager

`made` is the history of all pubsub instances, `pubSubInstances` the place in it of
each name's instance; one goroutine goes through `check`, `close`, `init`,
`install`, `store`, `publish` for each spec, any of which may fail where the code
has an error path. The unbuffered change channel is the joint step `PublishChange`
with the watcher in the runtime, which calls `Refresh` after updates only.
`broken` and `refreshed` are history, used by the properties only.

### JetStreamConsumer

The semaphore loop of one subscription. A worker is a goroutine: it waits for a
message, handles it, acknowledges it, and gives back its slot; or it gets an error
from the iterator, closes the connection unless the iterator was stopped, and
closes `done` if nobody has. The check and the close are two steps, as in the code.
The server, which redelivers what is not acknowledged in time, is external.

### ObjectWatcher

The two informers of the operator, on one mutex. An update is stored under the
write lock, then announced under the read lock by a goroutine per listener: the set
`pending`. A Watch RPC registers its channel, starts a replay of the map, receives
until its client leaves, and deregisters. Versions number the updates of an object.

### Sidecar

`SubscriptionServer` and `ComponentsManager` as `cmd/rusid` puts them together, with
the runtime between them. The parts are instances and keep their actions; an action
of the sidecar is an action of one of them with what the runtime adds:

| Action | Code |
|---|---|
| `LookUp`, `Subscribe`, `SubscribeFails`, `Unsubscribe` | `SubscribeHandler` (`runtime.go`, 149-173) under the stream's `Attach`, `AttachFails`, `Unsubscribe` |
| `NewRuntime`, `Run`, `Stops` | start and end, `cmd/rusid/sidecar.go` |
| `ConfigurationChanges`, `ComponentChanges` | the two watchers (67-97) receive something |
| `Refresh`, `RefreshBegins`, `RefreshSends`, `ComponentsRefreshed` | and call `Refresh` |
| `ManagerMoves`, `LoaderActs` | all other steps of the manager |

`instance[s]` and `pipeline[s]` say which pubsub instance and which configuration a
stream works with, `appConfig` numbers the configurations, `due` has the watchers
that have received a change and not yet called `Refresh`. `missed` is history: the
streams that a `Refresh` found between their lookup and their registration. Middleware
that is missing, and a configuration read while it is being replaced, are failures of
`SubscribeFails`; the `appConfig` a stream reads twice is taken to be whole.

### SidecarProcess

The process around the sidecar. `ProcessInit` is everything main does before it
starts goroutines: the flags (`Build`), in standalone mode the files
(`LoadComponents`, `LoadStandalone`), in kubernetes mode the first connection to the
operator; it either runs or has exited. The listening of `Serve` is part of it: a port
that is taken kills the process (`grpc_api.go:55`).

| Action | Code |
|---|---|
| `Start`, `Select`, `Recv`, `RecvFails`, `Reconnect`, `Send`, `CloseChannel`, `Done` | the goroutine of a watcher (`client.go`, 39-130) |
| `SendList` | the goroutine of a local loader (`loader/local.go`, 66-80) |
| `Consume`, `Hang`, `ConsumerEnds` | the reader of the channel: `WatchConfig` (`diagnostics.go`), or the manager, which may block for ever as a `Refresh` can |
| `DiagStart`, `DiagEnds`, `DiagFails` | the diagnostics server |
| `Interrupt`, `ServeReturns`, `ServeFails`, `Exit` | main (`sidecar.go`, 65-129) |
| `Change`, `Announce` | an update is stored, then announced to the listener by a goroutine of its own (`operator.go`, 83-141) |
| `Register`, `Replay` | a Watch RPC adds its listener, a goroutine replays what is stored (`operator.go`, 143-170) |
| `Deliver` | one of the goroutines meets the RPC, which sends to the sidecar (`server.go`, 20-60): those of two updates in either order |
| `Break` | the network: what was not yet delivered is lost, the RPC ends |

The operator is `ObjectWatcher` seen by one sidecar: each informer and each Watch RPC
with its critical sections as steps, the mutex itself only as an exception of the
property about arrival (`WaitsForMutex`). A spec is its version; 0 is the empty
spec, which `Unmarshal` makes of bytes that are not one. `sent` is history: whether an
older version came after a newer one on the current stream (`Overtaken`).

`Configure` is the body of `WatchConfig`: `tracer` keeps its locals (`prev`,
`stopper`), the provider that is installed and those that live (`live`).

### HealthCheck

A probe, its two checkers and their timeouts (`Arrive` to `Respond`), with the
goroutine of the manager's check as an actor of its own: it asks the installed
pubsubs one by one (`BeginReading`, `AskPubSub`, `EndReading`), and keeps waiting with
its result when the timeout has answered for it. `hcWasUp`, `hcWasDown`, `hcHadNone`
are history: what was so while the probe lasted.

### SidecarInjector

`HandleRequest` and `PodPatchOperations` follow `injector.go` and `pod_patch.go`:
annotations, the sidecar's container, the patch. `Applicable` and `ApplyOp` are JSON
patch as the API server applies it, at the paths this patch has. A pod is submitted,
answered, created or refused, and may be submitted again as it was stored.

### SubscriptionOptions

The metadata of a component, parsed once (`ParseNats`, `ParseJetStream`, and what they
reject), the merging with a request's options (`MergeNats`, `MergeJetStream`), and what
the broker is then asked for (`SubscribeNats`, `StanStart`, `SubscribeJetStream`). The
target of a subscription is what the broker tells subscribers apart by.

### MessagePath

A message from `Publish` to the handler of a subscription in another sidecar through
NATS streaming: checks (`PublishRefused`, `PubSubName`), the tracing middlewares
(`Traced`), the broker that may store a message and lose the answer (`Send`), a
goroutine for each delivery (`DeliverRun`, `HandlerDone`, `HandlerFailed`, `AckRun`),
subscription, close of the connection, and a configuration that changes
(`Reconfigure`). Header values are the span that wrote them, or a string of the caller.

### InMemoryBus

`Publish` reads the handlers, a goroutine (`RunHandlers` to `RunHandlersEnd`) counts
itself, starts them and waits for them.

### MCMessaging and MCProcess

Each runs several small machines that share no state under one configuration: `part`
says which of them moves, all others stay in their initial state. A property of one
machine is thereby checked in its own state space.

## 3. The runs

| Run | Instance | States | Shows |
|---|---|---|---|
| `SubscriptionServer` | 2 streams that may leave, 2 refreshers, 2 refreshes, a shutdown | 83 387 | One broker subscription per stream at most, none left when a stream ends; registry, wait group and lock agree with the streams; refreshes, streams and the shutdown complete unless the deadlock below is on the way; implements `SubscriptionLifecycle` |
| `SubscriptionServer_refresh_deadlock` | the same | violation | A refresh that meets a leaving stream blocks the server for ever |
| `AckRouter` | 2 deliveries with distinct ids, 2 subscriptions in turn, a failing send, a handler that gives up, a closing stream | 57 693 | The map follows the handlers and is not written under the receiver; an ack settles its own message; every cancelled or acknowledged handler returns unless an ack meets one on its way out |
| `AckRouter_late_ack` | as `AckRouter` | violation | The receiver stops for ever on an ack whose handler is on its way out |
| `ObjectWatcher` | 2 objects of one kind, one of them updated once more, 2 Watch RPCs, one of which asks for one object only and may leave | 272 462 | No update is lost; the lock protects maps and lists; informers go on and updates arrive |
| `ObjectWatcher_leaver_blocks_updates` | an object and an RPC of each kind, one of the RPCs may leave | violation | An RPC that leaves during its replay blocks the informers of both kinds |
| `ComponentsManager` | 2 names, 2 pubsub types, a middleware type and an unknown one, 4 specs in turn, any step of which may fail | 255 781 | Specs and instances agree, replaced instances are closed, their subscribers refreshed after the replacement is installed, specs keep being taken |
| `JetStreamConsumer_double_close` | 2 messages, 3 goroutines for 2 slots, errors of the connection | violation | Two goroutines close `done`, the second panics |
| `Sidecar` | 1 stream, 3 versions of its component, 2 configurations, a shutdown | 306 648 | A parked stream is up to date, or a refresh is coming for it, or it is left behind; changes reach the streams and are received by the runtime unless the deadlock of `Refresh` is on the way |
| `Messaging` | JetStreamConsumer: 2 messages delivered twice at most, 3 goroutines for 2 slots, errors of connection, handler and subscriber. SubscriptionOptions: 40 or so components that differ from a complete one in one or two keys, every kind of request, two subscriptions. MessagePath: two calls, one in a trace, two foreign messages, a malformed one and one with a null header, two deliveries, two configurations. InMemoryBus: 3 subscribers, 2 publishes, 2 topics | 468 714 | The limit holds, nothing is acknowledged unprocessed, waiting messages are taken, no goroutine remains; what request and component say of limit, ack wait and start reaches the broker in the order of precedence that the code has, groups are what was asked for; traces and headers arrive, no success is reported that was none; the bus's counter tells when handlers are done |
| `Process` | SidecarProcess: 2 watchers, one of whose consumers may hang; two events of the telemetry configuration, whose second version does not unmarshal, or one of a component, each an update or a break of the stream; files with documents that do not parse or are of another kind, all sorts of command lines. SidecarInjector: pods with and without containers, variables, labels, names and sidecars, two submissions. HealthCheck: one probe, 2 pubsubs, a sufficient version and others | 719 150 | A nil stream is never used; the wait group waits for whoever registered; the tracer follows the configuration; the current spec arrives in spite of breaks and wherever a new stream meets the operator, unless it was overtaken or the operator's mutex is not to be had; once `Serve` has returned after an interrupt the process ends, unless a watcher sends to a consumer that hangs; patches fit, name one sidecar and leave applications as they were; a probe's answer has its reason |
| `Process_telemetry_flush` | the same | violation | The provider that was started is never shut down |

Runs marked "violation" must end in a counterexample; section 6 tells what they find.

Why these bounds are enough. Two streams and two refreshers give every pair of
actors that can meet on `srv.mu`, including a refresh that has sent to one stream
and not yet to the other while a second one waits; a third stream adds only
another copy. Two messages with distinct ids and one ack for each make every
meeting of receiver and handlers. A second ack for a message, which a handler on its
way out may meet, is the late-ack deadlock again; redeliveries and messages without an
id are covered by the proofs, whose theorems hold for them too. Four specs are enough
for insert, update, failed update and repair of one name, and for interleaved
names and types. Three goroutines are one more than the limit of two, so that an
excess would be visible. Two objects, one of them (`Updated`) with two versions, and
two sidecars give each pair of store, announcement, registration, replay and
departure. One stream is enough for the sidecar: streams interact only in the
server, which has a run of its own; three specs make an insertion, an update and
another update that overlaps the refresh of the first. In `Process` two updates are what
one can overtake another, and a break falls into every state of a watcher and of the
operator's end, before, between and after a store and its announcement; the consumer
that may hang stands for any other; two submissions make a pod meet its own patch, and
the pods differ in each thing the patch looks at. In `Messaging` two subscriptions are
what `CompeteOrFanOut` compares, and components that differ from a complete one in a
key or two reach each rule of precedence; two deliveries let one message run twice, or
two messages once each, under either configuration. `MaxRefresh`, `MaxGen`, `MaxUpdates`, `MaxDeliveries`, `MaxVersion`,
`Events`, `MaxReviews`, `MaxSubscriptions`, `MaxRuns`, `AcksPerMessage` bound counters the program leaves unbounded; the proofs hold for
every value of them.

Deadlock checking is off: every system here may end, or wait for an application
that never answers. What must not wait for ever is stated as a liveness property.

## 4. Fairness

* Weak fairness for the step a goroutine stands before: the Go scheduler runs
  every goroutine that can run.
* Strong fairness for taking a lock: Go's `RWMutex` lets a waiting writer in after
  the readers it found, and lets readers in after a writer.
* Strong fairness where a choice recurs: a `select` chooses at random among its
  ready cases, and so takes none of them never.
* In `SidecarProcess` weak fairness for every goroutine of the process (watchers,
  consumers, main) and for the goroutines of the operator that have an update to send.
  Updates, breaks, failures and the interrupt are not fair. `Serve` is not fair: whether
  it returns is the question of `SubscriptionServer`, and `ProcessEndsAfterServe` begins
  where it has. Announcement, registration and replay are not fair either, as they wait
  for the operator's mutex, which may be held for ever (`ObjectWatcher`).
* In `Messaging` and `Process` the fairness is that of `JetStreamConsumer` and of
  `SidecarProcess`, the only machines there with liveness properties.
* The JetStream server delivers a message it has while it is connected.
* None for clients, applications, clusters and loaders: they need not open a
  stream, acknowledge, leave, fail or change anything; nor does a handler end
  unless it is cancelled.

Where a known deadlock (section 6) would spoil a liveness property, the property
names the exact circumstance (`Disturbed`, `SomeoneLeft`, `RefreshRuns`, `RefreshBlocked`,
`SendsForEver`, `WaitsForMutex`, `Overtaken`, an ack in flight) and holds without it. Such a
property says nothing of the circumstance itself: that is left to the runs that end in a
violation and to the theorems named `StuckForEver`, `BlockedRefreshStopsItsWatcher`,
`HungConsumerKeepsProcess` and `OnlyOvertakingMakesStale`.

## 5. The proofs

Each `..._proofs` module proves its component's invariants for every value of the
constants, under the assumptions named in the component (finite sets of actors
where they are counted, disjoint sets, bounds that are naturals). The pattern is
the same: `IInv` strengthens the properties until it is inductive, `InitIInv`
starts it, one lemma per group of actions keeps it, `Inductive` closes the
induction, and each theorem reads its property off.

| Module | Strengthening, and why it is needed | Theorems |
|---|---|---|
| `SubscriptionServer_proofs` | `LockInv`: the readers of the mutex are exactly the refreshes that send, the writer one at the registry. Without it a stream might leave the registry under a refresh. `CountInv`, `ServeInv`: the wait group counts the running streams, and is zero when `Serve` has returned. `CalmInv`: while nobody has left, stopped or called a second time, what a Refresh has still to send to is in its select. | `TypeCorrect`, `NoLeakedSubscription`, `RegistryCorrect`, `ServeReturnsLast`, `StableMap`, `Refinement`, `StuckForEver`, `UndisturbedIsNotStuck` |
| `AckRouter_proofs` | `LockInv` again; `TargetInv`: what the receiver sends to has the id of the ack; `IdInv`: what is registered has an id; `SettledInv`: deliveries are settled by consumed acks, so that no ack settles two. `CauseInv`: a handler on its way out gave up or was told by an ack. | `TypeCorrect`, `AcksReachTheirMessages`, `MapCorrect`, `StableMap`, `StuckForEver`, `StuckHasACause` |
| `ComponentsManager_proofs` | `LocalsInv`: what `operation` says of the map; `MadeInv`: every instance belongs to a stored component but the newest; `NewestInv`, `MatchInv`: the maps agree except on the name under way; `ClosedInv`, `RefreshInv`: the properties at every step of an update. | `TypeCorrect`, `MapsAgree`, `NoInstanceLeaks`, `SubscribersAreTold`, `RefreshFindsTheNewInstance` |
| `ObjectWatcher_proofs` | `LockInv`; `InformerInv`: what an informer announces is what it stored; `TodoInv`, `ItemInv`: a replay sends what the map holds, one item at a time. `VersionInv`: nothing announced, replayed or received is newer than what is stored; `SeenInv`: a client's last version is the newest of those it has had, as long as updates go out in order. | `TypeCorrect`, `UpdatesAreNotLost`, `ChansCorrect`, `StableMaps`, `OnlyOvertakingMakesStale`, `StuckForEver`, `SendersAreLeftBehind` |
| `Sidecar_proofs` | `FreshInv`: what a stream has looked up, parked or not yet, is current, or it is told (`Told`); `HeldInv`: who holds something; `StartInv`: no stream before the first configuration. The history of instances in the manager's invariant tells why a replacement of the same type is an update, hence announced. `WaitsForRefresh`: the watcher of the components does nothing else while it refreshes. | `ImplementsServer`, `ImplementsManager`, `StaleStreamsCorrect`, `TypeCorrect`, `BlockedRefreshStopsItsWatcher` |
| `Process_proofs` | `WgInv`: the wait group counts the goroutines between `Add` and `Done` and the diagnostics server; `NilInv`: a stream is nil only after the end of the context, at a goroutine that is about to look at it. `VersionInv`: only versions of the configuration, or the empty spec, reach `WatchConfig`, through whatever the operator sends; `TracerInv`. `ObservedInv`, `ReaderInv`, `ResultsInv`: what a probe's reader has asked, and each result, has its reason among what was so while the probe lasted. | `NilStreamsAreSafe`, `WaitGroupCorrect`, `TracerCorrect`, `HungConsumerKeepsProcess`, `ProbesCorrect` |
| `Messaging_proofs` | `CounterInv`: the counter is the number of `runHandlers` at work; `RunsInv`: who acknowledges has had a handler that succeeded; `EnvelopeInv`, `TraceInv`: envelopes and runs are what the middleware made of the headers it was given, and two in a row compose (`TracesCompose`); `ParsedInv`: what Init leaves of a component has one start at most; `OptionsInv`, `TargetsInv`: each subscription is what its request and the parsed component make, and which start comes first (`StartWithWish`). `SlotsInv`: the semaphore of a JetStream subscription counts the goroutines that have a slot; `HandledInv`: what is about to be acknowledged was processed; `CloserInv`: with one slot who is about to close `done` finds it open. | `BusCounterCorrect`, `PathKeepsMessages`, `TracesCorrect`, `OptionsCorrect`, `GroupsCorrect`, `ConsumerTypes`, `InFlightLimitHolds`, `NothingIsLost`, `OneSlotClosesOnce` |
| `Injector_proofs` | `IsStored`: a pod is one that was submitted or what the patch of such a pod makes of it, so that a second submission meets nothing else; `AnswerInv`: the answer that is applied is that of the review; `CreatedInv`: a pod that asked for the sidecar has it once created. What the patch of a submitted pod does is shown operation by operation. | `InjectorInvariant`, `PatchesAlwaysFit`, `SidecarCorrect`, `AppsCorrect` |

`Sidecar_proofs` uses the parts' proofs as they are: `ImplementsServer` and
`ImplementsManager` show that the sidecar refines its two parts, so their invariants
hold in it, and all the theorems above with them.

`Refinement` shows that every step of the server is a step of
`SubscriptionLifecycle` or leaves it unchanged.

`OneAckOneDelivery`, `WaitersAreFound`, `ServeWaitsForStreams` and the type invariants
are proved and not run again, as are those of the other modules that no run lists.

The injector applies a list of operations to a pod, a recursive function over their
number. The prover has no induction over data, but the set of the numbers for which a
claim holds is a set like any other: `SetInduction` in `Injector_proofs` shows from
the well-foundedness of the naturals that a set with 0 and every successor has all of
them, and each claim about the first *n* operations is proved with its own set. The
assumption on the pods (`PodsAssumption`) is that a submitted pod is one: its containers and
init containers are lists, each container has a name and a list of variables, and at most one
is called `rusid` already, as names of containers are distinct in Kubernetes.

A deadlock is a violated liveness property only in a run, on one instance. The proofs
say more about the three of section 6: each `StuckForEver` takes the state in which a goroutine
that holds a read lock has in hand a partner that no longer receives, and shows for every
instance that it lasts, with all that it holds up; `UndisturbedIsNotStuck` and
`StuckHasACause` show what must have happened before. These are safety properties of
the form `[](P => []Q)`, so they need no fairness.

`OnlyOvertakingMakesStale` has a hypothesis the code does not guarantee, `UpdatesInOrder`,
and says so: it shows that the order of the sends is the *only* thing that can leave a
sidecar with an old version (`WatchersConverge`), which without it is false.

Only model-checked: liveness under fairness, which the prover does not handle
(`ParkedStreamsResubscribe`, `ShutdownCompletes`, `UnackedHandlersReturn`, `AckedHandlersReturn`,
`UndisturbedUpdatesProceed`, `UpdatesArrive`, `UpdatesAreTaken`, `StreamsFollowChanges`,
`ChangesAreReceived`, `SpecsArrive`, `ProcessEndsAfterServe`, `WaitingMessagesAreTaken`,
`NothingRemains`). Every invariant and every action property of the runs is proved.

## 6. Findings

| Run | What happens | Where |
|---|---|---|
| `SubscriptionServer_refresh_deadlock` | `Refresh` blocks on a stream that has chosen another case of its select; the stream needs the lock that `Refresh` holds. Both, and every later refresh and stream, wait for ever. A second refresh or a shutdown can take the place of the leaving client. | `grpc_api.go:97` |
| `AckRouter_late_ack` | The receiver blocks on a handler that was cancelled; the handler needs the lock of the map to return. | `grpc_api.go:272` |
| `ObjectWatcher_leaver_blocks_updates` | A sidecar disconnects during its replay; the replay keeps the read lock for ever and the operator announces nothing any more. | `operator.go:168` |
| `JetStreamConsumer_double_close` | Two goroutines get an error from the iterator, both find `done` open and both close it: the process panics. | `jetstream.go:264` |
| `Process_telemetry_flush` | The stopper of a tracer drops the function that would shut its provider down: replaced and last providers keep running, their last spans are lost. | `tracing.go:37` |

`LeftBehind` in `Sidecar` names two more, which no document contradicts: a stream that
subscribes while a `Refresh` reads the registry (between `grpc_api.go:141` and `161`)
stays on the replaced instance until the next change; and a component whose type
changes is an insertion, after which nobody is refreshed and the old instance stays
open (`components_manager.go:80`).

The first three last for ever (`StuckForEver` in the three proof modules). The first
happens only once a client has left, a shutdown has begun or a second refresh was called
(`UndisturbedIsNotStuck`), and in the sidecar it stops the watcher that called `Refresh`:
no configuration is taken any more, or no change of a component
(`BlockedRefreshStopsItsWatcher`). The second needs a handler that has given up, or whose ack came
before (`StuckHasACause`). The fourth needs a limit of two or more
messages in flight (`OneSlotClosesOnce`).

Each finding is quoted in `PROJECT.json` with the comment, test or documentation it
contradicts.

Observations no run is about, found on the way:

* Two updates of one component may overtake each other on the way to a sidecar, which
  then keeps the older one: one goroutine per update sends it (`operator.go:97`). Nothing
  else leaves a sidecar with an old version (`OnlyOvertakingMakesStale`); `SpecsArrive`
  of `SidecarProcess` fails without its exception `Overtaken`.
* A consumer that hangs keeps its watcher at the send, and the process from ending after
  an interrupt (`client.go:76`, `HungConsumerKeepsProcess`).
* The goroutines that send to a sidecar which has left are never ended
  (`operator.go:97`, `SendersAreLeftBehind`).
* After a redelivery the first handler to end removes the entry of the other, whose ack
  is dropped (`grpc_api.go:204`).
* A listener that fails leaves a process without its API until it is interrupted
  (`sidecar.go:89`, `ServeFails`); a port that is taken kills it (`grpc_api.go:55`).
* A standalone process without `--components-path` ends with an error, while the
  flag's text says that components will then not be loaded (`config.go:54`).
* A document longer than the scanner's buffer makes `decodeYaml` collect the same error
  for ever (`components/loader/local.go:125`).
* Versions are compared as strings, so that 1.10 is less than 1.9 (`runtime.go:180`).
* A malformed quantity leaves the sidecar without resources, although the log speaks of
  defaults (`pod_patch.go:340`); a pod without labels is refused by the API server as
  the patch adds one to them (`pod_patch.go:160`); a pod that a controller makes has no
  name yet and is refused without an app-id (`pod_patch.go:262`, `validation.go:20`).
* A component of NATS streaming without `subscriptionType` passes `Init` and refuses
  every subscription that chooses no group (`nats.go:280`); a request for all messages
  gives way to the component's start (`nats.go:417`). JetStream parses and merges a start
  and never uses it (`jetstream.go:174` and `324`): a request for new messages only gets
  all of them (`OptionsReachBroker`).
* A message that cannot be unmarshalled is handed to the application empty and then
  acknowledged (`nats.go:246`).

## 7. What is left out

* Payloads, and errors that are only logged; the conversion of a Kubernetes object to a
  spec; deletion of a component in the cluster, which the operator only logs.
* Concurrent `stream.Send` calls, which the gRPC library forbids and whose effect it
  does not define.
* The tracing middlewares read the global propagator twice, to extract and to inject, and
  a composite propagator may rewrite several headers: one read and one header per
  propagator in `Traced`. The runtime reads the configuration's pubsub, its instance and
  its pipeline one after the other: one step in `LookUp` of `Sidecar`.
* A second durable subscription of one topic by the same client, which NATS streaming
  refuses: `SubscribeNats` always tells subscribers to a topic apart.
* What is left of a spec that does not unmarshal: the decoder may have filled some fields
  before it fails, the model hands on the empty spec.
* `main` before its goroutines: the first connection to the operator, the wait for the
  first configuration, during which an interrupt simply kills the process, and the
  reading of files are one step, and so is the listening of `Serve`, before which other
  goroutines may have begun. `WatchConfig` is not in the wait group, so that the
  end of the process may overtake its last call of the stopper.
* The scanner that splits a file into documents, the HTTP side of the webhook (body,
  content type, decoding, `injector.go` 75-108), and init containers that run before
  the sidecar does.
* Connecting to NATS and the client libraries' own reconnects; the metrics middlewares
  and meters, which only count.
* The envelope that all handlers of an in-memory publish share; `IsDoneWorking` before
  the goroutine of a publish has begun, when it is true by design.
* Generated code (deep copies, clientsets, protobuf messages), JSON marshalling beyond
  what an envelope loses by it, deployment charts, the flags of operator and injector.
* `AckedHandlersReturn` is stated for distinct ids and one ack for each message.

What a next step could add: `ObjectWatcher` itself, with its mutex, in one composition
with the process; the connection of NATS streaming with its attempts.
