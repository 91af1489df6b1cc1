# Verification of the Connected Spaces Platform client library

The Connected Spaces Platform (CSP) is a C++ library that an application links to
take part in shared spaces. The library keeps a replica of the entities of a space,
synchronises it with the other clients through a multiplayer service (SignalR over a
web socket), and wraps a set of REST services. This directory holds TLA+ models of
the parts of the library whose correctness depends on the order in which threads,
callbacks and messages run, the TLC configurations that check them on small
instances, and proofs that TLAPS checks for all values of the constants.
`PROJECT.json` lists the components, runs, mutants, findings, hazards and theorems,
and maps every definition that models code to its lines.

File names below are relative to `src/Library/src` unless they say otherwise; ORE
stands for `Multiplayer/OnlineRealtimeEngine.cpp`.

## 1. The system

### Components

| component | state it keeps | operations | what makes it correct |
|---|---|---|---|
| Scope leadership (`Multiplayer/Election`, ORE 954-1132) | per engine: the manager, its scopes, the leader of each, when the last heartbeat was sent | election and vacate events, registration of the default scope, heartbeats, assume leadership | a client's view follows the service once it handles events; only elected clients run scripts; a leader that does not act is replaced |
| Online realtime engine, entity store (ORE, `RealtimeEngineUtils.cpp`) | `Entities`, `Avatars`, `Objects`, root list, four pending queues, parent and child pointers | create, destroy, reparent, queue an update, receive, fetch pages, tick and flush | lists agree and hold no freed object; pointers are symmetric; nothing is deleted unasked; a destruction is not lost |
| Entity replication (`SpaceEntity.cpp`, `SpaceEntityStatePatcher.cpp`, `ComponentBase.cpp`) | components, lock, dirty properties and components, pending deletions | add, change, remove a component, lock, unlock, make, send, apply a patch | replicas agree when settled; a lock stops changes; nothing vanishes unasked |
| Web client (`Common/Web`, `ThreadPool.h`, `Queue.h`) | requests and their references, job and poll queues, refresh flags, counters | send, retry, poll, cancel, refresh the token, destroy | each request is called back once, freed last; the destructor ends |
| Multiplayer connection and SignalR client | `Connected`, the calls in flight and their count, a stop that waits for them, the state of the hub | connect, disconnect, interruption, request to disconnect, start and stop listening | a stop cuts only calls made after it read the count, every stop is answered at most once, nothing in flight is uncounted |
| Space session (`Systems/Spaces/SpaceSystem.cpp`) | `CurrentSpace`, the engine in use | enter, exit, REST operations on spaces | EnterSpace and ExitSpace end; a success means scoped, listening and attached; a released engine is not used |
| User session (`Systems/Users`, `LoginState.cpp`) | login state, tokens | login, refresh, logout | logged out means disconnected; Logout calls back |
| Network event bus | registrations by receiver and event | listen, stop, send, dispatch | no callback of a receiver that is gone |
| Event system | event queue, listeners per id | register, enqueue, process | listeners may change while one is called |
| Offline realtime engine (`Multiplayer/OfflineRealtimeEngine.cpp`, `RealtimeEngineUtils.cpp`) | the same lists and the selection, no network | construct from a scene, create, reparent, select, destroy; the callbacks of a destruction may call the engine again | the lists and the hierarchy agree at every callback; children are moved before the destroy callback; nobody becomes unreachable |
| Component classes, schemas | properties | typed accessors | none of its own beyond replication |
| Message formats | none | MessagePack and JSON encodings | a value survives a round trip |
| Entity scripts | the JavaScript contexts | run, bind, post | run by the leader only |
| Conversation system (`Systems/Conversation`, `ConversationSpaceComponent.cpp`) | collections and assets at the service; here the registered components and the events that wait | create, update, annotate and delete conversations and messages, each a chain of REST requests and an event; register, deliver, hold back | a chain that fails part way leaves no annotation without its assets; a success is whole; every call is answered; events reach a component once and in order |
| Asset system | the service's | one request each, chained by others | those of the chains |
| Sequences, hotspots, other REST systems | the service's | one request each | those of the web client |
| Systems manager, foundation | the singletons | start, tick, stop | order of destruction |
| Containers, values, conversions; generated clients | none | data | out of scope |

### Interaction

* The application calls the library from its own thread and ticks it
  (`CSPFoundation::Tick`); a tick polls web responses, dispatches events and ticks
  the realtime engine, which flushes its queues.
* SignalR calls the engine's handlers (`OnObjectMessage`, `OnObjectPatch`, the pages
  of a fetch, election events) on a thread of its own. The handlers fill the engine's
  queues under `EntitiesLock`; the flush empties them.
* REST calls run on the worker threads of the web client, whose callbacks run there
  as well. The answer to a REST call and the events on the socket are not ordered
  with respect to each other.
* EnterSpace chains both: scopes are set, listening starts, the scope's leader is
  asked for by REST, the entities are fetched in pages.

### What is hard

Messages arrive in the order the service sends them but interleave with flushes,
with answers of the client's own calls and with REST answers; raw pointers to
entities sit in queues, lists, parents and children while removals free them; a
client applies its own changes when it sends them and others' when they arrive;
every call can fail, and most failures are only logged; retried requests are handed
to a second worker before the first lets go; a token refresh blocks the pool through
two flags; destructors wait for threads. `PROJECT.json` lists the places under
`hazards`, each with the properties that would catch it going wrong or the reason
none does yet.

## 2. Modules

`X.tla` models a component, `MCX.tla` adds what TLC needs (symmetry sets, initial
worlds), `XProofs.tla` holds the proofs, and every `.cfg` is one run. An operator
whose comment begins with *Variant* or *Mutant* is a plausible bug: substituting it
for the definition below it must break the property named in `PROJECT.json`. It is
not part of the specification.

### ScopeLeadership

State: the service's leader and whether it heard a heartbeat in the present interval
(external); for each client the events in flight, its progress through EnterSpace
and ExitSpace (`phase`), the answer to GetScopeLeader on its way, whether
`LeaderElectionManager` exists and holds the scope, the stored leader, whether a
heartbeat is due, `EnableEntityTick`, and the registration for remote script events.

| actions | code |
|---|---|
| `StartListening`, `EnableLeaderElection`, `GetScopeLeaderAnswered`, `RegisterDefaultScope`, `FetchComplete` | the chain of EnterSpace: ORE 1121, `SpaceSystem.cpp` 295-371, `MultiplayerSystem.cpp` 105, ORE 954, ORE 735 |
| `OnElectedScopeLeader`, `OnVacatedAsScopeLeader` | `ScopeLeadershipManager.cpp` 38-96 |
| `HeartbeatIntervalElapses`, `SendHeartbeatIfElectedScopeLeader` | `ScopeLeadershipManager.cpp` 98-119 |
| `ExitSpace`, `DetachEngine`, `DestroyEngine`, `DisableLeaderElection` | `SpaceSystem.cpp` 598-643, ORE 221, ORE 1081 |
| `ServerElects`, `ServerNoticesLeaderLeft`, `ServerInterval` | external: the service, from `ScopeLeadershipManager.h` and the handlers |

One scope is modelled: the code registers only the default one. A failed
GetScopeLeader registers an empty scope id, which no event names, so the scope
counts as not registered.

### RealtimeEntities

One engine, with the service and the other clients as its environment. A handle is
the address of a `SpaceEntity`; several handles may carry one id, since an entity can
arrive by message and on a page. The lists are sets, the deques sequences.

| actions | code |
|---|---|
| `OnObjectMessage`, `OnObjectPatch` | ORE 587-621 |
| `FetchAllEntitiesAndPopulateBuffers`, `RetrievedEntity`, `RetrievedPage` | ORE 699-785; the lock is released between the entities of a page |
| `CreateEntity`, `CreateAvatar`, `ObjectSent` | ORE 247-413, the call and the callback of its answer |
| `SetParentId`, `RemoveParentEntity`, `QueueEntityUpdate`, `DestroyEntity` | `SpaceEntity.cpp` 266-280, ORE 415-500, 872-909 |
| `TickEntities`, `FlushAdd`, `FlushIncoming`, `SendPatches`, `ApplyLocalPatch`, `FlushRemove`, `FlushEnds` | `ProcessPendingEntityOperations`, ORE 1240-1350, one step per queued item |
| `RemoteCreate`, `RemoteReparent`, `RemoteDestroy` | external: other clients through the service |

Assumptions that are not in the code but in how it is used:

* *Calls are made one at a time.* `DestroyEntity` (ORE 415) and `QueueEntityUpdate`
  (ORE 899) change the pending sets without `EntitiesLock`. This is safe against a
  tick, which the same thread makes, but not against the flush at the end of a
  fetch, which runs on the SignalR thread. The model takes each call as atomic; the
  hazard list has the race.
* *A freed address is not used again.* A pointer to freed memory is a defect whatever
  is allocated there next, and keeping the handle distinct makes it visible.
* *The application stops using an entity once it asked for its destruction or was
  told of it.* `KeepsPointers` chooses whether it uses pointers from callbacks or only
  looks entities up in the lists.
* *Messages to a client keep their order, and a call takes effect at the service
  when it is made*: both follow from one SignalR connection per client.
* *Assertions are off*, as in a release build: `RemovePendingEntity` (ORE 1377)
  asserts that the entity is in `Entities`, which an object of a known id is not.

### EntityPatches

One entity replicated at every client: its components (a type and the value of one
property), its lock, what the patcher has collected, whether an update is queued, and
the patches in flight. `AddComponent`, `SetPropertyDirect`, `RemoveProperty`,
`RemoveComponent`, `Lock`, `Unlock` and `QueueEntityUpdate` are the application's
calls; `SendPatch` is what a flush does for the entity (create the patch, send it,
apply it locally, also when the call fails), `SkipPatch` what it does when the entity
was locked meanwhile, and `ReceivePatch` applies another client's patch. Setting a
property acts on the shared component object at once, adding and removing only on the
patcher, as in the code. Ids come from `GenerateComponentId` of each client.
`disputed` is a history variable: the keys that two clients changed without knowing
of each other, or that a failed call carried.

### WebRequests

The native build of `WebClient`: the application's thread, the pool of workers, the
requests with their reference counts, the job queue, the poll queue, `Requests`,
`RequestCount`, `RefreshNeeded`, `RefreshStarted`, the login state as far as a refresh
reads and writes it. A step is what a thread does between two accesses to state that
another thread writes: reading the expiry of the token is merged with the step before
it, because only the decision matters, and the two flag stores in the callback of a
refresh are one step.

| actions | code |
|---|---|
| `SendRequest`, `StartRefresh`, `AddRequest` | `WebClient.cpp` 122-246 |
| `TakeJob`, `Exit` | `ThreadPool.h` 86-108 |
| `PassGate`, `CheckRefresh`, `MarkStarted` | the job, `WebClient.cpp` 247-263 |
| `BeginSend`, `EndSend`, `FinishRetried`, `Answer`, `DestroyRequest`, `DecRefCount` | `ProcessRequest`, `DestroyRequest`, `HttpRequest.cpp` 115-166, `POCOWebClient.cpp` 179-213 |
| `ProcessResponses`, `Cancel`, `TrySetLogoutRequested`, `TokenNearsExpiry` | the application and time |
| `BeginDestruction`, `EndWait`, `Drain`, `EndDrain`, `Join` | `~WebClient`, `ThreadPool::Shutdown` |

The service (external) answers with success, with a code that
`ResultCodeValidForRetry` accepts, or with another failure. Payloads, headers and
requests that a callback sends are left out, and so is the Emscripten build, which
queues requests during a refresh instead of spinning.

### EntityStore

What an engine promises about the entities it shows, with none of its queues: `Make`
(the application creates), `Learn` (the service tells), `Show`, `Drop`, and `Decide`
for whatever the service and the application want next. `RealtimeEntities!Store`
instantiates it with `life <- mem`, `key <- id`, `shown <- Entities` and
`wanted <- WorldIds \ requested`, the ids the service lists and this client did not
ask to destroy. `ImplementsEntityStore` is checked by TLC and proved by TLAPS.

### MultiplayerConnection and SpaceSession

`MultiplayerConnection` is the connection object: `MultiplayerConnection.cpp`, the
`SignalRConnection` below it, which holds a stop back until the calls in flight are
answered, and the hub connection of the SignalR client. Its state is one record,
`conn`; the code calls into it several times in one handler, so every call is a
function from a connection to the connection it leaves, and handlers compose them.
`SpaceSession` extends it with `UserSystem` and `SpaceSystem`: the login state, the
chain of EnterSpace (`enter.step` names the request or call it waits for), that of
ExitSpace, `CurrentSpace`, and the engine that is attached.

| actions | code |
|---|---|
| `Login`, `LoginAnswered`, `StartAnswered`, `DeleteEntities`, `ConnectAnswered` | `UserSystem.cpp` 320-392, `MultiplayerConnection.cpp` 224-446 |
| `Logout`, `LogoutAnswered` | `UserSystem.cpp` 891-929, `Authentication.cpp` 111-137 |
| `EnterSpace`, `EnterRequestAnswered`, `EnterCallAnswered`, `LeaderAnswered`, `PageAnswered`, `EnterOfflineSpace` | `SpaceSystem.cpp` 374-595, ORE 699-785, 1121-1132 |
| `ExitSpace`, `ExitCallAnswered` | `SpaceSystem.cpp` 598-643, `MultiplayerConnection.cpp` 490-512 |
| `CallFails` | the error branches of the same continuations |
| `StopContinues` (what `Stop` does after its test of the count), `CallCountedOff` (the count and the look of `InvocationCallback`), `LastCallStops` (the stop it makes) | `SignalRConnection.cpp` 94-105, 147-169 |
| `Closed`, `Cleared`, `Interruption`, `RequestToDisconnect` | `connection_impl.cpp` 645, `callback_manager.cpp` 72, `MultiplayerConnection.cpp` 199, 611 |

What is abstracted:

* Continuations run inline on the thread that sets their event
  (`async::inline_scheduler`), so an answer and everything up to the next call is one
  action. An event task that is destroyed unset raises `abandoned_event_task`, which no
  continuation of the scope change catches: the chain is "hung".
* REST requests and calls to the hub are answered in any order, with success or
  failure; `MaxFaults` bounds the failures of calls, interruptions and requests to
  disconnect together.
* While `callback_manager::clear` runs it holds the lock of the map of callbacks, so
  Invokes wait for it; the stop callbacks run in the step that ends it.
* A request to disconnect whose stop is deferred sets a promise that is gone: `ub`,
  after which `Crash` may happen at any moment, or never.
* `SignalRConnection` has no lock. `Stop` reads the count and acts on what it read in
  two steps (`stops[who]` is what it is about to do), and `InvocationCallback` runs its
  `Callback`, counts the call off and looks for a stop, and makes the stop in three
  (`ending`). Between them any other thread may run: the application's calls, REST
  answers, the other caller of `Stop`. The decrement and the look right after it are one
  step: a stop that is stored, a count that is read or a call that is made between the
  two has the outcome of one just before or just after both. `PendingStopCallback` is a
  `std::function` that two threads use without a lock; a value read while it is half
  written is not modelled.
* Answers, messages of the server and the end of the connection are handled by one
  receiving thread, one at a time: while a callback, `OnRequestToDisconnect` or the
  continuation of `Start` is between two steps, no other is begun
  (`CallbackThreadFree`). An Invoke on a hub that is not connected calls back, counts off
  and looks on the caller's thread before it returns: `Refused`, one step. A `Stop` on
  another thread that reads the count inside it, and would store its callback for a call
  that has looked, is one more road to `lost` that is not modelled.
* Histories: `late`, the calls made after a running stop had found none in flight;
  `lost`, the callers whose stop callback was overwritten or dropped by another stop, or
  stored after the last call had looked; `skipped`, an exception left a callback before
  the count. The properties name these states where the code breaks its promise in them;
  none of them guards an action.
* The application makes no other call while its Logout is inside `Stop`. `Login` makes a
  connection only over an empty map of callbacks: what calls that a `clear` left behind
  do to the next connection is not followed.
* The application has one EnterSpace and one ExitSpace in progress at a time.
  `patient` chooses between one that awaits every callback and one that does not.
* Error codes, the wait in the destructor of the connection, and CreateSpace with its
  rollback are left out.

### OfflineEntities

One `OfflineRealtimeEngine`. Every call takes effect before it returns; what
interleaves is the application with itself. `DestroyEntity` runs the update callback of
each child and the destroy callback of the entity half way through, the lock is
recursive, and a callback may call the engine again. `destroying` is the stack of the
destructions under way, with the children still to visit (the code copies the list)
and whether the destroy callback ran; `callback` says that the application runs.

| actions | code |
|---|---|
| `Construct` | the constructor, `OfflineRealtimeEngine.cpp`: make and add all, then resolve all |
| `CreateAvatar`, `CreateEntity` | the same, with `NextId` |
| `SetParentId`, `RemoveParentEntity` | `SpaceEntity.cpp` 266-280, `RealtimeEngineUtils.cpp` `ResolveEntityHierarchy` |
| `Select`, `Deselect` | `AddEntityToSelectedEntities`, `RemoveEntityFromSelectedEntities` |
| `DestroyEntity`, `UpdateChild`, `TellDestroyed`, `RemoveDestroyed` | `DestroyEntity` and `LocalProcessChildUpdates`, cut at the callbacks |

`FindSpaceEntityById` returns the first entity of an id; where two have one, either is
taken. `MayDestroy` is an assumption on the application, not a check of the code: from
a callback it does not destroy an entity that is being destroyed, its parent, or one
the loop has yet to visit. The first and the last use freed memory; the second puts the
dying entity back into the root list.

### ConversationCalls

The calls of `ConversationSystemInternal` that change a conversation or a message, both
of which are asset collections. `Chain(op)` is the sequence of requests of a call, in
the order of the continuations; `call[c]` how far it has come and what it captured. A
request is answered, or its answer is lost after it took effect, or it is refused, or it
takes effect and is sent again: the web client repeats a request, POST included, when the
status is 408, 429 or 5xx (`HttpRequest.cpp` 115-144), four times at most; the model
bounds this by `MaxFailures`. Sending again a request that only reads, or that had no
effect, changes nothing. A CreateAssetCollection sent again leaves a second collection
whose id nobody is told, so no call is on it and the model does not hold it. Events go
over the hub and are not sent again. A text or an upload is named by the call that made it.

| actions | code |
|---|---|
| `Start` | the entry of each call of `ConversationSystemInternal.cpp` |
| `Get`, `CreateCollection`, `Put`, `DeleteCollection` | requests to the asset system on the collection, with the checks of the answer |
| `Find`, `CreateAsset`, `Upload`, `RemoveAsset` | `GetOrCreateAnnotationAsset`, `DeleteAnnotationAsset` and the uploads |
| `SendEvent` | `SendConversationEvent`; for the calls of `Unhandled` the exception of a failed one meets no handler |

`raced` and `surplus` are histories: the collections on which two calls overlapped, and,
for each collection and kind, how many failed lookups were taken for an empty answer
although there was an asset and how many creations were sent again. `AssetsAreSingle`
allows one asset of a kind and one more for each of these, because the code does not
protect it; TLC finds the second asset when it is not allowed.

### ConversationEvents

One client: `ConversationSpaceComponent` objects and the registration and event queue
of `ConversationSystemInternal`. A component, its conversation id, its callback and the
events of the conversation arrive by four roads in any order. `place` follows the object
from the patcher into an entity and out of it; `Components`, `Events` are the fields of
the code; `log` and `received` are histories.

| actions | code |
|---|---|
| `ReceiveEvent` | the listener and `TrySendEvent` |
| `FlushEvents` | part of registering, of setting the callback and of an id that a patch brings |
| `AddComponent`, `ReceiveComponent`, `RemoveComponent` | `OnCreated`, `OnRemove` |
| `ApplyLocalPatch`, `DropComponent`, `LoseEntity` | `SpaceEntity.cpp`: the ways an object enters and leaves an entity without the component being told |
| `SetPropertyFromPatch`, `SetConversationUpdateCallback` | `ConversationSpaceComponent.cpp` |
| `CreateConversation`, `AnnounceConversation`, `ConversationCreated` | the call; its request and the event `NewConversation`, `ConversationSystemInternal.cpp` 352-398; the callback of its answer, which sets the id |

A client receives none of its own events unless it asked for them with the public call
`SetAllowSelfMessagingFlag`. Then the event of a creation, which is sent before the answer
sets the id, may be received before or after it; the model has both. Nobody can send a
later event of that conversation before the id is set. `waiting[k]` is the component whose
call made `k` and is not answered, `announced` are the conversations an event may name,
`early` those whose id was set with their own event waiting, and `unflushed` those of them
that no pass over the events has followed, since `SetConversationId` makes none. The
comment of `ConversationComponentTests.cpp` at 1027, in `src/Tests`, describes this order
and sets the callback again to get the event; it takes it for one that other clients
never meet, because multiplayer events are not received locally.

Assumed of the application: calls are made one at a time and the update callback makes
none (`FlushEvents` iterates the queue while it calls). After the entity of a component
is deleted, the answer to CreateConversation reads it: what `IsModifiable` says is then
an arbitrary choice. The set of registered components is unordered, so which of two
components of one conversation is called is open.

## 3. Runs

"Passes" means TLC explored every state of the instance. For the runs that are
expected to find a violation the trace is the result: it shows a disagreement between
the code and what a document or a comment says.

| run | instance | result |
|---|---|---|
| `leadership` | 2 clients, 2 events in flight; 334k states | passes: `InformedViewsFollowServer`, `OnlyElectedClientsTick`, `ScriptListenerHasManager`, `UnawareLeaderIsReplaced` |
| `entities` | empty space, 3 objects, 2 ids, pages of 1, 2 messages; 3.3M states | passes: `EntityListsAgree`, `DestructionsAreNotLost`, `ImplementsEntityStore` |
| `entities_moves` | a child listed before its parent, 2 objects, 1 dirty parent, pointers kept; 616k states | passes: `ParentChildAgree` under reparenting, `QueuedUpdatesAreLive`, `DestructionsAreApplied` |
| `entities_dangling` | a child listed before its parent | violates `ParentPointersAreLive` |
| `patches` | 2 clients, 2 types, 2 keys, 5 changes, calls may fail; 2.2M states | passes: `ReplicasAgree`, `OnlyRemovedComponentsVanish`, `LockHolds` |
| `web` | 2 workers, 1 retry, two calls or a call and a token expiry; 900k states | passes: `AnsweredAtMostOnce`, `HeldRequestsAreAlive`, `ClosesOnlyWhenIdle`, `GivesUpOnlyAfterRetries`, `RequestsAreAnswered`, `DestructionCompletes` |
| `web_freeze` | 1 worker, no retries, two calls and one expiry | violates `FailedRefreshDoesNotFreeze` |
| `session` | 1 engine, 1 space, 5 calls of the application, 2 faults, 1 further page; 847k states | passes: `OnlyLateCallsAreCut`, `StopCallbacksAreAwaited`, `SuccessMeansJoined`, `LoggedOutIsDisconnected`, `EnterAndExitAreAnswered`, `LogoutIsAnswered` |
| `session_release` | the same, 3 calls, no fault | violates `ReleasedEnginesAreUnused` |
| `offline` | 3 objects, 6 scenes, destructions nested twice; 858k states | passes: `HierarchyAgrees`, `RootListIsSound`, `ChildrenMoveFirst`, `NobodyIsUnreachable` |
| `conversation_calls` | 3 calls, 2 at once, 1 failed or repeated request; 1.32M states | passes: `AnnotationsAreBacked`, `AssetsAreSingle`, `SuccessIsWhole`, `HandledCallsAreAnswered` |
| `conversation_events` | 2 components, 2 conversations, 2 events each, 2 creations at once; 2.99M states | passes: `EventsKeepTheirOrder`, `NoEventIsForgotten`, `RemovedComponentsStaySilent` |

Besides, `patches`, `web`, `conversation_calls` and `conversation_events` check their
module's `TypeOK`. `CallsAreCounted`, `StopOfLogoutIsKept`, `CallsNeedConnection`,
`OnlyDestroyedEntitiesAreFreed` and the online `RootListIsSound` are proved for all
constants and have no run of their own; the fourth also follows from the refinement.

### The bounds and why they are enough

* *Leadership.* Two clients are the least for which views differ; two events in
  flight allow a vacate and an election to wait together, or an election to arrive
  while another answer is on its way. Clients leave and re-enter without bound.
* *Entities.* Three objects for two ids allow one id to arrive twice while another
  entity is its parent or child. Pages of one entity put a boundary after every
  entity. `MaxInbox` counts messages in flight and patches queued; two of them suffice
  for a creation and a destruction, or a page and a message, to wait together. The
  reparenting run has `MaxDirty` 1: one entity with an unsent parent at a time, in a
  space in which both can be parent of the other. The safety properties do not depend
  on these bounds: they are proved for all of them, except `DestructionsAreNotLost`.
* *Patches.* Five changes cover add, change and remove by one client crossing two
  changes by another. Two keys with `End` 2 let `GenerateComponentId` wrap around. The
  properties are proved for any number of clients, keys, changes and patches in flight.
* *Web.* `MaxLoad` bounds calls plus expiries. Two calls with a retry each give four
  attempts on two workers. Two calls together with an expiry were explored
  outside the runs, safety only: without retries the 1.5M states were exhausted, and
  with one retry no violation was found in the first 28M states, which is not all of
  them. The safety properties are proved for any workers, retries and load.

* *Session.* Five calls of the application are enough for log in, enter, exit, enter
  again and log out, in any order and without waiting; two faults for a call that
  fails during the clean-up after another, or an interruption after a failed page. One
  engine has one page in flight at most, as in the code. The safety properties are
  proved for any number of engines, spaces, calls and faults.
* *Offline.* Three objects are a parent, a child and a third that a callback creates,
  moves or destroys. The scenes have a child listed before its parent, a parent that is
  missing, an id that occurs twice and ids the counter has not passed. Destructions
  nested twice let a callback of a callback run. The four properties are proved for any
  scene, number of objects and depth of nesting.
* *Conversation calls.* One failure splits every chain at every request; three calls
  let an annotation be set, replaced and removed, or a deletion cross an update.
* *Conversation events.* One conversation of another client and one that is made here;
  two events each show order, two components the choice between them.

### Fairness

* `ScopeLeadership!Fairness`: SignalR delivers what it queued; the service's heartbeat
  timeout expires and a left leader is noticed, as `ScopeLeadershipManager.h` says of
  the service. Nothing is assumed of the clients: in particular no heartbeat is ever
  required to be sent, and no client is required to finish entering.
* `RealtimeEntities!FairSpec`: weak fairness of the flush, since an application ticks
  the engine for as long as it runs and a tick ends; strong fairness of the network
  handlers, since they wait for `EntitiesLock`, which ticks take and release.
* `WebRequests!FairSpec`: weak fairness of each worker and of the application's thread
  while it is inside `AddRequest` or the destructor: the operating system schedules
  threads, an HTTP attempt ends because its session has a timeout, and the waits of
  the destructor are limited to ten seconds each. The application need not poll, send
  or destroy. The two liveness properties of `web` are stated for behaviours in which
  no refresh becomes necessary, because with one they are false: see the findings.

* `SpaceSession!FairSpec`: weak fairness of each answer of the service (login, logout, the
  requests of EnterSpace, `StartAnswered`, and for each chain its answer or its failure
  together); of the steps of a thread inside the library (`DeleteEntities`,
  `StopContinues`, `CallCountedOff`, `LastCallStops`); and of `Closed` and `Cleared`: a
  transport that was told to close closes, and `clear` runs to its end. `Interruption`,
  `RequestToDisconnect` and the application's calls have none, so no behaviour needs a
  fault to go on. That a chain of pages or of calls ends rests on the bounds `MaxPages`
  and `MaxCalls`: with pages or calls without end a deferred stop may wait for ever.
* `ConversationCalls!Spec`: weak fairness of the requests of each call: every request is
  answered, if only by a failure, which `web` shows of the web client below while no
  refresh of the token is needed.

## 4. Proofs

`ScopeLeadershipProofs`, `RealtimeEntitiesProofs`, `SpaceSessionProofs`,
`OfflineEntitiesProofs`, `WebRequestsProofs`, `EntityPatchesProofs`,
`ConversationCallsProofs` and `ConversationEventsProofs` are checked by TLAPS in full:
every safety property the passing runs check is a theorem. They assume what the modules' `ASSUME`s state: sentinels differ from the values they stand beside, bounds are natural
numbers where they are used as such, pages are not empty, the spaces an engine may join
list every id once, and the worker threads are finitely many. Nothing is assumed about
the number of clients, entities, ids, messages or requests. Every inductive invariant
was first checked by TLC on the instance of the module's run.

### ScopeLeadership

`LeadershipInvariant` proves `LeadershipInv`. Its parts, and why the properties are
not inductive without them:

* `InboxEndsAtServer`: the last event in flight is the service's present state;
  otherwise handling an event could settle a view on something else.
* `OutsideNothingIsKnown`: a client that re-enters starts with no scope, no
  information and no event left from an earlier stay; a scope needs a manager.
* `StoredLeadersWereAnnounced`: views, answers and events only name clients that were
  announced; a stale answer must not invent a leader.
* `ScriptListenerHasManager`, proved along the way.

It yields `InformedViewsAlwaysFollowServer`, `OnlyElectedClientsEverTick`,
`LeadershipIsTyped` and `ScriptListenersAlwaysHaveManager`.

### RealtimeEntities

`StoreInvariant` proves `StoreInv`, one lemma per part (`ListsStep`, `UniqueStep`,
...), each with one step per action, over lemmas on sequences, on `FindParent`,
`Reparented`, `Without` and `ResolveEntityHierarchy`, and on what each action does to
the messages.

* `ListsInv`: the lists are live and divided by type; queued additions are live, or
  the flush would add a freed object.
* `UniqueInv`: one entity per id. `AddPendingEntity` looks an id up first, but the
  answer to CreateEntity does not, so it needs the next two.
* `IssuedInv`: objects, messages and the service only know ids that were given out,
  and the service lists each once.
* `AnswersInv`: until a creation is answered nobody else has its id, and no message
  before the answer introduces it.
* `PointersInv`: `Parent` and `ChildEntities` agree, also for objects that are not in
  the lists; fresh objects have neither. `RemovePendingEntity` clears pointers of
  whatever the child list names, so a child missing from it would dangle.
* `RootListIsSound`: inductive with the parts above.
* `QueuesInv`: what is queued for removal is not queued for sending, and is live
  unless this flush removed it already; an entity can be queued for removal twice.
* `DestroyInv`: a destruction under way, in a message, a patch or the queue, is of an
  id the service no longer has or that this client asked to destroy.

It yields `EntityListsAlwaysAgree`, `ParentsAndChildrenAlwaysAgree`,
`RootListAlwaysSound`, `QueuedUpdatesAlwaysLive` and, as an action property,
`OnlyDestroyedEntitiesAreEverFreed`.

`DestructionsAreUnderWay` proves `LostInv` on top of `StoreInv`. A destruction of another
client can arrive before, between or after the page and the message that bring its
entity, and `ApplyIncomingPatch` drops it if the entity is not in the list yet, so
`DestructionsAreNotLost` needs to say where it is meanwhile:

* `GoneInv`: the service no longer lists what was destroyed, so a page cannot bring it
  back.
* `AfterInv`: whatever in the inbox introduces a destroyed id, a message, a page or the
  answer to a creation, is followed by the destruction. It is the one thing the engine
  takes from the order of a connection.
* `ComingInv`: an entity of a destroyed id that is shown, or queued to be, has its
  destruction in the inbox or among the patches to apply, or, if it is shown, is among the
  removals. Patches are applied after the additions of the same flush, or the second half
  would fail.
* `HandledInv`: what this flush removed is not shown.

`DestructionsAreNeverLost` follows: when all of these are empty no such entity is left.

### EntityStore

`EngineImplementsStore`, in the same module, proves that every behaviour of the engine is one of
`EntityStore`. Each action is a step of the store or a stutter; that it is one needs
`StoreInv`: `AddPendingEntity` is a `Show` because of `UniqueInv`, an answered creation
because of `AnswersInv`, a removal is a `Drop` because of `DestroyInv`.

### SpaceSession

The properties follow from `SessionInv`, the conjunction of

* `ConnInv(conn)`, a property of a connection value, so a lemma per function of
  `MultiplayerConnection` shows that the function keeps it, and the actions compose those
  lemmas as the handlers compose the calls. Its parts:
  * `CountInv`: the count covers the calls in flight and the answered one whose callback
    runs. It is exact from the moment a stop has found it 0 until the connection is down,
    which is why no call made before that moment is cut: there was none. What was made
    since is `late`. Before, an exception of a page may have left it too high.
  * `HubInv`: `Connected` follows the hub, and the receiving thread is in one callback.
  * `StopInv`: a StopHandler is in one place, a running `Stop`, the hub's list or
    `PendingStopCallback`, and its caller waits for it.
  * `LookInv`: while a stop is stored, a call is still to look for it or a deferred stop
    is under way, unless it is a Logout's that is `lost` or the server's.
  * `HeldInv`: a Logout that waits has its StopHandler in one of the three places, unless
    it is lost.
* `ChainInv`: a chain that waits for a call has that call registered, and no other.
* `PatientInv`: what an application that awaits its callbacks can find: it enters and
  leaves logged in, with nothing else under way.
* `SuccessMeansJoined` itself.

It yields `SessionIsTyped`, `StopsCutOnlyLateCalls`, `EveryCallIsCounted`, `LogoutIsKept`,
`StopCallbacksAnswerOnce`, `CallsHaveAConnection`, `EnterSpaceSuccess` and
`LogoutDisconnects`. `LogoutIsKept` is the safety half of `LogoutIsAnswered`: at every
moment somebody is left who will make the stop.

### OfflineEntities

`OfflineInvariant` proves `OfflineInv`: `TypeOK`, `HierarchyAgrees`, `RootListIsSound` and

* `DestructionInv`: the entities being destroyed, which callbacks nest, are distinct;
  their children are among those the loop has yet to visit, none of which is being
  destroyed itself; a destruction is told when the loop is over. Without it a callback
  that destroys the parent, or moves a child, of an entity that is being destroyed could
  leave a child behind, and `ChildrenMoveFirst` would not follow.
* `NoSelfParent`: an entity that is moved does not become its own child.

`NobodyIsUnreachable` is proved from `ReachInv`, which adds `IdsAreOld`: when the scene's
ids lie below the counter, so does every id in use or named as a parent, so a new entity
never takes an id for which another waits.

It yields `HierarchyAlwaysAgrees`, `RootListAlwaysSound`, `ChildrenAlwaysMoveFirst`,
`NobodyIsEverUnreachable` and `OfflineIsTyped`.

### WebRequests

`WebInvariant` proves `WebInv`, one lemma per step of a thread:

* `OneAttempt`: an attempt at a request is in one place, with one thread or in one
  queue. A worker that issued a retry still has the request, but no longer an attempt.
  Two attempts at once would call back twice.
* `RequestsAgree`: what is queued or about to be sent was not called back, and its
  attempts sent are the retries made, plus one while it is sent, unless it was
  cancelled; what ended busy used them all. `AnsweredOnce` and `RetriesAreUsedUp`
  follow.
* `RefsSuffice`: a request has a reference for every worker on it and one more for its
  place in a queue, in terms of the cardinality of the set of those workers. It is an
  inequality: a polled request that is retried keeps a reference nobody gives back.
* `RegisteredAreHeld`: a registered request is queued or with a worker that has yet to
  take it out, so the destructor cancels no deleted one. With the part before, it gives
  `HeldStayAlive`.
* `CountSuffices`: `RequestCount` covers the queued, the unpolled and the busy workers,
  again as an inequality; at 0 nothing is left, which is `ClosesIdle`.
* `PointsAgree`: a thread has a request exactly while it is at a point that uses one,
  and no worker has the one the application is sending.

### EntityPatches

`PatchesInvariant` proves `PatchesInv`. Agreement of the replicas, which is stated for
settled states only, rests on what the patches in flight come to:

* `Leads(q, k, old, fin)`: the patches of queue `q`, applied in order to the component
  `old` of key `k`, come to `fin`. Being the existence of the sequence of intermediate
  components, it needs no recursion: a patch that is sent extends the sequence, one that
  is received drops its first element.
* `OneTouches`: an undisputed key has unsent changes at one client at most, to whom no
  patch for it is in flight.
* `KeyAgrees`: what the queues come to agrees among the clients without unsent changes,
  and is what the client with one expects: nothing, if it added a component; a component
  of its type, if it changed one. `AddComponentFromItemComponentDataPatch` removes a
  component when a patch has another type, so this is what keeps a patch from deleting
  what it should update; `OnlyRemovedVanish` follows from it too.
* `SharedIsPresent`: a dirty component that shares its object has it in `Components`.
* `LockInv`: the same for the lock.

It yields `PatchesAreTyped`, `ReplicasAlwaysAgree`, `OnlyRemovedVanish` and, with
`WhoChanges`, `LockAlwaysHolds`. `ReplicasAlwaysAgree` has the hypothesis `MaxId < End`,
which the proof could not do without: see the findings.

### ConversationCalls

`CallsInvariant` proves `CallsInv`. A call of `ConversationSystemInternal` decides from
what it read several requests ago, so the properties rest on how long that stays true:

* `Met`: two calls under way that meet both know it, and their collection is raced. It is
  what lets the rest say anything about a call that is alone.
* `Progress`: what a call has gathered at each place of its chain: the metadata it read,
  the copy it will write, the image and the thumbnail, which are of its own collection and
  of the right kind, even if somebody deleted them meanwhile.
* `Whole`: what a call that has met no other knows of its collection still holds: until
  its write, the copy is the metadata; after it, the metadata are the text it kept and the
  annotation it made; the assets it found or made are the only ones. A call in another
  collection leaves all this alone (`Same`), one in the same collection would have met it.
* `Backed` and `Single`, which are `AnnotationsAreBacked` and `AssetsAreSingle` of one
  collection. For a call that is alone `Whole` says the sharper thing its place in the
  chain allows: before a creation there are at most `surplus` assets of the kind, after
  it one more, so a creation sent again is paid for by `surplus` before it is made again. `Backed` needs the order of the chains: assets before the metadata when an
  annotation is set, metadata before the assets when it is removed.

It yields `CallsAreTyped`, `AnnotationsStayBacked`, `AssetsStaySingle` and, as an action
property, `SuccessStaysWhole`.

### ConversationEvents

`EventsInvariant` proves `EventsInv`: the two properties `EventsKeepTheirOrder` and
`NoEventIsForgotten`, with

* `RegisteredInv`: a registered component was added and was not removed from its entity,
  so neither a flush nor the listener finds a removed one.
* `EarlyInv`: the id of a component is known, no component has the id of a conversation
  whose call is not answered, and before an id is known only the event of the creation is
  received. `ConversationCreated` sets an id and flushes nothing: what waits on the new id
  is then that one event, which is what `unflushed` and `early` say of it, and which is
  why every other event is still taken in order.

A pass over the queue takes some events out and keeps the rest. `InOrder` describes both
parts as increasing ways through the places of the queue, and the lemmas about a pass show
from it that the callbacks it makes and the events it leaves are in order and together are
the queue. Which of several matching components is called stays open. The assumption that
`None` is no object says that TrySendEvent's result without a match differs from a
component.

It yields `EventsAreTyped`, `EventsAlwaysKeepTheirOrder`, `NoEventIsEverForgotten` and, as
an action property, `RemovedStaySilent`.

### Only model-checked

Liveness (`UnawareLeaderIsReplaced`, `DestructionsAreApplied`, `RequestsAreAnswered`,
`DestructionCompletes`, `EnterAndExitAreAnswered`, `LogoutIsAnswered`,
`HandledCallsAreAnswered`) is out of the prover's reach. The three runs that expect a
violation refute what they check.

## 5. Findings

1. *A child points to a freed parent* (`entities_dangling`). Removing a parent clears
   the child's `Parent` but only marks its `ParentId` dirty; the hierarchy is then
   resolved while the parent is still in the list.
2. *A failed refresh freezes the web client* (`web_freeze`). The failure branch leaves
   `RefreshNeeded` set, so the next job sets `RefreshStarted` with nothing to clear it.
   The model shows other roads to the same state: any job queued ahead of the refresh
   sets `RefreshStarted` and the refresh then spins on it; a retried refresh spins on
   its own flag; `RefreshToken` returns without calling back during a logout.
3. *A released engine is used* (`session_release`). ExitSpace calls back while a page
   request that captured the engine is in flight; `SpaceSystem.h` lets the application
   release the engine then. A second road: after a logout inside a space, ExitSpace has
   no connection and leaves the engine attached, and the next login dispatches to it.

Also visible in the models, without a run of their own:

* *Leadership.* An old leader ticks scripts until its vacate event arrives, beside the
  new one. An election that arrives before `RegisterDefaultScope` is dropped and the
  older answer to GetScopeLeader stored, until the next event.
* *Entities.* A child flushed before its parent arrives is not resolved again and stays
  without it. A page requested by offset skips an entity when one before it is
  destroyed meanwhile.
* *Patches.* Patches that cross leave replicas apart on the keys both changed. The
  offset of the deletion reports is the size of a list that was just cleared, so they
  overwrite reports of changes. `GenerateComponentId` starts from `NextComponentId`
  without comparing it to `COMPONENT_KEY_END_COMPONENTS`: after the last id below it was
  given out, the next component gets that id itself (`SpaceEntity.cpp` 490-504), and the
  other clients, which take only smaller keys for components
  (`SpaceEntityStatePatcher.cpp` 351, 406), never see it.
* *Web.* A polled request that is retried never lets `RequestCount` return to 0, so the
  destructor waits its full twenty seconds; the destructor does not cancel a request
  whose retry another worker runs.
* *Session.* `SignalRConnection.h` 76 to 78 says the count of calls is kept "so that we can
  guarantee that the connection is not stopped until all invocations have completed". A
  call made on another thread after `Stop` has read 0 and before the hub is stopped is
  cut: `OnlyLateCallsAreCut` is what holds instead. A Logout is not called back when its
  stop reads a count that is not 0 and is stored after the last call has looked
  (`SignalRConnection.cpp` 96, 103, 157), or when another stop overwrites or drops it
  (103, 98): a Logout and a request of the service to disconnect at the same time
  suffice. If the dropped one has been found by the last call, the lambda at 166 calls an
  empty `std::function`; in a hub that is already down that happens inside a `noexcept`
  function and ends the program. The callback of a failed page request throws before the
  count is decremented, so a stop that is stored before the transport has closed waits
  for a call that is over. `LogoutIsAnswered` names these states as its exceptions. A
  scope change that fails inside EnterSpace leaves it without a callback.
* *Offline.* `NextId` may give out an id of the scene. Destroying the parent of an
  entity that is being destroyed, from its callback, puts it back into the root list.
  A destroyed entity stays in the selection.
* *Conversations.* SetConversationAnnotation, DeleteConversationAnnotation and
  DeleteAnnotation never call back when their event fails
  (`ConversationSystemInternal.cpp` 901, 942, 1096; SetAnnotation at 1051 handles it). A
  failed lookup is taken for "no asset", and a second asset is made, after which
  neither setting nor removing an annotation can succeed; a creation that took effect and
  is sent again because of the status of its answer makes a second one too. Calls that overlap on one
  collection undo each other's metadata. A component whose entity was deleted, or that
  was removed before its first flush, stays registered and may be given events. A
  second CreateConversation that fails empties the id the first one set. With
  self-messaging, the event of a creation that comes before its answer is delivered only
  by the next pass over the events, and later events may overtake it.

## 6. Not modelled

* The event bus and the event system. Their lists are changed from callbacks while they
  are iterated, which is undefined behaviour the moment it happens; there is no state
  beyond that which a longer behaviour would reach.
* In the online engine: selection (in `OfflineEntities` it is modelled), script ticking,
  the ownership of untransferable entities, and `LocalDestroyAllEntities`, which only
  the destructor calls. In the offline engine: components, scripts and locks.
* Reads of conversations and assets, and the spaces' CreateSpace with its rollback.
* The encodings of messages and the component classes: data layout. Generated clients,
  and the third-party libraries apart from the hub connection of the SignalR client.
* Systems that send one REST request per operation: their behaviour is that of the
  web client, their state the service's.
* The Emscripten build.

## 7. Plan

Done, in this order, because an entity store that frees the wrong object or a view of
the leader that is wrong affects every application: `ScopeLeadership`,
`RealtimeEntities`, `EntityPatches`, `WebRequests`; then `MultiplayerConnection` and
`SpaceSession`, `EntityStore` and the refinement; `OfflineEntities`, `ConversationCalls`
and `ConversationEvents`; proofs of `ScopeLeadership`, `RealtimeEntities`, `EntityStore`,
`SpaceSession`, `OfflineEntities`, `WebRequests`, `EntityPatches`, `ConversationCalls`
and `ConversationEvents`.

1. CreateSpace with its rollback, after the pattern of `ConversationCalls`.
2. Selection, locks and `LocalDestroyAllEntities` in `RealtimeEntities`, if they can be
   added without losing the proofs' one step per action.

## 8. Running

    tlc -workers 2 -config RealtimeEntities.cfg MCRealtimeEntities
    tlapm RealtimeEntitiesProofs.tla
