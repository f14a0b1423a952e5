# libvegas in TLA+

libvegas (repository `buddhike/libvegas`) consumes an AWS Kinesis stream with a
fleet of *worker* processes. Every process also runs an embedded etcd server and
takes part in an election; the winner is the *manager*, which hands shards to
workers over HTTP and records in etcd how far each shard was read. This directory
holds TLA+ models of that program, TLC runs that check them on small instances,
and TLAPS proofs about them. Paths below are relative to the repository, where the
Go module lives in `src/src/`.

- [The system](#the-system): inventory of its parts
- [Modules](#modules): what models what
- [Runs](#runs): what is checked, within which bounds
- [Findings](#findings): where the code and its comments disagree
- [Proofs](#proofs): what holds for every value of the constants
- [Not modelled](#not-modelled) and the [plan](#plan)

## The system

### Parts, their state and operations

**ManagerService** (`consumer/manager_service.go`) is the heart of the system. One
mutex `m.mut` protects: `inService`, `term` (the etcd revision of the election this
manager won), `nextAssignmentOffset`, `checkpoints` (shard to `""`, `"LATEST"`, a
sequence number or `"CLOSED"`), the pool `unassignedShards`, `liveShards`,
`workers` (id to `workerInfo`: last heartbeat, assignments, an offer of shards that
are to be taken from others, the count of active shards), two heaps
(`workerHeartbeats`, `workerShardCount`) and the pending `closed` notifications.

- `handleAssignRequest` (189-235), whole under the mutex: expel inactive workers;
  process closed shards; register or refresh the worker; hand over the shards of
  an offer that is due; hand out shards of the pool; otherwise steal shards from
  workers with more than the ideal number by way of an offer, which falls due
  `ShardReleaseTimeout` later so that the old owner can stop first; respond.
- `handleCheckpointRequest` (435-496): check that the worker owns the shard (under
  the mutex), three etcd transactions *without* the mutex that compare the *fencing
  token* of the shard with the assignment id (equal; absent; older), then check
  again and update memory (under the mutex). A CLOSED checkpoint queues a
  notification for the next assign request.
- `SetToInService` (530-583) reads the checkpoint of every known shard from etcd and
  then starts a term; `SetToOutOfService` (585-589) ends it.

It is correct when no shard is lost, none has two owners or is placed twice, a
child shard starts only after its parents were read, but then does start, a stale
owner cannot overwrite the progress of a newer one, a legitimate owner is not
turned away, the request handler always returns, and the shards end up fairly spread.

**PriorityQueue** (`primitives/priority_queue.go`): the heap behind the two queues of
the manager, with a map from values to items and in each item its own position,
which `container/heap` keeps up to date by way of `Swap`. Correct when `Peek` and
`Pop` return a first value and no position is ever stale.

**ShardDiscoveryService** (`consumer/shard_discovery_service.go`): a loop that lists
the stream page by page, then adds to a graph of shards, link by link, under a mutex of its own.
The manager asks it for all shards, the roots and the children of a shard. Correct
when the roots do not change while the manager runs and children are found at last.

**ShardProcessor** (`consumer/shard_processor.go`): one goroutine per assigned shard
that subscribes, calls the application, sends checkpoints (one at a time, repeated
after errors), and when it is refused or the shard is read to its end waits for its
stop. State: the assignment, the position of the subscription, two channels. Correct
when it skips no record, stops when told to wherever it is, and not before.

**WorkerService** (`consumer/worker_service.go`): asks for assignments at every tick,
starts, restarts (for a higher assignment id) and stops processors, tries the next
manager after a failure. Restarting and stopping take goroutines that nobody waits for.
State: `managerIndex`, `maxShards`, the map `shardProcessors`, the running goroutines.
Correct when what it owns is read, what it lost is left, every processor is stopped
exactly once, and a shutdown ends.

**Leader** (`consumer/leader.go`): opens an etcd session, campaigns, tells the manager
to enter service with the revision of its key, and to leave it when the session is lost.
Correct when terms follow the election, a manager without a session leaves, and
somebody leads in the end.

**KVS**: etcd, two keys per shard (`checkpoint`, `assignment`: the fencing token),
written by every manager whose requests are still on their way.

**PopService, Consumer, EtcdServer**: start everything in order, and wait for each part
at shutdown; **middleware** ties the context of a request to that of the process.
**Configuration, messages, AWS clients, command line, samples** carry no logic of interest.

### How they interact

```
worker ticker --POST /assign/--> ManagerService --GetAll/GetRoots/GetChildren--> ShardDiscovery
ShardProcessor --POST /checkpoint/--> ManagerService --Txn--> etcd (KVS)
Leader --SetToInService/SetToOutOfService--> ManagerService --Get--> etcd (KVS)
ShardDiscovery --ListShards--> Kinesis <--SubscribeToShard-- ShardProcessor
```

### What makes it hard

Every entry of `hazards` in `PROJECT.json` is at its line. In groups:

- *interleaving*: checkpoint requests drop the mutex for their transactions while
  assignments, leadership and shards change; the old or the new owner of an offer
  leaves before it is due; a request reads the clock before it gets the mutex.
- *failure*: `Commit` may fail with the transaction applied; the client of a
  checkpoint request may give up while the request goes on; the manager may
  lose leadership at any moment and load again; `ListShards` may fail on page n.
- *order*: CLOSED is reported before the children are listed, or when one of them is; two
  parents of a merged shard close in either order; a child is listed before its parent;
  checkpoints that several managers accepted reach etcd in any order.
- *redundant state*: `ActiveShardCount`, the heap, the offers and the assignments all
  say who has what and are updated by different code.
- *stale leaders*: a session is lost long before its manager notices, and a candidate
  wins without looking whether its own key still exists.
- *goroutines without an owner*: a shard is taken away, given back and taken away
  again while earlier restarts and stops of it are under way.
- *termination*: `rebalance` loops under the mutex until the heap says stop; a shutdown
  waits for parts that wait for each other, and for requests that have no timeout.

## Modules

| module | models | kind |
|---|---|---|
| `Manager` | `manager_service.go`; the part of workers, processors, leader, discovery and etcd it can see | component with its environment |
| `FencedStore` | what the checkpoint protocol promises of the two keys of a shard | abstract specification, implemented by `Manager` |
| `Cluster` | `leader.go` on several nodes; sessions and keys of the election; terms, ids and checkpoints of several managers for one shard; start and shutdown of a process (`pop_service.go`) | composition |
| `ShardProcessor` | `shard_processor.go` and what it sees of Kinesis and the managers | component, part of `Worker` |
| `Worker` | `worker_service.go` with the processors of `ShardProcessor` | composition |
| `Queues` | what a priority queue promises, as operators on sets of items | operators |
| `QueueSpec` | the same as a state machine | abstract specification |
| `PriorityQueue` | `priority_queue.go` with the loops of `container/heap` | component; implements `QueueSpec` |
| `ShardDiscovery` | `shard_discovery_service.go` and Kinesis | component with its environment |
| `ManagerProofs`; `ManagerShardProofs`, `ManagerPlacementProofs`, `ManagerClosingProofs`, each on top of the one before | types, ids, fence and store; order and liveness of shards; placement and owners while no shard ends; owners when shards end | theorems about `Manager` |
| `ClusterProofs`, `WorkerProofs`, `PriorityQueueProofs`, `ShardDiscoveryProofs` | | theorems about `Cluster`, `Worker`, `PriorityQueue`, `ShardDiscovery` |
| `MCManager`, `MCCluster`, `MCWorker`, `MCPriorityQueue`, `MCShardDiscovery` | | small instances, views, symmetry |

`Manager` and `QueueSpec` share `Queues`: what `PriorityQueue` is shown to implement
is what the manager is modelled with. A definition whose name begins with `Bad` is a
faulty variant of the definition after it, of the kind a slip in the code would be.
No action uses it; put in place of the right one it breaks a property, which shows
that the property can be broken.

### Manager

*State.* The variables have the names of the fields in `ManagerService` and
`workerInfo`. A `workerInfo` is an object of its own (`Infos`), apart from the id of its
worker, because offers, the heap and close notifications keep pointers to it after
the worker left, and a worker that comes back gets a new one. Sequence numbers are
all `"SEQ"`: no decision looks at their value. Heartbeats and offers are kept as ages
that stop counting where every comparison has one outcome. Of the two heaps,
`workerShardCount` is a set of items, because it may be out of step with the workers;
`workerHeartbeats` never is and is read off `heartbeatAge` (`Expired`). Map iteration
orders are choices.

*Actions.* `handleAssignRequest` holds the mutex from end to end; its loop iterations
are actions nevertheless, because one question is whether the loops end. `pc` is the
part that runs and everything else that needs the mutex waits for `pc = "idle"`.

| part of the handler | actions |
|---|---|
| clock, mutex, in service (189-195) | `AssignBegin` |
| `releaseInactiveWorkers` (238-279) | `ReleaseWorker`, `ReleaseDone` |
| `processClosedShards` (281-318) | `CloseUnresolved`, `CloseResolved`, `CloseDone` |
| `resolveActiveWorker` (320-333) and requests for no shards (203-208) | `ResolveKnown`, `ResolveNew` |
| `acquireDueReassignments` (335-349) | `AcquireShard`, `AcquireDone` |
| `assignFromUnassignedPool` and lines 214 to 217 | `AssignFromPool`, `AssignDone` |
| `rebalance` (359-392) | `RebalanceSteal`, `RebalanceDone` |
| the response | `AssignRespond` |
| `handleCheckpointRequest` | `CheckpointBegin`, `CheckpointRefused`, `TxnSucceeds`, `TxnFails`, `TxnError`, `CheckpointUpdate` |
| `SetToInService`, `SetToOutOfService` | `LoadBegin`, `LoadCheckpoint`, `SetToInService`, `SetToOutOfService` |

*Environment.* Workers ask at any time, with any allowed `MaxShards`, and fall silent at
any time (time passes: `Tick`). A processor exists for every assignment a worker was
told of; it sends checkpoints one at a time, repeats them after an error, sends CLOSED
only for a shard that ends (`Closable`) and nothing else after it, and stops when it is
refused. A client may give up on a request (`Disconnect`), which then runs on beside its
own repetition. etcd applies a transaction or not, and either way may report an error.
`discovered` is what discovery has listed, roots from the start, and `linked` which child it has
tied to which parent: a pass (`Pass`) may list one child of a shard without the other, and in
any order, and one that is listed before its parent is tied to it in the next pass. Losing leadership does not stop a load that is on its way, since its context is
that of the process.

### PriorityQueue

`Push` of a new and of a known value, `Pop` and `Remove` begin the loops `down` and `up`
of `container/heap`, one action per iteration; the removed item leaves in `TakeLast`.
`Implements` is the refinement: `contents` of `QueueSpec` is the set of items of the heap
without the one that is leaving, so a whole call maps to one step of `QueueSpec` and the
iterations to stuttering; `result` is what `Pop` returns, which the abstract `Pop` lets be a
first value only. The map and the slice are variables of their own, as are the
position and the priority in each item: nothing makes them agree but the code.

### ShardDiscovery

`ListShards` takes one shard at a time, in any order, since the order of pages is not
known; the stream changes between them (`Reshard`, `Expire`). `DiscoverOnce` is the part
under the mutex. Two assumptions about Kinesis are in the model, at the actions that
make them: no shard is created and replaced within one pass, and shards expire so long
after they were closed that a pass has listed them; parents of a merge expire together.
The link of a child that is listed before its parent exists only after the next pass,
because the placeholder that is made for the parent is not kept: `Links` has exactly
the links that outlive the pass.

### FencedStore

Two variables and one action: the token and the checkpoint of a shard change together,
by a write whose id is not below the token. `Manager!ImplementsStore` maps them to the
keys in etcd: of `handleCheckpointRequest` only the one transaction that goes through is
a write; its comparisons, refusals and errors stutter.

### Cluster

*State.* The keys of the election with the revision of their creation; of each node where
`elect` is (`pc`), its session, the revision of its key (`rev`), whether its context is
cancelled and which components are not done (`running`), and of its manager `inService`, `term`, the offset and the id
under which the shard is assigned. Across nodes: the checkpoint requests that passed
`ensureCheckpointOwnership` (`writing`) and the token in etcd (`written`). One shard is
enough, since every shard has keys of its own. `given` and the terms in `writing` and
`written` are history.

| code | actions |
|---|---|
| `elect` (leader.go 40-102) | `NewSession`, `Campaign`, `CampaignFails`, `Elected`, `WaitCancelled`, `Resign`, `WaitFails`, `LeaveService`, `StopLeading` |
| `SetToInService` (530-583), `SetToOutOfService` (585-589) | `EnterService`, `LoadCancelled`; in `LeaveService` |
| assignment (351-357, 394-398), checkpoint (435-468) | `Assign`; `Accept`, `Write`, `WriteFails` |
| HTTP server (140-153), etcd server (etcd_server.go 61-89) | `ComponentDone` |
| start and end of a process (pop_service.go 88-119, main.go) | `Restart`, `Cancel`, `Exit`, `Crash` |

*Environment.* `Campaign` of the etcd client puts a key and waits until none of a lower
revision is left; it does not look whether its own is still there. A key expires when
nobody keeps it alive, or its node is cut off (a fault); the client finds out later, or
believes so wrongly. `CampaignFails` returns with the key put or not. Every crash, cut,
error and cancellation counts as a fault (`MaxFaults`); their consequences do not. The
checkpoint of `Manager`, with three comparisons, is one step here: `FencedStore` is what
that rests on. A crash leaves requests on their way to etcd.

*Shutdown.* A process exits when the election, the HTTP server, the embedded etcd server and
discovery are done. The first three are in the state; discovery looks at the context between two
passes and nothing depends on when, so `Exit` is also its end. The same cancellation that ends the election
closes the etcd server of the node, after which its requests are answered or not:
`Campaign`, `SetToInService` and `Session.Close` are bound to a context or a timeout and
return, `NewSession` and the `Resign` of a cancelled `Campaign` are not (`AwaitsEtcd`).

### ShardProcessor and Worker

*State.* Sequence numbers are positions; 0 is the empty string, and in an assignment
LATEST. A processor is an object (`Procs`), because the old and the new one of a shard
exist side by side; when it is done and nobody refers to it the object is used again. The
last record of a shard (`tip`) is only decided when a subscription or an event needs it.

| code | actions |
|---|---|
| `ShardProcessor.Start` (44-103) | `Subscribe`, `StopSeen` |
| `handleSubscription` (105-175) | `Event`, `StreamEnds`, `StopSeen` |
| `checkpoint`, `checkpointOnce` (177-239) | `Answer`, `Lost`, `Retry`, `GivesUp` |
| `assignOnce`, request and rotation (94-145) | `AskLeader`, `AskInVain` |
| `assignOnce`, response (147-213) | `Apply`, `IgnoreEmpty` |
| its goroutines (186-204) | `RestartStop`, `RestartStart`, `StopOne` |
| shutdown (71-79) | `Stopping`, `Stopped` |

*Environment.* The manager is reduced to what a worker can tell: who leads, which shards it
holds for this worker under which id, which of them it wants back (`Want`, `Take`), and the
recorded checkpoints. It may change (`Failover`), take the worker for dead (`Expel`), and
requests and replies may get lost (`Lost`, the faults in `AskLeader`, `AskInVain` and
`Answer`). A checkpoint may also never be answered and never fail: `http.Post`
(`shard_processor.go:213`) has no timeout and does not look at the stop, so the processor stays
in phase `hung`; requests for assignments have a timeout. Other managers are dead or say that they are not in service. Ids rise here; that
they may not is the subject of `Cluster`. `others` stands for shards that are not followed:
that there are some makes a response not empty. Ending the process ends the model.

## Runs

`tlc -config <run>.cfg <module>`; each ends within a few minutes with two workers.

| run | module | shows | distinct states |
|---|---|---|---|
| `placement` | MCManager | nothing is lost, duplicated or owned twice; counts and heap follow | 1.7 M |
| `balance` | MCManager | shards come to a fair and lasting distribution; the handler always gives the mutex back | 305 K |
| `fence` | MCManager | old owners are shut out for good, the owner never is; an atomic fenced store | 1.8 M |
| `merge` | MCManager | the child of two parents starts after both and is not forgotten, also over a change of terms | 984 K |
| `queue` | MCPriorityQueue | the heap implements the abstract queue | 20 K |
| `discovery` | MCShardDiscovery | roots are fixed, children are found | 33 K |
| `cluster` | MCCluster | terms follow the election, old terms are fenced out, somebody leads in the end, shutdowns end | 650 K |
| `worker` | MCWorker | processors are stopped once, what is assigned is read, what is lost is left, shutdowns end | 125 K |
| `closed_handed_out` | MCManager | see [Findings](#findings) | stops at the violation |
| `sibling_forgotten` | MCManager | see [Findings](#findings) | stops at the violation |
| `ids_collide` | MCCluster | see [Findings](#findings) | stops at the violation |
| `position_lost` | MCWorker | see [Findings](#findings) | stops at the violation |

*placement.* Three workers, three shards, five `workerInfo` objects; a worker takes one or
two shards at a time; a request may have waited for the mutex for as long as half the
inactivity timeout. Three workers are what it takes for an offer to be made, its owner
to leave and a third to get the shard; the third shard lets stealing start from
unequal counts. Since no checkpoint is sent the values of ids play no part, and neither
does the bound on their number: runs of the manager of every length are covered.
`PlacedOnce`, `ExclusiveAssignment`, `CountsExact` and `QueueInSync` hold here, and
*only* while no shard closes (see Findings). For as long they are proved for any numbers.

*balance* checks liveness, without symmetry or views. Two workers share three shards; until
two assignments were made they may fall silent and expire, afterwards (`PromptSpec`) they
are never late with a heartbeat, which is an assumption about the deployment: without it
nothing can be lasting. Some requests are heartbeats only. Each worker keeps asking and
gets in (its ticker, and the starvation freedom of `sync.Mutex`: strong fairness, as the
mutex is taken and released in between); time passes; and loading after the election
ends. `AssignReturns` needs only that the steps of the handler are fair, which is no more
than that a goroutine with the mutex is scheduled. Nine assignments are more than it takes
to come to rest; the bound is therefore never what ends a behaviour, or the property would
fail.

*fence.* Two workers that take one shard at a time, two shards, two terms, two checkpoint
requests in flight, one of which may be abandoned. Two requests are needed for the token to be set by one between
two comparisons of another; more add nothing, as a request interacts with others by
way of a single key. `OwnerNotRefused` states what an owner can rely on: it is told that
"ownership changed" while it is the owner only if a repetition of its own request set
the token between two comparisons, which are three separate transactions.
`FenceAdmitsOwner` is the reason: a token is never above the id of the owner.

*merge.* Two shards that merge, over two terms, with two workers; one request in flight,
assignments up to the bound. A request of the first term may still be on its way in the second
and write between two reads of the load. Discovery finds the child early or late, before or
after its parents closed. With a single child its notification is kept until it is there, which
is why `NoChildForgotten` holds here; with two it does not (`sibling_forgotten`, the same property for
a shard that splits, within one term). The property follows a pending notification through closed shards
in between (`Reached`): when a child was split again before a new manager reads etcd, and all of
them are closed, the notification of the first one leads to the last ones through the loop over the
children (295-315). Trees of three generations are too large for a run that ends in minutes.

*queue.* Six values: with fewer no `Remove` ever has to move an item up, so half of
`Fix` would be dead. Three priorities give ties and both strict orders.

*discovery.* A split followed by a merge, up to two failing calls of `ListShards`.
Deadlock is not an error: the service may be stopped.

*cluster.* Two nodes, two faults of any kind, two ids, one checkpoint on its way. Two
faults are what it takes for a node whose key is gone to win beside the true leader (one for
its key, one for the leader before), or for the successor of a failed leader to fail as
well. `MaxRevision` and `MaxGiven` stop checkpoints and
assignments, never the election. Safety does not depend on these bounds: it is proved.
Fairness (`FairSpec`): `elect` runs on, that is, etcd answers or reports an error, except in
`NewSession` and `Resign` once the etcd server of the node is closed; keys that
nobody keeps expire, lost sessions are noticed, the components see the cancellation, a process whose
parts are done exits; no process has to be restarted. A node may stop for good, so deadlock
is not an error. `EventuallyLed` says what is left out: nodes that gave up campaigning,
after which nobody may campaign at all or a key is kept that belongs to no candidate,
a leader whose server failed, and a node that waits for etcd in vain. `ShutdownCompletes` excepts
the last only. It and `StaleManagerLeaves` are checked of one node, as nothing tells the nodes apart.

*worker.* One shard beside others, two managers, two objects at a time, one fault, three
positions (none, a record, the end). Restarts, stops and starts of the shard overlap, but at
most two ids are given, so one restart is pending at a time: chains of them are covered by the
proofs. Two bits make `maxShards` overflow at once. Fairness (`FairSpec`): the worker ticks,
its goroutines run, Kinesis accepts a subscription, a request is answered, fails or hangs for
good. After the last `AssignedIsRead` and `ShutdownCompletes` promise nothing of the shard (`Hung`); the other
properties do not except it. Strong
fairness of a checkpoint that is due, since subscriptions end and begin anew in between, and
of the stop, since a `select` with several ready cases picks one at random. The stop of a
worker ends the model, so deadlock is not an error.

*ids_collide* needs four ids within the first term and one fault, *position_lost* three records
and none, *sibling_forgotten* one split within one term.

*Bounds.* `MaxOffset` stops new requests, `MaxInflight` and `MaxAbandoned` new checkpoint
requests, `Terms` the loss of leadership, `MaxLag` the wait for the mutex, `MaxErrors` the
failures of `ListShards`, `MaxFaults` what goes wrong in `Cluster` and `Worker`, `MaxTip` the
records of a shard, `MaxId` the ids a worker gets. `Infos` is not a bound on behaviour: if a run needed one more
object TLC would report an error.

*Views and symmetry.* `HeapView` leaves out the contents of objects that nothing refers to,
`PlacementView` also the values of ids and what only checkpoints use, in the one run
without checkpoints. `TreeView`, for `merge`, keeps of the ids only what is compared: those of the owners of
a shard and of requests on their way by their rank, whether one is the token, and of all other
processors, which can only be refused, how many might still report the end of the shard. A position
counts as LATEST, since no decision tells them apart. Workers and shards are
interchangeable in the runs that say so: the shards only where none has a parent, or where they
are the two parents of a merge, and neither in a liveness run.

## Findings

- **A closed shard is handed out.** A worker checkpoints CLOSED and then expires before
  the next request: `releaseInactiveWorkers` (255) returns all its shards to the pool
  before `processClosedShards` looks at the notification. The next owner finds CLOSED and
  exits (`shard_processor.go:54`, "assigned a closed shard"). Run `closed_handed_out`.
- **The late one of two siblings is forgotten.** `processClosedShards` keeps the notification of a
  closed shard only while it has no children at all (296), "Discovery service may not have fully
  caught-up with shard change, try again during next assignment process" (297). Discovery ties each child
  to its parent by itself (`shard_discovery_service.go:90-113`), so one child may be there a
  pass before the other: it stands before its parent in the listing, or its page was
  read before the split. The notification is dropped with the first child, and the second one
  is not read until a manager enters service again. Run `sibling_forgotten`.
- **Ids of different terms collide.** An id is the term, which is the etcd revision of the
  election, plus an offset that each manager counts by itself (397). The comment at line 62
  takes the sum for monotonic over the cluster, but a manager that gave more ids than the
  revision rises until the next election leaves tokens above the ids of its successor,
  whose owners are told that the ownership changed. The term of a manager that stood by is
  the revision at which it put its key, often long before it leads, so that no checkpoint
  since then raises it. Run `ids_collide`.
- **A position is lost.** A subscription that ends without an event returns `""`
  (`shard_processor.go:115`), and the next one begins where the assignment says. At LATEST
  that skips records, although progress was recorded and `README.md:10` promises to resume
  from the last known position. Run `position_lost`.

Three more things go wrong, as instances of `Manager` with a shard that closes show, for which there
is no run. *CLOSED is not final*: a checkpoint request that its client gave up and repeated runs
on, and may write its position after the CLOSED of the same owner, in etcd (455) and in
memory (484); and one that was accepted in an earlier term, under an id that the token admits, may write
over CLOSED in etcd while the next load reads the checkpoints (535) or after. The shard is
then open again for the next load, is handed out and read once more. Nothing in the
repository promises the contrary, so no property does. `rebalance` (383) and `processClosedShards` (289) both subtract a shard
that is closed while it has a reassignment request, so `CountsExact` fails, against the comment
at line 59. And `processClosedShards` (290) pushes the owner of a closed shard without looking
whether it is still registered, so `QueueInSync` fails, although workers and heap "must" be
updated together (239).

The last has a consequence that the attempt to prove `ExclusiveAssignment` led to, and that
TLC confirms: *two workers own one shard*. The first worker has four shards, closes one and
expires; its other shards go to the pool, and it goes back into the heap with a count of
three. A second worker takes all of the pool, a third one steals from it, so that its count
falls to three as well. A fourth one may now find the first worker on top of the heap and steal
a shard of it that the second has; when the offer falls due `delete` (340) clears the map of
the worker that left, and the second keeps its assignment. The instance needs four workers and
shards and a schedule picked by hand, too large for a run here; `placement` checks these
properties where no shard closes, and the theorems state them for the time until one does, and beyond
it for as long as no worker leaves with its notification pending (`NoticedStay`).

`rebalance` would not return, with the mutex held, if the first worker of the heap had a
count above the ideal but nothing to steal. While counts are exact that cannot be
(`balance`). Once they are not, for instance after a shard of a worker that left got into
the pool twice, it is an open question: no run reaches it within its bounds.

## Proofs

All theorems are checked by `tlapm <module>.tla`. They hold for any sets of workers, shards,
objects, nodes and values, any tree of parents, any timeouts, and any bounds: the bounds of
the runs are gone. What they assume of the constants are the named assumptions of
the modules, which TLC evaluates in every run: nil is no object, sets and bounds have
their types, and

- `MergeAssumption` (`Manager`, `ShardDiscovery`): a shard with an adjacent parent has a first one.
  `processClosedShards` dereferences the first parent of every child (303).
- `ReshardAssumption` (`Manager`, `ShardDiscovery`): shards with a parent in common have the same parents. A shard is
  split once or merged once.
- `WidthAssumption` (`Worker`): arithmetic that is true of every width, which the provers lack: a power
  of two is positive, doubles with its exponent, and has no odd divisor but 1.

`Infos`, the objects of type `workerInfo`, needs no assumption: `ResolveNew` takes one that
nothing refers to, and where there is none the handler stops (which `AssignReturns` would
show in a run, and no theorem relies on).

### Manager

`ManagerProofs`:

- `TypeCorrect`: `Spec => []TypeOK`. `TypeOK` is inductive as it stands once it says that a
  handler past registration has a `workerInfo`; one lemma per action.
- `UniqueAssignmentIds`: `Spec => []IdsUnique`. That ids of registered workers differ is not
  inductive: an old object may be pointed at by an offer and be assigned from. `IdsUnique`
  therefore ranges over all objects, and says that each id is below the next one. A term
  that starts keeps the offset and raises the term, so the next id only rises; `AssignShard`
  is the one place where an id is written.
- `FenceMonotone`: `Spec => FenceOnlyRises`, from the types and the three comparisons
  (`Passes`), each of which lets through only ids not below the token.
- `StoreImplemented`: `Spec => ImplementsStore`, with `GrantInv`: a request comes from a
  processor that was granted its shard, under an id above 0. Every step but a transaction
  that succeeds leaves both keys alone, and that one writes both.

`ManagerShardProofs`, for streams that split and merge, any failures and any number of terms:

- `ParentsBeforeChildren`: `Spec => []ParentsFirst`. `ParentsFirst` speaks of what registered
  workers have; inductive is that whatever is in the pool, with any object or offered to
  any (`Placed`) had each of its parents read to the end (`StartedInv`), because old objects
  give shards back. It rests on `ClosedInv`, which follows the mark CLOSED from the
  processor through a request, etcd and a load into memory, and on `TreeInv`: discovery lists
  links only shards it has listed, and lists parents with or before their children.
- `LiveShardsKept`: `Spec => []NoLiveShardLost`. Inductive is `BookInv`: every live shard is in the
  pool or *held*, that is, a registered worker reads it without a request to give it
  back or has it on offer (`LiveInv`); an object that is registered knows for whom, and the handler works with the
  one of the worker that asks (`WhoInv`). The case to see is `ReleaseWorker`: a shard with a
  request is not put into the pool, since whoever has the offer holds it.

`ManagerPlacementProofs`, for the states in which no processor has reported the end of a shard
(`closing = {}`). `closing` only grows, so for a stream that is never resharded that is for
ever; beyond it counts and heap are wrong, see Findings, and ownership takes the conditions
of `ManagerClosingProofs`:

- `EachShardPlacedOnce`, `OwnersExclusive`, `ActiveShardCountExact`, `HeapMatchesWorkers`:
  `Spec => [](closing = {} => P)` for the four properties of `placement`. They are proved
  together, since each step of the handler needs them all: `rebalance` takes from whom the
  heap shows (`HeapKnown`, `QueueInv`), reduces counts that are right (`CountsExact`), and takes
  a shard that nobody else has or was offered. `SoleInv` says the last in full: the pool is
  disjoint from what registered workers have or await (`PoolAlone`), what one awaits nobody
  else awaits or counts for its own (`OffersAlone`), an offer names the worker that has the shard
  (`OffersOfOwner`), and the heap has registered workers only. `OnlyLive` adds that only live
  shards are anywhere, `QuietInv` that no notification is pending. An owner that left is out of
  all this as soon as it is out of `Registered`, while offers that point to it go on being counted.
- `OwnerAdmitted`: `Spec => [](closing = {} => FenceAdmitsOwner)`. Inductive is `FenceInv`: every
  processor has an id below the next one (`GrantsInv`), the token of a shard is the id of
  some processor of it (`TokenInv`), and no processor of a shard has a later id than the
  assignment that a registered worker holds (`LatestInv`, which needs `OwnersExclusive` and
  `IdsUnique`).
- `OwnerGetsThrough`: `Closable = {}` implies `Spec => OwnerNotRefused`. A token that is not above the id of the owner,
  not below it (or the third comparison would pass) and not absent is the id itself.

`ManagerClosingProofs`, for any tree of splits and merges, any number of workers, requests and
terms. When shards end the code promises less, and each theorem says what it takes:

- `NoticedStay`: no worker leaves between its CLOSED and the assign request in which
  `processClosedShards` sees it. Without it two workers may own a shard (Findings).
- `LastWord`: a processor reports the end of its shard when its earlier requests are over, those
  included that its client gave up on. Without it a late position with the same id is written over
  CLOSED in etcd (455) and in memory (484), and the shard is open again with an owner.

The code enforces neither. They are hypotheses on every state of a behaviour,
`Spec /\ [](NoticedStay /\ LastWord) => []P`, and leave most of what the runs explore, expired
workers, changes of terms and repeated requests among them. The theorems say that nothing
*else* can go wrong:

- `OwnersExclusiveAtReshard`, `LiveShardsPlacedOnce`, `OwnerAdmittedAtReshard`,
  `OwnerGetsThroughAtReshard`: `[]ExclusiveAssignment`, each live shard in
  exactly one place, `[]FenceAdmitsOwner` and `OwnerNotRefused`. `SoleInv` does survive a shard that
  closes, as counts and the order of the heap play no part in it; it needs that whatever is
  handed out is live or closed (`HandedInv`), so that a child that starts was nowhere, not
  even for the notification of its other parent; that a notification with a worker is of a shard
  that memory has as closed (`NoticesInv`); and that a processor which still owns a closed shard is the
  one that closed it (`ClosersInv`), or a position of another would reopen it. That takes
  `ProcessorsInv`: an id is that of one processor.

### PriorityQueue

`PriorityQueueProofs`, for any number of values, priorities and calls:

- `PositionsExact`: `Spec => []IndexExact`, and `PeekCorrect`: `Spec => []PeekIsFirst`. Inductive is `QueueInv`:
  the map and the slice hold the same items, each of which knows its position also
  between the iterations of `up` and `down`; the heap is in order but for the one position
  that is on its way, and across it: the children of that position are in order with its
  parent. That the first item is first of *all* follows from the order of parent and child
  without induction: among the items that come before the first, one at the least position would have a
  parent that does too.
- `QueueImplemented`: `Spec => Implements`, step by step: `Push`, `Pop` and `Remove` are steps of `QueueSpec`,
  iterations stutter because a swap keeps the contents, and what `Pop` returns is a first value by `PeekCorrect`'s lemma.

### ShardDiscovery

`ShardDiscoveryProofs`, for any stream and any number of passes that fail:

- `RootsStay`: `Spec => RootsFixed`. A shard the graph *missed* expired before the first complete
  pass. `DiscoveryInv` says that the graph has, or missed, all parents of what it knows, all
  shards without parents and all children of what it missed (`GraphInv`); that a pass has, or
  comes to, every listed shard that was there when it began (`PassInv`); and what Kinesis
  does to the stream (`StreamInv`). So the parent of a root was missed and cannot be
  listed any more, and a shard that is new to the graph is no root.

### Cluster

`ClusterProofs`, for any number of nodes:

- `TypeCorrect`: `Spec => []TypeOK`.
- `LeaderHasNewestTerm`: `Spec => []LeaderIsNewest`. Inductive is `ElectInv`: no two nodes have
  the same revision, a node that was elected has no older key before it, which stays so
  since keys only get younger, and the term of a manager in service is the revision it won
  with. Whether its own key is still there is nowhere in it: that is the point.
- `NewestOwnerAdmitted` and `FenceFollowsTerms`: `Spec => []OwnerAdmittedApart`, and
  `Spec => FencedInTermOrder`. `IdInv` adds that the ids of a term are below the next one its
  manager will give, that the assignment of a manager is its latest, and that only what was
  given gets written. `TermsApart` is the hypothesis of both, and `ids_collide` shows that it
  is needed.

### Worker

`WorkerProofs`, for any number of shards, objects and managers:

- `NothingOrphaned`: `Spec => []NoOrphan`, and `ChannelsClosedOnce`: `Spec => []StoppedOnce`.
  `OwnerInv` says that an object is in the map once, or waits for a restart to replace it, or
  for a stop, never two of these (`PlacesInv`); and that one that was started has a stopper
  until its channel is closed, one whose channel is closed has none (`StopInv`). Both halves
  need each other: `Apply` moves an object from the map to a goroutine, and only because it was
  in the map alone does it have exactly one stopper afterwards. `Stopping` takes what is
  in the map, which then does not change any more.
- `WorkerTypeCorrect`: `Spec => []TypeOK`, for an `int` of any width. That `maxShards` is positive is not
  inductive: twice a multiple of half the range is 0, and 0 is not caught by the
  test (207). Inductive is that it is a proper divisor of the power of two at which an `int`
  turns negative (`Doubles`): doubling meets that number exactly, never 0, and starts again at 1.

### What is only model-checked

- *Liveness*: `EventuallyBalanced`, `AssignReturns`, `ChildrenFound`, `StaleManagerLeaves`,
  `EventuallyLed`, `AssignedIsRead`, `LostIsLeft`, both `ShutdownCompletes`. The prover has no
  rules for fairness.
- `NoChildForgotten`: it holds in `merge`, and not for shards with two children (`sibling_forgotten`).
- `ExclusiveAssignment` and `FenceAdmitsOwner` once a shard has closed and a worker left with its
  notification pending; `PlacedOnce` for shards that are closed, `CountsExact` and `QueueInSync`
  once a shard has closed: they do not hold there for all instances.

## Not modelled

- *The embedded etcd server* and its cluster, but for its end at a shutdown: until then etcd is a
  service that answers or reports an error. An etcd that hangs although no node stops would block
  elections, and the checkpoint handlers of a manager, whose transactions have no timeout
  (`notes/io-operations-and-timeouts.md:8-13`); for the worker that is a hung checkpoint.
- *Exits on an error* (`Fatal`, `panic`, `StateCriticalRoute`): to the others they are a
  crash, which `Cluster` has; a worker that exits is the end of `Worker`.
- *Consumer*: starts a worker, in a standalone one after a PopService, and waits for both.
- *Middleware*: cancels a request when its client or the process gives up;
  `Disconnect` and `TxnError` of `Manager` allow for what follows at any time.
- *One model of everything*: `Manager`, `Cluster` and `Worker` each hold what they need of the
  others. Together they would be beyond TLC, and the properties each would share with another
  go by way of ids, tokens and checkpoints, which all of them have.
- Configuration, JSON, logging, AWS construction, command line, read-only HTTP handlers
  and samples: no logic that a property would be about.
- Roots that appear by expiry at a page boundary (a merged shard whose first parent was
  never listed while the adjacent one was): listed as a hazard, excluded by the
  assumption that parents expire together.

## Plan

1. A child that discovery lists only after the load: `checkpoints` then holds nothing of it
   and it starts at LATEST (line 306), whatever etcd has.
2. What `rebalance` does once counts are wrong.
