------------------------------- MODULE Manager -------------------------------
(***************************************************************************)
(* ManagerService (consumer/manager_service.go): the process that hands    *)
(* the shards of a Kinesis stream to workers and records their progress.   *)
(*                                                                         *)
(* handleAssignRequest runs from one end to the other under m.mut.  It is  *)
(* modelled as the sequence of its loop iterations, with pc naming the     *)
(* part of the handler that runs and h its local variables, so that a loop *)
(* that does not end is visible.  pc = "idle" means the mutex is free.     *)
(* handleCheckpointRequest takes the mutex twice and leaves it for three   *)
(* etcd transactions in between: each of these five steps is an action,    *)
(* and inflight holds the requests that are somewhere between them.        *)
(*                                                                         *)
(* Time is kept as ages: how long ago a heartbeat or an offer was.  A      *)
(* request reads the clock before it waits for the mutex (line 190), so    *)
(* the time it works with is h.lag behind the time at which it runs.       *)
(*                                                                         *)
(* A definition whose name begins with Bad is a faulty variant of the one  *)
(* after it.  No action uses it: it shows what the properties detect.      *)
(***************************************************************************)
EXTENDS Integers, Sequences, FiniteSets, SequencesExt, Queues

CONSTANTS
    Workers,            \* worker ids
    Shards,             \* the shards the stream ever has
    Infos,              \* heap objects of type workerInfo
    NoInfo, NoShard,    \* nil
    Parent,             \* ParentShardId of each shard, or NoShard
    AdjacentParent,     \* AdjacentParentShardId of each shard, or NoShard
    Closable,           \* shards that are split or merged, so reach their end
    MaxShardsValues,    \* AssignRequest.MaxShards
    Terms,              \* etcd revisions at which this manager is elected
    InactivityTimeout,  \* PopConfig.WorkerInactivityTimeout
    ReleaseTimeout,     \* PopConfig.ShardReleaseTimeout
    MaxLag,             \* bound: wait between line 190 and line 191
    MaxOffset,          \* bound: no request once this many assignments exist
    LateUntil,          \* PromptSpec: workers may be late until there were this many
    MaxInflight,        \* bound: checkpoint requests being handled
    MaxAbandoned        \* bound: of those, the ones whose client is gone

ASSUME NilAssumption == NoInfo \notin Infos /\ NoShard \notin Shards
ASSUME FiniteAssumption == IsFiniteSet(Shards) /\ Workers # {}
ASSUME TreeAssumption == /\ Parent \in [Shards -> Shards \cup {NoShard}]
                         /\ AdjacentParent \in [Shards -> Shards \cup {NoShard}]
\* processClosedShards dereferences the first parent of every child (line 303).
ASSUME MergeAssumption ==
    \A s \in Shards : AdjacentParent[s] # NoShard => Parent[s] # NoShard
\* A shard is split once or merged once, so its children have the same parents.
Parents(s) == {Parent[s], AdjacentParent[s]} \ {NoShard}
ASSUME ReshardAssumption ==
    \A c, d \in Shards : Parents(c) \cap Parents(d) # {} => Parents(c) = Parents(d)
ASSUME BoundAssumption ==
    /\ Terms \subseteq Nat \ {0}
    /\ MaxShardsValues \subseteq Nat
    /\ InactivityTimeout \in Nat /\ ReleaseTimeout \in Nat /\ MaxLag \in Nat
    /\ MaxOffset \in Nat /\ LateUntil \in Nat
    /\ MaxInflight \in Nat /\ MaxAbandoned \in Nat

VARIABLES
    inService, term, nextAssignmentOffset,
    checkpoints,        \* shard -> "none" (the empty string), "LATEST",
                        \* "SEQ" (any sequence number) or "CLOSED"
    unassignedShards,   \* the pool, in the order it is handed out
    liveShards,         \* the key set of m.liveShards
    workers,            \* worker id -> workerInfo or NoInfo
    workerShardCount,   \* the items of the max-heap, with their priorities
    closed,             \* pending closeNotifications
    \* the fields of workerInfo, by object
    workerID, heartbeatAge,
    assignments,        \* shard -> assignment.ID, 0 when there is none
    requested,          \* shards whose assignment has a ReassignmentRequest
    offer,              \* ReassignmentOffer.Shards as <<owner, shard>>; {} is nil
    offerAge,           \* the age of ReassignmentOffer.CreatedAt
    activeShardCount,
    pc, h,              \* the handler that holds the mutex
    discovered,         \* shards ShardDiscoveryService has listed: the keys of svc.shards
    linked,             \* its Children: <<parent, child>>
    loading,            \* SetToInService before it takes the mutex
    kvsCheckpoint, kvsAssignment,   \* the two etcd keys of each shard
    granted,            \* processors: <<worker, shard, assignment id>>
    closing, stopped,   \* processors that sent CLOSED; that stopped reading
    inflight            \* checkpoint requests being handled

mgrVars == <<inService, term, nextAssignmentOffset, checkpoints,
             unassignedShards, liveShards, workers, workerShardCount, closed>>
infoVars == <<workerID, heartbeatAge, assignments, requested, offer, offerAge,
              activeShardCount>>
handlerVars == <<pc, h>>
procVars == <<granted, closing, stopped, inflight>>
kvsVars == <<kvsCheckpoint, kvsAssignment>>
graphVars == <<discovered, linked>>
envVars == <<graphVars, loading, kvsVars, procVars>>
vars == <<mgrVars, infoVars, handlerVars, envVars>>

Checkpoints == {"none", "LATEST", "SEQ", "CLOSED"}
Notification == [shard : Shards, info : Infos \cup {NoInfo}]
Item == [value : Infos, priority : Int]
Processors == Workers \X Shards \X Nat
Stages == {"current", "first", "new", "update"}
Request == [proc : Processors, sn : {"SEQ", "CLOSED"}, stage : Stages,
            abandoned : BOOLEAN]
HandlerParts == {"idle", "release", "closed", "resolve", "acquire", "assign",
                 "rebalance", "respond"}

-----------------------------------------------------------------------------
(* State formulae *)

Registered == {i \in Infos : \E w \in Workers : workers[w] = i}

\* The shards in an info's Assignments, and those without a ReassignmentRequest.
Assigned(i) == {s \in Shards : assignments[i][s] # 0}
Active(i) == Assigned(i) \ requested[i]
\* Forgets what was on offer to a worker that leaves.
BadOffered(i) == {}
Offered(i) == {p[2] : p \in offer[i]}

\* What a new workerInfo may be: an object nothing refers to any more.
Free == {i \in Infos :
            /\ i \notin Registered
            /\ \A j \in Registered : \A p \in offer[j] : p[1] # i
            /\ \A e \in workerShardCount : e.value # i
            /\ \A k \in 1..Len(closed) : closed[k].info # i}

\* GetChildren and GetRoots.
Children(s) == {c \in Shards : <<s, c>> \in linked}
Roots == {s \in discovered : Parent[s] \notin discovered}

\* at.Sub(LastHeartbeat) >= WorkerInactivityTimeout, for the oldest heartbeat.
\* The variant is what lines 274 to 277 prevent: the worker stays the oldest one.
BadExpired(i) == heartbeatAge[i] - h.lag >= InactivityTimeout
Expired(i) == /\ i \in Registered
              /\ heartbeatAge[i] - h.lag >= InactivityTimeout
              /\ \A j \in Registered : heartbeatAge[j] <= heartbeatAge[i]

Owns(w, s, id) == workers[w] # NoInfo /\ assignments[workers[w]][s] = id

NoRequest == [WorkerID |-> CHOOSE w \in Workers : TRUE, MaxShards |-> 0,
              lag |-> 0, worker |-> NoInfo, budget |-> 0, released |-> {},
              unresolved |-> <<>>, oldActiveShardCount |-> 0]

NoLoad == [active |-> FALSE, unread |-> {}, checkpoints |-> [s \in Shards |-> "none"]]

Notify(order) == [k \in 1..Len(order) |-> [shard |-> order[k], info |-> NoInfo]]

-----------------------------------------------------------------------------
Init ==
    /\ inService = FALSE /\ term = 0 /\ nextAssignmentOffset = 0
    /\ checkpoints = [s \in Shards |-> "none"]
    /\ unassignedShards = <<>> /\ liveShards = {}
    /\ workers = [w \in Workers |-> NoInfo]
    /\ workerShardCount = {} /\ closed = <<>>
    /\ workerID \in [Infos -> {NoRequest.WorkerID}]
    /\ heartbeatAge = [i \in Infos |-> 0]
    /\ assignments = [i \in Infos |-> [s \in Shards |-> 0]]
    /\ requested = [i \in Infos |-> {}]
    /\ offer = [i \in Infos |-> {}] /\ offerAge = [i \in Infos |-> 0]
    /\ activeShardCount = [i \in Infos |-> 0]
    /\ pc = "idle" /\ h = NoRequest
    /\ discovered = {} /\ linked = {}
    /\ loading = NoLoad
    /\ kvsCheckpoint = [s \in Shards |-> "none"]
    /\ kvsAssignment = [s \in Shards |-> 0]
    /\ granted = {} /\ closing = {} /\ stopped = {} /\ inflight = {}

-----------------------------------------------------------------------------
(* handleAssignRequest *)

\* The clock is read, the mutex is taken and the manager is in service.
AssignBegin(w, n, lag) ==
    /\ pc = "idle" /\ inService
    /\ nextAssignmentOffset < MaxOffset
    /\ pc' = "release"
    /\ h' = [NoRequest EXCEPT !.WorkerID = w, !.MaxShards = n, !.lag = lag]
    /\ UNCHANGED <<mgrVars, infoVars, envVars>>

\* One iteration of releaseInactiveWorkers: the worker with the oldest heartbeat
\* leaves; its shards go to the pool unless a pending offer will take them.
ReleaseWorker(i) ==
    LET own == Active(i) \ h.released
        offered == Offered(i) \ (h.released \cup own)
    IN  /\ pc = "release" /\ Expired(i)
        /\ \E a \in SetToSeqs(own), b \in SetToSeqs(offered) :
              unassignedShards' = unassignedShards \o a \o b
        /\ h' = [h EXCEPT !.released = @ \cup own \cup offered]
        /\ assignments' = [j \in Infos |-> [s \in Shards |->
              IF <<j, s>> \in offer[i] THEN 0 ELSE assignments[j][s]]]
        /\ requested' = [j \in Infos |->
              {s \in requested[j] : <<j, s>> \notin offer[i]}]
        /\ workerShardCount' = RemoveItem(workerShardCount, i)
        /\ workers' = [workers EXCEPT ![workerID[i]] = NoInfo]
        /\ UNCHANGED <<inService, term, nextAssignmentOffset, checkpoints,
                       liveShards, closed, workerID, heartbeatAge, offer,
                       offerAge, activeShardCount, pc, envVars>>

ReleaseDone ==
    /\ pc = "release" /\ \A i \in Infos : ~Expired(i)
    /\ pc' = "closed"
    /\ UNCHANGED <<h, mgrVars, infoVars, envVars>>

\* ActiveShardCount-- and the push that goes with it.
\* First variant: pushes the count before it is reduced.  Second: never reduces it.
BadLoseActiveOrder(i) ==
    /\ activeShardCount' = [activeShardCount EXCEPT ![i] = @ - 1]
    /\ workerShardCount' = Push(workerShardCount, i, activeShardCount[i])
BadLoseActiveCount(i) ==
    /\ activeShardCount' = activeShardCount
    /\ workerShardCount' = Push(workerShardCount, i, activeShardCount[i])
LoseActive(i) ==
    /\ activeShardCount' = [activeShardCount EXCEPT ![i] = @ - 1]
    /\ workerShardCount' = Push(workerShardCount, i, activeShardCount[i] - 1)

\* The first half of an iteration of processClosedShards: the owner, if it has
\* not done so before, gives the shard up.
SettleOwner(n) ==
    IF n.info = NoInfo
    THEN UNCHANGED <<assignments, requested, activeShardCount, workerShardCount>>
    ELSE /\ assignments' = [assignments EXCEPT ![n.info][n.shard] = 0]
         /\ requested' = [requested EXCEPT ![n.info] = @ \ {n.shard}]
         /\ LoseActive(n.info)

\* Leaves the closed shard among the live ones.
BadSettled(n) == liveShards
Settled(n) == IF n.info = NoInfo THEN liveShards ELSE liveShards \ {n.shard}

\* The second half, over the children: those every parent of which is closed are
\* ready; of these, the ones that are new start and the others are taken for
\* closed shards themselves.  A child that is not ready is left to the
\* notification of its other parent.
\* Variant: looks at one parent only.
BadReadyParent(s) == {c \in Children(s) : checkpoints[Parent[c]] = "CLOSED"}
Ready(s) == {c \in Children(s) :
                /\ checkpoints[Parent[c]] = "CLOSED"
                /\ AdjacentParent[c] # NoShard
                     => checkpoints[AdjacentParent[c]] = "CLOSED"}
Starting(n) == {c \in Ready(n.shard) :
                   checkpoints[c] # "CLOSED" /\ c \notin Settled(n)}

CloseUnresolved ==
    LET n == Head(closed)
    IN  /\ pc = "closed" /\ closed # <<>>
        /\ Children(n.shard) = {}
        /\ SettleOwner(n)
        /\ liveShards' = Settled(n)
        /\ closed' = Tail(closed)
        /\ h' = [h EXCEPT !.unresolved = @ \o Notify(<<n.shard>>)]
        /\ UNCHANGED <<inService, term, nextAssignmentOffset, checkpoints,
                       unassignedShards, workers, workerID, heartbeatAge, offer,
                       offerAge, pc, envVars>>

CloseResolved ==
    LET n == Head(closed)
    IN  /\ pc = "closed" /\ closed # <<>>
        /\ Children(n.shard) # {}
        /\ SettleOwner(n)
        /\ \E a \in SetToSeqs(Starting(n)),
              b \in SetToSeqs(Ready(n.shard) \ Starting(n)) :
              /\ unassignedShards' = unassignedShards \o a
              /\ closed' = Tail(closed) \o Notify(b)
        /\ liveShards' = Settled(n) \cup Starting(n)
        /\ checkpoints' = [s \in Shards |->
              IF s \in Starting(n) /\ checkpoints[s] = "none" THEN "LATEST"
              ELSE checkpoints[s]]
        /\ UNCHANGED <<inService, term, nextAssignmentOffset, workers, workerID,
                       heartbeatAge, offer, offerAge, pc, h, envVars>>

\* Closed shards without children yet are left for the next request.  Variant:
\* forgets them.
BadCloseDone ==
    /\ pc = "closed" /\ closed = <<>>
    /\ closed' = <<>>
    /\ h' = [h EXCEPT !.unresolved = <<>>]
    /\ pc' = "resolve"
    /\ UNCHANGED <<inService, term, nextAssignmentOffset, checkpoints,
                   unassignedShards, liveShards, workers, workerShardCount,
                   infoVars, envVars>>
CloseDone ==
    /\ pc = "closed" /\ closed = <<>>
    /\ closed' = h.unresolved
    /\ h' = [h EXCEPT !.unresolved = <<>>]
    /\ pc' = "resolve"
    /\ UNCHANGED <<inService, term, nextAssignmentOffset, checkpoints,
                   unassignedShards, liveShards, workers, workerShardCount,
                   infoVars, envVars>>

\* The handler goes on with workerInfo i, or stops there: a request for no
\* shards is only a heartbeat.
Continue(i) ==
    IF h.MaxShards = 0
    THEN pc' = "idle" /\ h' = NoRequest
    ELSE /\ pc' = "acquire"
         /\ h' = [h EXCEPT !.worker = i, !.budget = h.MaxShards, !.released = {},
                           !.oldActiveShardCount = activeShardCount'[i]]

ResolveKnown(i) ==
    /\ pc = "resolve" /\ workers[h.WorkerID] = i
    /\ heartbeatAge' = [heartbeatAge EXCEPT ![i] = h.lag]
    /\ UNCHANGED <<mgrVars, workerID, assignments, requested, offer, offerAge,
                   activeShardCount, envVars>>
    /\ Continue(i)

ResolveNew(i) ==
    /\ pc = "resolve" /\ workers[h.WorkerID] = NoInfo
    /\ i \in Free /\ i = CHOOSE x \in Free : TRUE
    /\ workers' = [workers EXCEPT ![h.WorkerID] = i]
    /\ workerID' = [workerID EXCEPT ![i] = h.WorkerID]
    /\ heartbeatAge' = [heartbeatAge EXCEPT ![i] = h.lag]
    /\ assignments' = [assignments EXCEPT ![i] = [s \in Shards |-> 0]]
    /\ requested' = [requested EXCEPT ![i] = {}]
    /\ offer' = [offer EXCEPT ![i] = {}]
    /\ offerAge' = [offerAge EXCEPT ![i] = 0]
    /\ activeShardCount' = [activeShardCount EXCEPT ![i] = 0]
    /\ Continue(i)
    /\ UNCHANGED <<inService, term, nextAssignmentOffset, checkpoints,
                   unassignedShards, liveShards, workerShardCount, closed, envVars>>

\* Lets the ids fall, and repeats the id.
BadNextAssignmentIDFalls == term - nextAssignmentOffset
BadNextAssignmentIDRepeats == term
\* getNextAssignmentID, and what both ways to assign a shard do with it; from is
\* the owner the shard is taken from first, or NoInfo.
NextAssignmentID == term + nextAssignmentOffset
\* First the variant that leaves the shard with its old owner too.
BadAssignShard(s, from) ==
    /\ assignments' = [assignments EXCEPT ![h.worker][s] = NextAssignmentID]
    /\ requested' = [i \in Infos |->
          IF i \in {h.worker, from} THEN requested[i] \ {s} ELSE requested[i]]
    /\ nextAssignmentOffset' = nextAssignmentOffset + 1
    /\ activeShardCount' = [activeShardCount EXCEPT ![h.worker] = @ + 1]
AssignShard(s, from) ==
    /\ assignments' = [i \in Infos |-> [t \in Shards |->
          IF i = h.worker /\ t = s THEN NextAssignmentID
          ELSE IF i = from /\ t = s THEN 0 ELSE assignments[i][t]]]
    /\ requested' = [i \in Infos |->
          IF i \in {h.worker, from} THEN requested[i] \ {s} ELSE requested[i]]
    /\ nextAssignmentOffset' = nextAssignmentOffset + 1
    /\ activeShardCount' = [activeShardCount EXCEPT ![h.worker] = @ + 1]

\* Counts from the last heartbeat instead of from the offer.
BadOfferDue == heartbeatAge[h.worker] - h.lag >= ReleaseTimeout
OfferDue == offerAge[h.worker] - h.lag >= ReleaseTimeout

\* acquireDueReassignments, one shard at a time.
AcquireShard(from, s) ==
    /\ pc = "acquire" /\ OfferDue /\ <<from, s>> \in offer[h.worker]
    /\ AssignShard(s, from)
    /\ offer' = [offer EXCEPT ![h.worker] = @ \ {<<from, s>>}]
    /\ h' = [h EXCEPT !.budget = @ - 1]
    /\ UNCHANGED <<inService, term, checkpoints, unassignedShards, liveShards,
                   workers, workerShardCount, closed, workerID, heartbeatAge,
                   offerAge, pc, envVars>>

AcquireDone ==
    /\ pc = "acquire" /\ (OfferDue => offer[h.worker] = {})
    /\ pc' = "assign"
    /\ UNCHANGED <<h, mgrVars, infoVars, envVars>>

\* assignFromUnassignedPool, one shard at a time.
AssignFromPool(s) ==
    /\ pc = "assign" /\ h.budget > 0
    /\ unassignedShards # <<>> /\ s = Head(unassignedShards)
    /\ AssignShard(s, NoInfo)
    /\ unassignedShards' = Tail(unassignedShards)
    /\ h' = [h EXCEPT !.budget = @ - 1]
    /\ UNCHANGED <<inService, term, checkpoints, liveShards, workers,
                   workerShardCount, closed, workerID, heartbeatAge, offer,
                   offerAge, pc, envVars>>

\* Lines 214 to 217: the count is published, and a worker that got nothing and
\* waits for nothing may take shards from others.
AssignDone ==
    /\ pc = "assign" /\ (h.budget <= 0 \/ unassignedShards = <<>>)
    /\ workerShardCount' =
         Push(workerShardCount, h.worker, activeShardCount[h.worker])
    /\ pc' = IF /\ activeShardCount[h.worker] = h.oldActiveShardCount
                /\ offer[h.worker] = {}
             THEN "rebalance" ELSE "respond"
    /\ UNCHANGED <<h, inService, term, nextAssignmentOffset, checkpoints,
                   unassignedShards, liveShards, workers, closed, infoVars, envVars>>

\* rebalance.  The offer is built in place; nobody sees it before it is complete.
Ideal == Cardinality(liveShards) \div Cardinality(Registered)
Target == LET missing == Ideal - activeShardCount[h.worker]
          IN  (IF missing > 0 THEN missing ELSE 0) - Cardinality(offer[h.worker])
Overloaded(i) == workerID[i] # workerID[h.worker] /\ activeShardCount[i] > Ideal

RebalanceSteal(i, s) ==
    /\ pc = "rebalance" /\ Target # 0
    /\ i \in Tops(workerShardCount) /\ Overloaded(i)
    /\ s \in Active(i)
    /\ requested' = [requested EXCEPT ![i] = @ \cup {s}]
    /\ offer' = [offer EXCEPT ![h.worker] = @ \cup {<<i, s>>}]
    /\ offerAge' = [offerAge EXCEPT ![h.worker] = h.lag]
    /\ LoseActive(i)
    /\ UNCHANGED <<inService, term, nextAssignmentOffset, checkpoints,
                   unassignedShards, liveShards, workers, closed, workerID,
                   heartbeatAge, assignments, pc, h, envVars>>

RebalanceDone ==
    /\ pc = "rebalance"
    /\ \/ Target = 0
       \/ workerShardCount = {}
       \/ \E i \in Tops(workerShardCount) : ~Overloaded(i)
    /\ pc' = "respond"
    /\ UNCHANGED <<h, mgrVars, infoVars, envVars>>

\* The response lists every assignment of the worker, with its checkpoint; the
\* worker, when it gets the response, has a processor for each, unless it exits
\* because there is nothing to read from (ShardProcessor.Start).
Readable == {s \in Shards : checkpoints[s] \in {"LATEST", "SEQ"}}
AssignRespond ==
    /\ pc = "respond"
    /\ granted' = granted \cup {<<h.WorkerID, s, assignments[h.worker][s]>> :
                                   s \in Assigned(h.worker) \cap Readable}
    /\ pc' = "idle" /\ h' = NoRequest
    /\ UNCHANGED <<mgrVars, infoVars, graphVars, loading, kvsVars, closing,
                   stopped, inflight>>

HandlerStep ==
    \/ \E i \in Infos : ReleaseWorker(i) \/ ResolveKnown(i) \/ ResolveNew(i)
    \/ ReleaseDone \/ CloseUnresolved \/ CloseResolved \/ CloseDone
    \/ \E i \in Infos, s \in Shards : AcquireShard(i, s) \/ RebalanceSteal(i, s)
    \/ \E s \in Shards : AssignFromPool(s)
    \/ AcquireDone \/ AssignDone \/ RebalanceDone \/ AssignRespond

-----------------------------------------------------------------------------
(* handleCheckpointRequest and the processor that calls it *)

Busy(p) == \E c \in inflight : c.proc = p /\ ~c.abandoned

\* What ShardProcessor.checkpoint sends: CLOSED when the shard has no
\* continuation, and then nothing else; one request at a time, repeated after an
\* error.
MaySend(p, sn) ==
    /\ p \in granted \ stopped /\ ~Busy(p)
    /\ IF sn = "CLOSED" THEN p[2] \in Closable ELSE p \notin closing
Sent(p, sn) == IF sn = "CLOSED" THEN closing \cup {p} ELSE closing

\* ensureCheckpointOwnership.
CheckpointBegin(p, sn) ==
    /\ pc = "idle" /\ MaySend(p, sn)
    /\ inService /\ Owns(p[1], p[2], p[3])
    /\ Cardinality(inflight) < MaxInflight
    /\ inflight' = inflight \cup {[proc |-> p, sn |-> sn, stage |-> "current",
                                   abandoned |-> FALSE]}
    /\ closing' = Sent(p, sn)
    /\ UNCHANGED <<mgrVars, infoVars, handlerVars, graphVars, loading, kvsVars,
                   granted, stopped>>

\* The reply is NotInService or OwnershipChanged: the processor stops reading.
CheckpointRefused(p, sn) ==
    /\ pc = "idle" /\ MaySend(p, sn)
    /\ ~(inService /\ Owns(p[1], p[2], p[3]))
    /\ stopped' = stopped \cup {p}
    /\ closing' = Sent(p, sn)
    /\ UNCHANGED <<mgrVars, infoVars, handlerVars, graphVars, loading, kvsVars,
                   granted, inflight>>

\* The three comparisons with the fence of the shard, in the order of conds.  ids
\* are written with leading zeros, so the order of the strings is theirs.
\* Variants: any fence at all passes for an older one; a new owner is turned away.
BadPassesOrder(c) == c.stage # "update"
BadPassesNew(c) == CASE c.stage = "current" -> kvsAssignment[c.proc[2]] = c.proc[3]
                     [] c.stage = "first"   -> kvsAssignment[c.proc[2]] = 0
                     [] OTHER -> FALSE
Passes(c) == CASE c.stage = "current" -> kvsAssignment[c.proc[2]] = c.proc[3]
               [] c.stage = "first"   -> kvsAssignment[c.proc[2]] = 0
               [] c.stage = "new"     -> /\ kvsAssignment[c.proc[2]] # 0
                                         /\ kvsAssignment[c.proc[2]] < c.proc[3]
               [] OTHER -> FALSE
After(stage) == IF stage = "current" THEN "first" ELSE "new"

\* A reply that nobody waits for has no effect.
Reply(c, stops) ==
    stopped' = IF stops /\ ~c.abandoned THEN stopped \cup {c.proc} ELSE stopped

\* The variant writes the checkpoint without the token.
BadPutBoth(c) ==
    /\ UNCHANGED kvsAssignment
    /\ kvsCheckpoint' = [kvsCheckpoint EXCEPT ![c.proc[2]] = c.sn]
PutBoth(c) ==
    /\ kvsAssignment' = [kvsAssignment EXCEPT ![c.proc[2]] = c.proc[3]]
    /\ kvsCheckpoint' = [kvsCheckpoint EXCEPT ![c.proc[2]] = c.sn]

TxnSucceeds(c) ==
    /\ c \in inflight /\ Passes(c)
    /\ PutBoth(c)
    /\ inflight' = (inflight \ {c}) \cup {[c EXCEPT !.stage = "update"]}
    /\ UNCHANGED <<mgrVars, infoVars, handlerVars, graphVars, loading, granted,
                   closing, stopped>>

TxnFails(c) ==
    /\ c \in inflight /\ c.stage # "update" /\ ~Passes(c)
    /\ IF c.stage = "new"
       THEN inflight' = inflight \ {c} /\ Reply(c, TRUE)
       ELSE /\ inflight' = (inflight \ {c}) \cup {[c EXCEPT !.stage = After(@)]}
            /\ Reply(c, FALSE)
    /\ UNCHANGED <<mgrVars, infoVars, handlerVars, graphVars, loading, kvsVars,
                   granted, closing>>

\* Commit returns an error, after etcd applied the transaction or without; the
\* reply is status 500 and the processor tries again.
TxnError(c) ==
    /\ c \in inflight /\ c.stage # "update"
    /\ (Passes(c) /\ PutBoth(c)) \/ UNCHANGED kvsVars
    /\ inflight' = inflight \ {c}
    /\ UNCHANGED <<mgrVars, infoVars, handlerVars, graphVars, loading, granted,
                   closing, stopped>>

\* Lines 474 to 495: the ownership is checked again and memory follows etcd.
CheckpointUpdate(c) ==
    LET w == c.proc[1]
        s == c.proc[2]
    IN  /\ pc = "idle" /\ c \in inflight /\ c.stage = "update"
        /\ inflight' = inflight \ {c}
        /\ IF Owns(w, s, c.proc[3])
           THEN /\ checkpoints' = [checkpoints EXCEPT ![s] = c.sn]
                /\ closed' = IF c.sn = "CLOSED"
                             THEN Append(closed, [shard |-> s, info |-> workers[w]])
                             ELSE closed
                /\ Reply(c, c.sn = "CLOSED" \/ s \in requested[workers[w]])
           ELSE UNCHANGED <<checkpoints, closed>> /\ Reply(c, TRUE)
        /\ UNCHANGED <<inService, term, nextAssignmentOffset, unassignedShards,
                       liveShards, workers, workerShardCount, infoVars, handlerVars,
                       graphVars, loading, kvsVars, granted, closing>>

\* The client gives up on a request that the manager goes on with.
Disconnect(c) ==
    /\ c \in inflight /\ ~c.abandoned
    /\ Cardinality({d \in inflight : d.abandoned}) < MaxAbandoned
    /\ inflight' = (inflight \ {c}) \cup {[c EXCEPT !.abandoned = TRUE]}
    /\ UNCHANGED <<mgrVars, infoVars, handlerVars, graphVars, loading, kvsVars,
                   granted, closing, stopped>>

CheckpointStep(c) ==
    TxnSucceeds(c) \/ TxnFails(c) \/ TxnError(c) \/ CheckpointUpdate(c)

-----------------------------------------------------------------------------
(* Leadership, discovery and time *)

\* The term changes and the offset goes on from where it was; the variant starts
\* it again from zero.
BadEnterTerm(t) == inService' = TRUE /\ term' = t /\ nextAssignmentOffset' = 0
EnterTerm(t) == inService' = TRUE /\ term' = t /\ UNCHANGED nextAssignmentOffset

\* SetToInService: GetAll, which waits for the first pass of discovery, one read of
\* etcd per shard, then the rest at once.  To lose leadership does not stop it: its
\* context is that of the process.
LoadBegin ==
    /\ pc = "idle" /\ ~inService /\ ~loading.active /\ discovered # {}
    /\ \E t \in Terms : t > term
    /\ loading' = [NoLoad EXCEPT !.active = TRUE, !.unread = discovered]
    /\ UNCHANGED <<mgrVars, infoVars, handlerVars, graphVars, kvsVars, procVars>>

LoadCheckpoint(s) ==
    /\ s \in loading.unread
    /\ loading' = [loading EXCEPT
          !.unread = @ \ {s},
          !.checkpoints[s] = IF kvsCheckpoint[s] = "none" THEN "LATEST"
                             ELSE kvsCheckpoint[s]]
    /\ UNCHANGED <<mgrVars, infoVars, handlerVars, graphVars, kvsVars, procVars>>

SetToInService(t) ==
    LET finished == {s \in Roots : loading.checkpoints[s] = "CLOSED"}
    IN  /\ pc = "idle" /\ loading.active /\ loading.unread = {} /\ t > term
        /\ EnterTerm(t)
        /\ checkpoints' = loading.checkpoints
        /\ \E a \in SetToSeqs(Roots \ finished), b \in SetToSeqs(finished) :
              unassignedShards' = a /\ closed' = Notify(b)
        /\ liveShards' = Roots \ finished
        /\ workers' = [w \in Workers |-> NoInfo]
        /\ workerShardCount' = {}
        /\ loading' = NoLoad
        /\ UNCHANGED <<infoVars, handlerVars, graphVars, kvsVars, procVars>>

\* Terms bounds how often leadership is lost: the last term does not end.
SetToOutOfService ==
    /\ pc = "idle" /\ inService
    /\ \E t \in Terms : t > term
    /\ inService' = FALSE
    /\ UNCHANGED <<term, nextAssignmentOffset, checkpoints, unassignedShards,
                   liveShards, workers, workerShardCount, closed, infoVars,
                   handlerVars, envVars>>

\* discoverOnce, after a pass that listed the shards of new, besides those it listed
\* before, in this order.  A pass lists a shard with or after the parents it has, and
\* may miss any that come while it is under way, one of two siblings for instance.
\* Every shard is tied to the parents that are known when its turn comes, which for
\* one that is listed before its parent is in the next pass.  A pass that has nothing
\* left to find or to tie is no step.
Links == {l \in Shards \X Shards : l[1] \in Parents(l[2])}
Before(order, s, t) == \E i, j \in 1..Len(order) : i < j /\ order[i] = s /\ order[j] = t
Discover(new) ==
    /\ {s \in Shards : Parents(s) = {}} \subseteq discovered \cup new
    /\ \A c \in new : Parents(c) \subseteq (discovered \cup new) \cap Closable
    /\ discovered' = discovered \cup new
    /\ \E order \in SetToSeqs(new) :
          linked' = {l \in Links :
              /\ l[2] \in discovered \cup new
              /\ l[1] \in discovered \/ Before(order, l[1], l[2])}
    /\ UNCHANGED <<mgrVars, infoVars, handlerVars, loading, kvsVars, procVars>>
Pass ==
    /\ discovered # Shards \/ linked # Links
    /\ \E new \in SUBSET (Shards \ discovered) : Discover(new)

\* Time passes.  Beyond the cap every comparison with an age has one outcome.
Older(age, cap) == [i \in Infos |->
    IF i \in Registered /\ age[i] < cap + MaxLag THEN age[i] + 1 ELSE age[i]]
Tick ==
    /\ pc = "idle" /\ inService
    /\ heartbeatAge' = Older(heartbeatAge, InactivityTimeout)
    /\ offerAge' = [i \in Infos |->
          IF offer[i] = {} THEN offerAge[i] ELSE Older(offerAge, ReleaseTimeout)[i]]
    /\ UNCHANGED <<mgrVars, workerID, assignments, requested, offer,
                   activeShardCount, handlerVars, envVars>>

-----------------------------------------------------------------------------
Next ==
    \/ \E w \in Workers, n \in MaxShardsValues, lag \in 0..MaxLag :
          AssignBegin(w, n, lag)
    \/ HandlerStep
    \/ \E p \in granted, sn \in {"SEQ", "CLOSED"} :
          CheckpointBegin(p, sn) \/ CheckpointRefused(p, sn)
    \/ \E c \in inflight : CheckpointStep(c) \/ Disconnect(c)
    \/ LoadBegin
    \/ \E s \in Shards : LoadCheckpoint(s)
    \/ Pass
    \/ \E t \in Terms : SetToInService(t)
    \/ SetToOutOfService
    \/ Tick

Spec == Init /\ [][Next]_vars

\* The handler that holds the mutex keeps running.
FairSpec == Spec /\ WF_vars(HandlerStep)

\* Workers whose tickers are not late after the first assignments: from then on no
\* worker expires.  Each keeps asking, and sync.Mutex lets every waiter in at last.
Loading == \/ Pass \/ LoadBegin \/ \E s \in Shards : LoadCheckpoint(s)
           \/ \E t \in Terms : SetToInService(t)
Asks(w) == \E n \in MaxShardsValues \ {0} : AssignBegin(w, n, 0)
PromptNext ==
    /\ Next
    /\ nextAssignmentOffset < LateUntil
         \/ \A i \in Infos : \/ heartbeatAge[i] >= InactivityTimeout
                              \/ heartbeatAge'[i] < InactivityTimeout
PromptSpec == /\ Init /\ [][PromptNext]_vars
              /\ WF_vars(HandlerStep) /\ WF_vars(Loading)
              /\ SF_vars(Tick /\ PromptNext)
              /\ \A w \in Workers : SF_vars(Asks(w))

-----------------------------------------------------------------------------
(* Properties *)

\* Every variable has its type.
MgrTypeOK ==
    /\ inService \in BOOLEAN /\ term \in Nat /\ nextAssignmentOffset \in Nat
    /\ checkpoints \in [Shards -> Checkpoints]
    /\ unassignedShards \in Seq(Shards) /\ liveShards \in SUBSET Shards
    /\ workers \in [Workers -> Infos \cup {NoInfo}]
    /\ workerShardCount \in SUBSET Item /\ closed \in Seq(Notification)
InfoTypeOK ==
    /\ workerID \in [Infos -> Workers]
    /\ heartbeatAge \in [Infos -> Nat] /\ offerAge \in [Infos -> Nat]
    /\ assignments \in [Infos -> [Shards -> Nat]]
    /\ requested \in [Infos -> SUBSET Shards]
    /\ offer \in [Infos -> SUBSET (Infos \X Shards)]
    /\ activeShardCount \in [Infos -> Int]
HandlerType ==
    [WorkerID : Workers, MaxShards : Nat, lag : Nat, worker : Infos \cup {NoInfo},
     budget : Int, released : SUBSET Shards, unresolved : Seq(Notification),
     oldActiveShardCount : Int]
HandlerTypeOK ==
    /\ pc \in HandlerParts /\ h \in HandlerType
    /\ pc \in {"acquire", "assign", "rebalance", "respond"} => h.worker \in Infos
EnvTypeOK ==
    /\ discovered \in SUBSET Shards /\ linked \in SUBSET (Shards \X Shards)
    /\ loading \in [active : BOOLEAN, unread : SUBSET Shards,
                    checkpoints : [Shards -> Checkpoints]]
    /\ kvsCheckpoint \in [Shards -> Checkpoints]
    /\ kvsAssignment \in [Shards -> Nat]
    /\ granted \in SUBSET Processors /\ closing \in SUBSET Processors
    /\ stopped \in SUBSET Processors /\ inflight \in SUBSET Request
TypeOK == MgrTypeOK /\ InfoTypeOK /\ HandlerTypeOK /\ EnvTypeOK

\* Where a shard is: a position of the pool, an active assignment, an offer.
Places(s) ==
    {<<"pool", k>> : k \in {n \in 1..Len(unassignedShards) : unassignedShards[n] = s}}
    \cup {<<"active", i>> : i \in {j \in Registered : s \in Active(j)}}
    \cup UNION {{<<"offer", i, p>> : p \in {q \in offer[i] : q[2] = s}} : i \in Registered}

\* While no shard closes, every live shard is in exactly one place: releasing
\* workers, stealing and handing over neither loses nor duplicates a shard, not
\* even when the old or the new owner of an offer leaves (lines 250 to 273).
PlacedOnce ==
    \A s \in Shards : Cardinality(Places(s)) = IF s \in liveShards THEN 1 ELSE 0

\* While no shard closes, two workers never hold assignments of the same shard at a
\* time, although the old owner keeps its own until the offer to the new one is due.
ExclusiveAssignment ==
    \A i, j \in Registered : i # j => Assigned(i) \cap Assigned(j) = {}

\* ActiveShardCount is the number of assignments without a reassignment request,
\* as the comment at lines 58 to 60 says.
CountsExact == \A i \in Registered : activeShardCount[i] = Cardinality(Active(i))

\* workers and workerShardCount are updated together (line 239): between requests
\* the heap has no worker that left, every worker that can be stolen from, and
\* the counts as they are now.
QueueInSync ==
    pc = "idle" =>
        /\ \A e \in workerShardCount : e.value \in Registered
        /\ \A i \in Registered : Active(i) # {} =>
              [value |-> i, priority |-> activeShardCount[i]] \in workerShardCount

\* A request for an assignment gets out of the handler: the loop of rebalance
\* ends although it holds the mutex and only leaves when the heap says so.
AssignReturns == pc # "idle" ~> pc = "idle"

\* Workers that keep asking end up with a fair share each, and keep it: the pool
\* drains, offers are taken up and rebalancing comes to rest.
Balanced == /\ inService /\ unassignedShards = <<>> /\ Registered # {}
            /\ \A i \in Registered :
                  offer[i] = {} /\ Cardinality(Assigned(i)) >= Ideal
EventuallyBalanced == <>[]Balanced

\* Each assignment id names one assignment of one shard to one worker, in the
\* workers that left as well, and the next id is above all of them.
IdsUnique ==
    \A i \in Infos, s \in Shards : assignments[i][s] # 0 =>
        /\ assignments[i][s] < NextAssignmentID
        /\ \A j \in Infos, t \in Shards :
              assignments[i][s] = assignments[j][t] => i = j /\ s = t

\* The fence never shuts out the worker that the manager holds for the owner.
FenceAdmitsOwner ==
    inService => \A i \in Registered : \A s \in Assigned(i) :
                     kvsAssignment[s] <= assignments[i][s]

\* The transactions refuse nobody the manager holds for the owner, with one
\* exception: a repetition of the request whose client has given up set the fence
\* between the second and the third comparison of this one.
OwnerNotRefused ==
    [][\A c \in inflight :
          /\ c.stage = "new" /\ ~c.abandoned /\ c \notin inflight'
          /\ stopped' # stopped
          /\ inService /\ Owns(c.proc[1], c.proc[2], c.proc[3])
          => kvsAssignment[c.proc[2]] = c.proc[3]]_vars

\* Once a newer owner has checkpointed a shard an older one never does again.
FenceOnlyRises == [][\A s \in Shards : kvsAssignment'[s] >= kvsAssignment[s]]_vars

\* To everybody else etcd is a store of fenced writes: a checkpoint and its token
\* change together, whichever of the three transactions succeeds and also when its
\* reply is an error.
Store == INSTANCE FencedStore WITH fence <- kvsAssignment, checkpoint <- kvsCheckpoint
ImplementsStore == Store!Spec

\* The records of a shard come before those of its children: no child is handed
\* out before a processor has read each of its parents to the end.
ParentsFirst ==
    \A i \in Registered : \A s \in Assigned(i) :
        \A p \in Parents(s) \cap discovered :
            \E q \in closing : q[2] = p

\* No shard is forgotten: a listed shard that is not read to its end while all its
\* parents are is handed out or in the pool, or a notification is pending that will
\* bring it there, through other closed shards if need be.  (Its parents are the ones
\* the stream still lists.)
Pending == {closed[k].shard : k \in 1..Len(closed)}
             \cup {h.unresolved[k].shard : k \in 1..Len(h.unresolved)}
ListedParents(c) == Parents(c) \cap discovered
ParentsClosed(c) == \A p \in ListedParents(c) : checkpoints[p] = "CLOSED"
\* The shards that processClosedShards comes to: the least set that has the pending
\* ones and with a shard each child whose parents are closed.
Followed(S) == \A s \in S : \A c \in Children(s) : ParentsClosed(c) => c \in S
Reached == {s \in Shards :
               \A S \in SUBSET Shards : Pending \subseteq S /\ Followed(S) => s \in S}
NoChildForgotten ==
    inService => \A c \in discovered :
        /\ ListedParents(c) # {} /\ ParentsClosed(c)
        /\ checkpoints[c] # "CLOSED"
        => c \in liveShards \/ ListedParents(c) \cap Reached # {}

\* A live shard is somewhere: in the pool, held by a registered worker or offered.
NoLiveShardLost == inService => \A s \in liveShards : Places(s) # {}

\* A worker is not handed a shard that is read to its end: it would exit
\* (shard_processor.go:54).
NoClosedHandedOut ==
    pc = "respond" => \A s \in Assigned(h.worker) :
        checkpoints[s] = "CLOSED" =>
            <<h.WorkerID, s, assignments[h.worker][s]>> \in granted
=============================================================================
