---------------------------- MODULE ManagerProofs ----------------------------
(***************************************************************************)
(* What is proved of Manager for every value of its constants: the types,  *)
(* that an assignment id names one assignment, and that the fencing token  *)
(* of a shard never goes back.                                             *)
(***************************************************************************)
EXTENDS Manager, TLAPS, FiniteSetTheorems

\* The orders in which a set of shards can be listed are sequences of shards.
LEMMA OrdersAreSequences ==
    ASSUME NEW S \in SUBSET Shards, NEW order \in SetToSeqs(S)
    PROVE  order \in Seq(Shards)
<1>1. IsFiniteSet(S) /\ Cardinality(S) \in Nat
    BY FS_Subset, FS_CardinalityType, FiniteAssumption
<1> QED
    BY <1>1 DEF SetToSeqs

\* Notifications without an owner, one per listed shard.
LEMMA NotifyType ==
    ASSUME NEW order \in Seq(Shards)
    PROVE  Notify(order) \in Seq(Notification)
    BY DEF Notify, Notification

\* The local variables of the handler before a request have their types.
LEMMA NoRequestType == NoRequest \in HandlerType
<1>1. (CHOOSE w \in Workers : TRUE) \in Workers
    BY FiniteAssumption
<1>2. <<>> \in Seq(Notification)
    OBVIOUS
<1> QED
    BY <1>1, <1>2 DEF NoRequest, HandlerType

-----------------------------------------------------------------------------
(* Types *)

\* A manager that has just started has its types.
LEMMA InitType == Init => TypeOK
<1> SUFFICES ASSUME Init PROVE TypeOK
    OBVIOUS
<1>1. NoRequest.WorkerID \in Workers
    BY NoRequestType DEF HandlerType
<1>2. MgrTypeOK
    <2>1. unassignedShards \in Seq(Shards) /\ closed \in Seq(Notification)
        BY DEF Init
    <2>2. checkpoints \in [Shards -> Checkpoints]
        BY DEF Init, Checkpoints
    <2>3. workerShardCount \in SUBSET Item /\ liveShards \in SUBSET Shards
        BY DEF Init
    <2>4. workers \in [Workers -> Infos \cup {NoInfo}]
        BY DEF Init
    <2> QED
        BY <2>1, <2>2, <2>3, <2>4 DEF Init, MgrTypeOK
<1>3. InfoTypeOK
    BY <1>1 DEF Init, InfoTypeOK
<1>4. HandlerTypeOK
    BY NoRequestType DEF Init, HandlerTypeOK, HandlerParts
<1>5. EnvTypeOK
    BY DEF Init, EnvTypeOK, Checkpoints, NoLoad
<1> QED
    BY <1>2, <1>3, <1>4, <1>5 DEF TypeOK

\* Taking the mutex for a request keeps the types.
LEMMA AssignBeginType ==
    ASSUME TypeOK, NEW w \in Workers, NEW n \in MaxShardsValues,
           NEW lag \in 0..MaxLag, AssignBegin(w, n, lag)
    PROVE  TypeOK'
<1>1. HandlerTypeOK'
    <2>1. n \in Nat /\ lag \in Nat
        BY BoundAssumption
    <2>2. /\ pc' = "release"
          /\ h' = [NoRequest EXCEPT !.WorkerID = w, !.MaxShards = n, !.lag = lag]
        BY DEF AssignBegin
    <2>3. h' \in HandlerType
        BY <2>1, <2>2, NoRequestType DEF HandlerType
    <2> QED
        BY <2>2, <2>3 DEF HandlerTypeOK, HandlerParts
<1> QED
    BY <1>1 DEF AssignBegin, TypeOK, MgrTypeOK, InfoTypeOK, EnvTypeOK,
                mgrVars, infoVars, envVars, graphVars, kvsVars, procVars

\* Releasing one inactive worker keeps the types.
LEMMA ReleaseType ==
    ASSUME TypeOK, NEW i \in Infos, ReleaseWorker(i)
    PROVE  TypeOK'
<1> USE DEF TypeOK
<1> DEFINE own == Active(i) \ h.released
           offered == Offered(i) \ (h.released \cup own)
<1>1. own \in SUBSET Shards /\ offered \in SUBSET Shards
    BY DEF Active, Assigned, Offered, InfoTypeOK
<1>2. unassignedShards' \in Seq(Shards)
    <2>1. PICK a \in SetToSeqs(own), b \in SetToSeqs(offered) :
             unassignedShards' = unassignedShards \o a \o b
        BY DEF ReleaseWorker
    <2>2. a \in Seq(Shards) /\ b \in Seq(Shards)
        BY <1>1, OrdersAreSequences
    <2> QED
        BY <2>1, <2>2 DEF MgrTypeOK
<1>3. HandlerTypeOK'
    <2>1. h' = [h EXCEPT !.released = @ \cup own \cup offered]
        BY DEF ReleaseWorker
    <2> HIDE DEF own, offered
    <2> QED
        BY <1>1, <2>1 DEF ReleaseWorker, HandlerTypeOK, HandlerType, HandlerParts
<1>4. MgrTypeOK'
    BY <1>2 DEF ReleaseWorker, MgrTypeOK, InfoTypeOK, RemoveItem
<1>5. InfoTypeOK'
    BY DEF ReleaseWorker, InfoTypeOK
<1>6. EnvTypeOK'
    BY DEF ReleaseWorker, EnvTypeOK, envVars, graphVars, kvsVars, procVars
<1> QED
    BY <1>3, <1>4, <1>5, <1>6

\* What the first half of an iteration of processClosedShards leaves behind.
LEMMA SettleType ==
    ASSUME TypeOK, NEW n \in Notification, SettleOwner(n)
    PROVE  /\ assignments' \in [Infos -> [Shards -> Nat]]
           /\ requested' \in [Infos -> SUBSET Shards]
           /\ activeShardCount' \in [Infos -> Int]
           /\ workerShardCount' \in SUBSET Item
           /\ Settled(n) \in SUBSET Shards
<1> USE DEF TypeOK, MgrTypeOK, InfoTypeOK, Notification
<1>1. CASE n.info = NoInfo
    BY <1>1 DEF SettleOwner, Settled
<1>2. CASE n.info # NoInfo
    <2>1. n.info \in Infos /\ n.shard \in Shards
        BY <1>2
    <2>2. Push(workerShardCount, n.info, activeShardCount[n.info] - 1) \in SUBSET Item
        BY <2>1 DEF Push, Item
    <2>3. assignments' = [assignments EXCEPT ![n.info][n.shard] = 0]
        BY <1>2 DEF SettleOwner
    <2>4. assignments' \in [Infos -> [Shards -> Nat]]
        BY <2>1, <2>3
    <2>5. requested' \in [Infos -> SUBSET Shards]
        <3>1. requested[n.info] \ {n.shard} \in SUBSET Shards
            BY <2>1
        <3>2. requested' = [requested EXCEPT ![n.info] = requested[n.info] \ {n.shard}]
            BY <1>2 DEF SettleOwner
        <3> QED
            BY <2>1, <3>1, <3>2
    <2>6. activeShardCount' \in [Infos -> Int]
        BY <1>2, <2>1 DEF SettleOwner, LoseActive
    <2>7. workerShardCount' \in SUBSET Item
        BY <1>2, <2>2 DEF SettleOwner, LoseActive
    <2>8. Settled(n) \in SUBSET Shards
        BY DEF Settled
    <2> QED
        BY <2>4, <2>5, <2>6, <2>7, <2>8
<1> QED
    BY <1>1, <1>2

\* Putting a notification aside keeps the types.
LEMMA CloseUnresolvedType ==
    ASSUME TypeOK, CloseUnresolved
    PROVE  TypeOK'
<1> USE DEF TypeOK
<1> DEFINE n == Head(closed)
<1>1. n \in Notification /\ Tail(closed) \in Seq(Notification)
    BY DEF CloseUnresolved, MgrTypeOK
<1>2. SettleOwner(n) /\ liveShards' = Settled(n) /\ closed' = Tail(closed)
    BY DEF CloseUnresolved
<1>3. HandlerTypeOK'
    <2>1. <<n.shard>> \in Seq(Shards)
        BY <1>1 DEF Notification
    <2>2. Notify(<<n.shard>>) \in Seq(Notification)
        BY <2>1, NotifyType
    <2>3. h' = [h EXCEPT !.unresolved = @ \o Notify(<<n.shard>>)] /\ pc' = pc
        BY DEF CloseUnresolved
    <2>4. h.unresolved \o Notify(<<n.shard>>) \in Seq(Notification)
        BY <2>2 DEF HandlerTypeOK, HandlerType
    <2> HIDE DEF n
    <2> QED
        BY <2>3, <2>4 DEF HandlerTypeOK, HandlerType
<1> HIDE DEF n
<1>4. MgrTypeOK'
    BY <1>1, <1>2, SettleType DEF CloseUnresolved, MgrTypeOK
<1>5. InfoTypeOK'
    BY <1>1, <1>2, SettleType DEF CloseUnresolved, InfoTypeOK
<1>6. EnvTypeOK'
    BY DEF CloseUnresolved, EnvTypeOK, envVars, graphVars, kvsVars, procVars
<1> QED
    BY <1>3, <1>4, <1>5, <1>6

\* Resolving a notification keeps the types.
LEMMA CloseResolvedType ==
    ASSUME TypeOK, CloseResolved
    PROVE  TypeOK'
<1> USE DEF TypeOK
<1> DEFINE n == Head(closed)
<1>1. n \in Notification /\ Tail(closed) \in Seq(Notification)
    BY DEF CloseResolved, MgrTypeOK
<1>2. /\ SettleOwner(n)
      /\ liveShards' = Settled(n) \cup Starting(n)
      /\ checkpoints' = [s \in Shards |->
            IF s \in Starting(n) /\ checkpoints[s] = "none" THEN "LATEST"
            ELSE checkpoints[s]]
    BY DEF CloseResolved
<1>3. Starting(n) \in SUBSET Shards /\ Ready(n.shard) \in SUBSET Shards
    BY DEF Starting, Ready, Children, EnvTypeOK
<1>4. PICK a \in SetToSeqs(Starting(n)),
           b \in SetToSeqs(Ready(n.shard) \ Starting(n)) :
              /\ unassignedShards' = unassignedShards \o a
              /\ closed' = Tail(closed) \o Notify(b)
    BY DEF CloseResolved
<1>5. a \in Seq(Shards) /\ Notify(b) \in Seq(Notification)
    BY <1>3, OrdersAreSequences, NotifyType
<1> HIDE DEF n
<1>6. MgrTypeOK'
    <2>1. checkpoints' \in [Shards -> Checkpoints]
        BY <1>2 DEF MgrTypeOK, Checkpoints
    <2>2. unassignedShards' \in Seq(Shards) /\ closed' \in Seq(Notification)
        BY <1>1, <1>4, <1>5 DEF MgrTypeOK
    <2>3. liveShards' \in SUBSET Shards /\ workerShardCount' \in SUBSET Item
        BY <1>1, <1>2, <1>3, SettleType
    <2> QED
        BY <2>1, <2>2, <2>3 DEF CloseResolved, MgrTypeOK
<1>7. InfoTypeOK'
    BY <1>1, <1>2, SettleType DEF CloseResolved, InfoTypeOK
<1>8. HandlerTypeOK' /\ EnvTypeOK'
    BY DEF CloseResolved, HandlerTypeOK, EnvTypeOK, envVars, graphVars, kvsVars, procVars
<1> QED
    BY <1>6, <1>7, <1>8

\* Keeping the unresolved notifications for later keeps the types.
LEMMA CloseDoneType ==
    ASSUME TypeOK, CloseDone
    PROVE  TypeOK'
<1> USE DEF TypeOK
<1>1. h.unresolved \in Seq(Notification)
    BY DEF HandlerTypeOK, HandlerType
<1>2. MgrTypeOK'
    BY <1>1 DEF CloseDone, MgrTypeOK
<1>3. HandlerTypeOK'
    <2>1. pc' = "resolve" /\ h' = [h EXCEPT !.unresolved = <<>>]
        BY DEF CloseDone
    <2>2. <<>> \in Seq(Notification)
        OBVIOUS
    <2>3. h' \in HandlerType
        BY <2>1, <2>2 DEF HandlerTypeOK, HandlerType
    <2> QED
        BY <2>1, <2>3 DEF HandlerTypeOK, HandlerParts
<1> QED
    BY <1>2, <1>3 DEF CloseDone, InfoTypeOK, EnvTypeOK, infoVars, envVars,
                      graphVars, kvsVars, procVars

\* The handler that goes on has the workerInfo it goes on with.
LEMMA ContinueType ==
    ASSUME TypeOK, InfoTypeOK', NEW i \in Infos, Continue(i)
    PROVE  HandlerTypeOK'
<1> USE DEF TypeOK
<1>1. CASE h.MaxShards = 0
    BY <1>1, NoRequestType DEF Continue, HandlerTypeOK, HandlerParts
<1>2. CASE h.MaxShards # 0
    <2>1. h.MaxShards \in Int /\ activeShardCount'[i] \in Int
        BY DEF HandlerTypeOK, HandlerType, InfoTypeOK
    <2>2. /\ pc' = "acquire"
          /\ h' = [h EXCEPT !.worker = i, !.budget = h.MaxShards, !.released = {},
                            !.oldActiveShardCount = activeShardCount'[i]]
        BY <1>2 DEF Continue
    <2>3. h' \in HandlerType /\ h'.worker = i
        BY <2>1, <2>2 DEF HandlerTypeOK, HandlerType
    <2> QED
        BY <2>2, <2>3 DEF HandlerTypeOK, HandlerParts
<1> QED
    BY <1>1, <1>2

\* A heartbeat of a known worker keeps the types.
LEMMA ResolveKnownType ==
    ASSUME TypeOK, NEW i \in Infos, ResolveKnown(i)
    PROVE  TypeOK'
<1> USE DEF TypeOK
<1>1. MgrTypeOK' /\ EnvTypeOK'
    BY DEF ResolveKnown, MgrTypeOK, EnvTypeOK, mgrVars, envVars, graphVars, kvsVars,
           procVars
<1>2. InfoTypeOK'
    <2>1. h.lag \in Nat
        BY DEF HandlerTypeOK, HandlerType
    <2> QED
        BY <2>1 DEF ResolveKnown, InfoTypeOK
<1>3. Continue(i)
    BY DEF ResolveKnown
<1> QED
    BY <1>1, <1>2, <1>3, ContinueType

\* Registering a worker keeps the types.
LEMMA ResolveNewType ==
    ASSUME TypeOK, NEW i \in Infos, ResolveNew(i)
    PROVE  TypeOK'
<1> USE DEF TypeOK
<1>1. h.lag \in Nat /\ h.WorkerID \in Workers
    BY DEF HandlerTypeOK, HandlerType
<1>2. MgrTypeOK'
    BY <1>1 DEF ResolveNew, MgrTypeOK
<1>3. InfoTypeOK'
    <2>1. workerID' \in [Infos -> Workers] /\ heartbeatAge' \in [Infos -> Nat]
        BY <1>1 DEF ResolveNew, InfoTypeOK
    <2>2. assignments' \in [Infos -> [Shards -> Nat]]
        BY DEF ResolveNew, InfoTypeOK
    <2>3. /\ requested' \in [Infos -> SUBSET Shards]
          /\ offer' \in [Infos -> SUBSET (Infos \X Shards)]
        BY DEF ResolveNew, InfoTypeOK
    <2>4. offerAge' \in [Infos -> Nat] /\ activeShardCount' \in [Infos -> Int]
        BY DEF ResolveNew, InfoTypeOK
    <2> QED
        BY <2>1, <2>2, <2>3, <2>4 DEF InfoTypeOK
<1>4. EnvTypeOK'
    BY DEF ResolveNew, EnvTypeOK, envVars, graphVars, kvsVars, procVars
<1>5. Continue(i)
    BY DEF ResolveNew
<1> QED
    BY <1>2, <1>3, <1>4, <1>5, ContinueType

\* What assigning a shard leaves behind.
LEMMA AssignShardType ==
    ASSUME TypeOK, h.worker \in Infos, NEW s \in Shards,
           NEW from \in Infos \cup {NoInfo}, AssignShard(s, from)
    PROVE  /\ assignments' \in [Infos -> [Shards -> Nat]]
           /\ requested' \in [Infos -> SUBSET Shards]
           /\ activeShardCount' \in [Infos -> Int]
           /\ nextAssignmentOffset' \in Nat
<1>1. NextAssignmentID \in Nat
    BY DEF TypeOK, MgrTypeOK, NextAssignmentID
<1> QED
    BY <1>1 DEF AssignShard, TypeOK, MgrTypeOK, InfoTypeOK

\* Taking over one shard of a due offer keeps the types.
LEMMA AcquireShardType ==
    ASSUME TypeOK, NEW i \in Infos, NEW s \in Shards, AcquireShard(i, s)
    PROVE  TypeOK'
<1> USE DEF TypeOK
<1>1. h.worker \in Infos /\ AssignShard(s, i)
    BY DEF AcquireShard, HandlerTypeOK
<1>2. MgrTypeOK'
    BY <1>1, AssignShardType DEF AcquireShard, MgrTypeOK
<1>3. InfoTypeOK'
    <2>1. offer' \in [Infos -> SUBSET (Infos \X Shards)]
        BY DEF AcquireShard, InfoTypeOK
    <2> QED
        BY <1>1, <2>1, AssignShardType DEF AcquireShard, InfoTypeOK
<1>4. HandlerTypeOK'
    BY <1>1 DEF AcquireShard, HandlerTypeOK, HandlerType
<1>5. EnvTypeOK'
    BY DEF AcquireShard, EnvTypeOK, envVars, graphVars, kvsVars, procVars
<1> QED
    BY <1>2, <1>3, <1>4, <1>5

\* Taking one shard from the pool keeps the types.
LEMMA AssignFromPoolType ==
    ASSUME TypeOK, NEW s \in Shards, AssignFromPool(s)
    PROVE  TypeOK'
<1> USE DEF TypeOK
<1>1. h.worker \in Infos /\ AssignShard(s, NoInfo)
    BY DEF AssignFromPool, HandlerTypeOK
<1>2. MgrTypeOK'
    <2>1. unassignedShards' \in Seq(Shards)
        BY DEF AssignFromPool, MgrTypeOK
    <2> QED
        BY <1>1, <2>1, AssignShardType DEF AssignFromPool, MgrTypeOK
<1>3. InfoTypeOK'
    BY <1>1, AssignShardType DEF AssignFromPool, InfoTypeOK
<1>4. HandlerTypeOK'
    <2>1. h.budget - 1 \in Int
        BY DEF HandlerTypeOK, HandlerType
    <2>2. pc' = pc /\ h' = [h EXCEPT !.budget = h.budget - 1]
        BY DEF AssignFromPool
    <2>3. h' \in HandlerType /\ h'.worker = h.worker
        BY <2>1, <2>2 DEF HandlerTypeOK, HandlerType
    <2> QED
        BY <1>1, <2>2, <2>3 DEF HandlerTypeOK
<1>5. EnvTypeOK'
    BY DEF AssignFromPool, EnvTypeOK, envVars, graphVars, kvsVars, procVars
<1> QED
    BY <1>2, <1>3, <1>4, <1>5

\* The steps of the handler that only go on to its next part.
LEMMA HandlerDoneType ==
    ASSUME TypeOK, ReleaseDone \/ AcquireDone \/ RebalanceDone
    PROVE  TypeOK'
<1> USE DEF TypeOK
<1>1. HandlerTypeOK'
    BY DEF ReleaseDone, AcquireDone, RebalanceDone, HandlerTypeOK, HandlerParts
<1> QED
    BY <1>1 DEF ReleaseDone, AcquireDone, RebalanceDone, MgrTypeOK, InfoTypeOK,
                EnvTypeOK, mgrVars, infoVars, envVars, graphVars, kvsVars, procVars

\* Publishing the count of active shards keeps the types.
LEMMA AssignDoneType ==
    ASSUME TypeOK, AssignDone
    PROVE  TypeOK'
<1> USE DEF TypeOK
<1>1. h.worker \in Infos
    BY DEF AssignDone, HandlerTypeOK
<1>2. MgrTypeOK'
    <2>1. Push(workerShardCount, h.worker, activeShardCount[h.worker]) \in SUBSET Item
        BY <1>1 DEF Push, Item, MgrTypeOK, InfoTypeOK
    <2> QED
        BY <2>1 DEF AssignDone, MgrTypeOK
<1>3. HandlerTypeOK'
    BY <1>1 DEF AssignDone, HandlerTypeOK, HandlerParts
<1> QED
    BY <1>2, <1>3 DEF AssignDone, InfoTypeOK, EnvTypeOK, infoVars, envVars,
                      graphVars, kvsVars, procVars

\* Requesting one shard of an overloaded worker keeps the types.
LEMMA RebalanceStealType ==
    ASSUME TypeOK, NEW i \in Infos, NEW s \in Shards, RebalanceSteal(i, s)
    PROVE  TypeOK'
<1> USE DEF TypeOK
<1>1. h.worker \in Infos /\ h.lag \in Nat
    BY DEF RebalanceSteal, HandlerTypeOK, HandlerType
<1>2. MgrTypeOK'
    <2>1. Push(workerShardCount, i, activeShardCount[i] - 1) \in SUBSET Item
        BY DEF Push, Item, MgrTypeOK, InfoTypeOK
    <2> QED
        BY <2>1 DEF RebalanceSteal, LoseActive, MgrTypeOK
<1>3. InfoTypeOK'
    <2>1. requested' \in [Infos -> SUBSET Shards]
        BY DEF RebalanceSteal, LoseActive, InfoTypeOK
    <2>2. offer' \in [Infos -> SUBSET (Infos \X Shards)]
        BY <1>1 DEF RebalanceSteal, LoseActive, InfoTypeOK
    <2>3. offerAge' \in [Infos -> Nat] /\ activeShardCount' \in [Infos -> Int]
        BY <1>1 DEF RebalanceSteal, LoseActive, InfoTypeOK
    <2> QED
        BY <2>1, <2>2, <2>3 DEF RebalanceSteal, LoseActive, InfoTypeOK
<1>4. HandlerTypeOK' /\ EnvTypeOK'
    BY DEF RebalanceSteal, HandlerTypeOK, EnvTypeOK, envVars, graphVars, kvsVars, procVars
<1> QED
    BY <1>2, <1>3, <1>4

\* Answering the request keeps the types.
LEMMA AssignRespondType ==
    ASSUME TypeOK, AssignRespond
    PROVE  TypeOK'
<1> USE DEF TypeOK
<1>1. HandlerTypeOK'
    BY NoRequestType DEF AssignRespond, HandlerTypeOK, HandlerParts
<1>2. EnvTypeOK'
    <2>1. h.worker \in Infos /\ h.WorkerID \in Workers
        BY DEF AssignRespond, HandlerTypeOK, HandlerType
    <2>2. granted' \in SUBSET Processors
        BY <2>1 DEF AssignRespond, Processors, Assigned, InfoTypeOK, EnvTypeOK
    <2> QED
        BY <2>2 DEF AssignRespond, EnvTypeOK, graphVars, kvsVars
<1> QED
    BY <1>1, <1>2 DEF AssignRespond, MgrTypeOK, InfoTypeOK, mgrVars, infoVars

\* Accepting or refusing a checkpoint request keeps the types.
LEMMA CheckpointBeginType ==
    ASSUME TypeOK, NEW p \in granted, NEW sn \in {"SEQ", "CLOSED"},
           CheckpointBegin(p, sn) \/ CheckpointRefused(p, sn)
    PROVE  TypeOK'
<1> USE DEF TypeOK
<1>1. p \in Processors
    BY DEF EnvTypeOK
<1>2. Sent(p, sn) \in SUBSET Processors /\ stopped \cup {p} \in SUBSET Processors
    BY <1>1 DEF EnvTypeOK, Sent
<1>3. [proc |-> p, sn |-> sn, stage |-> "current", abandoned |-> FALSE] \in Request
    BY <1>1 DEF Request, Stages
<1>4. EnvTypeOK'
    BY <1>2, <1>3 DEF CheckpointBegin, CheckpointRefused, EnvTypeOK, graphVars, kvsVars
<1> QED
    BY <1>4 DEF CheckpointBegin, CheckpointRefused, MgrTypeOK, InfoTypeOK,
                HandlerTypeOK, mgrVars, infoVars, handlerVars

\* The parts of a request that the handler reads.
LEMMA RequestParts ==
    ASSUME TypeOK, NEW c \in inflight
    PROVE  /\ c \in Request /\ c.proc \in Processors
           /\ c.proc[1] \in Workers /\ c.proc[2] \in Shards /\ c.proc[3] \in Nat
           /\ c.sn \in Checkpoints
           /\ \A stage \in Stages : [c EXCEPT !.stage = stage] \in Request
           /\ [c EXCEPT !.abandoned = TRUE] \in Request
<1>1. c \in Request
    BY DEF TypeOK, EnvTypeOK
<1> QED
    BY <1>1 DEF Request, Processors, Checkpoints

\* A transaction, whatever its outcome, keeps the types.
LEMMA TxnType ==
    ASSUME TypeOK, NEW c \in inflight, TxnSucceeds(c) \/ TxnFails(c) \/ TxnError(c)
    PROVE  TypeOK'
<1> USE DEF TypeOK
<1>1. c \in inflight
    OBVIOUS
<1>2. stopped \cup {c.proc} \in SUBSET Processors
    BY RequestParts DEF EnvTypeOK
<1>3. PutBoth(c) => /\ kvsAssignment' \in [Shards -> Nat]
                    /\ kvsCheckpoint' \in [Shards -> Checkpoints]
    BY RequestParts DEF PutBoth, EnvTypeOK
<1>4. After(c.stage) \in Stages
    BY DEF After, Stages
<1>5. inflight' \in SUBSET Request
    <2>1. [c EXCEPT !.stage = "update"] \in Request
        BY RequestParts DEF Stages
    <2>2. [c EXCEPT !.stage = After(c.stage)] \in Request
        BY RequestParts, <1>4
    <2> QED
        BY <2>1, <2>2 DEF TxnSucceeds, TxnFails, TxnError, EnvTypeOK
<1>6. EnvTypeOK'
    BY <1>2, <1>3, <1>5 DEF TxnSucceeds, TxnFails, TxnError, Reply, EnvTypeOK, graphVars,
                            kvsVars
<1> QED
    BY <1>6 DEF TxnSucceeds, TxnFails, TxnError, MgrTypeOK, InfoTypeOK,
                HandlerTypeOK, mgrVars, infoVars, handlerVars

\* Bringing memory up to date with etcd keeps the types.
LEMMA CheckpointUpdateType ==
    ASSUME TypeOK, NEW c \in inflight, CheckpointUpdate(c)
    PROVE  TypeOK'
<1> USE DEF TypeOK
<1> DEFINE w == c.proc[1]
           s == c.proc[2]
<1>1. w \in Workers /\ s \in Shards /\ c.sn \in Checkpoints /\ c.proc \in Processors
    BY RequestParts
<1>2. MgrTypeOK'
    <2>1. CASE Owns(w, s, c.proc[3])
        <3>1. workers[w] \in Infos
            BY <1>1, <2>1 DEF Owns, MgrTypeOK
        <3>2. [shard |-> s, info |-> workers[w]] \in Notification
            BY <1>1, <3>1 DEF Notification
        <3>3. checkpoints' \in [Shards -> Checkpoints]
            <4>1. checkpoints' = [checkpoints EXCEPT ![s] = c.sn]
                BY <2>1 DEF CheckpointUpdate
            <4> QED
                BY <1>1, <4>1 DEF MgrTypeOK
        <3>4. closed' \in Seq(Notification)
            <4>1. \/ closed' = Append(closed, [shard |-> s, info |-> workers[w]])
                  \/ closed' = closed
                BY <2>1 DEF CheckpointUpdate
            <4>2. closed \in Seq(Notification)
                BY DEF MgrTypeOK
            <4>3. Append(closed, [shard |-> s, info |-> workers[w]]) \in Seq(Notification)
                BY ONLY <3>2, <4>2
            <4> QED
                BY <4>1, <4>2, <4>3
        <3> QED
            BY <3>3, <3>4 DEF CheckpointUpdate, MgrTypeOK
    <2>2. CASE ~Owns(w, s, c.proc[3])
        BY <2>2 DEF CheckpointUpdate, MgrTypeOK
    <2> QED
        BY <2>1, <2>2
<1>3. EnvTypeOK'
    BY <1>1 DEF CheckpointUpdate, Reply, EnvTypeOK, graphVars, kvsVars
<1> QED
    BY <1>2, <1>3 DEF CheckpointUpdate, InfoTypeOK, HandlerTypeOK, infoVars, handlerVars

\* A client that gives up keeps the types.
LEMMA DisconnectType ==
    ASSUME TypeOK, NEW c \in inflight, Disconnect(c)
    PROVE  TypeOK'
<1> USE DEF TypeOK
<1>1. EnvTypeOK'
    BY RequestParts DEF Disconnect, EnvTypeOK, graphVars, kvsVars
<1> QED
    BY <1>1 DEF Disconnect, MgrTypeOK, InfoTypeOK, HandlerTypeOK,
                mgrVars, infoVars, handlerVars

\* Starting to load the checkpoints keeps the types.
LEMMA LoadBeginType ==
    ASSUME TypeOK, LoadBegin
    PROVE  TypeOK'
<1> USE DEF TypeOK
<1>1. loading' \in [active : BOOLEAN, unread : SUBSET Shards,
                    checkpoints : [Shards -> Checkpoints]]
    BY DEF LoadBegin, NoLoad, EnvTypeOK, Checkpoints
<1>2. EnvTypeOK'
    BY <1>1 DEF LoadBegin, EnvTypeOK, graphVars, kvsVars, procVars
<1> QED
    BY <1>2 DEF LoadBegin, MgrTypeOK, InfoTypeOK, HandlerTypeOK, mgrVars,
                infoVars, handlerVars

\* Reading one checkpoint keeps the types.
LEMMA LoadType ==
    ASSUME TypeOK, NEW s \in Shards, LoadCheckpoint(s)
    PROVE  TypeOK'
<1> USE DEF TypeOK
<1> DEFINE read == IF kvsCheckpoint[s] = "none" THEN "LATEST" ELSE kvsCheckpoint[s]
<1>1. read \in Checkpoints
    BY DEF EnvTypeOK, Checkpoints
<1>2. loading' = [loading EXCEPT !.unread = loading.unread \ {s}, !.checkpoints[s] = read]
    BY DEF LoadCheckpoint
<1>3. loading' \in [active : BOOLEAN, unread : SUBSET Shards,
                    checkpoints : [Shards -> Checkpoints]]
    <2> HIDE DEF read
    <2> QED
        BY <1>1, <1>2 DEF EnvTypeOK
<1>4. EnvTypeOK'
    BY <1>3 DEF LoadCheckpoint, EnvTypeOK, graphVars, kvsVars, procVars
<1> QED
    BY <1>4 DEF LoadCheckpoint, MgrTypeOK, InfoTypeOK, HandlerTypeOK, mgrVars,
                infoVars, handlerVars

\* So does a pass of discovery.
LEMMA PassType ==
    ASSUME TypeOK, Pass
    PROVE  TypeOK'
<1> USE DEF TypeOK
<1>1. discovered' \in SUBSET Shards /\ linked' \in SUBSET (Shards \X Shards)
    BY DEF Pass, Discover, Links, EnvTypeOK
<1>2. EnvTypeOK'
    BY <1>1 DEF Pass, Discover, EnvTypeOK, kvsVars, procVars
<1> QED
    BY <1>2 DEF Pass, Discover, MgrTypeOK, InfoTypeOK, HandlerTypeOK, mgrVars,
                infoVars, handlerVars

\* Entering service for a new term keeps the types.
LEMMA InServiceType ==
    ASSUME TypeOK, NEW t \in Terms, SetToInService(t)
    PROVE  TypeOK'
<1> USE DEF TypeOK
<1> DEFINE finished == {s \in Roots : loading.checkpoints[s] = "CLOSED"}
<1>1. PICK a \in SetToSeqs(Roots \ finished), b \in SetToSeqs(finished) :
         unassignedShards' = a /\ closed' = Notify(b)
    BY DEF SetToInService
<1>2. Roots \ finished \in SUBSET Shards /\ finished \in SUBSET Shards
    BY DEF Roots, EnvTypeOK
<1>3. liveShards' = Roots \ finished
    BY DEF SetToInService
<1> HIDE DEF finished
<1>4. unassignedShards' \in Seq(Shards) /\ closed' \in Seq(Notification)
    BY <1>1, <1>2, OrdersAreSequences, NotifyType
<1>5. t \in Nat /\ loading.checkpoints \in [Shards -> Checkpoints]
    BY BoundAssumption DEF EnvTypeOK
<1>6. MgrTypeOK'
    BY <1>2, <1>3, <1>4, <1>5 DEF SetToInService, EnterTerm, MgrTypeOK
<1>7. EnvTypeOK'
    BY DEF SetToInService, EnvTypeOK, NoLoad, Checkpoints, graphVars, kvsVars, procVars
<1> QED
    BY <1>6, <1>7 DEF SetToInService, InfoTypeOK, HandlerTypeOK, infoVars, handlerVars

\* Time keeps the types.
LEMMA TickType ==
    ASSUME TypeOK, Tick
    PROVE  TypeOK'
<1> USE DEF TypeOK
<1>1. InfoTypeOK'
    BY DEF Tick, Older, InfoTypeOK
<1> QED
    BY <1>1 DEF Tick, MgrTypeOK, HandlerTypeOK, EnvTypeOK, mgrVars, handlerVars,
                envVars, graphVars, kvsVars, procVars

\* Every step of handleAssignRequest keeps the types.
LEMMA HandlerStepType ==
    ASSUME TypeOK, HandlerStep
    PROVE  TypeOK'
<1>1. ASSUME NEW i \in Infos, ReleaseWorker(i) \/ ResolveKnown(i) \/ ResolveNew(i)
      PROVE  TypeOK'
    BY <1>1, ReleaseType, ResolveKnownType, ResolveNewType
<1>2. ASSUME NEW i \in Infos, NEW s \in Shards,
             AcquireShard(i, s) \/ RebalanceSteal(i, s)
      PROVE  TypeOK'
    BY <1>2, AcquireShardType, RebalanceStealType
<1>3. ASSUME NEW s \in Shards, AssignFromPool(s)
      PROVE  TypeOK'
    BY <1>3, AssignFromPoolType
<1> QED
    BY <1>1, <1>2, <1>3, HandlerDoneType, CloseUnresolvedType, CloseResolvedType,
       CloseDoneType, AssignDoneType, AssignRespondType DEF HandlerStep

\* Every step, and every stutter, keeps the types.
LEMMA NextType == TypeOK /\ [Next]_vars => TypeOK'
<1> SUFFICES ASSUME TypeOK, [Next]_vars PROVE TypeOK'
    OBVIOUS
<1>1. ASSUME NEW w \in Workers, NEW n \in MaxShardsValues, NEW lag \in 0..MaxLag,
             AssignBegin(w, n, lag)
      PROVE  TypeOK'
    BY <1>1, AssignBeginType
<1>2. CASE HandlerStep
    BY <1>2, HandlerStepType
<1>3. ASSUME NEW p \in granted, NEW sn \in {"SEQ", "CLOSED"},
             CheckpointBegin(p, sn) \/ CheckpointRefused(p, sn)
      PROVE  TypeOK'
    BY <1>3, CheckpointBeginType
<1>4. ASSUME NEW c \in inflight, CheckpointStep(c) \/ Disconnect(c)
      PROVE  TypeOK'
    BY <1>4, TxnType, CheckpointUpdateType, DisconnectType DEF CheckpointStep
<1>5. ASSUME NEW s \in Shards, LoadCheckpoint(s)
      PROVE  TypeOK'
    BY <1>5, LoadType
<1>6. CASE LoadBegin
    BY <1>6, LoadBeginType
<1>7. ASSUME NEW t \in Terms, SetToInService(t)
      PROVE  TypeOK'
    BY <1>7, InServiceType
<1>8. CASE SetToOutOfService
    BY <1>8 DEF SetToOutOfService, TypeOK, MgrTypeOK, InfoTypeOK, HandlerTypeOK,
                EnvTypeOK, infoVars, handlerVars, envVars, graphVars, kvsVars, procVars
<1>9. CASE UNCHANGED vars
    BY <1>9 DEF TypeOK, MgrTypeOK, InfoTypeOK, HandlerTypeOK, EnvTypeOK, vars,
                mgrVars, infoVars, handlerVars, envVars, graphVars, kvsVars, procVars
<1>10. CASE Pass
    BY <1>10, PassType
<1> QED
    BY <1>1, <1>2, <1>3, <1>4, <1>5, <1>6, <1>7, <1>8, <1>9, <1>10, TickType
       DEF Next

\* Every variable of Manager keeps its type in every reachable state.
THEOREM TypeCorrect == Spec => []TypeOK
    BY InitType, NextType, PTL DEF Spec

-----------------------------------------------------------------------------
(* Assignment ids *)

\* A step that gives no id out, though it may take some back.
GivesNone == /\ NextAssignmentID' >= NextAssignmentID
             /\ \A i \in Infos, s \in Shards :
                   assignments'[i][s] \in {0, assignments[i][s]}

\* The next assignment id is a natural number.
LEMMA NextIDType ==
    /\ TypeOK => NextAssignmentID \in Nat
    /\ TypeOK' => NextAssignmentID' \in Nat
<1>1. TypeOK => term \in Nat /\ nextAssignmentOffset \in Nat
    BY DEF TypeOK, MgrTypeOK
<1>2. TypeOK' => term' \in Nat /\ nextAssignmentOffset' \in Nat
    BY DEF TypeOK, MgrTypeOK
<1> QED
    BY <1>1, <1>2 DEF NextAssignmentID

\* Taking assignments back leaves the others the ids they have.
LEMMA OnlyTakesBack ==
    ASSUME TypeOK, UNCHANGED <<term, nextAssignmentOffset>>,
           \A i \in Infos, s \in Shards : assignments'[i][s] \in {0, assignments[i][s]}
    PROVE  GivesNone
<1>1. NextAssignmentID' = NextAssignmentID /\ NextAssignmentID \in Nat
    BY NextIDType DEF NextAssignmentID
<1> QED
    BY <1>1 DEF GivesNone

\* A step that gives out no id keeps the ids unique.
LEMMA GivesNoneUnique ==
    ASSUME TypeOK, TypeOK', IdsUnique, GivesNone
    PROVE  IdsUnique'
<1> SUFFICES ASSUME NEW i \in Infos, NEW s \in Shards, assignments'[i][s] # 0
             PROVE  /\ assignments'[i][s] < NextAssignmentID'
                    /\ \A j \in Infos, t \in Shards :
                          assignments'[i][s] = assignments'[j][t] => i = j /\ s = t
    BY DEF IdsUnique
<1>1. assignments'[i][s] = assignments[i][s] /\ assignments[i][s] # 0
    BY DEF GivesNone
<1>2. assignments[i][s] < NextAssignmentID /\ assignments[i][s] \in Nat
    BY <1>1 DEF IdsUnique, TypeOK, InfoTypeOK
<1>3. NextAssignmentID \in Nat /\ NextAssignmentID' \in Nat
    BY NextIDType
<1>4. assignments'[i][s] < NextAssignmentID'
    BY <1>1, <1>2, <1>3 DEF GivesNone
<1>5. ASSUME NEW j \in Infos, NEW t \in Shards, assignments'[i][s] = assignments'[j][t]
      PROVE  i = j /\ s = t
    <2>1. assignments[j][t] = assignments[i][s]
        BY <1>1, <1>5 DEF GivesNone
    <2> QED
        BY <1>1, <2>1 DEF IdsUnique
<1> QED
    BY <1>4, <1>5

\* Giving out the next id keeps the ids unique.
LEMMA AssignShardUnique ==
    ASSUME TypeOK, TypeOK', IdsUnique, h.worker \in Infos, NEW s \in Shards,
           NEW from \in Infos \cup {NoInfo}, AssignShard(s, from), term' = term
    PROVE  IdsUnique'
<1>1. NextAssignmentID \in Nat /\ NextAssignmentID' = NextAssignmentID + 1
    BY DEF NextAssignmentID, AssignShard, TypeOK, MgrTypeOK
<1>2. ASSUME NEW i \in Infos, NEW t \in Shards
      PROVE  \/ assignments'[i][t] \in {0, assignments[i][t]}
             \/ i = h.worker /\ t = s /\ assignments'[i][t] = NextAssignmentID
    BY DEF AssignShard
<1>3. ASSUME NEW i \in Infos, NEW t \in Shards
      PROVE  assignments[i][t] \in Nat /\ assignments'[i][t] \in Nat
    BY DEF TypeOK, InfoTypeOK
<1>4. ASSUME NEW i \in Infos, NEW t \in Shards, assignments'[i][t] # 0
      PROVE  assignments'[i][t] < NextAssignmentID'
    BY <1>1, <1>2, <1>3, <1>4 DEF IdsUnique
<1>5. ASSUME NEW i \in Infos, NEW t \in Shards, NEW j \in Infos, NEW u \in Shards,
             assignments'[i][t] # 0, assignments'[i][t] = assignments'[j][u]
      PROVE  i = j /\ t = u
    <2>1. CASE assignments'[i][t] = NextAssignmentID
        <3>1. ASSUME NEW k \in Infos, NEW v \in Shards,
                     assignments'[k][v] = NextAssignmentID, assignments'[k][v] # 0
              PROVE  k = h.worker /\ v = s
            <4>1. assignments[k][v] # NextAssignmentID
                BY <1>1, <1>3, <3>1 DEF IdsUnique
            <4> QED
                BY <1>2, <3>1, <4>1
        <3> QED
            BY <1>5, <2>1, <3>1
    <2>2. CASE assignments'[i][t] # NextAssignmentID
        BY <1>2, <1>5, <2>2 DEF IdsUnique
    <2> QED
        BY <2>1, <2>2
<1> QED
    BY <1>4, <1>5 DEF IdsUnique

\* Every step gives out no id, or the next one to the worker that asks.
LEMMA HandlerIds ==
    ASSUME TypeOK, HandlerStep
    PROVE  \/ GivesNone
           \/ /\ h.worker \in Infos /\ term' = term
              /\ \E s \in Shards, from \in Infos \cup {NoInfo} : AssignShard(s, from)
<1>0. assignments \in [Infos -> [Shards -> Nat]]
    BY DEF TypeOK, InfoTypeOK
<1>1. ASSUME NEW i \in Infos, ReleaseWorker(i)
      PROVE  GivesNone
    <2>1. /\ UNCHANGED <<term, nextAssignmentOffset>>
          /\ assignments' = [j \in Infos |-> [s \in Shards |->
                IF <<j, s>> \in offer[i] THEN 0 ELSE assignments[j][s]]]
        BY <1>1 DEF ReleaseWorker
    <2> QED
        BY <2>1, OnlyTakesBack
<1>2. ASSUME NEW i \in Infos, ResolveKnown(i) \/ ResolveNew(i)
      PROVE  GivesNone
    <2>1. /\ UNCHANGED <<term, nextAssignmentOffset>>
          /\ \/ assignments' = assignments
             \/ assignments' = [assignments EXCEPT ![i] = [s \in Shards |-> 0]]
        BY <1>2 DEF ResolveKnown, ResolveNew, mgrVars
    <2>2. \A j \in Infos, s \in Shards : assignments'[j][s] \in {0, assignments[j][s]}
        BY <1>0, <2>1
    <2> QED
        BY <2>1, <2>2, OnlyTakesBack
<1>3. ASSUME CloseUnresolved \/ CloseResolved
      PROVE  GivesNone
    <2> DEFINE n == Head(closed)
    <2>1. SettleOwner(n) /\ UNCHANGED <<term, nextAssignmentOffset>>
        BY <1>3 DEF CloseUnresolved, CloseResolved
    <2>2. \/ assignments' = assignments
          \/ assignments' = [assignments EXCEPT ![n.info][n.shard] = 0]
        BY <2>1 DEF SettleOwner
    <2> HIDE DEF n
    <2>3. \A j \in Infos, s \in Shards : assignments'[j][s] \in {0, assignments[j][s]}
        BY <1>0, <2>2
    <2> QED
        BY <2>1, <2>3, OnlyTakesBack
<1>4. ASSUME NEW i \in Infos, NEW s \in Shards, AcquireShard(i, s)
      PROVE  h.worker \in Infos /\ term' = term /\ AssignShard(s, i)
    BY <1>4 DEF AcquireShard, TypeOK, HandlerTypeOK
<1>5. ASSUME NEW s \in Shards, AssignFromPool(s)
      PROVE  h.worker \in Infos /\ term' = term /\ AssignShard(s, NoInfo)
    BY <1>5 DEF AssignFromPool, TypeOK, HandlerTypeOK
<1>6. ASSUME UNCHANGED <<term, nextAssignmentOffset, assignments>>
      PROVE  GivesNone
    BY <1>6, OnlyTakesBack
<1>7. ASSUME NEW i \in Infos, NEW s \in Shards, RebalanceSteal(i, s)
      PROVE  GivesNone
    BY <1>6, <1>7 DEF RebalanceSteal
<1>8. ASSUME \/ ReleaseDone \/ CloseDone \/ AcquireDone \/ AssignDone
             \/ RebalanceDone \/ AssignRespond
      PROVE  GivesNone
    <2>1. UNCHANGED <<term, nextAssignmentOffset, assignments>>
        BY <1>8 DEF ReleaseDone, CloseDone, AcquireDone, AssignDone,
           RebalanceDone, AssignRespond, infoVars, mgrVars
    <2> QED
        BY <2>1, <1>6
<1> QED
    BY <1>1, <1>2, <1>3, <1>4, <1>5, <1>7, <1>8 DEF HandlerStep

\* Every step, and every stutter, keeps the ids unique.
LEMMA NextUnique == TypeOK /\ TypeOK' /\ IdsUnique /\ [Next]_vars => IdsUnique'
<1> SUFFICES ASSUME TypeOK, TypeOK', IdsUnique, [Next]_vars PROVE IdsUnique'
    OBVIOUS
<1>1. CASE HandlerStep
    BY <1>1, HandlerIds, GivesNoneUnique, AssignShardUnique
<1>2. CASE ~HandlerStep
    <2> USE DEF GivesNone, NextAssignmentID
    <2>1. term \in Nat /\ nextAssignmentOffset \in Nat
        BY DEF TypeOK, MgrTypeOK
    <2>2. CASE \E t \in Terms : SetToInService(t)
        <3>1. ASSUME NEW t \in Terms, SetToInService(t)
              PROVE  GivesNone
            BY <2>1, <3>1, BoundAssumption DEF SetToInService, EnterTerm, infoVars
        <3> QED
            BY <2>2, <3>1, GivesNoneUnique
    <2>3. CASE ~\E t \in Terms : SetToInService(t)
        <3>1. assignments' = assignments /\ term' = term
              /\ nextAssignmentOffset' = nextAssignmentOffset
            BY <1>2, <2>3 DEF Next, vars, mgrVars, infoVars, AssignBegin,
               CheckpointBegin, CheckpointRefused, CheckpointStep, TxnSucceeds,
               TxnFails, TxnError, CheckpointUpdate, Disconnect, LoadBegin,
               LoadCheckpoint, Pass, Discover, SetToOutOfService, Tick
        <3> QED
            BY <2>1, <3>1, GivesNoneUnique
    <2> QED
        BY <2>2, <2>3
<1> QED
    BY <1>1, <1>2

\* getNextAssignmentID never gives an id twice, over any number of terms of the
\* manager and for any tree of shards.
THEOREM UniqueAssignmentIds == Spec => []IdsUnique
<1>1. Init => IdsUnique
    BY DEF Init, IdsUnique
<1> QED
    BY <1>1, InitType, NextType, NextUnique, PTL DEF Spec

-----------------------------------------------------------------------------
(* The fence *)

\* A transaction that passes its comparison does not lower the fence of a shard.
LEMMA FenceRises ==
    ASSUME TypeOK, NEW c \in inflight, Passes(c), PutBoth(c), NEW s \in Shards
    PROVE  kvsAssignment'[s] >= kvsAssignment[s]
<1>1. c.proc[2] \in Shards /\ c.proc[3] \in Nat /\ kvsAssignment \in [Shards -> Nat]
    BY RequestParts DEF TypeOK, EnvTypeOK
<1>2. kvsAssignment[c.proc[2]] <= c.proc[3]
    BY <1>1 DEF Passes
<1> QED
    BY <1>1, <1>2 DEF PutBoth

\* The three transactions of handleCheckpointRequest, in whatever order those of
\* several requests run, only ever raise the fencing token of a shard.
THEOREM FenceMonotone == Spec => FenceOnlyRises
<1>1. TypeOK /\ [Next]_vars
        => [\A s \in Shards : kvsAssignment'[s] >= kvsAssignment[s]]_vars
    <2> SUFFICES ASSUME TypeOK, Next, NEW s \in Shards
                 PROVE  kvsAssignment'[s] >= kvsAssignment[s]
        OBVIOUS
    <2>1. kvsAssignment[s] \in Nat
        BY DEF TypeOK, EnvTypeOK
    <2>2. ASSUME NEW c \in inflight, TxnSucceeds(c) \/ TxnError(c)
          PROVE  kvsAssignment'[s] >= kvsAssignment[s]
        BY <2>1, <2>2, FenceRises DEF TxnSucceeds, TxnError, kvsVars
    <2>3. CASE HandlerStep
        <3>1. UNCHANGED kvsVars
            BY <2>3 DEF HandlerStep, ReleaseWorker, ResolveKnown, ResolveNew,
               ReleaseDone, CloseUnresolved, CloseResolved, CloseDone, AcquireShard,
               RebalanceSteal, AssignFromPool, AcquireDone, AssignDone,
               RebalanceDone, AssignRespond, envVars
        <3> QED
            BY <2>1, <3>1 DEF kvsVars
    <2>4. ASSUME NEW c \in inflight, TxnFails(c) \/ CheckpointUpdate(c) \/ Disconnect(c)
          PROVE  kvsAssignment'[s] >= kvsAssignment[s]
        <3>1. UNCHANGED kvsVars
            BY <2>4 DEF TxnFails, CheckpointUpdate, Disconnect
        <3> QED
            BY <2>1, <3>1 DEF kvsVars
    <2>5. CASE UNCHANGED kvsVars
        BY <2>1, <2>5 DEF kvsVars
    <2> QED
        BY <2>2, <2>3, <2>4, <2>5 DEF Next, CheckpointStep, AssignBegin,
           CheckpointBegin, CheckpointRefused, LoadBegin, LoadCheckpoint, Pass, Discover,
           SetToInService, SetToOutOfService, Tick, envVars
<1> QED
    BY <1>1, InitType, NextType, PTL DEF Spec, FenceOnlyRises

-----------------------------------------------------------------------------
(* The store *)

\* A request comes from a processor that was granted its shard under an id.
GrantInv == /\ \A p \in granted : p[3] > 0
            /\ \A c \in inflight : c.proc \in granted

\* A step of a request changes neither whose it is nor what it says.
LEMMA RequestKept ==
    ASSUME NEW c \in Request, CheckpointStep(c) \/ Disconnect(c), NEW d \in inflight'
    PROVE  d \in inflight \/ (d.proc = c.proc /\ d.sn = c.sn)
<1>1. \/ d \in inflight
      \/ d = [c EXCEPT !.stage = "update"]
      \/ d = [c EXCEPT !.stage = After(@)]
      \/ d = [c EXCEPT !.abandoned = TRUE]
    BY DEF CheckpointStep, TxnSucceeds, TxnFails, TxnError, CheckpointUpdate,
           Disconnect
<1> QED
    BY <1>1 DEF Request

\* Only a response grants a shard, and only a granted processor sends a request.
LEMMA GrantInductive ==
    /\ Init => GrantInv
    /\ TypeOK /\ GrantInv /\ [Next]_vars => GrantInv'
<1>1. Init => GrantInv
    BY DEF Init, GrantInv
<1> SUFFICES ASSUME TypeOK, GrantInv, [Next]_vars PROVE GrantInv'
    BY <1>1
<1>3. CASE UNCHANGED <<granted, inflight>>
    BY <1>3 DEF GrantInv
<1>4. CASE AssignRespond
    <2>1. \A s \in Assigned(h.worker) : assignments[h.worker][s] > 0
        BY <1>4 DEF AssignRespond, Assigned, TypeOK, HandlerTypeOK, InfoTypeOK
    <2> QED
        BY <1>4, <2>1 DEF AssignRespond, GrantInv
<1>5. CASE HandlerStep
    BY <1>3, <1>4, <1>5 DEF HandlerStep, ReleaseWorker, ResolveKnown, ResolveNew,
       ReleaseDone, CloseUnresolved, CloseResolved, CloseDone, AcquireShard,
       RebalanceSteal, AssignFromPool, AcquireDone, AssignDone, RebalanceDone,
       envVars, procVars
<1>6. ASSUME NEW p \in granted, NEW sn \in {"SEQ", "CLOSED"},
             CheckpointBegin(p, sn) \/ CheckpointRefused(p, sn)
      PROVE  GrantInv'
    BY <1>6 DEF CheckpointBegin, CheckpointRefused, GrantInv
<1>7. ASSUME NEW c \in inflight, CheckpointStep(c) \/ Disconnect(c)
      PROVE  GrantInv'
    <2>1. granted' = granted
        BY <1>7 DEF CheckpointStep, TxnSucceeds, TxnFails, TxnError, CheckpointUpdate,
                    Disconnect
    <2>2. c \in Request
        BY DEF TypeOK, EnvTypeOK
    <2>3. \A d \in inflight' : d \in inflight \/ d.proc = c.proc
        BY <1>7, <2>2, RequestKept
    <2> QED
        BY <2>1, <2>3 DEF GrantInv
<1> QED
    BY <1>3, <1>5, <1>6, <1>7 DEF Next, AssignBegin, LoadBegin, LoadCheckpoint,
       Pass, Discover, SetToInService, SetToOutOfService, Tick, vars, envVars, procVars

\* A transaction that changes the two keys of a shard is a fenced write of both.
LEMMA PutIsWrite ==
    ASSUME TypeOK, GrantInv, NEW c \in inflight, Passes(c), PutBoth(c)
    PROVE  Store!Next
<1>1. /\ c.proc[2] \in Shards /\ c.proc[3] \in Nat /\ c.sn # "none"
      /\ kvsAssignment \in [Shards -> Nat]
      /\ kvsCheckpoint \in [Shards -> Checkpoints]
    BY RequestParts DEF TypeOK, EnvTypeOK, Request
<1>2. c.proc[3] > 0
    BY DEF GrantInv
<1>3. kvsAssignment[c.proc[2]] <= c.proc[3]
    BY <1>1, <1>2 DEF Passes
<1>4. kvsAssignment'[c.proc[2]] = c.proc[3] /\ kvsCheckpoint'[c.proc[2]] = c.sn
    BY <1>1 DEF PutBoth
<1>5. Store!Write(c.proc[2], kvsAssignment'[c.proc[2]], kvsCheckpoint'[c.proc[2]])
    BY <1>1, <1>2, <1>3, <1>4 DEF PutBoth, Store!Write
<1> QED
    BY <1>1, <1>5 DEF Store!Next

\* The three transactions implement the store of fenced writes.
THEOREM StoreImplemented == Spec => ImplementsStore
<1>1. Init => Store!Init
    BY DEF Init, Store!Init
<1>2. TypeOK /\ GrantInv /\ [Next]_vars
        => [Store!Next]_<<kvsAssignment, kvsCheckpoint>>
    <2> SUFFICES ASSUME TypeOK, GrantInv, Next
                 PROVE  Store!Next \/ UNCHANGED kvsVars
        BY DEF kvsVars, vars, envVars
    <2>1. ASSUME NEW c \in inflight, TxnSucceeds(c) \/ TxnError(c)
          PROVE  Store!Next \/ UNCHANGED kvsVars
        BY <2>1, PutIsWrite DEF TxnSucceeds, TxnError
    <2>2. CASE HandlerStep
        BY <2>2 DEF HandlerStep, ReleaseWorker, ResolveKnown, ResolveNew,
           ReleaseDone, CloseUnresolved, CloseResolved, CloseDone, AcquireShard,
           RebalanceSteal, AssignFromPool, AcquireDone, AssignDone, RebalanceDone,
           AssignRespond, envVars
    <2>3. ASSUME NEW c \in inflight, TxnFails(c) \/ CheckpointUpdate(c) \/ Disconnect(c)
          PROVE  UNCHANGED kvsVars
        BY <2>3 DEF TxnFails, CheckpointUpdate, Disconnect
    <2> QED
        BY <2>1, <2>2, <2>3 DEF Next, CheckpointStep, AssignBegin, CheckpointBegin,
           CheckpointRefused, LoadBegin, LoadCheckpoint, Pass, Discover, SetToInService,
           SetToOutOfService, Tick, envVars
<1> QED
    BY <1>1, <1>2, InitType, NextType, GrantInductive, PTL
       DEF Spec, ImplementsStore, Store!Spec
=============================================================================
