------------------------- MODULE ManagerClosingProofs -------------------------
(***************************************************************************)
(* What is proved of Manager when shards are split and merged, for every   *)
(* value of its constants: any tree of shards, any number of workers,      *)
(* requests and terms.  The code promises less here, and the theorems say  *)
(* under which of two conditions each promise is kept:                     *)
(*                                                                         *)
(*   NoticedStay   no worker leaves between its CLOSED and the request in  *)
(*                 which processClosedShards sees it;                      *)
(*   LastWord      a processor reports the end of its shard when its       *)
(*                 earlier requests are over, abandoned ones included.     *)
(***************************************************************************)
EXTENDS ManagerPlacementProofs

NoticedStay == \A n \in ToSet(closed) : n.info # NoInfo => n.info \in Registered
LastWord == \A c \in inflight : c.sn = "SEQ" => c.proc \notin closing

\* What is proved of every state, whether or not shards close.
Base == ManagerInv /\ FenceInv /\ IdsUnique

LEMMA BaseInvariant == Spec => []Base
    BY ManagerInvariant, FenceInvariant, UniqueAssignmentIds, PTL DEF Base

\* The parts of it that most steps need.
LEMMA BaseParts ==
    ASSUME Base
    PROVE  /\ Known /\ TypeOK /\ BookInv /\ WhoInv /\ TreeInv /\ ClosedInv
           /\ IdsUnique /\ GrantsInv /\ GrantInv /\ TokenInv
    BY DEF Base, ManagerInv, Known, BookInv, FenceInv

-----------------------------------------------------------------------------
(* Whose processor it is *)

\* An id is that of one processor, and of the worker whose info has the assignment,
\* also when the worker has left.
ProcessorsInv ==
    /\ \A p \in granted : \A i \in Infos :
          assignments[i][p[2]] = p[3] => workerID[i] = p[1]
    /\ \A p, q \in granted : p[2] = q[2] /\ p[3] = q[3] => p = q

\* An info stays that of its worker as long as it has assignments.
LEMMA WorkerIDKept ==
    ASSUME TypeOK, [Next]_vars, NEW i \in Infos, Assigned(i)' # {}
    PROVE  workerID'[i] = workerID[i]
<1>1. ASSUME NEW j \in Infos, ResolveNew(j)
      PROVE  workerID'[i] = workerID[i]
    <2>1. i # j
        BY <1>1 DEF ResolveNew, Assigned, TypeOK, InfoTypeOK
    <2> QED
        BY <1>1, <2>1 DEF ResolveNew, TypeOK, InfoTypeOK
<1>2. CASE HandlerStep
    BY <1>1, <1>2 DEF HandlerStep, ReleaseWorker, ResolveKnown, ReleaseDone,
       CloseUnresolved, CloseResolved, CloseDone, AcquireShard, RebalanceSteal,
       AssignFromPool, AcquireDone, AssignDone, RebalanceDone, AssignRespond, infoVars
<1> QED
    BY <1>2 DEF Next, vars, infoVars, AssignBegin, CheckpointBegin, CheckpointRefused,
       CheckpointStep, TxnSucceeds, TxnFails, TxnError, CheckpointUpdate, Disconnect,
       LoadBegin, LoadCheckpoint, Pass, Discover, SetToInService, SetToOutOfService, Tick

\* What a response grants are assignments of the info of the worker that asked.
LEMMA RespondsTo ==
    ASSUME Base, AssignRespond, NEW p \in granted', p \notin granted
    PROVE  /\ h.worker \in Registered /\ h.worker \in Infos
           /\ p[2] \in Assigned(h.worker) /\ p[3] = assignments[h.worker][p[2]]
           /\ p = <<h.WorkerID, p[2], p[3]>> /\ workerID[h.worker] = h.WorkerID
           /\ checkpoints[p[2]] # "CLOSED"
<1>1. h.worker \in Registered /\ h.worker \in Infos
    BY BaseParts, HandlerRegistered DEF AssignRespond
<1>2. workers[h.WorkerID] = h.worker /\ h.WorkerID \in Workers
    BY BaseParts DEF WhoInv, AssignRespond, TypeOK, HandlerTypeOK, HandlerType
<1>3. PICK s \in Assigned(h.worker) \cap Readable :
         p = <<h.WorkerID, s, assignments[h.worker][s]>>
    BY DEF AssignRespond
<1> QED
    BY <1>1, <1>2, <1>3, BaseParts DEF WhoInv, Readable

\* An assignment whose id a processor has was there before.
LEMMA GrantedAssignment ==
    ASSUME Base, [Next]_vars, NEW p \in granted, NEW i \in Infos,
           assignments'[i][p[2]] = p[3]
    PROVE  assignments[i][p[2]] = p[3] /\ p[2] \in Assigned(i)' /\ p[2] \in Assigned(i)
<1>1. p[2] \in Shards /\ p[3] \in Nat /\ p[3] # 0 /\ p[3] < NextAssignmentID
    BY BaseParts DEF GrantInv, GrantsInv, TypeOK, EnvTypeOK, Processors
<1>2. p[2] \in Assigned(i)'
    BY <1>1 DEF Assigned
<1>3. NextAssignmentID \in Nat
    BY BaseParts, NextIDType
<1> QED
    BY <1>1, <1>2, <1>3, AssignedBy, BaseParts DEF Assigned

\* The first response that has an id grants it, to the worker that has the assignment.
LEMMA ProcessorsInductive ==
    /\ Init => ProcessorsInv
    /\ Base /\ ProcessorsInv /\ [Next]_vars => ProcessorsInv'
<1>1. Init => ProcessorsInv
    BY DEF Init, ProcessorsInv
<1> SUFFICES ASSUME Base, ProcessorsInv, [Next]_vars PROVE ProcessorsInv'
    BY <1>1
<1>2. ASSUME NEW p \in granted', NEW i \in Infos, assignments'[i][p[2]] = p[3]
      PROVE  workerID'[i] = p[1]
    <2>1. CASE p \in granted
        BY <1>2, <2>1, GrantedAssignment, WorkerIDKept, BaseParts DEF ProcessorsInv
    <2>2. CASE p \notin granted
        <3>1. AssignRespond
            BY <2>2, GrantedBy
        <3>2. /\ h.worker \in Infos /\ p[2] \in Assigned(h.worker)
              /\ p[3] = assignments[h.worker][p[2]] /\ workerID[h.worker] = p[1]
            BY <2>2, <3>1, RespondsTo
        <3>3. UNCHANGED <<assignments, workerID>>
            BY <3>1 DEF AssignRespond, infoVars
        <3>4. i = h.worker
            BY <1>2, <3>2, <3>3, BaseParts DEF IdsUnique, Assigned
        <3> QED
            BY <3>2, <3>3, <3>4
    <2> QED
        BY <2>1, <2>2
<1>3. ASSUME NEW p \in granted', NEW q \in granted', p[2] = q[2], p[3] = q[3]
      PROVE  p = q
    <2>1. CASE p \in granted /\ q \in granted
        BY <1>3, <2>1 DEF ProcessorsInv
    <2>2. CASE p \notin granted \/ q \notin granted
        <3>1. AssignRespond
            BY <2>2, GrantedBy
        <3>2. \A r \in granted' : r \in Processors
            BY BaseParts, NextType DEF TypeOK, EnvTypeOK
        <3>3. ASSUME NEW r \in granted', NEW o \in granted', r[2] = o[2], r[3] = o[3],
                     r \notin granted
              PROVE  r[1] = o[1]
            <4>1. /\ h.worker \in Infos /\ r[3] = assignments[h.worker][r[2]]
                  /\ r[1] = workerID[h.worker]
                BY <3>1, <3>3, RespondsTo
            <4>2. CASE o \in granted
                BY <3>3, <4>1, <4>2 DEF ProcessorsInv
            <4>3. CASE o \notin granted
                BY <3>1, <4>1, <4>3, RespondsTo
            <4> QED
                BY <4>2, <4>3
        <3> QED
            BY <1>3, <2>2, <3>2, <3>3 DEF Processors
    <2> QED
        BY <2>1, <2>2
<1> QED
    BY <1>2, <1>3 DEF ProcessorsInv

\* A processor that is not the owner's does not become it.
LEMMA OwnsKept ==
    ASSUME Base, ProcessorsInv, [Next]_vars, NEW p \in granted, Owns(p[1], p[2], p[3])'
    PROVE  Owns(p[1], p[2], p[3])
<1>1. /\ p[1] \in Workers /\ workers \in [Workers -> Infos \cup {NoInfo}]
      /\ workers' \in [Workers -> Infos \cup {NoInfo}]
    BY BaseParts, NextType DEF TypeOK, MgrTypeOK, EnvTypeOK, Processors
<1>2. PICK i \in Infos : workers'[p[1]] = i /\ assignments'[i][p[2]] = p[3]
    BY <1>1 DEF Owns
<1>3. /\ assignments[i][p[2]] = p[3] /\ p[2] \in Assigned(i)'
    BY <1>2, GrantedAssignment
<1>4. i \in Registered
    BY <1>1, <1>2, <1>3, RegisteredBy, BaseParts DEF Registered
<1>5. workerID[i] = p[1]
    BY <1>3 DEF ProcessorsInv
<1>6. workers[p[1]] = i
    BY <1>4, <1>5, BaseParts DEF WhoInv, Registered
<1> QED
    BY <1>2, <1>3, <1>6, NilAssumption DEF Owns

-----------------------------------------------------------------------------
(* Close notifications *)

\* Only a worker that sent CLOSED is told of in a notification, once memory has it; what
\* is put off to the next request tells of nobody.
NoticesInv ==
    /\ \A n \in ToSet(closed) : n.info # NoInfo => checkpoints[n.shard] = "CLOSED"
    /\ \A n \in ToSet(h.unresolved) : n.info = NoInfo
    /\ pc # "closed" => h.unresolved = <<>>

\* A processor that the manager still holds for the owner of a closed shard is the one
\* that closed it, and a request that says CLOSED is of a processor that did.
ClosersInv ==
    /\ \A p \in granted :
          checkpoints[p[2]] = "CLOSED" /\ Owns(p[1], p[2], p[3]) => p \in closing
    /\ \A c \in inflight : c.sn = "CLOSED" => c.proc \in closing

\* One notification.
LEMMA SetOfOne ==
    ASSUME NEW S, NEW x \in S
    PROVE  <<x>> \in Seq(S) /\ ToSet(<<x>>) = {x}
<1>1. <<x>> \in Seq(S) /\ Len(<<x>>) = 1 /\ <<x>>[1] = x
    OBVIOUS
<1>2. \A y : y \in ToSet(<<x>>) <=> \E k \in 1..Len(<<x>>) : y = <<x>>[k]
    BY <1>1, SetOfSequence
<1>3. 1..Len(<<x>>) = {1}
    BY <1>1
<1> QED
    BY <1>1, <1>2, <1>3

\* Another notification.
LEMMA SetOfAppend ==
    ASSUME NEW S, NEW seq \in Seq(S), NEW x \in S
    PROVE  ToSet(Append(seq, x)) = ToSet(seq) \cup {x}
<1>1. Append(seq, x) = seq \o <<x>>
    OBVIOUS
<1>2. <<x>> \in Seq(S) /\ ToSet(<<x>>) = {x}
    BY SetOfOne
<1>3. ToSet(seq \o <<x>>) = ToSet(seq) \cup ToSet(<<x>>)
    BY <1>2, SetOfConcat
<1> QED
    BY <1>1, <1>2, <1>3

\* The notifications SetToInService and processClosedShards make.
LEMMA NotifySet ==
    ASSUME NEW order \in Seq(Shards)
    PROVE  /\ Notify(order) \in Seq(Notification)
           /\ ToSet(Notify(order)) = {[shard |-> s, info |-> NoInfo] : s \in ToSet(order)}
<1>1. /\ Notify(order) = [k \in 1..Len(order) |-> [shard |-> order[k], info |-> NoInfo]]
      /\ Notify(order) \in Seq(Notification) /\ Len(order) \in Nat
    BY NotifyType DEF Notify
<1>2. Len(Notify(order)) = Len(order)
    BY <1>1
<1>3. \A n : n \in ToSet(Notify(order)) <=> \E k \in 1..Len(order) :
                                                n = [shard |-> order[k], info |-> NoInfo]
    <2>1. \A n : n \in ToSet(Notify(order)) <=>
                    \E k \in 1..Len(Notify(order)) : n = Notify(order)[k]
        BY <1>1, SetOfSequence
    <2> QED
        BY <1>1, <1>2, <2>1
<1>4. \A s : s \in ToSet(order) <=> \E k \in 1..Len(order) : s = order[k]
    BY SetOfSequence
<1> QED
    BY <1>1, <1>3, <1>4

\* An iteration of processClosedShards takes the first notification; what it adds tells
\* of children that are closed themselves.
LEMMA CloseStep ==
    ASSUME TypeOK, CloseUnresolved \/ CloseResolved, NEW n, n = Head(closed)
    PROVE  /\ n \in Notification /\ n \in ToSet(closed) /\ n.shard \in Shards
           /\ SettleOwner(n) /\ pc = "closed" /\ pc' = "closed"
           /\ UNCHANGED <<workers, offer, inService>>
           /\ ToSet(closed) = {n} \cup ToSet(Tail(closed))
<1>1. closed # <<>> /\ closed \in Seq(Notification)
    BY DEF CloseUnresolved, CloseResolved, TypeOK, MgrTypeOK
<1>2. n \in Notification /\ ToSet(closed) = {n} \cup ToSet(Tail(closed))
    BY <1>1, SetOfTail
<1>3. n.shard \in Shards
    BY <1>2 DEF Notification
<1> QED
    BY <1>2, <1>3 DEF CloseUnresolved, CloseResolved

\* The iteration for a shard with no children puts it off.
LEMMA PutsOff ==
    ASSUME TypeOK, CloseUnresolved, NEW n, n = Head(closed)
    PROVE  /\ Children(n.shard) = {} /\ liveShards' = Settled(n)
           /\ UNCHANGED <<checkpoints, unassignedShards>>
           /\ ToSet(closed) = {n} \cup ToSet(closed')
           /\ ToSet(h'.unresolved) = ToSet(h.unresolved)
                                        \cup {[shard |-> n.shard, info |-> NoInfo]}
<1>1. /\ n \in Notification /\ n.shard \in Shards
      /\ ToSet(closed) = {n} \cup ToSet(Tail(closed))
    BY CloseStep
<1>2. <<n.shard>> \in Seq(Shards) /\ ToSet(<<n.shard>>) = {n.shard}
    BY <1>1, SetOfOne
<1>3. /\ h.unresolved \in Seq(Notification) /\ Notify(<<n.shard>>) \in Seq(Notification)
      /\ ToSet(Notify(<<n.shard>>)) = {[shard |-> n.shard, info |-> NoInfo]}
    BY <1>2, NotifySet DEF TypeOK, HandlerTypeOK, HandlerType
<1>4. h'.unresolved = h.unresolved \o Notify(<<n.shard>>)
    BY DEF CloseUnresolved, TypeOK, HandlerTypeOK, HandlerType
<1> QED
    BY <1>1, <1>3, <1>4, SetOfConcat DEF CloseUnresolved

\* The iteration for a shard with children starts the ones that can be, and puts them
\* in the pool; those that are closed are taken for closed shards.
LEMMA Starts ==
    ASSUME TypeOK, CloseResolved, NEW n, n = Head(closed)
    PROVE  /\ Children(n.shard) # {} /\ liveShards' = Settled(n) \cup Starting(n)
           /\ Starting(n) \subseteq Shards /\ Ready(n.shard) \subseteq Children(n.shard)
           /\ ToSet(closed) = {n} \cup ToSet(Tail(closed)) /\ h' = h
           /\ ToSet(closed') = ToSet(Tail(closed)) \cup
                 {[shard |-> c, info |-> NoInfo] : c \in Ready(n.shard) \ Starting(n)}
           /\ ToSet(unassignedShards') = ToSet(unassignedShards) \cup Starting(n)
           /\ Injective(unassignedShards) /\ Starting(n) \cap ToSet(unassignedShards) = {}
                => Injective(unassignedShards')
           /\ \A s \in Shards : checkpoints'[s] =
                 IF s \in Starting(n) /\ checkpoints[s] = "none" THEN "LATEST"
                 ELSE checkpoints[s]
<1>1. /\ n \in Notification /\ n.shard \in Shards /\ closed \in Seq(Notification)
      /\ ToSet(closed) = {n} \cup ToSet(Tail(closed)) /\ closed # <<>>
    BY CloseStep DEF TypeOK, MgrTypeOK, CloseResolved
<1>2. /\ Starting(n) \in SUBSET Shards /\ Ready(n.shard) \ Starting(n) \in SUBSET Shards
      /\ Ready(n.shard) \subseteq Children(n.shard)
    BY DEF Starting, Ready, Children
<1>3. PICK a \in SetToSeqs(Starting(n)), b \in SetToSeqs(Ready(n.shard) \ Starting(n)) :
         /\ unassignedShards' = unassignedShards \o a
         /\ closed' = Tail(closed) \o Notify(b)
    BY DEF CloseResolved
<1>4. /\ a \in Seq(Shards) /\ ToSet(a) = Starting(n) /\ Injective(a)
      /\ b \in Seq(Shards) /\ ToSet(b) = Ready(n.shard) \ Starting(n)
    BY <1>2, <1>3, SetOfOrder
<1>5. /\ unassignedShards \in Seq(Shards) /\ Tail(closed) \in Seq(Notification)
      /\ Notify(b) \in Seq(Notification)
      /\ ToSet(Notify(b)) = {[shard |-> c, info |-> NoInfo] : c \in ToSet(b)}
    BY <1>1, <1>4, NotifySet DEF TypeOK, MgrTypeOK
<1>6. /\ ToSet(unassignedShards') = ToSet(unassignedShards) \cup Starting(n)
      /\ Injective(unassignedShards) /\ Starting(n) \cap ToSet(unassignedShards) = {}
            => Injective(unassignedShards')
    BY <1>3, <1>4, <1>5, SetOfConcat
<1>7. ToSet(closed') = ToSet(Tail(closed)) \cup ToSet(Notify(b))
    <2>1. Tail(closed) \in Seq(Notification) /\ Notify(b) \in Seq(Notification)
        BY <1>5
    <2>2. ASSUME NEW t \in Seq(Notification), NEW u \in Seq(Notification)
          PROVE  ToSet(t \o u) = ToSet(t) \cup ToSet(u)
        BY ONLY <2>2, SetOfConcat
    <2>3. ToSet(Tail(closed) \o Notify(b)) = ToSet(Tail(closed)) \cup ToSet(Notify(b))
        BY ONLY <2>1, <2>2
    <2>4. closed' = Tail(closed) \o Notify(b)
        BY <1>3
    <2> QED
        BY ONLY <2>3, <2>4
<1>8. \A s \in Shards : checkpoints'[s] =
                 IF s \in Starting(n) /\ checkpoints[s] = "none" THEN "LATEST"
                 ELSE checkpoints[s]
    BY DEF CloseResolved
<1> QED
    BY <1>1, <1>2, <1>4, <1>5, <1>6, <1>7, <1>8 DEF CloseResolved

\* The other parts of the handler leave the notifications alone, but for CloseDone that
\* keeps those that could not be resolved for the next request.
LEMMA HandlerNotices ==
    ASSUME TypeOK, NoticesInv, HandlerStep, ~CloseUnresolved, ~CloseResolved
    PROVE  /\ checkpoints' = checkpoints
           /\ \/ /\ CloseDone /\ pc' # "closed" /\ closed = <<>>
                 /\ closed' = h.unresolved /\ h'.unresolved = <<>>
              \/ /\ closed' = closed /\ h'.unresolved = h.unresolved
                 /\ h.unresolved = <<>>
<1>0. NoRequest.unresolved = <<>> /\ NoticesInv
    BY DEF NoRequest
<1>1. ASSUME NEW i \in Infos, ResolveKnown(i) \/ ResolveNew(i)
      PROVE  /\ UNCHANGED <<closed, checkpoints>> /\ h.unresolved = <<>>
             /\ h'.unresolved = <<>>
    BY <1>0, <1>1 DEF ResolveKnown, ResolveNew, Continue, mgrVars, TypeOK,
       HandlerTypeOK, HandlerType, NoticesInv
<1>2. ASSUME NEW i \in Infos, ReleaseWorker(i)
      PROVE  UNCHANGED <<closed, checkpoints>> /\ h'.unresolved = h.unresolved
             /\ h.unresolved = <<>>
    BY <1>2 DEF ReleaseWorker, TypeOK, HandlerTypeOK, HandlerType, NoticesInv
<1>3. ASSUME NEW s \in Shards, AssignFromPool(s) \/ \E i \in Infos : AcquireShard(i, s)
      PROVE  UNCHANGED <<closed, checkpoints>> /\ h'.unresolved = h.unresolved
             /\ h.unresolved = <<>>
    BY <1>3 DEF AssignFromPool, AcquireShard, TypeOK, HandlerTypeOK, HandlerType,
       NoticesInv
<1>4. ASSUME CloseDone
      PROVE  /\ closed' = h.unresolved /\ h'.unresolved = <<>> /\ closed = <<>>
             /\ checkpoints' = checkpoints /\ pc' # "closed"
    BY <1>4 DEF CloseDone, TypeOK, HandlerTypeOK, HandlerType
<1>5. ASSUME AssignRespond
      PROVE  UNCHANGED <<closed, checkpoints>> /\ h.unresolved = <<>>
             /\ h'.unresolved = <<>>
    BY <1>0, <1>5 DEF AssignRespond, mgrVars, NoticesInv
<1>6. ASSUME \/ ReleaseDone \/ AcquireDone \/ AssignDone \/ RebalanceDone
             \/ \E i \in Infos, s \in Shards : RebalanceSteal(i, s)
      PROVE  UNCHANGED <<closed, checkpoints, h>> /\ h.unresolved = <<>>
    BY <1>6 DEF ReleaseDone, AcquireDone, AssignDone, RebalanceDone, RebalanceSteal,
       mgrVars, NoticesInv
<1> QED
    BY <1>1, <1>2, <1>3, <1>4, <1>5, <1>6 DEF HandlerStep

\* What is closed in memory stays so for the term: the processor of the owner has said
\* its last word, and nobody else's position is taken.
LEMMA ClosedStays ==
    ASSUME Base, ClosersInv, LastWord, [Next]_vars, \A t \in Terms : ~SetToInService(t),
           NEW s \in Shards, checkpoints[s] = "CLOSED"
    PROVE  checkpoints'[s] = "CLOSED"
<1>1. CASE HandlerStep
    <2>1. ASSUME CloseResolved
          PROVE  checkpoints'[s] = "CLOSED"
        <3> DEFINE n == Head(closed)
        <3>1. checkpoints' = [t \in Shards |->
                 IF t \in Starting(n) /\ checkpoints[t] = "none" THEN "LATEST"
                 ELSE checkpoints[t]]
            BY <2>1 DEF CloseResolved
        <3> HIDE DEF n
        <3> QED
            BY <3>1
    <2> QED
        BY <1>1, <2>1 DEF HandlerStep, ReleaseWorker, ResolveKnown, ResolveNew,
           ReleaseDone, CloseUnresolved, CloseDone, AcquireShard, RebalanceSteal,
           AssignFromPool, AcquireDone, AssignDone, RebalanceDone, AssignRespond, mgrVars
<1>2. ASSUME NEW c \in inflight, CheckpointUpdate(c)
      PROVE  checkpoints'[s] = "CLOSED"
    <2>1. /\ c \in Request /\ c.proc \in granted /\ checkpoints \in [Shards -> Checkpoints]
          /\ c.sn \in {"SEQ", "CLOSED"} /\ c.proc[2] \in Shards
        BY RequestParts, BaseParts DEF GrantInv, TypeOK, MgrTypeOK, Request
    <2>2. CASE c.proc[2] = s /\ Owns(c.proc[1], s, c.proc[3])
        <3>1. c.proc \in closing
            BY <2>1, <2>2 DEF ClosersInv
        <3>2. c.sn = "CLOSED"
            BY <2>1, <3>1 DEF LastWord
        <3> QED
            BY <1>2, <2>1, <2>2, <3>2 DEF CheckpointUpdate
    <2>3. CASE ~(c.proc[2] = s /\ Owns(c.proc[1], s, c.proc[3]))
        BY <1>2, <2>1, <2>3 DEF CheckpointUpdate
    <2> QED
        BY <2>2, <2>3
<1> QED
    BY <1>1, <1>2 DEF Next, vars, mgrVars, AssignBegin, CheckpointBegin,
       CheckpointRefused, CheckpointStep, TxnSucceeds, TxnFails, TxnError, Disconnect,
       LoadBegin, LoadCheckpoint, Pass, Discover, SetToOutOfService, Tick

-----------------------------------------------------------------------------
(* What is handed out *)

\* Where the manager of this term has put a shard.
Handed(s) == \/ s \in ToSet(unassignedShards)
             \/ \E i \in Registered : s \in Assigned(i) \cup Offered(i)
\* It put only live shards there, and what has been closed since.
HandedInv ==
    \A s \in Shards : Handed(s) => s \in liveShards \/ checkpoints[s] = "CLOSED"

\* No part of the handler but processClosedShards hands out another shard.
LEMMA MovesHanded ==
    ASSUME Known, SoleInv, HandlerStep, ~CloseUnresolved, ~CloseResolved,
           NEW s, Handed(s)'
    PROVE  Handed(s) /\ liveShards' = liveShards
<1> USE DEF Known, TypeOK
<1>0. unassignedShards \in Seq(Shards) /\ Registered \subseteq Infos
    BY DEF MgrTypeOK, Registered
<1>1. ASSUME NEW i \in Infos, ReleaseWorker(i)
      PROVE  Handed(s)
    <2> DEFINE own == Active(i) \ h.released
               offered == Offered(i) \ (h.released \cup own)
    <2>1. PICK a \in SetToSeqs(own), b \in SetToSeqs(offered) :
             unassignedShards' = unassignedShards \o a \o b
        BY <1>1 DEF ReleaseWorker
    <2>2. own \in SUBSET Shards /\ offered \in SUBSET Shards
        BY DEF Active, Assigned, Offered, InfoTypeOK
    <2>3. own \subseteq Assigned(i) /\ offered \subseteq Offered(i) /\ i \in Registered
        BY <1>1 DEF Active, ReleaseWorker, Expired
    <2> HIDE DEF own, offered
    <2>4. ToSet(unassignedShards') = ToSet(unassignedShards) \cup own \cup offered
        <3>1. /\ a \in Seq(Shards) /\ ToSet(a) = own
              /\ b \in Seq(Shards) /\ ToSet(b) = offered
            BY <2>1, <2>2, SetOfOrder
        <3> QED
            BY <1>0, <2>1, <3>1, SetOfTwoConcats
    <2>5. \A j \in Infos : Assigned(j)' \subseteq Assigned(j) /\ Offered(j)' = Offered(j)
        BY <1>1 DEF ReleaseWorker, Assigned, Offered, InfoTypeOK
    <2>6. Registered' \subseteq Registered
        BY <1>1, <2>3, Unregister DEF ReleaseWorker, BookInv
    <2> QED
        BY <1>0, <2>3, <2>4, <2>5, <2>6 DEF Handed
<1>2. ASSUME NEW i \in Infos, ResolveNew(i)
      PROVE  Handed(s)
    <2>1. \A j \in Registered' : j = i \/ j \in Registered
        BY <1>2 DEF ResolveNew, Registered, HandlerTypeOK, HandlerType, MgrTypeOK
    <2>2. Assigned(i)' = {} /\ Offered(i)' = {}
        BY <1>2 DEF ResolveNew, Assigned, Offered, InfoTypeOK
    <2>3. \A j \in Infos : j # i => Assigned(j)' = Assigned(j) /\ Offered(j)' = Offered(j)
        BY <1>2 DEF ResolveNew, Assigned, Offered, InfoTypeOK
    <2>4. unassignedShards' = unassignedShards
        BY <1>2 DEF ResolveNew
    <2> QED
        BY <1>0, <2>1, <2>2, <2>3, <2>4 DEF Handed
<1>3. ASSUME NEW i \in Infos, NEW t \in Shards, AcquireShard(i, t)
      PROVE  Handed(s)
    <2>1. h.worker \in Registered /\ t \in Offered(h.worker)
        BY <1>3, HandlerRegistered DEF AcquireShard, Offered
    <2>2. /\ UNCHANGED <<unassignedShards, workers>> /\ AssignShard(t, i)
          /\ offer' = [offer EXCEPT ![h.worker] = @ \ {<<i, t>>}]
        BY <1>3 DEF AcquireShard
    <2>3. \A j \in Infos : Offered(j)' \subseteq Offered(j)
        BY <2>2 DEF Offered, InfoTypeOK
    <2>4. \A j \in Infos : Assigned(j)' \subseteq Assigned(j) \cup {t}
        BY <2>2, AssignShardPlaces
    <2>5. Registered' = Registered
        BY <2>2 DEF Registered
    <2> QED
        BY <1>0, <2>1, <2>2, <2>3, <2>4, <2>5 DEF Handed
<1>4. ASSUME NEW t \in Shards, AssignFromPool(t)
      PROVE  Handed(s)
    <2>1. /\ AssignShard(t, NoInfo) /\ UNCHANGED <<offer, workers>>
          /\ unassignedShards # <<>> /\ t = Head(unassignedShards)
          /\ unassignedShards' = Tail(unassignedShards)
        BY <1>4 DEF AssignFromPool
    <2>2. ToSet(unassignedShards) = {t} \cup ToSet(unassignedShards')
        BY <1>0, <2>1, SetOfTail
    <2>3. \A j \in Infos : Assigned(j)' \subseteq Assigned(j) \cup {t}
        BY <2>1, AssignShardPlaces
    <2>4. Registered' = Registered /\ \A j : Offered(j)' = Offered(j)
        BY <2>1 DEF Registered, Offered
    <2> QED
        BY <1>0, <2>2, <2>3, <2>4 DEF Handed
<1>5. ASSUME NEW i \in Infos, NEW t \in Shards, RebalanceSteal(i, t)
      PROVE  Handed(s)
    <2>1. /\ t \in Assigned(i) /\ i \in Registered
          /\ UNCHANGED <<unassignedShards, assignments, workers>>
        BY <1>5 DEF RebalanceSteal, Active, Tops, SoleInv, HeapKnown
    <2>2. h.worker \in Infos /\ offer' = [offer EXCEPT ![h.worker] = @ \cup {<<i, t>>}]
        BY <1>5, HandlerRegistered DEF RebalanceSteal
    <2>3. \A j \in Infos : \A p \in offer'[j] : p \in offer[j] \/ p = <<i, t>>
        BY <2>2 DEF InfoTypeOK
    <2>4. \A j \in Infos : Offered(j)' \subseteq Offered(j) \cup {t}
        BY <2>3 DEF Offered
    <2>5. Registered' = Registered /\ \A j : Assigned(j)' = Assigned(j)
        BY <2>1 DEF Registered, Assigned
    <2> QED
        BY <1>0, <2>1, <2>4, <2>5 DEF Handed
<1>6. ASSUME UNCHANGED <<unassignedShards, assignments, offer, workers>>
      PROVE  Handed(s)
    BY <1>6 DEF Handed, Registered, Assigned, Offered
<1>7. liveShards' = liveShards
    BY DEF HandlerStep, ReleaseWorker, ResolveKnown, ResolveNew, ReleaseDone, CloseDone,
       AcquireShard, RebalanceSteal, AssignFromPool, AcquireDone, AssignDone,
       RebalanceDone, AssignRespond, mgrVars
<1> QED
    BY <1>1, <1>2, <1>3, <1>4, <1>5, <1>6, <1>7 DEF HandlerStep, ResolveKnown,
       ReleaseDone, CloseDone, AcquireDone, AssignDone, RebalanceDone, AssignRespond,
       mgrVars, infoVars

\* The owner that gives up a closed shard is registered, so the heap gets no other.
LEMMA SettleSole ==
    ASSUME TypeOK, SoleInv, NEW n \in Notification, SettleOwner(n),
           UNCHANGED <<workers, offer>>, n.info # NoInfo => n.info \in Registered
    PROVE  /\ OffersAlone' /\ OffersOfOwner' /\ ExclusiveAssignment' /\ HeapKnown'
           /\ \A i \in Registered : Assigned(i)' \subseteq Assigned(i)
           /\ Registered' = Registered /\ \A i : Offered(i)' = Offered(i)
<1>1. Registered' = Registered /\ Registered \subseteq Infos
      /\ \A i : Offered(i)' = Offered(i)
    BY DEF Registered, Offered
<1>2. \A i \in Registered : Assigned(i)' \subseteq Assigned(i)
    BY <1>1, SettleAssigned
<1>3. \A i \in Registered : Active(i)' \subseteq Active(i)
    <2>1. CASE n.info = NoInfo
        BY <2>1 DEF SettleOwner, Active, Assigned
    <2>2. CASE n.info # NoInfo
        <3>1. n.info \in Infos /\ n.shard \in Shards
            BY <2>2 DEF Notification
        <3>2. /\ assignments' = [assignments EXCEPT ![n.info][n.shard] = 0]
              /\ requested' = [requested EXCEPT ![n.info] = @ \ {n.shard}]
            BY <2>2 DEF SettleOwner
        <3>3. n.shard \notin Assigned(n.info)'
            BY <3>1, <3>2 DEF Assigned, TypeOK, InfoTypeOK
        <3>4. \A i \in Infos : \A s \in Shards :
                 i # n.info \/ s # n.shard =>
                    (s \in requested[i] => s \in requested'[i])
            BY <3>1, <3>2 DEF TypeOK, InfoTypeOK
        <3>5. ASSUME NEW i \in Registered, NEW s \in Active(i)'
              PROVE  s \in Active(i)
            <4>1. s \in Shards /\ s \in Assigned(i) /\ s \in Assigned(i)'
                  /\ s \notin requested'[i]
                BY <1>2 DEF Active, Assigned
            <4>2. i # n.info \/ s # n.shard
                BY <3>3, <4>1
            <4> QED
                BY <1>1, <3>4, <4>1, <4>2 DEF Active
        <3> QED
            BY <3>5
    <2> QED
        BY <2>1, <2>2
<1>4. HeapKnown'
    BY <1>1 DEF SettleOwner, LoseActive, Push, SoleInv, HeapKnown
<1>5. OffersAlone'
    BY <1>1, <1>3 DEF SoleInv, OffersAlone
<1>6. OffersOfOwner' /\ ExclusiveAssignment'
    BY <1>1, <1>2 DEF SoleInv, OffersOfOwner, ExclusiveAssignment
<1> QED
    BY <1>1, <1>2, <1>4, <1>5, <1>6

\* Ownership while shards close, with what it rests on.
OwnedInv == SoleInv /\ HandedInv /\ NoticesInv /\ ClosersInv /\ ProcessorsInv

\* A child that starts was nowhere: processClosedShards puts it in the pool once, not
\* even a second time for the notification of its other parent.
LEMMA StartsNowhere ==
    ASSUME TypeOK, HandedInv, NoticesInv, CloseResolved, NEW n, n = Head(closed),
           NEW s \in Starting(n)
    PROVE  ~Handed(s)
<1>1. n \in Notification /\ n \in ToSet(closed) /\ s \in Shards
    BY CloseStep, Starts
<1>2. /\ checkpoints[s] # "CLOSED" /\ s \notin Settled(n)
      /\ n.info # NoInfo => checkpoints[n.shard] = "CLOSED"
    BY <1>1 DEF Starting, NoticesInv
<1> QED
    BY <1>1, <1>2 DEF HandedInv, Settled

\* processClosedShards keeps each shard with at most one worker.
LEMMA CloseSole ==
    ASSUME Base, OwnedInv, NoticedStay, CloseUnresolved \/ CloseResolved
    PROVE  SoleInv'
<1>1. PICK n : n = Head(closed)
    OBVIOUS
<1>2. /\ n \in Notification /\ n \in ToSet(closed) /\ SettleOwner(n)
      /\ UNCHANGED <<workers, offer>> /\ TypeOK /\ SoleInv
    BY <1>1, BaseParts, CloseStep DEF OwnedInv
<1>3. n.info # NoInfo => n.info \in Registered
    BY <1>2 DEF NoticedStay
<1>4. /\ OffersAlone' /\ OffersOfOwner' /\ ExclusiveAssignment' /\ HeapKnown'
      /\ \A i \in Registered : Assigned(i)' \subseteq Assigned(i)
      /\ Registered' = Registered /\ \A i : Offered(i)' = Offered(i)
    BY <1>2, <1>3, SettleSole
<1>5. CASE CloseUnresolved
    <2>1. unassignedShards' = unassignedShards
        BY <1>1, <1>2, <1>5, PutsOff
    <2>2. PoolAlone'
        BY <1>2, <1>4, <2>1 DEF SoleInv, PoolAlone
    <2> QED
        BY <1>4, <2>2 DEF SoleInv
<1>6. CASE CloseResolved
    <2>1. /\ ToSet(unassignedShards') = ToSet(unassignedShards) \cup Starting(n)
          /\ Injective(unassignedShards) /\ Starting(n) \cap ToSet(unassignedShards) = {}
                => Injective(unassignedShards')
        BY <1>1, <1>2, <1>6, Starts
    <2>2. \A s \in Starting(n) : ~Handed(s)
        BY <1>1, <1>2, <1>6, StartsNowhere DEF OwnedInv
    <2>3. PoolAlone'
        <3>1. Injective(unassignedShards')
            BY <1>2, <2>1, <2>2 DEF SoleInv, PoolAlone, Handed
        <3>2. ASSUME NEW i \in Registered
              PROVE  /\ Assigned(i)' \cap ToSet(unassignedShards') = {}
                     /\ Offered(i)' \cap ToSet(unassignedShards') = {}
            BY <1>2, <1>4, <2>1, <2>2 DEF SoleInv, PoolAlone, Handed
        <3> QED
            BY <1>4, <3>1, <3>2 DEF PoolAlone
    <2> QED
        BY <1>4, <2>3 DEF SoleInv
<1> QED
    BY <1>5, <1>6

\* It hands out the children it starts, and takes only closed shards off the live ones.
LEMMA CloseHanded ==
    ASSUME Base, OwnedInv, NoticedStay, CloseUnresolved \/ CloseResolved
    PROVE  HandedInv' /\ NoticesInv'
<1>1. PICK n : n = Head(closed)
    OBVIOUS
<1>2. /\ n \in Notification /\ n \in ToSet(closed) /\ n.shard \in Shards
      /\ SettleOwner(n) /\ pc' = "closed" /\ UNCHANGED <<workers, offer>>
      /\ TypeOK /\ SoleInv /\ HandedInv /\ NoticesInv
    BY <1>1, BaseParts, CloseStep DEF OwnedInv
<1>3. /\ \A i \in Registered : Assigned(i)' \subseteq Assigned(i)
      /\ Registered' = Registered /\ \A i : Offered(i)' = Offered(i)
    BY <1>2, SettleSole DEF NoticedStay
<1>4. n.info # NoInfo => checkpoints[n.shard] = "CLOSED"
    BY <1>2 DEF NoticesInv
<1>5. \A s \in liveShards : s \in Settled(n) \/ checkpoints[s] = "CLOSED"
    BY <1>4 DEF Settled
<1>6. CASE CloseUnresolved
    <2>1. /\ liveShards' = Settled(n) /\ UNCHANGED <<checkpoints, unassignedShards>>
          /\ ToSet(closed) = {n} \cup ToSet(closed')
          /\ ToSet(h'.unresolved) = ToSet(h.unresolved)
                                       \cup {[shard |-> n.shard, info |-> NoInfo]}
        BY <1>1, <1>2, <1>6, PutsOff
    <2>2. HandedInv'
        BY <1>2, <1>3, <1>5, <2>1 DEF HandedInv, Handed
    <2>3. NoticesInv'
        BY <1>2, <2>1 DEF NoticesInv
    <2> QED
        BY <2>2, <2>3
<1>7. CASE CloseResolved
    <2>1. /\ liveShards' = Settled(n) \cup Starting(n) /\ h' = h
          /\ ToSet(closed) = {n} \cup ToSet(Tail(closed))
          /\ ToSet(closed') = ToSet(Tail(closed)) \cup
                {[shard |-> c, info |-> NoInfo] : c \in Ready(n.shard) \ Starting(n)}
          /\ ToSet(unassignedShards') = ToSet(unassignedShards) \cup Starting(n)
          /\ \A s \in Shards : checkpoints[s] = "CLOSED" => checkpoints'[s] = "CLOSED"
        BY <1>1, <1>2, <1>7, Starts
    <2>2. HandedInv'
        BY <1>2, <1>3, <1>5, <2>1 DEF HandedInv, Handed
    <2>3. \A m \in ToSet(closed') : m.info # NoInfo => m \in ToSet(closed)
        BY <2>1
    <2>4. \A m \in ToSet(closed) : m.shard \in Shards
        <3>1. closed \in Seq(Notification)
            BY <1>2 DEF TypeOK, MgrTypeOK
        <3>2. ToSet(closed) \subseteq Notification
            BY <3>1, SetOfSequence
        <3> QED
            BY <3>2 DEF Notification
    <2>5. NoticesInv'
        BY <1>2, <2>1, <2>3, <2>4 DEF NoticesInv
    <2> QED
        BY <2>2, <2>5
<1> QED
    BY <1>6, <1>7

\* SetToInService knows nothing of what other managers handed out.
LEMMA InServiceOwned ==
    ASSUME Base, OwnedInv, NEW t \in Terms, SetToInService(t)
    PROVE  SoleInv' /\ HandedInv' /\ NoticesInv'
<1> DEFINE finished == {s \in Roots : loading.checkpoints[s] = "CLOSED"}
<1>1. PICK a \in SetToSeqs(Roots \ finished), b \in SetToSeqs(finished) :
         unassignedShards' = a /\ closed' = Notify(b)
    BY DEF SetToInService
<1>2. Roots \ finished \in SUBSET Shards /\ finished \in SUBSET Shards
    BY BaseParts DEF Roots, TypeOK, EnvTypeOK
<1>3. /\ liveShards' = Roots \ finished /\ Registered' = {} /\ pc = "idle"
      /\ UNCHANGED <<pc, h>>
    BY NilAssumption DEF SetToInService, Registered, handlerVars
<1> HIDE DEF finished
<1>4. ToSet(unassignedShards') = liveShards'
    BY <1>1, <1>2, <1>3, SetOfOrder
<1>5. \A n \in ToSet(closed') : n.info = NoInfo
    BY <1>1, <1>2, SetOfOrder, NotifySet
<1>6. HandedInv'
    BY <1>3, <1>4 DEF HandedInv, Handed
<1>7. NoticesInv'
    BY <1>3, <1>5 DEF OwnedInv, NoticesInv
<1> QED
    BY <1>6, <1>7, InServiceSole, BaseParts

\* CLOSED is recorded in memory and its notification queued in one step.
LEMMA UpdateNotices ==
    ASSUME Base, OwnedInv, LastWord, NEW c \in inflight, CheckpointUpdate(c), [Next]_vars
    PROVE  NoticesInv'
<1>1. /\ c.proc[2] \in Shards /\ checkpoints \in [Shards -> Checkpoints]
      /\ closed \in Seq(Notification) /\ TypeOK /\ NoticesInv
      /\ c.proc[1] \in Workers
    BY RequestParts, BaseParts DEF OwnedInv, TypeOK, MgrTypeOK
<1>2. UNCHANGED <<pc, h>>
    BY DEF CheckpointUpdate, handlerVars
<1>3. \A s \in Shards : checkpoints[s] = "CLOSED" => checkpoints'[s] = "CLOSED"
    <2>1. \A t \in Terms : ~SetToInService(t)
        BY DEF CheckpointUpdate, SetToInService, procVars
    <2> QED
        BY <2>1, ClosedStays DEF OwnedInv
<1>4. ASSUME NEW n \in ToSet(closed'), n.info # NoInfo
      PROVE  checkpoints'[n.shard] = "CLOSED"
    <2>1. CASE n \in ToSet(closed)
        <3>1. n \in Notification
            BY <1>1, <2>1, SetOfSequence
        <3> QED
            BY <1>1, <1>3, <1>4, <2>1, <3>1 DEF NoticesInv, Notification
    <2>2. CASE n \notin ToSet(closed)
        <3> DEFINE m == [shard |-> c.proc[2], info |-> workers[c.proc[1]]]
        <3>1. /\ closed' = Append(closed, m) /\ c.sn = "CLOSED"
              /\ checkpoints' = [checkpoints EXCEPT ![c.proc[2]] = c.sn]
            BY <2>2 DEF CheckpointUpdate
        <3>2. m \in Notification /\ m.shard = c.proc[2]
            BY <1>1 DEF Notification, TypeOK, MgrTypeOK
        <3> HIDE DEF m
        <3>3. ToSet(closed') = ToSet(closed) \cup {m}
            BY <1>1, <3>1, <3>2, SetOfAppend
        <3> QED
            BY <1>1, <2>2, <3>1, <3>2, <3>3
    <2> QED
        BY <2>1, <2>2
<1> QED
    BY <1>1, <1>2, <1>4 DEF NoticesInv

-----------------------------------------------------------------------------
(* Who may still write *)

\* Where a request comes from: it is new, or has gone one step on.
LEMMA RequestFrom ==
    ASSUME TypeOK, [Next]_vars, NEW d \in inflight'
    PROVE  \/ \E p \in granted, sn \in {"SEQ", "CLOSED"} :
                 CheckpointBegin(p, sn) /\ d.proc = p /\ d.sn = sn /\ d.stage = "current"
           \/ \E c \in inflight :
                 /\ d.proc = c.proc /\ d.sn = c.sn
                 /\ \/ d.stage = c.stage
                    \/ TxnSucceeds(c) /\ d.stage = "update"
                    \/ TxnFails(c) /\ d.stage = After(c.stage)
<1>1. CASE HandlerStep
    BY <1>1, HandlerEnv
<1>2. ASSUME NEW p \in granted, NEW sn \in {"SEQ", "CLOSED"}, CheckpointBegin(p, sn)
      PROVE  d \in inflight \/ d = [proc |-> p, sn |-> sn, stage |-> "current",
                                    abandoned |-> FALSE]
    BY <1>2 DEF CheckpointBegin
<1>3. ASSUME NEW c \in inflight, TxnSucceeds(c)
      PROVE  d \in inflight \/ (d.proc = c.proc /\ d.sn = c.sn /\ d.stage = "update")
    <2>1. c \in Request /\ (d \in inflight \/ d = [c EXCEPT !.stage = "update"])
        BY <1>3, RequestParts DEF TxnSucceeds
    <2> QED
        BY <2>1 DEF Request
<1>4. ASSUME NEW c \in inflight, TxnFails(c)
      PROVE  d \in inflight \/ (d.proc = c.proc /\ d.sn = c.sn /\ d.stage = After(c.stage))
    <2>1. c \in Request /\ (d \in inflight \/ d = [c EXCEPT !.stage = After(@)])
        BY <1>4, RequestParts DEF TxnFails
    <2> QED
        BY <2>1 DEF Request
<1>5. ASSUME NEW c \in inflight, Disconnect(c)
      PROVE  d \in inflight \/ (d.proc = c.proc /\ d.sn = c.sn /\ d.stage = c.stage)
    <2>1. c \in Request /\ (d \in inflight \/ d = [c EXCEPT !.abandoned = TRUE])
        BY <1>5, RequestParts DEF Disconnect
    <2> QED
        BY <2>1 DEF Request
<1>6. CASE d \in inflight
    BY <1>6
<1>7. CASE d \notin inflight
    <2>1. ASSUME NEW c \in inflight, TxnError(c) \/ CheckpointUpdate(c)
          PROVE  FALSE
        BY <1>7, <2>1 DEF TxnError, CheckpointUpdate
    <2>2. inflight' # inflight
        BY <1>7
    <2>3. \/ \E p \in granted, sn \in {"SEQ", "CLOSED"} : CheckpointBegin(p, sn)
          \/ \E c \in inflight : TxnSucceeds(c) \/ TxnFails(c) \/ Disconnect(c)
        BY <1>1, <2>1, <2>2, HandlerEnv DEF Next, vars, AssignBegin, CheckpointRefused,
           CheckpointStep, LoadBegin, LoadCheckpoint, Pass, Discover, SetToInService,
           SetToOutOfService, Tick, envVars, procVars
    <2> QED
        BY <1>2, <1>3, <1>4, <1>5, <1>7, <2>3
<1> QED
    BY <1>6, <1>7

\* A shard becomes closed in memory when its owner reports the end, or with a new term.
LEMMA ClosedBy ==
    ASSUME TypeOK, [Next]_vars, NEW s \in Shards,
           checkpoints'[s] = "CLOSED", checkpoints[s] # "CLOSED"
    PROVE  \/ \E t \in Terms : SetToInService(t)
           \/ \E c \in inflight :
                 /\ CheckpointUpdate(c) /\ c.stage = "update" /\ c.sn = "CLOSED"
                 /\ c.proc[2] = s /\ Owns(c.proc[1], c.proc[2], c.proc[3])
<1>1. ~HandlerStep
    BY HandlerClosed
<1>2. ASSUME NEW c \in inflight, CheckpointUpdate(c)
      PROVE  /\ c.stage = "update" /\ c.sn = "CLOSED"
             /\ c.proc[2] = s /\ Owns(c.proc[1], c.proc[2], c.proc[3])
    BY <1>2 DEF CheckpointUpdate, TypeOK, MgrTypeOK
<1> QED
    BY <1>1, <1>2 DEF Next, vars, mgrVars, AssignBegin, CheckpointBegin,
       CheckpointRefused, CheckpointStep, TxnSucceeds, TxnFails, TxnError, Disconnect,
       LoadBegin, LoadCheckpoint, Pass, Discover, SetToOutOfService, Tick

\* Two owners of one shard are one.
LEMMA OneOwner ==
    ASSUME Base, ExclusiveAssignment, NEW p \in granted, NEW q \in granted, p[2] = q[2],
           Owns(p[1], p[2], p[3]), Owns(q[1], q[2], q[3])
    PROVE  p = q
<1>1. \A r \in granted : r \in Processors /\ r[1] \in Workers /\ r[2] \in Shards
                          /\ r[3] > 0
    BY BaseParts DEF TypeOK, EnvTypeOK, Processors, GrantInv
<1>2. \A r \in granted : Owns(r[1], r[2], r[3]) =>
         /\ workers[r[1]] \in Registered /\ r[2] \in Assigned(workers[r[1]])
         /\ assignments[workers[r[1]]][r[2]] = r[3] /\ workerID[workers[r[1]]] = r[1]
    BY <1>1, BaseParts DEF Owns, Registered, Assigned, TypeOK, MgrTypeOK, WhoInv
<1>3. workers[p[1]] = workers[q[1]]
    BY <1>2 DEF ExclusiveAssignment
<1>4. p[1] = q[1] /\ p[3] = q[3]
    BY <1>2, <1>3
<1> QED
    BY <1>1, <1>4 DEF Processors

\* The processor of a closed shard's owner has sent CLOSED: it is the one whose request
\* closed the shard, as no other worker has it, and no response grants a closed shard.
LEMMA ClosersKept ==
    ASSUME Base, OwnedInv, [Next]_vars
    PROVE  ClosersInv'
<1>1. \A p \in granted : p \in Processors /\ p[1] \in Workers /\ p[2] \in Shards
    BY BaseParts DEF TypeOK, EnvTypeOK, Processors
<1>2. closing \subseteq closing'
    BY EnvGrows
<1>3. ASSUME NEW p \in granted', checkpoints'[p[2]] = "CLOSED", Owns(p[1], p[2], p[3])'
      PROVE  p \in closing'
    <2>1. p \in granted
        <3>1. SUFFICES ASSUME p \notin granted PROVE FALSE
            OBVIOUS
        <3>2. AssignRespond
            BY <3>1, GrantedBy
        <3> QED
            BY <1>3, <3>1, <3>2, RespondsTo DEF AssignRespond, mgrVars
    <2>2. Owns(p[1], p[2], p[3])
        BY <1>3, <2>1, OwnsKept DEF OwnedInv
    <2>3. CASE checkpoints[p[2]] = "CLOSED"
        BY <1>2, <2>1, <2>2, <2>3 DEF OwnedInv, ClosersInv
    <2>4. CASE checkpoints[p[2]] # "CLOSED"
        <3>1. \A t \in Terms : ~SetToInService(t)
            BY <1>1, <1>3, <2>1, NilAssumption DEF SetToInService, Owns
        <3>2. PICK c \in inflight :
                 c.proc[2] = p[2] /\ c.sn = "CLOSED" /\ Owns(c.proc[1], c.proc[2], c.proc[3])
            BY <1>1, <1>3, <2>1, <2>4, <3>1, ClosedBy, BaseParts
        <3>3. c.proc \in granted
            BY BaseParts DEF GrantInv
        <3>4. c.proc = p
            BY <2>1, <2>2, <3>2, <3>3, OneOwner DEF OwnedInv, SoleInv
        <3> QED
            BY <1>2, <3>2, <3>4 DEF OwnedInv, ClosersInv
    <2> QED
        BY <2>3, <2>4
<1>4. ASSUME NEW d \in inflight', d.sn = "CLOSED"
      PROVE  d.proc \in closing'
    <2>1. ASSUME NEW p \in granted, NEW sn \in {"SEQ", "CLOSED"}, CheckpointBegin(p, sn),
                 d.proc = p, d.sn = sn
          PROVE  d.proc \in closing'
        BY <1>4, <2>1 DEF CheckpointBegin, Sent
    <2>2. ASSUME NEW c \in inflight, d.proc = c.proc, d.sn = c.sn
          PROVE  d.proc \in closing'
        BY <1>2, <1>4, <2>2 DEF OwnedInv, ClosersInv
    <2> QED
        BY <2>1, <2>2, RequestFrom, BaseParts
<1> QED
    BY <1>3, <1>4 DEF ClosersInv

\* Ownership stays as it is whatever the manager does, while its workers stay until they
\* are noticed and its processors have had their last word.
LEMMA OwnedInductive ==
    /\ Init => OwnedInv
    /\ Base /\ OwnedInv /\ NoticedStay /\ LastWord /\ [Next]_vars => OwnedInv'
<1>1. ASSUME Init PROVE OwnedInv
    <2>1. SoleInv
        BY <1>1, PlaceInductive DEF Init, QuietPlaceInv, PlaceInv
    <2>2. Registered = {} /\ unassignedShards = <<>> /\ closed = <<>>
          /\ h.unresolved = <<>>
        BY <1>1, NilAssumption DEF Init, Registered, NoRequest
    <2>3. ToSet(unassignedShards) = {} /\ ToSet(closed) = {} /\ ToSet(h.unresolved) = {}
        BY <2>2 DEF ToSet
    <2>4. HandedInv /\ NoticesInv
        BY <2>2, <2>3 DEF HandedInv, Handed, NoticesInv
    <2>5. ClosersInv
        BY <1>1 DEF Init, ClosersInv
    <2> QED
        BY <1>1, <2>1, <2>4, <2>5, ProcessorsInductive DEF OwnedInv
<1> SUFFICES ASSUME Base, OwnedInv, NoticedStay, LastWord, [Next]_vars
             PROVE  SoleInv' /\ HandedInv' /\ NoticesInv'
    BY <1>1, ClosersKept, ProcessorsInductive DEF OwnedInv
<1>2. /\ Known /\ TypeOK /\ SoleInv /\ HandedInv /\ NoticesInv /\ ClosersInv
    BY BaseParts DEF OwnedInv
<1>3. CASE CloseUnresolved \/ CloseResolved
    BY <1>3, CloseSole, CloseHanded
<1>4. CASE HandlerStep /\ ~CloseUnresolved /\ ~CloseResolved
    <2>1. SoleInv'
        BY <1>2, <1>4, MovePlace
    <2>2. /\ checkpoints' = checkpoints
          /\ \/ /\ closed' = h.unresolved /\ h'.unresolved = <<>>
             \/ /\ closed' = closed /\ h'.unresolved = h.unresolved
                /\ h.unresolved = <<>>
        BY <1>2, <1>4, HandlerNotices
    <2>3. HandedInv'
        BY <1>2, <1>4, <2>2, MovesHanded DEF HandedInv
    <2>4. h'.unresolved = <<>> /\ ToSet(h'.unresolved) = {}
        BY <2>2 DEF ToSet
    <2>5. NoticesInv'
        BY <1>2, <2>2, <2>4 DEF NoticesInv
    <2> QED
        BY <2>1, <2>3, <2>5
<1>5. ASSUME NEW t \in Terms, SetToInService(t)
      PROVE  SoleInv' /\ HandedInv' /\ NoticesInv'
    BY <1>5, InServiceOwned
<1>6. ASSUME UNCHANGED <<soleVars, liveShards>>, \A t \in Terms : ~SetToInService(t)
      PROVE  SoleInv' /\ HandedInv'
    <2>1. SoleInv'
        BY <1>2, <1>6, SoleKept
    <2>2. \A s \in Shards : checkpoints[s] = "CLOSED" => checkpoints'[s] = "CLOSED"
        BY <1>2, <1>6, ClosedStays
    <2>3. \A s \in Shards : Handed(s)' => Handed(s)
        BY <1>6 DEF soleVars, Handed, Registered, Assigned, Offered
    <2> QED
        BY <1>2, <1>6, <2>1, <2>2, <2>3 DEF HandedInv
<1>7. ASSUME NEW c \in inflight, CheckpointUpdate(c)
      PROVE  /\ UNCHANGED <<soleVars, liveShards>> /\ NoticesInv'
             /\ \A t \in Terms : ~SetToInService(t)
    BY <1>7, UpdateNotices DEF CheckpointUpdate, SetToInService, soleVars, infoVars,
       procVars
<1>8. ASSUME UNCHANGED <<soleVars, liveShards, checkpoints, closed, pc, h>>
      PROVE  SoleInv' /\ HandedInv' /\ NoticesInv'
    <2>1. SoleInv'
        BY <1>2, <1>8, SoleKept
    <2>2. NoticesInv' /\ HandedInv'
        BY <1>2, <1>8 DEF NoticesInv, HandedInv, soleVars, Handed, Registered, Assigned,
           Offered
    <2> QED
        BY <2>1, <2>2
<1>9. ASSUME NEW w \in Workers, NEW n \in MaxShardsValues, NEW lag \in 0..MaxLag,
             AssignBegin(w, n, lag)
      PROVE  SoleInv' /\ HandedInv' /\ NoticesInv'
    <2>1. /\ UNCHANGED <<soleVars, liveShards, checkpoints, closed>>
          /\ h'.unresolved = <<>> /\ ToSet(h'.unresolved) = {}
        BY <1>9 DEF AssignBegin, soleVars, mgrVars, infoVars, NoRequest, ToSet
    <2>2. SoleInv'
        BY <1>2, <2>1, SoleKept
    <2>3. NoticesInv' /\ HandedInv'
        BY <1>2, <2>1 DEF NoticesInv, HandedInv, soleVars, Handed, Registered, Assigned,
           Offered
    <2> QED
        BY <2>2, <2>3
<1>10. \/ HandlerStep
       \/ \E t \in Terms : SetToInService(t)
       \/ \E c \in inflight : CheckpointUpdate(c)
       \/ \E w \in Workers, n \in MaxShardsValues, lag \in 0..MaxLag :
             AssignBegin(w, n, lag)
       \/ UNCHANGED <<soleVars, liveShards, checkpoints, closed, pc, h>>
    <2>1. ASSUME NEW c \in inflight, TxnSucceeds(c) \/ TxnFails(c) \/ TxnError(c)
                                       \/ Disconnect(c)
          PROVE  UNCHANGED <<mgrVars, infoVars, handlerVars>>
        BY <2>1 DEF TxnSucceeds, TxnFails, TxnError, Disconnect
    <2>2. ASSUME NEW p \in granted, NEW sn \in {"SEQ", "CLOSED"},
                 CheckpointBegin(p, sn) \/ CheckpointRefused(p, sn)
          PROVE  UNCHANGED <<mgrVars, infoVars, handlerVars>>
        BY <2>2 DEF CheckpointBegin, CheckpointRefused
    <2>3. ASSUME NEW s \in Shards, LoadCheckpoint(s)
          PROVE  UNCHANGED <<mgrVars, infoVars, handlerVars>>
        BY <2>3 DEF LoadCheckpoint
    <2>4. ASSUME LoadBegin \/ Pass \/ UNCHANGED vars
          PROVE  UNCHANGED <<mgrVars, infoVars, handlerVars>>
        BY <2>4 DEF LoadBegin, Pass, Discover, vars
    <2>5. UNCHANGED <<mgrVars, infoVars, handlerVars>>
             => UNCHANGED <<soleVars, liveShards, checkpoints, closed, pc, h>>
        BY DEF mgrVars, infoVars, handlerVars, soleVars
    <2>6. SetToOutOfService \/ Tick
             => UNCHANGED <<soleVars, liveShards, checkpoints, closed, pc, h>>
        BY DEF SetToOutOfService, Tick, mgrVars, infoVars, handlerVars, soleVars
    <2> QED
        BY <2>1, <2>2, <2>3, <2>4, <2>5, <2>6 DEF Next, CheckpointStep
<1> QED
    BY <1>3, <1>4, <1>5, <1>6, <1>7, <1>8, <1>9, <1>10

-----------------------------------------------------------------------------
(* Ownership and the fence *)

\* The invariant of ownership, together with the order of the ids.
OwnerInv == Base /\ OwnedInv /\ LatestInv

LEMMA OwnerInvariant ==
    Spec /\ [](NoticedStay /\ LastWord) => []OwnerInv
<1>1. Init => OwnedInv /\ LatestInv
    BY OwnedInductive, LatestInductive
<1>2. /\ Base /\ Base' /\ OwnedInv /\ LatestInv /\ NoticedStay /\ LastWord /\ [Next]_vars
      => OwnedInv' /\ LatestInv'
    <2> SUFFICES ASSUME Base, Base', OwnedInv, LatestInv, NoticedStay, LastWord,
                        [Next]_vars
                 PROVE  OwnedInv' /\ LatestInv'
        OBVIOUS
    <2>1. TypeOK'
        BY DEF Base, ManagerInv, Known
    <2>2. OwnedInv'
        BY OwnedInductive
    <2>3. LatestInv'
        BY <2>1, BaseParts, LatestInductive DEF OwnedInv, SoleInv
    <2> QED
        BY <2>2, <2>3
<1> QED
    BY <1>1, <1>2, BaseInvariant, PTL DEF Spec, OwnerInv

\* Also while shards are split and merged no two workers hold assignments of one shard,
\* if no worker leaves that processClosedShards still has to settle with and a processor
\* reports the end last.  A worker that left would come back into the heap (line 290),
\* where rebalance steals from it what another one has got from the pool; and a position
\* recorded after CLOSED (line 484) would make a shard that is read look new (line 305).
THEOREM OwnersExclusiveAtReshard ==
    Spec /\ [](NoticedStay /\ LastWord) => []ExclusiveAssignment
<1>1. OwnerInv => ExclusiveAssignment
    BY DEF OwnerInv, OwnedInv, SoleInv
<1> QED
    BY <1>1, OwnerInvariant, PTL

\* Under the same two conditions a live shard is in the pool once, or with one worker, or
\* on one offer, however processClosedShards, releaseInactiveWorkers and rebalance take
\* turns: a child of two parents starts at one of its two notifications.
THEOREM LiveShardsPlacedOnce ==
    Spec /\ [](NoticedStay /\ LastWord)
        => [](\A s \in liveShards : Cardinality(Places(s)) = 1)
<1>1. OwnerInv => \A s \in liveShards : Cardinality(Places(s)) = 1
    <2> SUFFICES ASSUME OwnerInv, NEW s \in liveShards
                 PROVE  Cardinality(Places(s)) = 1
        OBVIOUS
    <2>1. TypeOK /\ BookInv /\ SoleInv /\ s \in Shards
        BY BaseParts DEF OwnerInv, OwnedInv, TypeOK, MgrTypeOK
    <2>2. PICK x : x \in Places(s)
        BY <2>1, LiveHasPlace
    <2>3. Places(s) = {x}
        BY <2>1, <2>2, OnePlace
    <2> QED
        BY <2>3, FS_Singleton
<1> QED
    BY <1>1, OwnerInvariant, PTL

\* Under the same two conditions the fence admits the owner of every shard.
THEOREM OwnerAdmittedAtReshard ==
    Spec /\ [](NoticedStay /\ LastWord) => []FenceAdmitsOwner
<1>1. OwnerInv => FenceAdmitsOwner
    BY BaseParts, LatestAdmits DEF OwnerInv
<1> QED
    BY <1>1, OwnerInvariant, PTL

\* And the three comparisons turn no owner away, shards that close included.
THEOREM OwnerGetsThroughAtReshard ==
    Spec /\ [](NoticedStay /\ LastWord) => OwnerNotRefused
<1>1. OwnerInv /\ FenceAdmitsOwner /\ [Next]_vars
      => [\A c \in inflight :
            /\ c.stage = "new" /\ ~c.abandoned /\ c \notin inflight'
            /\ stopped' # stopped
            /\ inService /\ Owns(c.proc[1], c.proc[2], c.proc[3])
            => kvsAssignment[c.proc[2]] = c.proc[3]]_vars
    BY BaseParts, AdmittedNotRefused DEF OwnerInv
<1> QED
    BY <1>1, OwnerInvariant, OwnerAdmittedAtReshard, PTL DEF Spec, OwnerNotRefused
=============================================================================
