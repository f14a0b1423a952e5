------------------------ MODULE ManagerPlacementProofs ------------------------
(***************************************************************************)
(* What is proved of the placement of shards in Manager for every value of *)
(* its constants: until a first processor reports the end of its shard,    *)
(* each live shard is in one place, the counts and the heap are exact and  *)
(* the fence admits the owner.  A stream without splits and merges stays   *)
(* in these states for good.                                               *)
(***************************************************************************)
EXTENDS ManagerShardProofs

\* Nothing is closed, and nothing is about to be.
QuietInv == closing = {} => closed = <<>> /\ h.unresolved = <<>>

\* The pool lists no shard twice and has none that a registered worker has or awaits.
PoolAlone == /\ Injective(unassignedShards)
             /\ \A i \in Registered :
                   /\ Assigned(i) \cap ToSet(unassignedShards) = {}
                   /\ Offered(i) \cap ToSet(unassignedShards) = {}
\* What a registered worker awaits no other awaits, and nobody counts it for its own.
OffersAlone ==
    /\ \A i, j \in Registered : Active(i) \cap Offered(j) = {}
    /\ \A i, j \in Registered : \A p \in offer[i], q \in offer[j] :
          p[2] = q[2] => i = j /\ p = q
\* An offer names the one worker that still has the shard, if any has.
OffersOfOwner ==
    \A i, j \in Registered : \A p \in offer[j] : p[2] \in Assigned(i) => p[1] = i
\* rebalance finds only registered workers in the heap to steal from.
HeapKnown == \A e \in workerShardCount : e.value \in Registered
\* No two workers have a shard, and none is to get it twice.
SoleInv == PoolAlone /\ OffersAlone /\ OffersOfOwner /\ ExclusiveAssignment /\ HeapKnown

\* Only live shards are handed out.
OnlyLive == /\ ToSet(unassignedShards) \subseteq liveShards
            /\ \A i \in Registered : Active(i) \cup Offered(i) \subseteq liveShards

\* Between the parts of the handler that assign, the heap knows the active shards of
\* every worker that has any.
InQueue(i) == [value |-> i, priority |-> activeShardCount[i]] \in workerShardCount
QueueInv ==
    \A i \in Registered :
        Active(i) # {} /\ ~(pc \in {"acquire", "assign"} /\ i = h.worker) => InQueue(i)

\* The whole invariant, while no processor has sent CLOSED.
PlaceInv == SoleInv /\ OnlyLive /\ CountsExact /\ QueueInv
QuietPlaceInv == QuietInv /\ (closing = {} => PlaceInv)

soleVars == <<unassignedShards, workers, workerShardCount, assignments, requested, offer>>
placeVars == <<unassignedShards, liveShards, workers, workerShardCount, assignments,
               requested, offer, activeShardCount>>

\* What the handler may rely on besides.
Known == TypeOK /\ BookInv /\ ClosedInv

-----------------------------------------------------------------------------
(* Facts about infos *)

\* A step that moves no shard.
LEMMA SoleKept ==
    ASSUME SoleInv, UNCHANGED soleVars
    PROVE  SoleInv'
    BY DEF soleVars, SoleInv, PoolAlone, OffersAlone, OffersOfOwner, ExclusiveAssignment,
           HeapKnown, Registered, Active, Assigned, Offered

\* A step that changes neither the placement nor the part of the handler.
LEMMA PlaceKept ==
    ASSUME PlaceInv, UNCHANGED placeVars,
           pc' \in {"acquire", "assign"} => pc \in {"acquire", "assign"}
                                            /\ h'.worker = h.worker,
           pc \in {"acquire", "assign"} => pc' \in {"acquire", "assign"}
    PROVE  PlaceInv'
<1>1. SoleInv'
    BY SoleKept DEF PlaceInv, placeVars, soleVars
<1>2. OnlyLive' /\ CountsExact'
    BY DEF PlaceInv, placeVars, OnlyLive, CountsExact, Registered, Active, Assigned, Offered
<1>3. QueueInv'
    BY DEF PlaceInv, placeVars, QueueInv, InQueue, Registered, Active, Assigned
<1> QED
    BY <1>1, <1>2, <1>3 DEF PlaceInv

\* What a registered worker reads is a finite set of shards.
LEMMA ActiveFinite ==
    \A i : Active(i) \subseteq Shards /\ IsFiniteSet(Active(i))
<1> SUFFICES ASSUME NEW i PROVE Active(i) \subseteq Shards /\ IsFiniteSet(Active(i))
    OBVIOUS
<1>1. Active(i) \subseteq Shards
    BY DEF Active, Assigned
<1> QED
    BY <1>1, FiniteAssumption, FS_Subset

\* The handler that assigns or steals works for a registered worker.
LEMMA HandlerRegistered ==
    ASSUME TypeOK, BookInv, pc \in {"acquire", "assign", "rebalance", "respond"}
    PROVE  h.worker \in Registered /\ h.worker \in Infos
<1>1. h.worker \in Infos /\ h.WorkerID \in Workers
    BY DEF TypeOK, HandlerTypeOK, HandlerType
<1> QED
    BY <1>1 DEF BookInv, WhoInv, Registered

-----------------------------------------------------------------------------
(* releaseInactiveWorkers *)

\* A worker that leaves puts back what it holds and what was offered to it, except the
\* shards that another worker was offered of it (manager_service.go:253 to 273); the
\* owners of what was offered to it give that up.
LEMMA ReleasePlace ==
    ASSUME Known, SoleInv, NEW i \in Infos, ReleaseWorker(i)
    PROVE  SoleInv' /\ (PlaceInv => PlaceInv')
<1> USE DEF Known, TypeOK
<1> DEFINE own == Active(i) \ h.released
           offered == Offered(i) \ (h.released \cup own)
<1>1. /\ i \in Registered /\ Registered' = Registered \ {i}
      /\ Registered \subseteq Infos
    BY Unregister DEF ReleaseWorker, Expired, BookInv, Registered
<1>2. own = Active(i) /\ offered = Offered(i) /\ Active(i) \subseteq Assigned(i)
    <2>1. h.released \subseteq ToSet(unassignedShards)
        BY DEF ReleaseWorker, BookInv, LiveInv
    <2>2. /\ Active(i) \cap ToSet(unassignedShards) = {}
          /\ Offered(i) \cap ToSet(unassignedShards) = {}
          /\ Active(i) \cap Offered(i) = {}
        BY <1>1 DEF SoleInv, PoolAlone, OffersAlone, Active
    <2> QED
        BY <2>1, <2>2 DEF Active
<1>3. /\ ToSet(unassignedShards') = ToSet(unassignedShards) \cup Active(i) \cup Offered(i)
      /\ Injective(unassignedShards')
    <2>1. PICK a \in SetToSeqs(own), b \in SetToSeqs(offered) :
             unassignedShards' = unassignedShards \o a \o b
        BY DEF ReleaseWorker
    <2>2. Active(i) \in SUBSET Shards /\ Offered(i) \in SUBSET Shards
        BY DEF Active, Assigned, Offered, InfoTypeOK
    <2>3. /\ a \in Seq(Shards) /\ ToSet(a) = Active(i) /\ Injective(a)
          /\ b \in Seq(Shards) /\ ToSet(b) = Offered(i) /\ Injective(b)
        BY <1>2, <2>1, <2>2, SetOfOrder
    <2>4. /\ unassignedShards \in Seq(Shards) /\ Injective(unassignedShards)
          /\ ToSet(unassignedShards) \cap Active(i) = {}
          /\ (ToSet(unassignedShards) \cup Active(i)) \cap Offered(i) = {}
        BY <1>1, <1>2 DEF SoleInv, PoolAlone, OffersAlone, MgrTypeOK
    <2> HIDE DEF own, offered
    <2> QED
        BY <2>1, <2>3, <2>4, SetOfTwoConcats
<1>4. \A j \in Infos : Offered(j)' = Offered(j) /\ offer'[j] = offer[j]
    BY DEF ReleaseWorker, Offered
<1>5. \A j \in Infos : \A s \in Assigned(j)' : s \in Assigned(j) /\ <<j, s>> \notin offer[i]
    BY DEF ReleaseWorker, Assigned, InfoTypeOK
<1>6. \A j \in Registered : Active(j)' = Active(j)
    <2>1. ASSUME NEW j \in Registered, NEW s \in Active(j)
          PROVE  <<j, s>> \notin offer[i]
        BY <1>1 DEF SoleInv, OffersAlone, Offered
    <2> QED
        BY <1>1, <2>1 DEF ReleaseWorker, Active, Assigned, InfoTypeOK
<1>7. PoolAlone'
    <2> SUFFICES ASSUME NEW j \in Registered, j # i
                 PROVE  /\ Assigned(j)' \cap ToSet(unassignedShards') = {}
                        /\ Offered(j) \cap ToSet(unassignedShards') = {}
        BY <1>1, <1>3, <1>4 DEF PoolAlone
    <2>1. Offered(j) \cap Offered(i) = {}
        BY <1>1 DEF SoleInv, OffersAlone, Offered
    <2>2. Assigned(j)' \cap Offered(i) = {}
        <3> SUFFICES ASSUME NEW p \in offer[i], p[2] \in Assigned(j)'
                     PROVE  FALSE
            BY DEF Offered
        <3>1. p[2] \in Assigned(j) /\ p[1] = j
            BY <1>1, <1>5 DEF SoleInv, OffersOfOwner
        <3>2. p = <<j, p[2]>>
            BY <1>1, <3>1 DEF InfoTypeOK
        <3> QED
            BY <1>1, <1>5, <3>2
    <2>3. Assigned(j)' \cap Active(i) = {} /\ Offered(j) \cap Active(i) = {}
        BY <1>1, <1>2, <1>5 DEF SoleInv, ExclusiveAssignment, OffersAlone
    <2> QED
        BY <1>1, <1>3, <1>5, <2>1, <2>2, <2>3 DEF SoleInv, PoolAlone
<1>8. SoleInv'
    <2>1. HeapKnown'
        BY <1>1 DEF ReleaseWorker, RemoveItem, SoleInv, HeapKnown
    <2>2. OffersAlone'
        BY <1>1, <1>4, <1>6 DEF SoleInv, OffersAlone
    <2>3. \A j \in Registered' : Assigned(j)' \subseteq Assigned(j) /\ offer'[j] = offer[j]
        BY <1>1, <1>4, <1>5
    <2>4. OffersOfOwner'
        BY <1>1, <2>3 DEF SoleInv, OffersOfOwner
    <2>5. ExclusiveAssignment'
        BY <1>1, <2>3 DEF SoleInv, ExclusiveAssignment
    <2> QED
        BY <1>7, <2>1, <2>2, <2>4, <2>5 DEF SoleInv
<1>9. ASSUME PlaceInv
      PROVE  OnlyLive' /\ CountsExact' /\ QueueInv'
    <2>1. /\ activeShardCount' = activeShardCount /\ pc' = "release"
          /\ workerShardCount' = {e \in workerShardCount : e.value # i}
          /\ liveShards' = liveShards
        BY DEF ReleaseWorker, RemoveItem
    <2>2. OnlyLive' /\ CountsExact'
        BY <1>1, <1>3, <1>4, <1>6, <1>9, <2>1 DEF PlaceInv, OnlyLive, CountsExact
    <2>3. QueueInv'
        BY <1>1, <1>6, <1>9, <2>1 DEF ReleaseWorker, PlaceInv, QueueInv, InQueue
    <2> QED
        BY <2>2, <2>3
<1> QED
    BY <1>8, <1>9 DEF PlaceInv

-----------------------------------------------------------------------------
(* resolveWorker *)

\* A worker that registers holds nothing; the others hold what they held.
LEMMA ResolveNewPlace ==
    ASSUME Known, SoleInv, NEW i \in Infos, ResolveNew(i)
    PROVE  SoleInv' /\ (PlaceInv => PlaceInv')
<1> USE DEF Known, TypeOK
<1>1. /\ i \notin Registered /\ Registered' = Registered \cup {i}
      /\ Registered \subseteq Infos
    <2>1. /\ i \notin Registered /\ workers[h.WorkerID] = NoInfo
          /\ workers' = [workers EXCEPT ![h.WorkerID] = i]
          /\ h.WorkerID \in Workers
        BY DEF ResolveNew, Free, HandlerTypeOK, HandlerType
    <2> QED
        BY <2>1, NilAssumption DEF Registered, MgrTypeOK
<1>2. /\ Active(i)' = {} /\ Assigned(i)' = {} /\ offer'[i] = {}
      /\ Offered(i)' = {} /\ activeShardCount'[i] = 0
    BY DEF ResolveNew, Active, Assigned, Offered, InfoTypeOK
<1>3. ASSUME NEW j \in Registered
      PROVE  /\ Active(j)' = Active(j) /\ Assigned(j)' = Assigned(j)
             /\ offer'[j] = offer[j] /\ Offered(j)' = Offered(j)
             /\ activeShardCount'[j] = activeShardCount[j]
    <2>1. j \in Infos /\ j # i
        BY <1>1
    <2> QED
        BY <2>1 DEF ResolveNew, Active, Assigned, Offered, InfoTypeOK
<1>4. UNCHANGED <<unassignedShards, liveShards, workerShardCount>> /\ pc = "resolve"
    BY DEF ResolveNew
<1>5. \A j \in Registered' : \/ j = i
                             \/ j \in Registered
    BY <1>1
<1>6. PoolAlone' /\ HeapKnown'
    BY <1>1, <1>2, <1>3, <1>4 DEF SoleInv, PoolAlone, HeapKnown
<1>7. OffersAlone'
    <2>1. \A j, k \in Registered' : Active(j)' \cap Offered(k)' = {}
        BY <1>2, <1>3, <1>5 DEF SoleInv, OffersAlone
    <2>2. \A j, k \in Registered' : \A p \in offer'[j], q \in offer'[k] :
             p[2] = q[2] => j = k /\ p = q
        BY <1>2, <1>3, <1>5 DEF SoleInv, OffersAlone
    <2> QED
        BY <2>1, <2>2 DEF OffersAlone
<1>8. OffersOfOwner' /\ ExclusiveAssignment'
    BY <1>2, <1>3, <1>5 DEF SoleInv, OffersOfOwner, ExclusiveAssignment
<1>9. ASSUME PlaceInv
      PROVE  OnlyLive' /\ CountsExact' /\ QueueInv'
    <2>1. OnlyLive'
        BY <1>1, <1>2, <1>3, <1>4, <1>9 DEF PlaceInv, OnlyLive
    <2>2. CountsExact'
        BY <1>1, <1>2, <1>3, <1>9, FS_EmptySet DEF PlaceInv, CountsExact
    <2>3. QueueInv'
        BY <1>1, <1>2, <1>3, <1>4, <1>9 DEF PlaceInv, QueueInv, InQueue
    <2> QED
        BY <2>1, <2>2, <2>3
<1> QED
    BY <1>6, <1>7, <1>8, <1>9 DEF SoleInv, PlaceInv

\* A heartbeat changes no placement; what comes next is the part that assigns.
LEMMA ResolveKnownPlace ==
    ASSUME SoleInv, NEW i \in Infos, ResolveKnown(i)
    PROVE  SoleInv' /\ (PlaceInv => PlaceInv')
<1>1. UNCHANGED <<soleVars, placeVars>> /\ pc = "resolve"
    BY DEF ResolveKnown, soleVars, placeVars, mgrVars
<1>2. SoleInv'
    BY <1>1, SoleKept
<1>3. ASSUME PlaceInv
      PROVE  OnlyLive' /\ CountsExact'
    BY <1>1, <1>3 DEF PlaceInv, placeVars, OnlyLive, CountsExact, Registered, Active,
       Assigned, Offered
<1>4. ASSUME PlaceInv
      PROVE  QueueInv'
    BY <1>1, <1>4 DEF PlaceInv, placeVars, QueueInv, InQueue, Registered, Active, Assigned
<1> QED
    BY <1>2, <1>3, <1>4 DEF PlaceInv

-----------------------------------------------------------------------------
(* acquireDueReassignments and assignFromUnassignedPool *)

\* The shard that worker me gets, it did not read; afterwards nobody else has it, an
\* owner that it is taken from by an offer that is due included.
LEMMA AssignActive ==
    ASSUME Known, SoleInv, pc # "idle", NEW me \in Registered, h.worker = me,
           NEW s \in Shards, NEW from \in Infos \cup {NoInfo}, AssignShard(s, from),
           s \in ToSet(unassignedShards) \/ <<from, s>> \in offer[me]
    PROVE  /\ s \notin Active(me) /\ Active(me)' = Active(me) \cup {s}
           /\ Assigned(me)' = Assigned(me) \cup {s}
           /\ \A j \in Registered : j # me =>
                 /\ Active(j)' = Active(j)
                 /\ Assigned(j)' = Assigned(j) \ {s}
<1> USE DEF Known, TypeOK
<1>1. Registered \subseteq Infos
    BY DEF Registered
<1>2. \A j \in Registered : s \notin Active(j)
    BY DEF SoleInv, PoolAlone, OffersAlone, Active, Offered
<1>3. ASSUME NEW j \in Registered, s \in Assigned(j)
      PROVE  j = from
    BY <1>3 DEF SoleInv, PoolAlone, OffersOfOwner
<1>4. /\ s \in Active(me)'
      /\ \A i \in Infos : \A t \in Active(i) : t # s => t \in Active(i)'
    BY <1>1, AssignShardHeld DEF BookInv
<1>5. \A j \in Infos : \A t \in Shards : t # s =>
         assignments'[j][t] = assignments[j][t] /\ (t \in requested'[j] <=> t \in requested[j])
    BY DEF AssignShard, InfoTypeOK
<1>6. \A j \in Registered : j # me => s \notin Assigned(j)'
    <2> SUFFICES ASSUME NEW j \in Registered, j # me, s \in Assigned(j)'
                 PROVE  FALSE
        OBVIOUS
    <2>1. assignments'[j][s] = IF j = from THEN 0 ELSE assignments[j][s]
        BY <1>1 DEF AssignShard, InfoTypeOK
    <2> QED
        BY <1>3, <2>1 DEF Assigned
<1>7. \A j \in Registered : Assigned(j)' \ {s} = Assigned(j) \ {s}
    BY <1>1, <1>5 DEF Assigned
<1>8. \A j \in Registered : Active(j)' \ {s} = Active(j) \ {s}
    BY <1>1, <1>5 DEF Assigned, Active
<1>9. s \in Assigned(me)' /\ \A j \in Registered : Active(j)' \subseteq Assigned(j)'
    BY <1>4 DEF Active
<1> QED
    BY <1>2, <1>4, <1>6, <1>7, <1>8, <1>9

\* ActiveShardCount++ counts the shard; the heap learns of it when the part ends.
LEMMA AssignCounts ==
    ASSUME Known, PlaceInv, pc \in {"acquire", "assign"}, pc' = pc,
           NEW me \in Registered, h.worker = me, h'.worker = me,
           NEW s \in Shards, NEW from \in Infos \cup {NoInfo}, AssignShard(s, from),
           s \in ToSet(unassignedShards) \/ <<from, s>> \in offer[me],
           UNCHANGED <<workers, workerShardCount>>
    PROVE  CountsExact' /\ QueueInv'
<1>1. /\ s \notin Active(me) /\ Active(me)' = Active(me) \cup {s}
      /\ \A j \in Registered : j # me => Active(j)' = Active(j)
    BY AssignActive DEF PlaceInv
<1>2. /\ Registered' = Registered /\ me \in Infos
      /\ activeShardCount' = [activeShardCount EXCEPT ![me] = @ + 1]
      /\ activeShardCount \in [Infos -> Int] /\ Registered \subseteq Infos
    BY DEF AssignShard, Registered, Known, TypeOK, InfoTypeOK
<1>3. Cardinality(Active(me)') = Cardinality(Active(me)) + 1
    BY <1>1, ActiveFinite, FS_AddElement
<1>4. CountsExact'
    BY <1>1, <1>2, <1>3 DEF PlaceInv, CountsExact
<1>5. QueueInv'
    BY <1>1, <1>2 DEF PlaceInv, QueueInv, InQueue
<1> QED
    BY <1>4, <1>5

\* A due offer moves a shard from its old owner to the new one.
LEMMA AcquirePlace ==
    ASSUME Known, SoleInv, NEW from \in Infos, NEW s \in Shards, AcquireShard(from, s)
    PROVE  SoleInv' /\ (PlaceInv => PlaceInv')
<1> USE DEF Known, TypeOK
<1>1. PICK me \in Registered : me = h.worker
    BY HandlerRegistered DEF AcquireShard
<1>2. /\ me \in Infos /\ pc = "acquire" /\ pc' = pc /\ h'.worker = me
      /\ <<from, s>> \in offer[me] /\ AssignShard(s, from)
      /\ offer' = [offer EXCEPT ![me] = @ \ {<<from, s>>}]
      /\ UNCHANGED <<unassignedShards, liveShards, workers, workerShardCount>>
    BY <1>1 DEF AcquireShard, Registered, HandlerTypeOK, HandlerType
<1>3. /\ s \in Offered(me) /\ s \notin ToSet(unassignedShards)
      /\ Registered' = Registered /\ Registered \subseteq Infos
    BY <1>2 DEF Offered, SoleInv, PoolAlone, Registered
<1>4. /\ Active(me)' = Active(me) \cup {s} /\ Assigned(me)' = Assigned(me) \cup {s}
      /\ \A j \in Registered : j # me => /\ Active(j)' = Active(j)
                                         /\ Assigned(j)' = Assigned(j) \ {s}
      /\ \A j \in Registered : s \notin Active(j)
    BY <1>1, <1>2, <1>3, AssignActive DEF SoleInv, OffersAlone
<1>5. \A j \in Registered : offer'[j] = offer[j] \ {<<from, s>>}
    BY <1>2, <1>3 DEF SoleInv, OffersAlone, InfoTypeOK
<1>6. \A j \in Registered : \A p \in offer'[j] : p \in offer[j] /\ p[2] # s
    BY <1>2, <1>5 DEF SoleInv, OffersAlone
<1>7. \A j \in Registered : Offered(j)' \subseteq Offered(j) /\ s \notin Offered(j)'
    BY <1>6 DEF Offered
<1>8. PoolAlone' /\ HeapKnown'
    BY <1>2, <1>3, <1>4, <1>7 DEF SoleInv, PoolAlone, HeapKnown
<1>9. OffersAlone'
    <2>1. \A j, k \in Registered' : Active(j)' \cap Offered(k)' = {}
        BY <1>3, <1>4, <1>7 DEF SoleInv, OffersAlone
    <2>2. \A j, k \in Registered' : \A p \in offer'[j], q \in offer'[k] :
             p[2] = q[2] => j = k /\ p = q
        BY <1>3, <1>6 DEF SoleInv, OffersAlone
    <2> QED
        BY <2>1, <2>2 DEF OffersAlone
<1>10. OffersOfOwner' /\ ExclusiveAssignment'
    BY <1>3, <1>4, <1>6 DEF SoleInv, OffersOfOwner, ExclusiveAssignment
<1>11. ASSUME PlaceInv
       PROVE  OnlyLive' /\ CountsExact' /\ QueueInv'
    <2>1. OnlyLive'
        BY <1>2, <1>3, <1>4, <1>7, <1>11 DEF PlaceInv, OnlyLive
    <2> QED
        BY <1>1, <1>2, <1>11, <2>1, AssignCounts
<1> QED
    BY <1>8, <1>9, <1>10, <1>11 DEF SoleInv, PlaceInv

\* The first shard of the pool gets its only owner.
LEMMA PoolPlace ==
    ASSUME Known, SoleInv, NEW s \in Shards, AssignFromPool(s)
    PROVE  SoleInv' /\ (PlaceInv => PlaceInv')
<1> USE DEF Known, TypeOK
<1>1. PICK me \in Registered : me = h.worker
    BY HandlerRegistered DEF AssignFromPool
<1>2. /\ me \in Infos /\ pc = "assign" /\ pc' = pc /\ h'.worker = me
      /\ AssignShard(s, NoInfo)
      /\ unassignedShards # <<>> /\ s = Head(unassignedShards)
      /\ unassignedShards' = Tail(unassignedShards)
      /\ UNCHANGED <<offer, liveShards, workers, workerShardCount>>
    BY <1>1 DEF AssignFromPool, Registered, HandlerTypeOK, HandlerType
<1>3. /\ ToSet(unassignedShards) = {s} \cup ToSet(unassignedShards')
      /\ Injective(unassignedShards') /\ s \notin ToSet(unassignedShards')
    BY <1>2, SetOfTail DEF SoleInv, PoolAlone, MgrTypeOK
<1>4. Registered' = Registered /\ \A j : Offered(j)' = Offered(j)
    BY <1>2 DEF Registered, Offered
<1>5. /\ Active(me)' = Active(me) \cup {s} /\ Assigned(me)' = Assigned(me) \cup {s}
      /\ \A j \in Registered : j # me => /\ Active(j)' = Active(j)
                                         /\ Assigned(j)' = Assigned(j) \ {s}
    BY <1>1, <1>2, <1>3, AssignActive
<1>6. \A j \in Registered : s \notin Assigned(j) /\ s \notin Offered(j)
    BY <1>3 DEF SoleInv, PoolAlone
<1>7. \A j \in Registered : \A p \in offer[j] : p[2] # s
    BY <1>6 DEF Offered
<1>8. PoolAlone' /\ HeapKnown'
    BY <1>2, <1>3, <1>4, <1>5, <1>6 DEF SoleInv, PoolAlone, HeapKnown
<1>9. OffersAlone' /\ OffersOfOwner' /\ ExclusiveAssignment'
    BY <1>2, <1>4, <1>5, <1>6, <1>7 DEF SoleInv, OffersAlone, OffersOfOwner,
       ExclusiveAssignment
<1>10. ASSUME PlaceInv
       PROVE  OnlyLive' /\ CountsExact' /\ QueueInv'
    <2>1. OnlyLive'
        BY <1>2, <1>3, <1>4, <1>5, <1>10 DEF PlaceInv, OnlyLive
    <2> QED
        BY <1>1, <1>2, <1>3, <1>10, <2>1, AssignCounts
<1> QED
    BY <1>8, <1>9, <1>10 DEF SoleInv, PlaceInv

\* The count of the worker is published.
LEMMA AssignDonePlace ==
    ASSUME Known, SoleInv, AssignDone
    PROVE  SoleInv' /\ (PlaceInv => PlaceInv')
<1>1. PICK me \in Registered : me = h.worker
    BY HandlerRegistered DEF AssignDone, Known
<1>2. /\ UNCHANGED <<unassignedShards, liveShards, workers, assignments, requested,
                     offer, activeShardCount>>
      /\ pc' \in {"rebalance", "respond"} /\ pc = "assign"
      /\ workerShardCount' = {e \in workerShardCount : e.value # me}
                                \cup {[value |-> me, priority |-> activeShardCount[me]]}
    BY <1>1 DEF AssignDone, Push, infoVars
<1>3. /\ Registered' = Registered
      /\ \A i : /\ Active(i)' = Active(i) /\ Assigned(i)' = Assigned(i)
                /\ Offered(i)' = Offered(i)
    BY <1>2 DEF Registered, Active, Assigned, Offered
<1>4. SoleInv'
    <2>1. HeapKnown'
        BY <1>2, <1>3 DEF SoleInv, HeapKnown
    <2> QED
        BY <1>2, <1>3, <2>1 DEF SoleInv, PoolAlone, OffersAlone, OffersOfOwner,
           ExclusiveAssignment
<1>5. ASSUME PlaceInv
      PROVE  OnlyLive' /\ CountsExact' /\ QueueInv'
    <2>1. OnlyLive' /\ CountsExact'
        BY <1>2, <1>3, <1>5 DEF PlaceInv, OnlyLive, CountsExact
    <2>2. ASSUME NEW i \in Registered, Active(i) # {}
          PROVE  [value |-> i, priority |-> activeShardCount[i]] \in workerShardCount'
        <3>1. CASE i = me
            BY <1>2, <3>1
        <3>2. CASE i # me
            BY <1>1, <1>2, <1>5, <2>2, <3>2 DEF PlaceInv, QueueInv, InQueue
        <3> QED
            BY <3>1, <3>2
    <2> QED
        BY <1>2, <1>3, <2>1, <2>2 DEF QueueInv, InQueue
<1> QED
    BY <1>4, <1>5 DEF PlaceInv

-----------------------------------------------------------------------------
(* rebalance *)

\* What is stolen is offered to one worker and no longer counted for the other.
LEMMA StealPlace ==
    ASSUME Known, SoleInv, NEW i \in Infos, NEW s \in Shards, RebalanceSteal(i, s)
    PROVE  SoleInv' /\ (PlaceInv => PlaceInv')
<1> USE DEF Known, TypeOK
<1>1. PICK me \in Registered : me = h.worker
    BY HandlerRegistered DEF RebalanceSteal
<1>2. /\ me \in Infos /\ pc = "rebalance" /\ pc' = pc
      /\ s \in Active(i) /\ i \in Registered
      /\ requested' = [requested EXCEPT ![i] = @ \cup {s}]
      /\ offer' = [offer EXCEPT ![me] = @ \cup {<<i, s>>}]
      /\ UNCHANGED <<unassignedShards, liveShards, workers, assignments>>
    <2>1. i \in Registered
        BY DEF RebalanceSteal, Tops, SoleInv, HeapKnown
    <2> QED
        BY <1>1, <2>1 DEF RebalanceSteal, Registered
<1>3. /\ activeShardCount' = [activeShardCount EXCEPT ![i] = @ - 1]
      /\ workerShardCount' = {e \in workerShardCount : e.value # i}
                                \cup {[value |-> i, priority |-> activeShardCount[i] - 1]}
    BY DEF RebalanceSteal, LoseActive, Push
<1>4. /\ Registered' = Registered /\ Registered \subseteq Infos
      /\ s \in Assigned(i) /\ s \notin ToSet(unassignedShards)
      /\ \A j \in Registered : s \notin Offered(j) /\ Assigned(j)' = Assigned(j)
    BY <1>2 DEF Registered, Active, Assigned, SoleInv, PoolAlone, OffersAlone
<1>5. /\ Active(i)' = Active(i) \ {s}
      /\ \A j \in Registered : j # i => Active(j)' = Active(j) /\ s \notin Assigned(j)
    <2>1. \A j \in Infos : requested'[j] = IF j = i THEN requested[j] \cup {s}
                                           ELSE requested[j]
        BY <1>2 DEF InfoTypeOK
    <2> QED
        BY <1>2, <1>4, <2>1 DEF Active, SoleInv, ExclusiveAssignment
<1>6. \A j \in Registered : offer'[j] = IF j = me THEN offer[j] \cup {<<i, s>>}
                                        ELSE offer[j]
    BY <1>2, <1>4 DEF InfoTypeOK
<1>7. ASSUME NEW j \in Registered, NEW t \in Offered(j)'
      PROVE  t \in Offered(j) \/ (t = s /\ j = me)
    <2>1. PICK p \in offer'[j] : p[2] = t
        BY DEF Offered
    <2>2. p \in offer[j] \/ (j = me /\ p = <<i, s>>)
        BY <1>6
    <2> QED
        BY <2>1, <2>2 DEF Offered
<1>8. PoolAlone' /\ HeapKnown'
    BY <1>2, <1>3, <1>4, <1>7 DEF SoleInv, PoolAlone, HeapKnown
<1>9. OffersAlone'
    <2>1. \A j, k \in Registered' : Active(j)' \cap Offered(k)' = {}
        <3>1. \A j \in Registered : j # i => s \notin Active(j)'
            BY <1>5 DEF Active
        <3> QED
            BY <1>2, <1>4, <1>5, <1>7, <3>1 DEF SoleInv, OffersAlone
    <2>2. ASSUME NEW j \in Registered, NEW k \in Registered, NEW p \in offer'[j],
                 NEW q \in offer'[k], p[2] = q[2]
          PROVE  j = k /\ p = q
        <3>1. /\ p \in offer[j] \/ (j = me /\ p = <<i, s>>)
              /\ q \in offer[k] \/ (k = me /\ q = <<i, s>>)
            BY <1>6
        <3>2. \A l \in Registered : \A o \in offer[l] : o[2] # s
            BY <1>4 DEF Offered
        <3> QED
            BY <2>2, <3>1, <3>2 DEF SoleInv, OffersAlone
    <2> QED
        BY <1>4, <2>1, <2>2 DEF OffersAlone
<1>10. OffersOfOwner' /\ ExclusiveAssignment'
    <2>1. ExclusiveAssignment'
        BY <1>4 DEF SoleInv, ExclusiveAssignment
    <2>2. ASSUME NEW j \in Registered, NEW k \in Registered, NEW p \in offer'[k],
                 p[2] \in Assigned(j)
          PROVE  p[1] = j
        <3>1. p \in offer[k] \/ p = <<i, s>>
            BY <1>6
        <3> QED
            BY <1>5, <2>2, <3>1 DEF SoleInv, OffersOfOwner
    <2> QED
        BY <1>4, <2>1, <2>2 DEF OffersOfOwner
<1>11. ASSUME PlaceInv
       PROVE  OnlyLive' /\ CountsExact'
    <2>1. Cardinality(Active(i)') = Cardinality(Active(i)) - 1
        BY <1>2, <1>5, ActiveFinite, FS_RemoveElement
    <2>2. activeShardCount \in [Infos -> Int]
        BY DEF InfoTypeOK
    <2>3. CountsExact'
        BY <1>2, <1>3, <1>4, <1>5, <1>11, <2>1, <2>2 DEF PlaceInv, CountsExact
    <2>4. OnlyLive'
        BY <1>2, <1>4, <1>5, <1>7, <1>11 DEF PlaceInv, OnlyLive
    <2> QED
        BY <2>3, <2>4
<1>12. ASSUME PlaceInv
       PROVE  QueueInv'
    <2>1. activeShardCount'[i] = activeShardCount[i] - 1
        BY <1>3 DEF InfoTypeOK
    <2>2. ASSUME NEW j \in Registered, Active(j)' # {}
          PROVE  InQueue(j)'
        <3>1. CASE j = i
            BY <1>3, <2>1, <3>1 DEF InQueue
        <3>2. CASE j # i
            <4>1. InQueue(j)
                BY <1>2, <1>5, <1>12, <2>2, <3>2 DEF PlaceInv, QueueInv
            <4> QED
                BY <1>3, <1>4, <3>2, <4>1 DEF InQueue, InfoTypeOK
        <3> QED
            BY <3>1, <3>2
    <2> QED
        BY <1>4, <2>2 DEF QueueInv
<1> QED
    BY <1>8, <1>9, <1>10, <1>11, <1>12 DEF SoleInv, PlaceInv

-----------------------------------------------------------------------------
(* All steps *)

\* A manager that is elected starts with no workers, and a pool that lists no shard twice.
LEMMA InServiceSole ==
    ASSUME Known, NEW t \in Terms, SetToInService(t)
    PROVE  SoleInv'
<1> DEFINE finished == {s \in Roots : loading.checkpoints[s] = "CLOSED"}
<1>1. PICK a \in SetToSeqs(Roots \ finished) : unassignedShards' = a
    BY DEF SetToInService
<1>2. Roots \ finished \in SUBSET Shards
    BY DEF Roots, Known, TypeOK, EnvTypeOK
<1> HIDE DEF finished
<1>3. Injective(unassignedShards')
    BY <1>1, <1>2, SetOfOrder
<1>4. Registered' = {} /\ workerShardCount' = {}
    BY NilAssumption DEF SetToInService, Registered
<1> QED
    BY <1>3, <1>4 DEF SoleInv, PoolAlone, OffersAlone, OffersOfOwner, ExclusiveAssignment,
       HeapKnown

\* While nothing is closed these are the roots.
LEMMA InServicePlace ==
    ASSUME Known, QuietInv, NEW t \in Terms, SetToInService(t), closing = {}
    PROVE  closed' = <<>> /\ PlaceInv'
<1> USE DEF Known, TypeOK
<1> DEFINE finished == {s \in Roots : loading.checkpoints[s] = "CLOSED"}
<1>1. Roots \in SUBSET Shards
    BY DEF Roots, EnvTypeOK
<1>2. finished = {}
    BY <1>1 DEF ClosedInv, ReadToEnd
<1>3. PICK a \in SetToSeqs(Roots \ finished), b \in SetToSeqs(finished) :
         unassignedShards' = a /\ closed' = Notify(b)
    BY DEF SetToInService
<1>4. liveShards' = Roots \ finished /\ workers' = [w \in Workers |-> NoInfo]
    BY DEF SetToInService
<1> HIDE DEF finished
<1>5. ToSet(unassignedShards') = liveShards'
    BY <1>1, <1>2, <1>3, <1>4, SetOfOrder
<1>6. closed' = <<>>
    <2>1. b \in Seq(Shards) /\ ToSet(b) = {}
        BY <1>2, <1>3, SetOfOrder
    <2>2. Len(b) = 0
        BY <2>1, SetOfSequence
    <2> QED
        BY <1>3, <2>1, <2>2 DEF Notify
<1>7. Registered' = {}
    BY <1>4, NilAssumption DEF Registered
<1> QED
    BY <1>5, <1>6, <1>7, InServiceSole DEF PlaceInv, OnlyLive, CountsExact, QueueInv

\* While nothing closes, processClosedShards has nothing to do.
LEMMA QuietHandler ==
    ASSUME TypeOK, QuietInv, closing = {}, HandlerStep
    PROVE  closed' = <<>> /\ h'.unresolved = <<>>
<1>1. closed = <<>> /\ h.unresolved = <<>>
    BY DEF QuietInv
<1>2. NoRequest.unresolved = <<>>
    BY DEF NoRequest
<1>3. ASSUME NEW i \in Infos, ResolveKnown(i) \/ ResolveNew(i)
      PROVE  closed' = <<>> /\ h'.unresolved = <<>>
    BY <1>1, <1>2, <1>3 DEF ResolveKnown, ResolveNew, Continue, mgrVars, TypeOK,
       HandlerTypeOK, HandlerType
<1>4. ASSUME NEW i \in Infos, ReleaseWorker(i)
      PROVE  closed' = <<>> /\ h'.unresolved = <<>>
    BY <1>1, <1>4 DEF ReleaseWorker, TypeOK, HandlerTypeOK, HandlerType
<1>5. ASSUME NEW s \in Shards, AssignFromPool(s) \/ \E i \in Infos : AcquireShard(i, s)
      PROVE  closed' = <<>> /\ h'.unresolved = <<>>
    BY <1>1, <1>5 DEF AssignFromPool, AcquireShard, TypeOK, HandlerTypeOK, HandlerType
<1>6. ASSUME CloseDone
      PROVE  closed' = <<>> /\ h'.unresolved = <<>>
    BY <1>1, <1>6 DEF CloseDone, TypeOK, HandlerTypeOK, HandlerType
<1> QED
    BY <1>1, <1>2, <1>3, <1>4, <1>5, <1>6 DEF HandlerStep, ReleaseDone, CloseUnresolved,
       CloseResolved, RebalanceSteal, AcquireDone, AssignDone, RebalanceDone,
       AssignRespond, mgrVars

\* Every part of the handler but processClosedShards keeps each shard in one place.
LEMMA MovePlace ==
    ASSUME Known, SoleInv, HandlerStep, ~CloseUnresolved, ~CloseResolved
    PROVE  SoleInv' /\ (PlaceInv => PlaceInv')
<1>1. ASSUME ReleaseDone \/ CloseDone \/ AcquireDone \/ RebalanceDone \/ AssignRespond
      PROVE  SoleInv' /\ (PlaceInv => PlaceInv')
    <2>1. /\ UNCHANGED <<soleVars, placeVars>>
          /\ pc \in {"acquire", "assign"} => pc' \in {"acquire", "assign"}
          /\ pc' \in {"acquire", "assign"} => pc \in {"acquire", "assign"}
                                              /\ h'.worker = h.worker
        BY <1>1 DEF ReleaseDone, CloseDone, AcquireDone, RebalanceDone, AssignRespond,
                    soleVars, placeVars, mgrVars, infoVars
    <2> QED
        BY <2>1, SoleKept, PlaceKept
<1> QED
    BY <1>1, ReleasePlace, ResolveNewPlace, ResolveKnownPlace, AcquirePlace,
       PoolPlace, AssignDonePlace, StealPlace DEF HandlerStep

\* No step loses, duplicates or miscounts a shard before one is closed.
LEMMA PlaceInductive ==
    /\ Init => QuietPlaceInv
    /\ Known /\ QuietPlaceInv /\ [Next]_vars => QuietPlaceInv'
<1>1. Init => QuietPlaceInv
    <2> SUFFICES ASSUME Init PROVE QuietPlaceInv
        OBVIOUS
    <2>1. Registered = {} /\ ToSet(unassignedShards) = {} /\ Injective(unassignedShards)
        BY NilAssumption DEF Init, Registered, ToSet, Injective
    <2>2. SoleInv
        BY <2>1 DEF Init, SoleInv, PoolAlone, OffersAlone, OffersOfOwner,
           ExclusiveAssignment, HeapKnown
    <2> QED
        BY <2>1, <2>2 DEF Init, NoRequest, QuietPlaceInv, QuietInv, PlaceInv, OnlyLive,
           CountsExact, QueueInv
<1> SUFFICES ASSUME Known, QuietPlaceInv, [Next]_vars, closing' = {}
             PROVE  closed' = <<>> /\ h'.unresolved = <<>> /\ PlaceInv'
    BY <1>1 DEF QuietPlaceInv, QuietInv
<1>2. closing = {} /\ QuietInv /\ PlaceInv /\ closed = <<>> /\ h.unresolved = <<>>
      /\ TypeOK
    BY EnvGrows DEF QuietPlaceInv, QuietInv, Known
<1>3. CASE HandlerStep
    <2>1. ~CloseUnresolved /\ ~CloseResolved
        BY <1>2 DEF CloseUnresolved, CloseResolved
    <2> QED
        BY <1>2, <1>3, <2>1, MovePlace, QuietHandler DEF PlaceInv
<1>4. ASSUME NEW t \in Terms, SetToInService(t)
      PROVE  closed' = <<>> /\ h'.unresolved = <<>> /\ PlaceInv'
    <2>1. h' = h
        BY <1>4 DEF SetToInService, handlerVars
    <2> QED
        BY <1>2, <1>4, <2>1, InServicePlace
<1>5. ASSUME NEW c \in inflight, CheckpointUpdate(c)
      PROVE  UNCHANGED <<placeVars, pc, h, closed>>
    <2>1. c.sn # "CLOSED"
        BY <1>2 DEF Known, ClosedInv, ReadToEnd
    <2> QED
        BY <1>5, <2>1 DEF CheckpointUpdate, placeVars, infoVars, handlerVars
<1>6. ASSUME UNCHANGED <<placeVars, pc, h, closed>>
      PROVE  closed' = <<>> /\ h'.unresolved = <<>> /\ PlaceInv'
    BY <1>2, <1>6, PlaceKept
<1>7. ASSUME NEW w \in Workers, NEW n \in MaxShardsValues, NEW lag \in 0..MaxLag,
             AssignBegin(w, n, lag)
      PROVE  closed' = <<>> /\ h'.unresolved = <<>> /\ PlaceInv'
    <2>1. /\ UNCHANGED <<placeVars, closed>> /\ pc = "idle" /\ pc' = "release"
          /\ h'.unresolved = <<>>
        BY <1>7 DEF AssignBegin, NoRequest, placeVars, mgrVars, infoVars
    <2> QED
        BY <1>2, <2>1, PlaceKept
<1> QED
    BY <1>3, <1>4, <1>5, <1>6, <1>7 DEF Next, CheckpointBegin, CheckpointRefused,
       CheckpointStep, TxnSucceeds, TxnFails, TxnError, Disconnect, LoadBegin,
       LoadCheckpoint, Pass, Discover, SetToOutOfService, Tick, vars, mgrVars, infoVars,
       handlerVars, placeVars

-----------------------------------------------------------------------------
(* Theorems *)

\* Everything that is proved of a state the manager can be in.
ManagerInv == Known /\ TreeInv /\ QuietPlaceInv

\* The invariant of the placement, together with what it builds on.
LEMMA ManagerInvariant == Spec => []ManagerInv
<1>1. Init => ManagerInv
    BY InitType, BookInductive, ClosedInductive, TreeInductive, PlaceInductive
       DEF ManagerInv, Known
<1>2. ManagerInv /\ [Next]_vars => ManagerInv'
    BY NextType, BookInductive, ClosedInductive, TreeInductive, PlaceInductive
       DEF ManagerInv, Known
<1> QED
    BY <1>1, <1>2, PTL DEF Spec

\* A shard that is in one place has no other.
LEMMA OnePlace ==
    ASSUME TypeOK, SoleInv, NEW s \in Shards, NEW x \in Places(s), NEW y \in Places(s)
    PROVE  x = y
<1>1. \A k \in 1..Len(unassignedShards) :
         unassignedShards[k] = s => s \in ToSet(unassignedShards)
    BY SetOfSequence DEF TypeOK, MgrTypeOK
<1>2. \A i : \A p \in offer[i] : p[2] = s => s \in Offered(i)
    BY DEF Offered
<1>3. ASSUME NEW z \in Places(s)
      PROVE  \/ \E k \in 1..Len(unassignedShards) :
                    z = <<"pool", k>> /\ unassignedShards[k] = s
             \/ \E i \in Registered : z = <<"active", i>> /\ s \in Active(i)
             \/ \E i \in Registered : \E p \in offer[i] :
                    z = <<"offer", i, p>> /\ p[2] = s
    BY DEF Places
<1>4. ASSUME NEW k \in 1..Len(unassignedShards), unassignedShards[k] = s,
             x = <<"pool", k>>
      PROVE  x = y
    BY <1>1, <1>2, <1>3, <1>4 DEF SoleInv, PoolAlone, Injective, Active
<1>5. ASSUME NEW i \in Registered, s \in Active(i), x = <<"active", i>>
      PROVE  x = y
    BY <1>1, <1>2, <1>3, <1>5 DEF SoleInv, PoolAlone, OffersAlone, ExclusiveAssignment,
       Active
<1>6. ASSUME NEW i \in Registered, NEW p \in offer[i], p[2] = s, x = <<"offer", i, p>>
      PROVE  x = y
    BY <1>1, <1>2, <1>3, <1>6 DEF SoleInv, PoolAlone, OffersAlone
<1> QED
    BY <1>3, <1>4, <1>5, <1>6

\* Only live shards have a place.
LEMMA LivePlace ==
    ASSUME TypeOK, OnlyLive, NEW s \in Shards, Places(s) # {}
    PROVE  s \in liveShards
<1>1. PICK z : z \in Places(s)
    OBVIOUS
<1>2. \A k \in 1..Len(unassignedShards) :
         unassignedShards[k] = s => s \in ToSet(unassignedShards)
    BY SetOfSequence DEF TypeOK, MgrTypeOK
<1> QED
    BY <1>1, <1>2 DEF Places, OnlyLive, Offered

\* releaseInactiveWorkers, rebalance and acquireDueReassignments neither lose nor
\* duplicate a shard, in any order of requests, expirations and terms: until a first
\* processor reports the end of its shard, a live shard is in exactly one place.
THEOREM EachShardPlacedOnce == Spec => [](closing = {} => PlacedOnce)
<1>1. ManagerInv /\ closing = {} => PlacedOnce
    <2> SUFFICES ASSUME ManagerInv, closing = {}, NEW s \in Shards
                 PROVE  Cardinality(Places(s)) = IF s \in liveShards THEN 1 ELSE 0
        BY DEF PlacedOnce
    <2>1. TypeOK /\ BookInv /\ SoleInv /\ OnlyLive
        BY DEF ManagerInv, Known, QuietPlaceInv, PlaceInv
    <2>2. CASE s \in liveShards
        <3>1. Places(s) # {}
            BY <2>1, <2>2, LiveHasPlace
        <3>2. PICK x : x \in Places(s)
            BY <3>1
        <3>3. Places(s) = {x}
            BY <2>1, <3>2, OnePlace
        <3> QED
            BY <2>2, <3>3, FS_Singleton
    <2>3. CASE s \notin liveShards
        <3>1. Places(s) = {}
            BY <2>1, <2>3, LivePlace
        <3> QED
            BY <2>3, <3>1, FS_EmptySet
    <2> QED
        BY <2>2, <2>3
<1> QED
    BY <1>1, ManagerInvariant, PTL

\* No two workers hold assignments of one shard, although an owner keeps its own until
\* the offer of it is due: acquireDueReassignments takes it from the one as it gives it
\* to the other, and a worker that leaves takes its request along (lines 250 to 273).
THEOREM OwnersExclusive == Spec => [](closing = {} => ExclusiveAssignment)
<1>1. ManagerInv /\ closing = {} => ExclusiveAssignment
    BY DEF ManagerInv, QuietPlaceInv, PlaceInv, SoleInv
<1> QED
    BY <1>1, ManagerInvariant, PTL

\* ActiveShardCount is what its comment says (lines 58 to 60): no iteration of the
\* handler counts a shard twice or forgets to.
THEOREM ActiveShardCountExact == Spec => [](closing = {} => CountsExact)
<1>1. ManagerInv /\ closing = {} => CountsExact
    BY DEF ManagerInv, QuietPlaceInv, PlaceInv
<1> QED
    BY <1>1, ManagerInvariant, PTL

\* The heap rebalance steals from is in step with the workers between requests.
THEOREM HeapMatchesWorkers == Spec => [](closing = {} => QueueInSync)
<1>1. ManagerInv /\ closing = {} => QueueInSync
    BY DEF ManagerInv, QuietPlaceInv, PlaceInv, SoleInv, HeapKnown, QueueInv, InQueue,
       QueueInSync
<1> QED
    BY <1>1, ManagerInvariant, PTL

-----------------------------------------------------------------------------
(* The fence *)

\* The ids of the processors are given out, and the fence of a shard is the id of one.
GrantsInv == \A p \in granted : p[3] < NextAssignmentID
TokenInv ==
    /\ \A s \in Shards : kvsAssignment[s] # 0 =>
          \E p \in granted : p[2] = s /\ p[3] = kvsAssignment[s]
    /\ \A c \in inflight : c.stage = "new" => kvsAssignment[c.proc[2]] # 0
\* No processor of a shard has a later id than the assignment the manager holds.
LatestInv ==
    \A i \in Registered : \A p \in granted :
        p[2] \in Assigned(i) => p[3] <= assignments[i][p[2]]

\* The next id only rises.
LEMMA NextIDRises ==
    ASSUME TypeOK, TypeOK', [Next]_vars
    PROVE  NextAssignmentID' >= NextAssignmentID
<1> USE DEF NextAssignmentID
<1>1. /\ term \in Nat /\ nextAssignmentOffset \in Nat
      /\ term' \in Nat /\ nextAssignmentOffset' \in Nat
    BY DEF TypeOK, MgrTypeOK
<1>2. CASE HandlerStep
    <2>1. CASE GivesNone
        BY <2>1 DEF GivesNone
    <2>2. ASSUME term' = term, NEW s \in Shards, NEW from \in Infos \cup {NoInfo},
                 AssignShard(s, from)
          PROVE  NextAssignmentID' >= NextAssignmentID
        <3>1. nextAssignmentOffset' = nextAssignmentOffset + 1
            BY <2>2 DEF AssignShard
        <3> QED
            BY <1>1, <2>2, <3>1
    <2> QED
        BY <1>2, <2>1, <2>2, HandlerIds
<1>3. ASSUME NEW t \in Terms, SetToInService(t)
      PROVE  NextAssignmentID' >= NextAssignmentID
    BY <1>1, <1>3, BoundAssumption DEF SetToInService, EnterTerm
<1>4. CASE UNCHANGED <<term, nextAssignmentOffset>>
    BY <1>1, <1>4
<1> QED
    BY <1>2, <1>3, <1>4 DEF Next, vars, mgrVars, AssignBegin, CheckpointBegin,
       CheckpointRefused, CheckpointStep, TxnSucceeds, TxnFails, TxnError,
       CheckpointUpdate, Disconnect, LoadBegin, LoadCheckpoint, Pass, Discover,
       SetToOutOfService, Tick

\* Only the response grants anything.
LEMMA GrantedBy ==
    [Next]_vars => granted' = granted \/ AssignRespond
<1> SUFFICES ASSUME [Next]_vars, ~AssignRespond PROVE granted' = granted
    OBVIOUS
<1>1. CASE HandlerStep
    BY <1>1 DEF HandlerStep, ReleaseWorker, ResolveKnown, ResolveNew, ReleaseDone,
       CloseUnresolved, CloseResolved, CloseDone, AcquireShard, RebalanceSteal,
       AssignFromPool, AcquireDone, AssignDone, RebalanceDone, envVars, procVars
<1> QED
    BY <1>1 DEF Next, vars, AssignBegin, CheckpointBegin, CheckpointRefused,
       CheckpointStep, TxnSucceeds, TxnFails, TxnError, CheckpointUpdate, Disconnect,
       LoadBegin, LoadCheckpoint, Pass, Discover, SetToInService, SetToOutOfService, Tick,
       envVars, procVars

\* What a response grants.
LEMMA RespondGrants ==
    ASSUME TypeOK, BookInv, AssignRespond, NEW p \in granted', p \notin granted
    PROVE  \E i \in Registered : p[2] \in Assigned(i) /\ p[3] = assignments[i][p[2]]
<1>1. h.worker \in Registered
    BY HandlerRegistered DEF AssignRespond
<1>2. \E s \in Assigned(h.worker) : p = <<h.WorkerID, s, assignments[h.worker][s]>>
    BY DEF AssignRespond
<1> QED
    BY <1>1, <1>2

\* Every processor has an id below the next one to be given.
LEMMA GrantsInductive ==
    /\ Init => GrantsInv
    /\ Known /\ TypeOK' /\ IdsUnique /\ GrantsInv /\ [Next]_vars => GrantsInv'
<1>1. Init => GrantsInv
    BY DEF Init, GrantsInv
<1> SUFFICES ASSUME Known, TypeOK', IdsUnique, GrantsInv, [Next]_vars, NEW p \in granted'
             PROVE  p[3] < NextAssignmentID'
    BY <1>1 DEF GrantsInv
<1> USE DEF Known
<1>2. NextAssignmentID' >= NextAssignmentID /\ NextAssignmentID \in Nat
      /\ NextAssignmentID' \in Nat
    BY NextIDRises, NextIDType
<1>3. p \in Processors /\ p[3] \in Nat
    BY DEF TypeOK, EnvTypeOK, Processors
<1>4. CASE p \in granted
    BY <1>2, <1>3, <1>4 DEF GrantsInv
<1>5. CASE p \notin granted
    <2>1. AssignRespond
        BY <1>5, GrantedBy
    <2>2. PICK i \in Registered : p[2] \in Assigned(i) /\ p[3] = assignments[i][p[2]]
        BY <1>5, <2>1, RespondGrants
    <2>3. p[3] < NextAssignmentID
        BY <2>2 DEF IdsUnique, Assigned, Registered
    <2> QED
        BY <1>2, <1>3, <2>3
<1> QED
    BY <1>4, <1>5

\* A transaction sets the fence to the id of the processor that sent the request.
LEMMA PutToken ==
    ASSUME TypeOK, GrantInv, TokenInv, NEW c \in inflight, PutBoth(c), NEW s \in Shards
    PROVE  /\ kvsAssignment[s] # 0 => kvsAssignment'[s] # 0
           /\ kvsAssignment'[s] # 0 =>
                 \E p \in granted : p[2] = s /\ p[3] = kvsAssignment'[s]
<1>1. /\ c.proc \in granted /\ c.proc[3] > 0 /\ c.proc[2] \in Shards
      /\ c.proc[3] \in Nat /\ kvsAssignment \in [Shards -> Nat]
    BY RequestParts DEF GrantInv, TypeOK, EnvTypeOK
<1>2. kvsAssignment'[s] = IF s = c.proc[2] THEN c.proc[3] ELSE kvsAssignment[s]
    BY <1>1 DEF PutBoth
<1> QED
    BY <1>1, <1>2 DEF TokenInv

\* The token of a shard in etcd is the id of a processor of that shard.
LEMMA TokenInductive ==
    /\ Init => TokenInv
    /\ TypeOK /\ GrantInv /\ TokenInv /\ [Next]_vars => TokenInv'
<1>1. Init => TokenInv
    BY DEF Init, TokenInv
<1> SUFFICES ASSUME TypeOK, GrantInv, TokenInv, [Next]_vars PROVE TokenInv'
    BY <1>1
<1>2. granted \subseteq granted'
    BY GrantedBy DEF AssignRespond
<1>3. ASSUME UNCHANGED <<kvsAssignment, inflight>>
      PROVE  TokenInv'
    BY <1>2, <1>3 DEF TokenInv
<1>4. CASE HandlerStep
    BY <1>3, <1>4, HandlerEnv DEF kvsVars
<1>5. ASSUME NEW p \in granted, NEW sn \in {"SEQ", "CLOSED"},
             CheckpointBegin(p, sn) \/ CheckpointRefused(p, sn)
      PROVE  TokenInv'
    <2>1. kvsAssignment' = kvsAssignment
        BY <1>5 DEF CheckpointBegin, CheckpointRefused, kvsVars
    <2>2. \A d \in inflight' : d \in inflight \/ d.stage = "current"
        BY <1>5 DEF CheckpointBegin, CheckpointRefused
    <2> QED
        BY <1>2, <2>1, <2>2 DEF TokenInv
<1>6. ASSUME NEW c \in inflight, CheckpointStep(c) \/ Disconnect(c)
      PROVE  TokenInv'
    <2>1. /\ c \in Request /\ c.proc[2] \in Shards /\ kvsAssignment \in [Shards -> Nat]
          /\ c.proc[3] \in Nat
        BY RequestParts DEF TypeOK, EnvTypeOK
    <2>2. kvsAssignment' = kvsAssignment \/ PutBoth(c)
        BY <1>6 DEF CheckpointStep, TxnSucceeds, TxnFails, TxnError, CheckpointUpdate,
                    Disconnect, kvsVars
    <2>3. ASSUME NEW s \in Shards
          PROVE  /\ kvsAssignment[s] # 0 => kvsAssignment'[s] # 0
                 /\ kvsAssignment'[s] # 0 =>
                       \E p \in granted : p[2] = s /\ p[3] = kvsAssignment'[s]
        BY <2>2, PutToken DEF TokenInv
    <2>4. ASSUME NEW d \in inflight', d.stage = "new"
          PROVE  d.proc[2] \in Shards /\ kvsAssignment[d.proc[2]] # 0
        <3>1. CASE d \in inflight
            BY <2>4, <3>1, RequestParts DEF TokenInv
        <3>2. CASE d \notin inflight
            <4>1. \/ TxnFails(c) /\ d = [c EXCEPT !.stage = After(@)] /\ c.stage # "new"
                  \/ Disconnect(c) /\ d = [c EXCEPT !.abandoned = TRUE]
                BY <1>6, <2>1, <2>4, <3>2 DEF CheckpointStep, TxnSucceeds, TxnFails,
                   TxnError, CheckpointUpdate, Disconnect, Request
            <4>2. CASE Disconnect(c) /\ d = [c EXCEPT !.abandoned = TRUE]
                BY <2>1, <2>4, <4>2 DEF TokenInv, Request
            <4>3. CASE TxnFails(c) /\ d = [c EXCEPT !.stage = After(@)] /\ c.stage # "new"
                <5>1. c.stage = "first" /\ d.proc = c.proc
                    BY <2>1, <2>4, <4>3 DEF After, Request, Stages, TxnFails
                <5> QED
                    BY <2>1, <4>3, <5>1 DEF TxnFails, Passes
            <4> QED
                BY <4>1, <4>2, <4>3
        <3> QED
            BY <3>1, <3>2
    <2> QED
        BY <1>2, <2>3, <2>4 DEF TokenInv
<1> QED
    BY <1>3, <1>4, <1>5, <1>6 DEF Next, AssignBegin, LoadBegin, LoadCheckpoint,
       Pass, Discover, SetToInService, SetToOutOfService, Tick, vars, envVars, kvsVars,
       procVars

\* What an info that is registered has assigned is given out last, or as it was.
LEMMA AssignedBy ==
    ASSUME TypeOK, [Next]_vars, NEW i \in Infos, NEW s \in Assigned(i)'
    PROVE  \/ s \in Assigned(i) /\ assignments'[i][s] = assignments[i][s]
           \/ assignments'[i][s] = NextAssignmentID
<1>1. CASE HandlerStep
    <2>1. CASE GivesNone
        BY <2>1 DEF GivesNone, Assigned
    <2>2. ASSUME NEW t \in Shards, NEW from \in Infos \cup {NoInfo}, AssignShard(t, from)
          PROVE  \/ assignments'[i][s] = NextAssignmentID
                 \/ assignments'[i][s] = 0
                 \/ assignments'[i][s] = assignments[i][s]
        BY <2>2 DEF AssignShard, Assigned
    <2>3. \/ assignments'[i][s] = NextAssignmentID
          \/ assignments'[i][s] = assignments[i][s]
        BY <1>1, <2>1, <2>2, HandlerIds DEF Assigned, GivesNone
    <2> QED
        BY <2>3 DEF Assigned
<1>2. CASE assignments' = assignments
    BY <1>2 DEF Assigned
<1> QED
    BY <1>1, <1>2 DEF Next, vars, infoVars, AssignBegin, CheckpointBegin,
       CheckpointRefused, CheckpointStep, TxnSucceeds, TxnFails, TxnError,
       CheckpointUpdate, Disconnect, LoadBegin, LoadCheckpoint, Pass, Discover,
       SetToInService, SetToOutOfService, Tick

\* Who registers has no assignments yet.
LEMMA RegisteredBy ==
    ASSUME TypeOK, [Next]_vars, NEW i \in Registered'
    PROVE  i \in Registered \/ Assigned(i)' = {}
<1>1. i \in Infos /\ workers \in [Workers -> Infos \cup {NoInfo}]
    BY DEF Registered, TypeOK, MgrTypeOK
<1>2. ASSUME NEW j \in Infos, ReleaseWorker(j)
      PROVE  i \in Registered
    BY <1>1, <1>2, NilAssumption DEF ReleaseWorker, Registered, TypeOK, InfoTypeOK
<1>3. ASSUME NEW j \in Infos, ResolveNew(j)
      PROVE  i \in Registered \/ Assigned(i)' = {}
    <2>1. CASE i = j
        BY <1>3, <2>1 DEF ResolveNew, Assigned, TypeOK, InfoTypeOK
    <2>2. CASE i # j
        BY <1>1, <1>3, <2>2 DEF ResolveNew, Registered, TypeOK, HandlerTypeOK, HandlerType
    <2> QED
        BY <2>1, <2>2
<1>4. ASSUME NEW t \in Terms, SetToInService(t)
      PROVE  FALSE
    BY <1>1, <1>4, NilAssumption DEF SetToInService, Registered
<1>5. ASSUME workers' = workers
      PROVE  i \in Registered
    BY <1>5 DEF Registered
<1>6. CASE HandlerStep
    BY <1>2, <1>3, <1>5, <1>6 DEF HandlerStep, ResolveKnown, ReleaseDone,
       CloseUnresolved, CloseResolved, CloseDone, AcquireShard, RebalanceSteal,
       AssignFromPool, AcquireDone, AssignDone, RebalanceDone, AssignRespond, mgrVars
<1> QED
    BY <1>4, <1>5, <1>6 DEF Next, vars, mgrVars, AssignBegin, CheckpointBegin,
       CheckpointRefused, CheckpointStep, TxnSucceeds, TxnFails, TxnError,
       CheckpointUpdate, Disconnect, LoadBegin, LoadCheckpoint, Pass, Discover,
       SetToOutOfService, Tick

\* The assignments of a shard, one after the other, have ever higher ids.
LEMMA LatestInductive ==
    /\ Init => LatestInv
    /\ Known /\ TypeOK' /\ ExclusiveAssignment /\ GrantsInv /\ LatestInv /\ [Next]_vars
         => LatestInv'
<1>1. Init => LatestInv
    BY DEF Init, LatestInv
<1> SUFFICES ASSUME Known, TypeOK', ExclusiveAssignment, GrantsInv, LatestInv, [Next]_vars,
                    NEW i \in Registered', NEW p \in granted', p[2] \in Assigned(i)'
             PROVE  p[3] <= assignments'[i][p[2]]
    BY <1>1 DEF LatestInv
<1> USE DEF Known
<1>2. /\ i \in Infos /\ i \in Registered /\ p[2] \in Shards /\ p[3] \in Nat
      /\ assignments[i][p[2]] \in Nat /\ NextAssignmentID \in Nat
    <2>1. i \in Infos /\ i \in Registered
        BY RegisteredBy DEF Registered
    <2>2. p[2] \in Shards /\ p[3] \in Nat
        BY DEF TypeOK, EnvTypeOK, Processors
    <2> QED
        BY <2>1, <2>2, NextIDType DEF TypeOK, InfoTypeOK
<1>3. CASE p \in granted
    <2>1. p[3] < NextAssignmentID
        BY <1>3 DEF GrantsInv
    <2>2. CASE assignments'[i][p[2]] = NextAssignmentID
        BY <1>2, <2>1, <2>2
    <2>3. CASE p[2] \in Assigned(i) /\ assignments'[i][p[2]] = assignments[i][p[2]]
        BY <1>2, <1>3, <2>3 DEF LatestInv
    <2> QED
        BY <1>2, <2>2, <2>3, AssignedBy
<1>4. CASE p \notin granted
    <2>1. AssignRespond
        BY <1>4, GrantedBy
    <2>2. PICK j \in Registered : p[2] \in Assigned(j) /\ p[3] = assignments[j][p[2]]
        BY <1>4, <2>1, RespondGrants
    <2>3. assignments' = assignments
        BY <2>1 DEF AssignRespond, infoVars
    <2>4. i = j
        BY <1>2, <2>2, <2>3 DEF ExclusiveAssignment, Assigned
    <2> QED
        BY <1>2, <2>2, <2>3, <2>4
<1> QED
    BY <1>3, <1>4

FenceInv == GrantsInv /\ GrantInv /\ TokenInv /\ (closing = {} => LatestInv)

\* The invariant of the fence: whose id the token is, and that the owner has the latest.
LEMMA FenceInvariant == Spec => []FenceInv
<1>1. Init => FenceInv
    BY GrantsInductive, GrantInductive, TokenInductive, LatestInductive DEF FenceInv
<1>2. /\ ManagerInv /\ ManagerInv' /\ IdsUnique /\ FenceInv /\ [Next]_vars
      /\ (closing = {} => ExclusiveAssignment)
      => FenceInv'
    <2> SUFFICES ASSUME ManagerInv, ManagerInv', IdsUnique, FenceInv, [Next]_vars,
                        closing = {} => ExclusiveAssignment
                 PROVE  FenceInv'
        OBVIOUS
    <2>1. Known /\ TypeOK /\ TypeOK'
        BY DEF ManagerInv, Known
    <2>2. closing' = {} => closing = {}
        BY EnvGrows
    <2> QED
        BY <2>1, <2>2, GrantsInductive, GrantInductive, TokenInductive, LatestInductive
           DEF FenceInv
<1> QED
    BY <1>1, <1>2, ManagerInvariant, UniqueAssignmentIds, OwnersExclusive, PTL DEF Spec

\* The token is the id of a processor, and the owner's is the latest of them.
LEMMA LatestAdmits ==
    ASSUME TypeOK, TokenInv, LatestInv
    PROVE  FenceAdmitsOwner
<1> SUFFICES ASSUME NEW i \in Registered, NEW s \in Assigned(i)
             PROVE  kvsAssignment[s] <= assignments[i][s]
    BY DEF FenceAdmitsOwner
<1>1. /\ s \in Shards /\ kvsAssignment[s] \in Nat /\ assignments[i][s] \in Nat
    BY DEF TypeOK, EnvTypeOK, InfoTypeOK, Registered, Assigned
<1>2. CASE kvsAssignment[s] = 0
    BY <1>1, <1>2
<1>3. CASE kvsAssignment[s] # 0
    <2>1. PICK p \in granted : p[2] = s /\ p[3] = kvsAssignment[s]
        BY <1>1, <1>3 DEF TokenInv
    <2>2. p[3] <= assignments[i][p[2]]
        BY <2>1 DEF LatestInv
    <2> QED
        BY <2>1, <2>2
<1> QED
    BY <1>2, <1>3

\* The fence, which an old owner may set late, is never above the id of the assignment
\* that the manager holds: the owner of a shard always gets its checkpoint through.
THEOREM OwnerAdmitted == Spec => [](closing = {} => FenceAdmitsOwner)
<1>1. ManagerInv /\ FenceInv /\ closing = {} => FenceAdmitsOwner
    BY LatestAdmits DEF ManagerInv, Known, FenceInv
<1> QED
    BY <1>1, ManagerInvariant, FenceInvariant, PTL

\* The stream has no splits and no merges: no processor ever sends CLOSED.
LEMMA NeverClosing == ASSUME Closable = {} PROVE Spec => [](closing = {})
<1>1. Init => closing = {}
    BY DEF Init
<1>2. closing = {} /\ [Next]_vars => (closing = {})'
    <2> SUFFICES ASSUME closing = {}, [Next]_vars PROVE closing' = closing
        OBVIOUS
    <2>1. CASE HandlerStep
        BY <2>1, HandlerEnv
    <2>2. ASSUME NEW p \in granted, NEW sn \in {"SEQ", "CLOSED"},
                 CheckpointBegin(p, sn) \/ CheckpointRefused(p, sn)
          PROVE  closing' = closing
        BY <2>2 DEF CheckpointBegin, CheckpointRefused, MaySend, Sent
    <2> QED
        BY <2>1, <2>2 DEF Next, AssignBegin, CheckpointStep, TxnSucceeds, TxnFails,
           TxnError, CheckpointUpdate, Disconnect, LoadBegin, LoadCheckpoint, Pass, Discover,
           SetToInService, SetToOutOfService, Tick, vars, envVars, procVars
<1> QED
    BY <1>1, <1>2, PTL DEF Spec

\* Only the last comparison of a request that fails stops a processor and ends the
\* request, and it fails only if the fence is not below the id.
LEMMA AdmittedNotRefused ==
    ASSUME TypeOK, GrantInv, TokenInv, FenceAdmitsOwner, Next,
           NEW c \in inflight, c.stage = "new", c \notin inflight', stopped' # stopped,
           inService, Owns(c.proc[1], c.proc[2], c.proc[3])
    PROVE  kvsAssignment[c.proc[2]] = c.proc[3]
<1>1. /\ c \in Request /\ c.proc[1] \in Workers /\ c.proc[2] \in Shards
      /\ c.proc[3] \in Nat /\ kvsAssignment[c.proc[2]] \in Nat
    BY RequestParts DEF TypeOK, EnvTypeOK
<1>2. TxnFails(c)
    <2>1. PICK d \in inflight : CheckpointStep(d) \/ Disconnect(d)
        BY HandlerEnv DEF Next, AssignBegin, CheckpointBegin, CheckpointRefused,
           LoadBegin, LoadCheckpoint, Pass, Discover, SetToInService, SetToOutOfService,
           Tick, envVars, procVars
    <2>2. TxnFails(d) \/ CheckpointUpdate(d)
        BY <2>1 DEF CheckpointStep, TxnSucceeds, TxnError, Disconnect
    <2>3. c = d
        BY <2>2 DEF TxnFails, CheckpointUpdate
    <2> QED
        BY <2>2, <2>3 DEF CheckpointUpdate
<1>3. kvsAssignment[c.proc[2]] # 0 /\ ~(kvsAssignment[c.proc[2]] < c.proc[3])
    BY <1>2 DEF TxnFails, Passes, TokenInv
<1>4. kvsAssignment[c.proc[2]] <= c.proc[3]
    <2>1. /\ workers[c.proc[1]] \in Registered
          /\ assignments[workers[c.proc[1]]][c.proc[2]] = c.proc[3]
        BY <1>1 DEF Owns, Registered, TypeOK, MgrTypeOK
    <2>2. c.proc[3] > 0
        BY DEF GrantInv
    <2> QED
        BY <1>1, <2>1, <2>2 DEF FenceAdmitsOwner, Assigned
<1> QED
    BY <1>1, <1>3, <1>4

\* The three comparisons of handleCheckpointRequest, run one after the other while
\* others write the fence in between, let the owner through: when the last of them
\* fails too, and the processor is told to stop, it is not the owner any more, or a
\* repetition of its own request was first.
THEOREM OwnerGetsThrough == ASSUME Closable = {} PROVE Spec => OwnerNotRefused
<1>1. /\ ManagerInv /\ FenceInv /\ [Next]_vars
      /\ (closing = {} => FenceAdmitsOwner) /\ closing = {}
      => [\A c \in inflight :
            /\ c.stage = "new" /\ ~c.abandoned /\ c \notin inflight'
            /\ stopped' # stopped
            /\ inService /\ Owns(c.proc[1], c.proc[2], c.proc[3])
            => kvsAssignment[c.proc[2]] = c.proc[3]]_vars
    BY AdmittedNotRefused DEF ManagerInv, Known, FenceInv
<1> QED
    BY <1>1, ManagerInvariant, FenceInvariant, OwnerAdmitted, NeverClosing, PTL
       DEF Spec, OwnerNotRefused
===============================================================================
