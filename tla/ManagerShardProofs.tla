-------------------------- MODULE ManagerShardProofs --------------------------
(***************************************************************************)
(* What is proved of the shards in Manager for every value of its          *)
(* constants, for any tree of shards and any number of terms: the records  *)
(* of a shard come after those of its parents, and no live shard is lost.  *)
(***************************************************************************)
EXTENDS ManagerProofs, FunctionTheorems, SequenceTheorems

-----------------------------------------------------------------------------
(* Sequences of shards as sets *)

Injective(seq) == \A m, n \in 1..Len(seq) : seq[m] = seq[n] => m = n

\* The elements of a sequence.
LEMMA SetOfSequence ==
    ASSUME NEW S, NEW seq \in Seq(S)
    PROVE  /\ \A x : x \in ToSet(seq) <=> \E k \in 1..Len(seq) : x = seq[k]
           /\ ToSet(seq) \subseteq S
           /\ seq = <<>> => ToSet(seq) = {}
    BY DEF ToSet

\* One sequence after another; without a repetition when neither has one and they share
\* nothing.
LEMMA SetOfConcat ==
    ASSUME NEW S, NEW a \in Seq(S), NEW b \in Seq(S)
    PROVE  /\ ToSet(a \o b) = ToSet(a) \cup ToSet(b)
           /\ Injective(a) /\ Injective(b) /\ ToSet(a) \cap ToSet(b) = {}
                => Injective(a \o b)
<1>1. /\ a \o b \in Seq(S) /\ Len(a \o b) = Len(a) + Len(b)
      /\ Len(a) \in Nat /\ Len(b) \in Nat
      /\ \A k \in 1..(Len(a) + Len(b)) :
            (a \o b)[k] = IF k <= Len(a) THEN a[k] ELSE b[k - Len(a)]
    BY ConcatProperties
<1>2. \A k \in 1..Len(a) : k \in 1..(Len(a) + Len(b)) /\ (a \o b)[k] = a[k]
    BY <1>1
<1>3. \A k \in 1..Len(b) : /\ k + Len(a) \in 1..(Len(a) + Len(b))
                           /\ (a \o b)[k + Len(a)] = b[k]
    BY <1>1
<1>4. \A k \in 1..(Len(a) + Len(b)) :
         \/ k \in 1..Len(a) /\ (a \o b)[k] = a[k]
         \/ /\ k - Len(a) \in 1..Len(b) /\ (a \o b)[k] = b[k - Len(a)]
            /\ k = (k - Len(a)) + Len(a)
    BY <1>1
<1>5. ToSet(a \o b) = ToSet(a) \cup ToSet(b)
    <2>1. \A x : x \in ToSet(a) <=> \E k \in 1..Len(a) : x = a[k]
        BY SetOfSequence
    <2>2. \A x : x \in ToSet(b) <=> \E k \in 1..Len(b) : x = b[k]
        BY SetOfSequence
    <2>3. \A x : x \in ToSet(a \o b) <=> \E k \in 1..(Len(a) + Len(b)) : x = (a \o b)[k]
        BY <1>1, SetOfSequence
    <2>4. \A x \in ToSet(a) : x \in ToSet(a \o b)
        BY <1>2, <2>1, <2>3
    <2>5. \A x \in ToSet(b) : x \in ToSet(a \o b)
        BY <1>3, <2>2, <2>3
    <2>6. \A x \in ToSet(a \o b) : x \in ToSet(a) \/ x \in ToSet(b)
        BY <1>4, <2>1, <2>2, <2>3
    <2> QED
        BY <2>4, <2>5, <2>6
<1>6. ASSUME Injective(a), Injective(b), ToSet(a) \cap ToSet(b) = {},
             NEW m \in 1..(Len(a) + Len(b)), NEW n \in 1..(Len(a) + Len(b)),
             (a \o b)[m] = (a \o b)[n]
      PROVE  m = n
    <2>1. \A k \in 1..Len(a) : a[k] \in ToSet(a)
        BY SetOfSequence
    <2>2. \A k \in 1..Len(b) : b[k] \in ToSet(b)
        BY SetOfSequence
    <2>3. CASE m \in 1..Len(a) /\ n \in 1..Len(a)
        BY <1>2, <1>6, <2>3 DEF Injective
    <2>4. CASE m \notin 1..Len(a) /\ n \notin 1..Len(a)
        <3>1. m - Len(a) = n - Len(a)
            BY <1>4, <1>6, <2>4 DEF Injective
        <3> QED
            BY <1>1, <3>1
    <2> QED
        BY <1>4, <1>6, <2>1, <2>2, <2>3, <2>4
<1> QED
    BY <1>1, <1>5, <1>6 DEF Injective

\* Three sequences, as releaseInactiveWorkers and processClosedShards append.
LEMMA SetOfTwoConcats ==
    ASSUME NEW S, NEW a \in Seq(S), NEW b \in Seq(S), NEW c \in Seq(S)
    PROVE  /\ ToSet(a \o b \o c) = ToSet(a) \cup ToSet(b) \cup ToSet(c)
           /\ Injective(a) /\ Injective(b) /\ Injective(c) /\ ToSet(a) \cap ToSet(b) = {}
                /\ (ToSet(a) \cup ToSet(b)) \cap ToSet(c) = {}
                => Injective(a \o b \o c)
<1>0. a \o b \in Seq(S)
    BY ConcatProperties
<1>1. PICK ab \in Seq(S) : ab = a \o b
    BY <1>0
<1>2. /\ ToSet(ab) = ToSet(a) \cup ToSet(b)
      /\ Injective(a) /\ Injective(b) /\ ToSet(a) \cap ToSet(b) = {} => Injective(ab)
    BY <1>1, SetOfConcat
<1>3. /\ ToSet(ab \o c) = ToSet(ab) \cup ToSet(c)
      /\ Injective(ab) /\ Injective(c) /\ ToSet(ab) \cap ToSet(c) = {}
            => Injective(ab \o c)
    BY SetOfConcat
<1> QED
    BY <1>1, <1>2, <1>3

\* The first element leaves.
LEMMA SetOfTail ==
    ASSUME NEW S, NEW seq \in Seq(S), seq # <<>>
    PROVE  /\ ToSet(seq) = {Head(seq)} \cup ToSet(Tail(seq))
           /\ Injective(seq) => Injective(Tail(seq)) /\ Head(seq) \notin ToSet(Tail(seq))
<1>1. /\ Tail(seq) \in Seq(S) /\ Len(Tail(seq)) = Len(seq) - 1 /\ Len(seq) \in Nat
      /\ Head(seq) = seq[1] /\ Len(seq) >= 1
      /\ \A k \in 1..(Len(seq) - 1) : Tail(seq)[k] = seq[k + 1]
    OBVIOUS
<1>2. \A k \in 2..Len(seq) : k - 1 \in 1..(Len(seq) - 1) /\ Tail(seq)[k - 1] = seq[k]
    BY <1>1
<1>3. \A k \in 1..Len(seq) : k = 1 \/ k \in 2..Len(seq)
    BY <1>1
<1>4. \A k \in 1..(Len(seq) - 1) : k + 1 \in 2..Len(seq) /\ k + 1 \in 1..Len(seq)
    BY <1>1
<1>5. 1 \in 1..Len(seq)
    BY <1>1
<1>6. /\ \A x : x \in ToSet(seq) <=> \E k \in 1..Len(seq) : x = seq[k]
      /\ \A x : x \in ToSet(Tail(seq)) <=> \E k \in 1..(Len(seq) - 1) : x = Tail(seq)[k]
    <2>1. \A x : x \in ToSet(seq) <=> \E k \in 1..Len(seq) : x = seq[k]
        BY SetOfSequence
    <2>2. \A x : x \in ToSet(Tail(seq)) <=>
                    \E k \in 1..Len(Tail(seq)) : x = Tail(seq)[k]
        BY <1>1, SetOfSequence
    <2> QED
        BY <1>1, <2>1, <2>2
<1>8. ToSet(seq) = {Head(seq)} \cup ToSet(Tail(seq))
    <2>1. ASSUME NEW x \in ToSet(seq)
          PROVE  x = Head(seq) \/ x \in ToSet(Tail(seq))
        <3>1. PICK k \in 1..Len(seq) : x = seq[k]
            BY <1>6
        <3>2. CASE k = 1
            BY <1>1, <3>1, <3>2
        <3>3. CASE k \in 2..Len(seq)
            <4>1. k - 1 \in 1..(Len(seq) - 1) /\ x = Tail(seq)[k - 1]
                BY <1>2, <3>1, <3>3
            <4> QED
                BY <1>6, <4>1
        <3> QED
            BY <1>3, <3>2, <3>3
    <2>2. \A x \in ToSet(Tail(seq)) : x \in ToSet(seq)
        BY <1>1, <1>4, <1>6
    <2> QED
        BY <1>1, <1>5, <1>6, <2>1, <2>2
<1>7. ASSUME Injective(seq)
      PROVE  Injective(Tail(seq)) /\ Head(seq) \notin ToSet(Tail(seq))
    <2>1. \A m, n \in 1..(Len(seq) - 1) : m + 1 = n + 1 => m = n
        BY <1>1
    <2>2. Injective(Tail(seq))
        BY <1>1, <1>4, <1>7, <2>1 DEF Injective
    <2>3. \A k \in 1..(Len(seq) - 1) : k + 1 # 1
        BY <1>1
    <2>4. ASSUME NEW k \in 1..(Len(seq) - 1), Tail(seq)[k] = seq[1]
          PROVE  FALSE
        BY <1>1, <1>4, <1>5, <1>7, <2>3, <2>4 DEF Injective
    <2> QED
        BY <1>1, <1>6, <2>2, <2>4
<1> QED
    BY <1>7, <1>8

\* A listing of a set of shards has each of them once.
LEMMA SetOfOrder ==
    ASSUME NEW S \in SUBSET Shards, NEW order \in SetToSeqs(S)
    PROVE  order \in Seq(Shards) /\ ToSet(order) = S /\ Injective(order)
<1>1. IsFiniteSet(S) /\ Cardinality(S) \in Nat
    BY FS_Subset, FS_CardinalityType, FiniteAssumption
<1>0. PICK n \in Nat : n = Cardinality(S)
    BY <1>1
<1>2. /\ order \in [1..n -> S]
      /\ \A i, j \in 1..n : i # j => order[i] # order[j]
    BY <1>0 DEF SetToSeqs
<1>3. IsFiniteSet(1..n) /\ Cardinality(1..n) = n
    BY FS_Interval
<1>4. order \in Injection(1..n, S)
    BY <1>2, Fun_IsInj
<1>5. order \in Surjection(1..n, S)
    BY <1>0, <1>1, <1>3, <1>4, FS_Injection
<1>6. \A x \in S : \E k \in 1..n : order[k] = x
    BY <1>5 DEF Surjection
<1>7. order \in Seq(Shards) /\ Len(order) = n
    BY <1>2, OrdersAreSequences
<1>8. \A x : x \in ToSet(order) <=> \E k \in 1..n : x = order[k]
    BY <1>7, SetOfSequence
<1>9. ToSet(order) = S
    <2>1. \A x \in S : x \in ToSet(order)
        BY <1>6, <1>8
    <2>2. \A x \in ToSet(order) : x \in S
        BY <1>2, <1>8
    <2> QED
        BY <2>1, <2>2
<1>10. Injective(order)
    BY <1>2, <1>7 DEF Injective
<1> QED
    BY <1>7, <1>9, <1>10

-----------------------------------------------------------------------------
(* What the parts of the system change *)

\* The handler changes nothing outside the manager but what it grants.
LEMMA HandlerEnv ==
    HandlerStep => /\ UNCHANGED <<graphVars, loading, kvsVars, closing, stopped, inflight>>
                   /\ granted \subseteq granted'
    BY DEF HandlerStep, ReleaseWorker, ResolveKnown, ResolveNew, ReleaseDone,
       CloseUnresolved, CloseResolved, CloseDone, AcquireShard, RebalanceSteal,
       AssignFromPool, AcquireDone, AssignDone, RebalanceDone, AssignRespond,
       envVars, procVars

\* What was listed stays listed, and what was read to its end stays read.
LEMMA EnvGrows ==
    [Next]_vars => discovered \subseteq discovered' /\ closing \subseteq closing'
<1> SUFFICES ASSUME [Next]_vars
             PROVE  discovered \subseteq discovered' /\ closing \subseteq closing'
    OBVIOUS
<1>1. CASE HandlerStep
    BY <1>1, HandlerEnv DEF graphVars
<1>2. ASSUME NEW p \in granted, NEW sn \in {"SEQ", "CLOSED"},
             CheckpointBegin(p, sn) \/ CheckpointRefused(p, sn)
      PROVE  discovered \subseteq discovered' /\ closing \subseteq closing'
    BY <1>2 DEF CheckpointBegin, CheckpointRefused, Sent, graphVars
<1>3. ASSUME NEW c \in inflight, CheckpointStep(c) \/ Disconnect(c)
      PROVE  discovered \subseteq discovered' /\ closing \subseteq closing'
    BY <1>3 DEF CheckpointStep, TxnSucceeds, TxnFails, TxnError, CheckpointUpdate,
                Disconnect, graphVars
<1>4. ASSUME NEW s \in Shards, LoadCheckpoint(s)
      PROVE  discovered \subseteq discovered' /\ closing \subseteq closing'
    BY <1>4 DEF LoadCheckpoint, graphVars, procVars
<1>5. CASE Pass
    BY <1>5 DEF Pass, Discover, procVars
<1> QED
    BY <1>1, <1>2, <1>3, <1>4, <1>5 DEF Next, AssignBegin, LoadBegin, SetToInService,
       SetToOutOfService, Tick, vars, envVars, graphVars, procVars

\* Some processor has read shard s to its end; all parents of s are read so.
ReadToEnd(s) == \E q \in closing : q[2] = s
Started(s) == \A p \in Parents(s) : ReadToEnd(p)

-----------------------------------------------------------------------------
(* The records of a shard come after those of its parents *)

\* The parents of a listed shard are listed, and only they have it for a child.
TreeInv == /\ \A s \in discovered : Parents(s) \subseteq discovered
           /\ \A p, c \in Shards : <<p, c>> \in linked => p \in Parents(c)

\* What is known of the shards is closed under parents, for every step.
LEMMA TreeInductive ==
    /\ Init => TreeInv
    /\ TypeOK /\ TreeInv /\ [Next]_vars => TreeInv'
<1>1. Init => TreeInv
    BY DEF Init, TreeInv
<1> SUFFICES ASSUME TypeOK, TreeInv, [Next]_vars PROVE TreeInv'
    BY <1>1
<1>2. CASE Pass
    BY <1>2 DEF Pass, Discover, Links, TreeInv
<1>3. CASE UNCHANGED graphVars
    BY <1>3 DEF TreeInv, graphVars
<1>4. CASE HandlerStep
    BY <1>3, <1>4, HandlerEnv
<1> QED
    BY <1>2, <1>3, <1>4 DEF Next, AssignBegin, CheckpointBegin, CheckpointRefused,
       CheckpointStep, TxnSucceeds, TxnFails, TxnError, CheckpointUpdate, Disconnect,
       LoadBegin, LoadCheckpoint, SetToInService, SetToOutOfService, Tick, vars, envVars

\* Only a processor that read a shard to its end has it closed: in memory, in etcd,
\* in what SetToInService has read and in a request that is on its way.
ClosedInv ==
    /\ \A s \in Shards : checkpoints[s] = "CLOSED" => ReadToEnd(s)
    /\ \A s \in Shards : kvsCheckpoint[s] = "CLOSED" => ReadToEnd(s)
    /\ \A s \in Shards : loading.checkpoints[s] = "CLOSED" => ReadToEnd(s)
    /\ \A c \in inflight : c.sn = "CLOSED" => ReadToEnd(c.proc[2])

\* A shard that was read to its end stays so, and one that was started stays started.
LEMMA ReadMonotone ==
    ASSUME [Next]_vars
    PROVE  /\ \A s : ReadToEnd(s) => ReadToEnd(s)'
           /\ \A s : Started(s) => Started(s)'
    BY EnvGrows DEF ReadToEnd, Started

\* A step that writes no new CLOSED anywhere.
LEMMA ClosedKept ==
    ASSUME ClosedInv, [Next]_vars,
           \A s \in Shards : checkpoints'[s] = "CLOSED" => ReadToEnd(s),
           UNCHANGED <<kvsCheckpoint, loading>>,
           \A d \in inflight' : \E c \in inflight : d.proc = c.proc /\ d.sn = c.sn
    PROVE  ClosedInv'
    BY ReadMonotone DEF ClosedInv

\* The handler closes nothing.
LEMMA HandlerClosed ==
    ASSUME TypeOK, HandlerStep, NEW s \in Shards, checkpoints'[s] = "CLOSED"
    PROVE  checkpoints[s] = "CLOSED"
<1>1. CASE CloseResolved
    <2> DEFINE n == Head(closed)
    <2>1. checkpoints' = [t \in Shards |->
             IF t \in Starting(n) /\ checkpoints[t] = "none" THEN "LATEST"
             ELSE checkpoints[t]]
        BY <1>1 DEF CloseResolved
    <2> HIDE DEF n
    <2> QED
        BY <2>1
<1> QED
    BY <1>1 DEF HandlerStep, ReleaseWorker, ResolveKnown, ResolveNew, ReleaseDone,
       CloseUnresolved, CloseDone, AcquireShard, RebalanceSteal, AssignFromPool,
       AcquireDone, AssignDone, RebalanceDone, AssignRespond, mgrVars

\* What memory, etcd and requests take for closed was closed by a processor.
LEMMA ClosedInductive ==
    /\ Init => ClosedInv
    /\ TypeOK /\ ClosedInv /\ [Next]_vars => ClosedInv'
<1>1. Init => ClosedInv
    BY DEF Init, ClosedInv, NoLoad
<1> SUFFICES ASSUME TypeOK, ClosedInv, [Next]_vars PROVE ClosedInv'
    BY <1>1
<1>2. CASE HandlerStep
    <2>1. UNCHANGED <<kvsCheckpoint, loading, inflight>>
        BY <1>2, HandlerEnv DEF kvsVars
    <2>2. \A s \in Shards : checkpoints'[s] = "CLOSED" => ReadToEnd(s)
        BY <1>2, HandlerClosed DEF ClosedInv
    <2> QED
        BY <2>1, <2>2, ClosedKept
<1>3. ASSUME NEW p \in granted, NEW sn \in {"SEQ", "CLOSED"},
             CheckpointBegin(p, sn) \/ CheckpointRefused(p, sn)
      PROVE  ClosedInv'
    <2>1. UNCHANGED <<checkpoints, kvsCheckpoint, loading>>
        BY <1>3 DEF CheckpointBegin, CheckpointRefused, mgrVars, kvsVars
    <2>2. sn = "CLOSED" => ReadToEnd(p[2])'
        BY <1>3 DEF CheckpointBegin, CheckpointRefused, Sent, ReadToEnd
    <2>3. \A d \in inflight' : d \in inflight \/ (d.proc = p /\ d.sn = sn)
        BY <1>3 DEF CheckpointBegin, CheckpointRefused
    <2> QED
        BY <2>1, <2>2, <2>3, ReadMonotone DEF ClosedInv
<1>4. ASSUME NEW c \in inflight, CheckpointStep(c) \/ Disconnect(c)
      PROVE  ClosedInv'
    <2>1. /\ c \in Request /\ c.proc[2] \in Shards
          /\ checkpoints \in [Shards -> Checkpoints]
          /\ kvsCheckpoint \in [Shards -> Checkpoints]
        BY RequestParts DEF TypeOK, MgrTypeOK, EnvTypeOK
    <2>2. c.sn = "CLOSED" => ReadToEnd(c.proc[2])
        BY DEF ClosedInv
    <2>3. \A d \in inflight' : \E e \in inflight : d.proc = e.proc /\ d.sn = e.sn
        BY <1>4, <2>1, RequestKept
    <2>4. loading' = loading
        BY <1>4 DEF CheckpointStep, TxnSucceeds, TxnFails, TxnError, CheckpointUpdate,
                    Disconnect
    <2>5. \A s \in Shards : checkpoints'[s] = "CLOSED" => ReadToEnd(s)
        BY <1>4, <2>1, <2>2 DEF CheckpointStep, TxnSucceeds, TxnFails, TxnError,
                    CheckpointUpdate, Disconnect, ClosedInv, mgrVars
    <2>6. \A s \in Shards : kvsCheckpoint'[s] = "CLOSED" => ReadToEnd(s)
        BY <1>4, <2>1, <2>2 DEF CheckpointStep, TxnSucceeds, TxnFails, TxnError,
                    PutBoth, CheckpointUpdate, Disconnect, ClosedInv, kvsVars
    <2> QED
        BY <2>3, <2>4, <2>5, <2>6, ReadMonotone DEF ClosedInv
<1>5. ASSUME NEW s \in Shards, LoadCheckpoint(s)
      PROVE  ClosedInv'
    <2>1. loading.checkpoints \in [Shards -> Checkpoints]
        BY DEF TypeOK, EnvTypeOK
    <2>2. UNCHANGED <<checkpoints, kvsCheckpoint, inflight>>
        BY <1>5 DEF LoadCheckpoint, mgrVars, kvsVars, procVars
    <2>3. \A t \in Shards : loading'.checkpoints[t] = "CLOSED" =>
             loading.checkpoints[t] = "CLOSED" \/ kvsCheckpoint[t] = "CLOSED"
        BY <1>5, <2>1 DEF LoadCheckpoint, TypeOK, EnvTypeOK
    <2> QED
        BY <2>2, <2>3, ReadMonotone DEF ClosedInv
<1>6. CASE LoadBegin
    <2>1. /\ UNCHANGED <<checkpoints, kvsCheckpoint, inflight>>
          /\ loading'.checkpoints = [s \in Shards |-> "none"]
        BY <1>6 DEF LoadBegin, NoLoad, mgrVars, kvsVars, procVars
    <2> QED
        BY <2>1, ReadMonotone DEF ClosedInv
<1>7. ASSUME NEW t \in Terms, SetToInService(t)
      PROVE  ClosedInv'
    <2>1. /\ UNCHANGED <<kvsCheckpoint, inflight>>
          /\ loading'.checkpoints = [s \in Shards |-> "none"]
          /\ checkpoints' = loading.checkpoints
        BY <1>7 DEF SetToInService, NoLoad, kvsVars, procVars
    <2> QED
        BY <2>1, ReadMonotone DEF ClosedInv
<1>8. ASSUME UNCHANGED <<checkpoints, kvsCheckpoint, loading, inflight>>
      PROVE  ClosedInv'
    BY <1>8, ClosedKept DEF ClosedInv
<1> QED
    BY <1>2, <1>3, <1>4, <1>5, <1>6, <1>7, <1>8 DEF Next, AssignBegin, Pass, Discover,
       SetToOutOfService, Tick, vars, mgrVars, envVars, kvsVars, procVars

\* Shards that are in the pool, assigned or on offer, with any worker there was.
Placed == ToSet(unassignedShards) \cup UNION {Assigned(i) \cup Offered(i) : i \in Infos}

\* No shard gets there before its parents are read to their ends.
StartedInv == \A s \in Placed : Started(s)

\* The shards SetToInService begins with have no parents.
LEMMA RootsStarted ==
    ASSUME TypeOK, TreeInv
    PROVE  \A s \in Roots : Started(s)
<1> SUFFICES ASSUME NEW s \in Roots PROVE Parents(s) = {}
    BY DEF Started
<1>1. s \in Shards /\ s \in discovered /\ Parent[s] \notin discovered
    BY DEF Roots, TypeOK, EnvTypeOK
<1>2. Parent[s] = NoShard
    BY <1>1 DEF TreeInv, Parents
<1> QED
    BY <1>1, <1>2, MergeAssumption DEF Parents

\* The children that become ready have parents that are all closed.
LEMMA ReadyStarted ==
    ASSUME TypeOK, TreeInv, ClosedInv, NEW s \in Shards, NEW c \in Ready(s)
    PROVE  c \in Shards /\ Started(c)
<1>1. /\ c \in Shards /\ s \in Parents(c)
      /\ checkpoints[Parent[c]] = "CLOSED"
      /\ AdjacentParent[c] # NoShard => checkpoints[AdjacentParent[c]] = "CLOSED"
    BY DEF Ready, Children, TreeInv
<1>2. Parent[c] # NoShard
    BY <1>1, MergeAssumption DEF Parents
<1>3. Parent[c] \in Shards /\ AdjacentParent[c] \in Shards \cup {NoShard}
    BY <1>1, <1>2, TreeAssumption
<1> QED
    BY <1>1, <1>3 DEF ClosedInv, Started, Parents

\* A step that places only shards that were placed, or whose parents are read.
LEMMA StartedKept ==
    ASSUME StartedInv, [Next]_vars, \A s \in Placed' : s \in Placed \/ Started(s)
    PROVE  StartedInv'
    BY ReadMonotone DEF StartedInv

\* What the three kinds of changes to workerInfo do to the placed shards.
LEMMA PlacedParts ==
    \A s : s \in Placed <=> \/ s \in ToSet(unassignedShards)
                            \/ \E i \in Infos : s \in Assigned(i)
                            \/ \E i \in Infos : s \in Offered(i)
    BY DEF Placed

\* An assignment adds the one shard.
LEMMA AssignShardPlaces ==
    ASSUME NEW s, NEW from, AssignShard(s, from), NEW i \in Infos, NEW t \in Assigned(i)'
    PROVE  t \in Assigned(i) \/ t = s
    BY DEF AssignShard, Assigned

\* A close notification takes shards away and adds none.
LEMMA SettleAssigned ==
    ASSUME TypeOK, NEW n \in Notification, SettleOwner(n), NEW i \in Infos
    PROVE  Assigned(i)' \subseteq Assigned(i)
<1>1. assignments \in [Infos -> [Shards -> Nat]]
    BY DEF TypeOK, InfoTypeOK
<1>2. \/ assignments' = assignments
      \/ assignments' = [assignments EXCEPT ![n.info][n.shard] = 0]
    BY DEF SettleOwner
<1>3. \A s \in Shards : assignments'[i][s] = assignments[i][s] \/ assignments'[i][s] = 0
    BY <1>1, <1>2
<1> QED
    BY <1>3 DEF Assigned

\* No iteration of the handler places another shard than a child that is ready.
LEMMA HandlerPlaces ==
    ASSUME TypeOK, TreeInv, ClosedInv, HandlerStep, NEW s \in Placed'
    PROVE  s \in Placed \/ Started(s)
<1> USE DEF TypeOK
<1>0. unassignedShards \in Seq(Shards)
    BY DEF MgrTypeOK
<1>1. ASSUME NEW i \in Infos, ReleaseWorker(i)
      PROVE  s \in Placed
    <2> DEFINE own == Active(i) \ h.released
               offered == Offered(i) \ (h.released \cup own)
    <2>1. PICK a \in SetToSeqs(own), b \in SetToSeqs(offered) :
             unassignedShards' = unassignedShards \o a \o b
        BY <1>1 DEF ReleaseWorker
    <2>2. own \in SUBSET Shards /\ offered \in SUBSET Shards
        BY DEF Active, Assigned, Offered, InfoTypeOK
    <2>3. own \subseteq Assigned(i) /\ offered \subseteq Offered(i)
        BY DEF Active
    <2> HIDE DEF own, offered
    <2>4. ToSet(unassignedShards') = ToSet(unassignedShards) \cup own \cup offered
        <3>1. /\ a \in Seq(Shards) /\ b \in Seq(Shards)
              /\ ToSet(a) = own /\ ToSet(b) = offered
            BY <2>2, SetOfOrder
        <3> QED
            BY <1>0, <2>1, <3>1, SetOfTwoConcats
    <2>5. \A j \in Infos : /\ Assigned(j)' \subseteq Assigned(j)
                           /\ Offered(j)' = Offered(j)
        BY <1>1 DEF ReleaseWorker, Assigned, Offered
    <2> QED
        BY <2>3, <2>4, <2>5, PlacedParts DEF Placed
<1>2. ASSUME CloseUnresolved
      PROVE  s \in Placed
    <2>1. /\ Head(closed) \in Notification /\ SettleOwner(Head(closed))
          /\ UNCHANGED <<unassignedShards, offer>>
        BY <1>2 DEF CloseUnresolved, MgrTypeOK
    <2> QED
        BY <2>1, SettleAssigned DEF Placed, Offered
<1>3. ASSUME CloseResolved
      PROVE  s \in Placed \/ Started(s)
    <2> DEFINE n == Head(closed)
    <2>1. n \in Notification /\ SettleOwner(n) /\ offer' = offer
        BY <1>3 DEF CloseResolved, MgrTypeOK
    <2>2. PICK a \in SetToSeqs(Starting(n)) : unassignedShards' = unassignedShards \o a
        BY <1>3 DEF CloseResolved
    <2>3. Starting(n) \subseteq Ready(n.shard) /\ n.shard \in Shards
        BY <2>1 DEF Starting, Notification
    <2> HIDE DEF n
    <2>4. \A c \in Starting(n) : c \in Shards /\ Started(c)
        BY <2>3, ReadyStarted
    <2>5. ToSet(unassignedShards') = ToSet(unassignedShards) \cup Starting(n)
        <3>1. a \in Seq(Shards) /\ ToSet(a) = Starting(n)
            BY <2>4, SetOfOrder
        <3> QED
            BY <1>0, <2>2, <3>1, SetOfConcat
    <2>6. \A j \in Infos : /\ Assigned(j)' \subseteq Assigned(j)
                           /\ Offered(j)' = Offered(j)
        BY <2>1, SettleAssigned DEF Offered
    <2> QED
        BY <2>4, <2>5, <2>6 DEF Placed
<1>4. ASSUME NEW i \in Infos, ResolveNew(i)
      PROVE  s \in Placed
    <2>1. unassignedShards' = unassignedShards
        BY <1>4 DEF ResolveNew
    <2>2. \A j \in Infos : /\ Assigned(j)' \subseteq Assigned(j)
                           /\ Offered(j)' \subseteq Offered(j)
        BY <1>4 DEF ResolveNew, Assigned, Offered, InfoTypeOK
    <2> QED
        BY <2>1, <2>2 DEF Placed
<1>5. ASSUME NEW i \in Infos, NEW t \in Shards, AcquireShard(i, t)
      PROVE  s \in Placed
    <2>1. h.worker \in Infos /\ t \in Offered(h.worker)
        BY <1>5 DEF AcquireShard, Offered, HandlerTypeOK
    <2>2. unassignedShards' = unassignedShards /\ AssignShard(t, i)
        BY <1>5 DEF AcquireShard
    <2>3. \A j \in Infos : Offered(j)' \subseteq Offered(j)
        BY <1>5 DEF AcquireShard, Offered, InfoTypeOK
    <2> QED
        BY <2>1, <2>2, <2>3, AssignShardPlaces DEF Placed
<1>6. ASSUME NEW t \in Shards, AssignFromPool(t)
      PROVE  s \in Placed
    <2>1. /\ AssignShard(t, NoInfo) /\ offer' = offer
          /\ unassignedShards # <<>> /\ t = Head(unassignedShards)
          /\ unassignedShards' = Tail(unassignedShards)
        BY <1>6 DEF AssignFromPool
    <2>2. ToSet(unassignedShards) = {t} \cup ToSet(unassignedShards')
        BY <1>0, <2>1, SetOfTail
    <2> QED
        BY <2>1, <2>2, AssignShardPlaces DEF Placed, Offered
<1>7. ASSUME NEW i \in Infos, NEW t \in Shards, RebalanceSteal(i, t)
      PROVE  s \in Placed
    <2>1. t \in Assigned(i) /\ UNCHANGED <<unassignedShards, assignments>>
        BY <1>7 DEF RebalanceSteal, Active
    <2>2. \A j \in Infos : Offered(j)' \subseteq Offered(j) \cup {t}
        BY <1>7 DEF RebalanceSteal, Offered, InfoTypeOK
    <2> QED
        BY <2>1, <2>2 DEF Placed, Assigned
<1>8. ASSUME UNCHANGED <<unassignedShards, assignments, offer>>
      PROVE  s \in Placed
    BY <1>8 DEF Placed, Assigned, Offered
<1> QED
    BY <1>1, <1>2, <1>3, <1>4, <1>5, <1>6, <1>7, <1>8 DEF HandlerStep, ResolveKnown,
       ReleaseDone, CloseDone, AcquireDone, AssignDone, RebalanceDone, AssignRespond,
       mgrVars, infoVars

\* A shard is in the pool, with a worker or offered only once it was started.
LEMMA StartedInductive ==
    /\ Init => StartedInv
    /\ TypeOK /\ TreeInv /\ ClosedInv /\ StartedInv /\ [Next]_vars => StartedInv'
<1>1. Init => StartedInv
    <2> SUFFICES ASSUME Init PROVE Placed = {}
        BY DEF StartedInv
    <2>1. ToSet(unassignedShards) = {}
        BY SetOfSequence DEF Init, ToSet
    <2> QED
        BY <2>1 DEF Init, Placed, Assigned, Offered
<1> SUFFICES ASSUME TypeOK, TreeInv, ClosedInv, StartedInv, [Next]_vars
             PROVE  \A s \in Placed' : s \in Placed \/ Started(s)
    BY <1>1, StartedKept
<1>2. CASE HandlerStep
    BY <1>2, HandlerPlaces
<1>3. ASSUME NEW t \in Terms, SetToInService(t), NEW s \in Placed'
      PROVE  s \in Placed \/ Started(s)
    <2> DEFINE finished == {r \in Roots : loading.checkpoints[r] = "CLOSED"}
    <2>1. PICK a \in SetToSeqs(Roots \ finished) : unassignedShards' = a
        BY <1>3 DEF SetToInService
    <2>2. Roots \ finished \in SUBSET Shards
        BY DEF Roots, TypeOK, EnvTypeOK
    <2>3. ToSet(unassignedShards') \subseteq Roots
        BY <2>1, <2>2, SetOfOrder
    <2>4. UNCHANGED <<assignments, offer>>
        BY <1>3 DEF SetToInService, infoVars
    <2> QED
        BY <2>3, <2>4, RootsStarted DEF Placed, Assigned, Offered
<1>4. ASSUME UNCHANGED <<unassignedShards, assignments, offer>>
      PROVE  Placed' = Placed
    BY <1>4 DEF Placed, Assigned, Offered
<1> QED
    BY <1>2, <1>3, <1>4 DEF Next, AssignBegin, CheckpointBegin, CheckpointRefused,
       CheckpointStep, TxnSucceeds, TxnFails, TxnError, CheckpointUpdate, Disconnect,
       LoadBegin, LoadCheckpoint, Pass, Discover, SetToOutOfService, Tick, vars, mgrVars,
       infoVars

\* What the shards of a split or merge are handed out for: reading a child begins
\* when some processor has read each of its parents to the end, over any number of
\* terms of the manager and for any tree of shards.
THEOREM ParentsBeforeChildren == Spec => []ParentsFirst
<1>1. TypeOK /\ StartedInv => ParentsFirst
    <2> SUFFICES ASSUME TypeOK, StartedInv, NEW i \in Registered, NEW s \in Assigned(i),
                        NEW p \in Parents(s) \cap discovered
                 PROVE  ReadToEnd(p)
        BY DEF ParentsFirst, ReadToEnd
    <2>1. i \in Infos /\ s \in Placed
        BY DEF Registered, Placed
    <2>2. p \in Parents(s)
        BY NilAssumption DEF Parents, TypeOK, EnvTypeOK
    <2> QED
        BY <2>1, <2>2 DEF StartedInv, Started
<1> QED
    BY <1>1, InitType, NextType, TreeInductive, ClosedInductive, StartedInductive, PTL
       DEF Spec

-----------------------------------------------------------------------------
(* No live shard is lost *)

\* A request runs while the manager is in service, in a term with a number.
TermInv == /\ inService => term > 0
           /\ pc # "idle" => inService

\* An info that is registered knows the id it is registered for, and the handler
\* works with the info of the worker that asks.
WhoInv ==
    /\ \A w \in Workers : workers[w] \in Infos => workerID[workers[w]] = w
    /\ pc \in {"acquire", "assign", "rebalance", "respond"}
         => workers[h.WorkerID] = h.worker

\* Shard s is in the pool, or a registered worker reads it or has it on offer.
HeldBy(i, s) == s \in Active(i) \cup Offered(i)
Held(s) == s \in ToSet(unassignedShards) \/ \E i \in Registered : HeldBy(i, s)

\* What releaseInactiveWorkers has released is in the pool, so that to leave it out
\* when the next worker leaves (lines 243 and 260) loses nothing.
LiveInv == /\ \A s \in liveShards : Held(s)
           /\ pc = "release" => h.released \subseteq ToSet(unassignedShards)

BookInv == TermInv /\ WhoInv /\ LiveInv
bookVars == <<inService, term, unassignedShards, liveShards, workers, workerID,
              assignments, requested, offer>>

\* A step that leaves the books as they are.
LEMMA BookKept ==
    ASSUME BookInv, UNCHANGED <<bookVars, pc, h>>
    PROVE  BookInv'
    BY DEF BookInv, bookVars, TermInv, WhoInv, LiveInv, Held, HeldBy, Registered,
           Active, Assigned, Offered

\* Outside releaseInactiveWorkers, a step that keeps the term, and who is who.
LEMMA BookOf ==
    ASSUME BookInv, UNCHANGED <<inService, term>>, pc # "idle", pc' # "release", WhoInv',
           \A s \in liveShards' : Held(s)'
    PROVE  BookInv'
    BY DEF BookInv, TermInv, LiveInv

\* The shards of the other workers stay where they are.
LEMMA HeldKept ==
    ASSUME NEW s, Held(s),
           s \in ToSet(unassignedShards) => s \in ToSet(unassignedShards'),
           \A i \in Registered : HeldBy(i, s) => Held(s)'
    PROVE  Held(s)'
    BY DEF Held

\* A worker that leaves is no longer registered, and the others are.
LEMMA Unregister ==
    ASSUME TypeOK, WhoInv, NEW i \in Registered,
           workers' = [workers EXCEPT ![workerID[i]] = NoInfo]
    PROVE  Registered' = Registered \ {i}
<1>1. /\ workers \in [Workers -> Infos \cup {NoInfo}] /\ i \in Infos
      /\ workerID \in [Infos -> Workers]
    BY DEF Registered, TypeOK, MgrTypeOK, InfoTypeOK
<1>2. \A w \in Workers : workers'[w] = IF w = workerID[i] THEN NoInfo ELSE workers[w]
    BY <1>1
<1>3. PICK v \in Workers : workers[v] = i
    BY DEF Registered
<1>4. workers[workerID[i]] = i
    BY <1>1, <1>3 DEF WhoInv
<1>5. \A w \in Workers : workers[w] = i => w = workerID[i]
    BY <1>1 DEF WhoInv
<1>6. \A j \in Infos : (\E w \in Workers : workers'[w] = j)
                        <=> j # i /\ \E w \in Workers : workers[w] = j
    BY <1>1, <1>2, <1>4, <1>5, NilAssumption
<1> QED
    BY <1>6 DEF Registered

\* releaseInactiveWorkers moves what a worker held to the pool, what was on offer to
\* it included, and takes that from its owner.
LEMMA ReleaseBook ==
    ASSUME TypeOK, BookInv, NEW i \in Infos, ReleaseWorker(i)
    PROVE  BookInv'
<1> USE DEF TypeOK, BookInv
<1> DEFINE own == Active(i) \ h.released
           offered == Offered(i) \ (h.released \cup own)
<1>1. /\ i \in Registered /\ Registered' = Registered \ {i}
      /\ workers' = [workers EXCEPT ![workerID[i]] = NoInfo]
    BY Unregister DEF ReleaseWorker, Expired
<1>2. /\ h.released \subseteq ToSet(unassignedShards)
      /\ h'.released = h.released \cup own \cup offered
    BY DEF ReleaseWorker, LiveInv, HandlerTypeOK, HandlerType
<1>3. ToSet(unassignedShards') = ToSet(unassignedShards) \cup own \cup offered
    <2>1. PICK a \in SetToSeqs(own), b \in SetToSeqs(offered) :
             unassignedShards' = unassignedShards \o a \o b
        BY DEF ReleaseWorker
    <2>2. own \in SUBSET Shards /\ offered \in SUBSET Shards
        BY DEF Active, Assigned, Offered, InfoTypeOK
    <2> HIDE DEF own, offered
    <2>3. /\ a \in Seq(Shards) /\ b \in Seq(Shards)
          /\ ToSet(a) = own /\ ToSet(b) = offered
        BY <2>2, SetOfOrder
    <2> QED
        BY <2>1, <2>3, SetOfTwoConcats DEF MgrTypeOK
<1>4. Active(i) \cup Offered(i) \subseteq ToSet(unassignedShards')
    BY <1>2, <1>3
<1>5. ASSUME NEW j \in Infos, NEW s, HeldBy(j, s), s \notin Offered(i)
      PROVE  HeldBy(j, s)'
    BY <1>5 DEF ReleaseWorker, HeldBy, Active, Assigned, Offered, InfoTypeOK
<1>6. ASSUME NEW s \in liveShards'
      PROVE  Held(s)'
    <2>1. Held(s)
        BY <1>6 DEF ReleaseWorker, LiveInv
    <2>2. ASSUME NEW j \in Registered, HeldBy(j, s)
          PROVE  s \in ToSet(unassignedShards') \/ \E k \in Registered' : HeldBy(k, s)'
        <3>1. CASE j = i
            BY <1>4, <2>2, <3>1 DEF HeldBy
        <3>2. CASE s \in Offered(i)
            BY <1>4, <3>2
        <3>3. CASE j # i /\ s \notin Offered(i)
            BY <1>1, <1>5, <2>2, <3>3 DEF Registered
        <3> QED
            BY <3>1, <3>2, <3>3
    <2> QED
        BY <1>3, <2>1, <2>2 DEF Held
<1>7. LiveInv'
    BY <1>2, <1>3, <1>6 DEF LiveInv
<1>8. WhoInv'
    BY <1>1, NilAssumption DEF ReleaseWorker, WhoInv, MgrTypeOK, InfoTypeOK
<1>9. TermInv'
    BY DEF ReleaseWorker, TermInv
<1> QED
    BY <1>7, <1>8, <1>9

\* Only the shard that is closed loses its owner.
LEMMA SettleHeld ==
    ASSUME TypeOK, NEW n \in Notification, SettleOwner(n), offer' = offer,
           NEW i \in Infos, NEW s, HeldBy(i, s), n.info = NoInfo \/ s # n.shard
    PROVE  HeldBy(i, s)'
<1>1. /\ assignments \in [Infos -> [Shards -> Nat]]
      /\ requested \in [Infos -> SUBSET Shards]
    BY DEF TypeOK, InfoTypeOK
<1>2. CASE n.info = NoInfo
    BY <1>2 DEF SettleOwner, HeldBy, Active, Assigned, Offered
<1>3. CASE n.info # NoInfo /\ s # n.shard
    <2>1. /\ assignments' = [assignments EXCEPT ![n.info][n.shard] = 0]
          /\ requested' = [requested EXCEPT ![n.info] = @ \ {n.shard}]
        BY <1>3 DEF SettleOwner
    <2>2. /\ \A t \in Shards : t # n.shard => assignments'[i][t] = assignments[i][t]
          /\ requested'[i] \subseteq requested[i]
        BY <1>1, <2>1
    <2> QED
        BY <1>3, <2>2 DEF HeldBy, Active, Assigned, Offered
<1> QED
    BY <1>2, <1>3

\* A shard that stays live when another one is closed stays where it is.
LEMMA SettledHeld ==
    ASSUME TypeOK, BookInv, NEW n \in Notification, SettleOwner(n),
           UNCHANGED <<workers, offer>>,
           ToSet(unassignedShards) \subseteq ToSet(unassignedShards'),
           NEW s \in Settled(n)
    PROVE  Held(s)'
<1>1. s \in liveShards /\ (n.info = NoInfo \/ s # n.shard)
    BY DEF Settled
<1>2. ASSUME NEW i \in Registered, HeldBy(i, s)
      PROVE  Held(s)'
    <2>1. i \in Infos /\ i \in Registered'
        BY DEF Registered
    <2>2. HeldBy(i, s)'
        BY <1>1, <1>2, <2>1, SettleHeld
    <2> QED
        BY <2>1, <2>2 DEF Held
<1> QED
    BY <1>1, <1>2, HeldKept DEF BookInv, LiveInv

\* processClosedShards.
LEMMA CloseBook ==
    ASSUME TypeOK, BookInv, CloseUnresolved \/ CloseResolved
    PROVE  BookInv'
<1> DEFINE n == Head(closed)
<1>1. /\ n \in Notification /\ SettleOwner(n) /\ pc = "closed"
      /\ UNCHANGED <<inService, term, workers, workerID, offer, pc>>
    BY DEF CloseUnresolved, CloseResolved, TypeOK, MgrTypeOK
<1> HIDE DEF n
<1>2. WhoInv'
    BY <1>1 DEF BookInv, WhoInv
<1>3. CASE CloseUnresolved
    <2>1. liveShards' = Settled(n) /\ unassignedShards' = unassignedShards
        BY <1>3 DEF CloseUnresolved, n
    <2> QED
        BY <1>1, <1>2, <2>1, SettledHeld, BookOf
<1>4. CASE CloseResolved
    <2>1. PICK a \in SetToSeqs(Starting(n)) : unassignedShards' = unassignedShards \o a
        BY <1>4 DEF CloseResolved, n
    <2>2. Starting(n) \in SUBSET Shards
        BY DEF Starting, Ready, Children
    <2>3. ToSet(unassignedShards') = ToSet(unassignedShards) \cup Starting(n)
        <3>1. a \in Seq(Shards) /\ ToSet(a) = Starting(n)
            BY <2>2, SetOfOrder
        <3> QED
            BY <2>1, <3>1, SetOfConcat DEF TypeOK, MgrTypeOK
    <2>4. liveShards' = Settled(n) \cup Starting(n)
        BY <1>4 DEF CloseResolved, n
    <2>5. \A s \in liveShards' : Held(s)'
        BY <1>1, <2>3, <2>4, SettledHeld DEF Held
    <2> QED
        BY <1>1, <1>2, <2>5, BookOf
<1> QED
    BY <1>3, <1>4

\* Registering a worker, or its heartbeat.
LEMMA ResolveBook ==
    ASSUME TypeOK, BookInv, NEW i \in Infos, ResolveKnown(i) \/ ResolveNew(i)
    PROVE  BookInv'
<1> USE DEF TypeOK, BookInv
<1>1. /\ pc = "resolve" /\ pc' # "release" /\ UNCHANGED <<inService, term>>
      /\ h.WorkerID \in Workers
      /\ \/ pc' = "idle"
         \/ pc' = "acquire" /\ h'.worker = i /\ h'.WorkerID = h.WorkerID
    BY DEF ResolveKnown, ResolveNew, Continue, mgrVars, HandlerTypeOK, HandlerType
<1>2. CASE ResolveKnown(i)
    <2>1. UNCHANGED <<unassignedShards, liveShards, workers, workerID, assignments,
                      requested, offer>> /\ workers[h.WorkerID] = i
        BY <1>2 DEF ResolveKnown, mgrVars
    <2>2. WhoInv'
        BY <1>1, <2>1 DEF WhoInv
    <2>3. \A s \in liveShards' : Held(s)'
        BY <2>1 DEF LiveInv, Held, HeldBy, Registered, Active, Assigned, Offered
    <2> QED
        BY <1>1, <2>2, <2>3, BookOf
<1>3. CASE ResolveNew(i)
    <2>1. /\ i \notin Registered /\ workers[h.WorkerID] = NoInfo
          /\ workers' = [workers EXCEPT ![h.WorkerID] = i]
          /\ workerID' = [workerID EXCEPT ![i] = h.WorkerID]
        BY <1>3 DEF ResolveNew, Free
    <2>2. WhoInv'
        BY <1>1, <2>1 DEF WhoInv, Registered, MgrTypeOK, InfoTypeOK
    <2>3. Registered \subseteq Registered'
        BY <1>1, <2>1, NilAssumption DEF Registered, MgrTypeOK
    <2>4. ASSUME NEW j \in Registered, NEW s, HeldBy(j, s)
          PROVE  HeldBy(j, s)'
        <3>1. j \in Infos /\ j # i
            BY <2>1 DEF Registered
        <3> QED
            BY <1>3, <2>4, <3>1
               DEF ResolveNew, HeldBy, Active, Assigned, Offered, InfoTypeOK
    <2>5. UNCHANGED <<unassignedShards, liveShards>>
        BY <1>3 DEF ResolveNew
    <2>6. \A s \in liveShards' : Held(s)'
        BY <2>3, <2>4, <2>5 DEF LiveInv, Held
    <2> QED
        BY <1>1, <2>2, <2>6, BookOf
<1> QED
    BY <1>2, <1>3

\* The worker that a shard is assigned to holds it, and everybody else what it held.
LEMMA AssignShardHeld ==
    ASSUME TypeOK, TermInv, pc # "idle", NEW me \in Infos, h.worker = me,
           NEW s \in Shards, NEW from \in Infos \cup {NoInfo}, AssignShard(s, from)
    PROVE  /\ s \in Active(me)'
           /\ \A i \in Infos : \A t \in Active(i) : t # s => t \in Active(i)'
<1>1. NextAssignmentID # 0
    BY DEF TermInv, NextAssignmentID, TypeOK, MgrTypeOK
<1>2. s \in Active(me)'
    BY <1>1 DEF AssignShard, Active, Assigned, TypeOK, InfoTypeOK
<1>3. ASSUME NEW i \in Infos, NEW t \in Active(i), t # s
      PROVE  t \in Active(i)'
    BY <1>3 DEF AssignShard, Active, Assigned, TypeOK, InfoTypeOK
<1> QED
    BY <1>2, <1>3

\* acquireDueReassignments and assignFromUnassignedPool.
LEMMA AssignBook ==
    ASSUME TypeOK, BookInv, NEW s \in Shards,
           AssignFromPool(s) \/ \E i \in Infos : AcquireShard(i, s)
    PROVE  BookInv'
<1> USE DEF TypeOK, BookInv
<1>1. /\ pc \in {"acquire", "assign"} /\ pc' = pc
      /\ UNCHANGED <<inService, term, liveShards, workers, workerID>>
      /\ h.worker \in Infos /\ h'.worker = h.worker /\ h'.WorkerID = h.WorkerID
    BY DEF AssignFromPool, AcquireShard, HandlerTypeOK, HandlerType
<1>2. PICK me \in Infos : me = h.worker
    BY <1>1
<1>3. WhoInv' /\ me \in Registered /\ Registered' = Registered
    BY <1>1, <1>2 DEF WhoInv, Registered, HandlerTypeOK, HandlerType
<1>4. PICK from \in Infos \cup {NoInfo} : AssignShard(s, from)
    BY DEF AssignFromPool, AcquireShard
<1>5. /\ s \in Active(me)'
      /\ \A i \in Infos : \A t \in Active(i) : t # s => t \in Active(i)'
    BY <1>1, <1>2, <1>4, AssignShardHeld
<1>6. ASSUME NEW t, t # s
      PROVE  /\ t \in ToSet(unassignedShards) => t \in ToSet(unassignedShards')
             /\ \A i \in Infos : t \in Offered(i) => t \in Offered(i)'
    <2>1. CASE AssignFromPool(s)
        <3>1. /\ unassignedShards # <<>> /\ s = Head(unassignedShards)
              /\ unassignedShards' = Tail(unassignedShards) /\ offer' = offer
            BY <2>1 DEF AssignFromPool
        <3>2. ToSet(unassignedShards) = {s} \cup ToSet(unassignedShards')
            BY <3>1, SetOfTail DEF MgrTypeOK
        <3> QED
            BY <1>6, <3>1, <3>2 DEF Offered
    <2>2. ASSUME NEW i \in Infos, AcquireShard(i, s)
          PROVE  /\ unassignedShards' = unassignedShards
                 /\ \A j \in Infos : t \in Offered(j) => t \in Offered(j)'
        <3>1. /\ offer' = [offer EXCEPT ![me] = @ \ {<<i, s>>}]
              /\ unassignedShards' = unassignedShards
            BY <1>2, <2>2 DEF AcquireShard
        <3>2. \A j \in Infos : offer'[j] = offer[j] \/ offer'[j] = offer[j] \ {<<i, s>>}
            BY <3>1 DEF InfoTypeOK
        <3>3. ASSUME NEW j \in Infos, NEW p \in offer[j], p[2] = t
              PROVE  p \in offer'[j]
            BY <1>6, <3>2, <3>3
        <3> QED
            BY <3>1, <3>3 DEF Offered
    <2> QED
        BY <2>1, <2>2
<1>7. ASSUME NEW t \in liveShards', t # s
      PROVE  Held(t)'
    <2>1. Held(t)
        BY <1>1, <1>7 DEF LiveInv
    <2> QED
        BY <1>3, <1>5, <1>6, <1>7, <2>1 DEF Held, HeldBy, Registered
<1>8. Held(s)'
    BY <1>3, <1>5 DEF Held, HeldBy
<1> QED
    BY <1>1, <1>3, <1>7, <1>8, BookOf

\* A shard that is stolen is on offer to the worker that asks.
LEMMA StealBook ==
    ASSUME TypeOK, BookInv, NEW i \in Infos, NEW s \in Shards, RebalanceSteal(i, s)
    PROVE  BookInv'
<1> USE DEF TypeOK, BookInv
<1>1. PICK me \in Infos : me = h.worker
    BY DEF RebalanceSteal, HandlerTypeOK
<1>2. /\ pc = "rebalance"
      /\ UNCHANGED <<inService, term, liveShards, unassignedShards, workers, workerID,
                     assignments, pc, h>>
      /\ requested' = [requested EXCEPT ![i] = @ \cup {s}]
      /\ offer' = [offer EXCEPT ![me] = @ \cup {<<i, s>>}]
    BY <1>1 DEF RebalanceSteal
<1>3. WhoInv' /\ me \in Registered /\ Registered' = Registered
    BY <1>1, <1>2 DEF WhoInv, Registered, HandlerTypeOK, HandlerType
<1>4. HeldBy(me, s)'
    <2>1. <<i, s>> \in offer'[me]
        BY <1>2 DEF InfoTypeOK
    <2> QED
        BY <2>1 DEF HeldBy, Offered
<1>5. ASSUME NEW j \in Infos, NEW t, HeldBy(j, t), t # s
      PROVE  HeldBy(j, t)'
    <2>1. t \in Active(j) => t \in Active(j)'
        BY <1>2, <1>5 DEF Active, Assigned, InfoTypeOK
    <2>2. t \in Offered(j) => t \in Offered(j)'
        BY <1>2 DEF Offered, InfoTypeOK
    <2> QED
        BY <1>5, <2>1, <2>2 DEF HeldBy
<1>6. ASSUME NEW t \in liveShards'
      PROVE  Held(t)'
    BY <1>2, <1>3, <1>4, <1>5 DEF LiveInv, Held, Registered
<1> QED
    BY <1>2, <1>3, <1>6, BookOf

\* SetToInService starts with all workers forgotten and the live shards in the pool.
LEMMA InServiceBook ==
    ASSUME TypeOK, BookInv, NEW t \in Terms, SetToInService(t)
    PROVE  BookInv'
<1> DEFINE finished == {s \in Roots : loading.checkpoints[s] = "CLOSED"}
<1>1. PICK a \in SetToSeqs(Roots \ finished) : unassignedShards' = a
    BY DEF SetToInService
<1>2. Roots \ finished \in SUBSET Shards
    BY DEF Roots, TypeOK, EnvTypeOK
<1>3. ToSet(unassignedShards') = liveShards'
    BY <1>1, <1>2, SetOfOrder DEF SetToInService
<1>4. /\ term' = t /\ pc = "idle" /\ workers' = [w \in Workers |-> NoInfo]
      /\ UNCHANGED <<pc, h>>
    BY DEF SetToInService, EnterTerm, handlerVars
<1>5. TermInv' /\ WhoInv'
    BY <1>4, BoundAssumption, NilAssumption DEF TermInv, WhoInv
<1> QED
    BY <1>3, <1>4, <1>5 DEF BookInv, LiveInv, Held

\* Every live shard has somebody to go to: no step of the handler lets go of one.
LEMMA BookInductive ==
    /\ Init => BookInv
    /\ TypeOK /\ BookInv /\ [Next]_vars => BookInv'
<1>1. Init => BookInv
    BY NilAssumption DEF Init, BookInv, TermInv, WhoInv, LiveInv
<1> SUFFICES ASSUME TypeOK, BookInv, [Next]_vars PROVE BookInv'
    BY <1>1
<1>2. ASSUME ReleaseDone \/ CloseDone \/ AcquireDone \/ AssignDone \/ RebalanceDone
             \/ AssignRespond
      PROVE  BookInv'
    <2>1. /\ UNCHANGED bookVars /\ pc # "idle" /\ pc' # "release"
          /\ \/ pc' \in {"closed", "resolve", "idle"}
             \/ /\ pc \in {"acquire", "assign", "rebalance"}
                /\ h' = h
        BY <1>2 DEF ReleaseDone, CloseDone, AcquireDone, AssignDone, RebalanceDone,
                    AssignRespond, bookVars, mgrVars, infoVars
    <2>2. WhoInv'
        BY <2>1 DEF bookVars, BookInv, WhoInv
    <2>3. \A s \in liveShards' : Held(s)'
        BY <2>1 DEF bookVars, BookInv, LiveInv, Held, HeldBy, Registered, Active,
                    Assigned, Offered
    <2> QED
        BY <2>1, <2>2, <2>3, BookOf DEF bookVars
<1>3. CASE HandlerStep
    BY <1>2, <1>3, ReleaseBook, CloseBook, ResolveBook, AssignBook, StealBook
       DEF HandlerStep
<1>4. ASSUME NEW w \in Workers, NEW n \in MaxShardsValues, NEW lag \in 0..MaxLag,
             AssignBegin(w, n, lag)
      PROVE  BookInv'
    <2>1. UNCHANGED bookVars /\ inService /\ pc' = "release" /\ h'.released = {}
        BY <1>4 DEF AssignBegin, NoRequest, bookVars, mgrVars, infoVars
    <2> QED
        BY <2>1 DEF bookVars, BookInv, TermInv, WhoInv, LiveInv, Held, HeldBy,
                    Registered, Active, Assigned, Offered
<1>5. CASE SetToOutOfService
    BY <1>5 DEF SetToOutOfService, infoVars, handlerVars, BookInv, TermInv, WhoInv,
                LiveInv, Held, HeldBy, Registered, Active, Assigned, Offered
<1>6. ASSUME UNCHANGED <<bookVars, pc, h>>
      PROVE  BookInv'
    BY <1>6, BookKept
<1> QED
    BY <1>3, <1>4, <1>5, <1>6, InServiceBook DEF Next, CheckpointBegin,
       CheckpointRefused, CheckpointStep, TxnSucceeds, TxnFails, TxnError,
       CheckpointUpdate, Disconnect, LoadBegin, LoadCheckpoint, Pass, Discover, Tick, vars,
       mgrVars, infoVars, handlerVars, bookVars

\* A live shard, wherever it is held, has a place.
LEMMA LiveHasPlace ==
    ASSUME TypeOK, BookInv, NEW s \in liveShards
    PROVE  Places(s) # {}
<1>1. s \in Shards /\ Held(s)
    BY DEF TypeOK, MgrTypeOK, BookInv, LiveInv
<1>2. CASE s \in ToSet(unassignedShards)
    <2>1. PICK k \in 1..Len(unassignedShards) : unassignedShards[k] = s
        BY <1>2, SetOfSequence DEF TypeOK, MgrTypeOK
    <2>2. <<"pool", k>> \in Places(s)
        BY <2>1 DEF Places
    <2> QED
        BY <2>2
<1>3. ASSUME NEW i \in Registered, s \in Active(i)
      PROVE  Places(s) # {}
    <2>1. <<"active", i>> \in Places(s)
        BY <1>3 DEF Places
    <2> QED
        BY <2>1
<1>4. ASSUME NEW i \in Registered, s \in Offered(i)
      PROVE  Places(s) # {}
    <2>1. PICK p \in offer[i] : p[2] = s
        BY <1>4 DEF Offered
    <2>2. <<"offer", i, p>> \in Places(s)
        BY <2>1 DEF Places
    <2> QED
        BY <2>2
<1> QED
    BY <1>1, <1>2, <1>3, <1>4 DEF Held, HeldBy

\* Workers that expire, in whatever order, shards that are stolen and offers whose old
\* or new owner leaves never make a live shard vanish: it is in the pool, or with a
\* registered worker, which a later request can release (lines 237 to 281).
THEOREM LiveShardsKept == Spec => []NoLiveShardLost
<1>1. TypeOK /\ BookInv => NoLiveShardLost
    BY LiveHasPlace DEF NoLiveShardLost
<1> QED
    BY <1>1, InitType, NextType, BookInductive, PTL DEF Spec
=============================================================================
