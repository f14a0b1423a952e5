------------------------- MODULE ShardDiscoveryProofs -------------------------
(***************************************************************************)
(* What is proved of ShardDiscovery for any stream and any number of       *)
(* passes that fail: once the service is initialised the manager is told   *)
(* the same roots for ever.                                                *)
(***************************************************************************)
EXTENDS ShardDiscovery, TLAPS

-----------------------------------------------------------------------------
(* The invariant *)

TypeOK ==
    /\ listed \in SUBSET Shards /\ expired \in SUBSET Shards /\ fresh \in SUBSET Shards
    /\ known \in SUBSET Shards /\ initialised \in BOOLEAN
    /\ pc \in {"wait", "list", "stopped"}
    /\ remaining \in SUBSET Shards /\ fetched \in Seq(Shards)

\* Kinesis: the shards there are or were have their parents among them, a shard comes
\* after its parents and with its siblings, and expires after its children came.
Existed == listed \cup expired
StreamInv ==
    /\ listed \cap expired = {} /\ fresh \subseteq listed
    /\ \A c \in Existed : Parents(c) \subseteq Existed \ fresh
    /\ \A c \in Shards : Parents(c) = {} => c \in Existed \ fresh
    /\ \A c, d \in Shards : Parents(c) = Parents(d) =>
          /\ c \in Existed => d \in Existed
          /\ c \in fresh => d \in fresh
    /\ \A c \in Shards : Parents(c) \cap expired # {} => c \in Existed \ fresh

\* A pass has every shard that was there when it began and still is, or comes to it.
PassInv ==
    /\ ToSet(fetched) \subseteq Existed
    /\ pc = "list" => listed \ fresh \subseteq remaining \cup ToSet(fetched)

\* The shards that the graph missed: they were gone before the first complete pass.
Missed == expired \ known
GraphInv ==
    /\ known \subseteq Existed
    /\ ~initialised => known = {}
    /\ initialised /\ pc # "stopped" =>
          /\ ToSet(fetched) \cap Missed = {}
          /\ \A c \in Shards : Parents(c) = {} => c \in known \cup Missed
          /\ \A c \in Shards : Parents(c) \cap Missed # {} => c \in known \cup Missed
          /\ \A c \in known : Parents(c) \subseteq known \cup Missed

DiscoveryInv == TypeOK /\ StreamInv /\ PassInv /\ GraphInv

\* A page adds the shard that is on it.
LEMMA AppendIsElement ==
    ASSUME NEW S, NEW seq \in Seq(S), NEW e \in S
    PROVE  ToSet(Append(seq, e)) = ToSet(seq) \cup {e}
<1>1. /\ Len(Append(seq, e)) = Len(seq) + 1 /\ Len(seq) \in Nat
      /\ Append(seq, e)[Len(seq) + 1] = e
      /\ \A k \in 1..Len(seq) : Append(seq, e)[k] = seq[k]
    OBVIOUS
<1>2. /\ \A k \in 1..Len(seq) : k \in 1..(Len(seq) + 1)
      /\ Len(seq) + 1 \in 1..(Len(seq) + 1)
      /\ \A k \in 1..(Len(seq) + 1) : k \in 1..Len(seq) \/ k = Len(seq) + 1
    BY <1>1
<1>3. \A x : x \in ToSet(Append(seq, e))
                <=> \E k \in 1..(Len(seq) + 1) : x = Append(seq, e)[k]
    BY <1>1 DEF ToSet
<1>4. \A x : x \in ToSet(seq) <=> \E k \in 1..Len(seq) : x = seq[k]
    BY DEF ToSet
<1>5. \A x \in ToSet(seq) \cup {e} : x \in ToSet(Append(seq, e))
    BY <1>1, <1>2, <1>3, <1>4
<1>6. \A x \in ToSet(Append(seq, e)) : x \in ToSet(seq) \cup {e}
    BY <1>1, <1>2, <1>3, <1>4
<1> QED
    BY <1>5, <1>6

\* Before the first pass the stream has the shards without parents.
LEMMA InitDiscovery == Init => DiscoveryInv
<1> SUFFICES ASSUME Init PROVE DiscoveryInv
    OBVIOUS
<1>1. TypeOK
    <2>1. fetched \in Seq(Shards)
        BY DEF Init
    <2>2. listed \in SUBSET Shards
        BY DEF Init
    <2> QED
        BY <2>1, <2>2 DEF Init, TypeOK
<1>2. ToSet(fetched) = {}
    BY DEF Init, ToSet
<1>3. StreamInv
    BY DEF Init, StreamInv, Existed
<1>4. PassInv /\ GraphInv
    BY <1>2 DEF Init, PassInv, GraphInv, Existed
<1> QED
    BY <1>1, <1>3, <1>4 DEF DiscoveryInv

-----------------------------------------------------------------------------
(* Kinesis *)

\* A split or a merge brings all children of the parents at once, all fresh.
LEMMA ReshardInv ==
    ASSUME DiscoveryInv, NEW S \in SUBSET Shards, Reshard(S)
    PROVE  DiscoveryInv'
<1> DEFINE new == {c \in Shards : Parents(c) = S}
<1>1. /\ S # {} /\ S \subseteq listed \ fresh /\ new \cap Existed = {}
      /\ listed' = listed \cup new /\ fresh' = fresh \cup new
      /\ UNCHANGED <<expired, known, initialised, pc, remaining, fetched>>
      /\ new \subseteq Shards /\ \A c \in Shards : c \in new <=> Parents(c) = S
    BY DEF Reshard, Existed, graphVars, loopVars
<1> HIDE DEF new
<1> USE DEF DiscoveryInv
<1>2. TypeOK'
    BY <1>1 DEF TypeOK
<1>3. /\ Existed' = Existed \cup new /\ Existed' \ fresh' = Existed \ fresh
      /\ listed' \ fresh' = listed \ fresh
    BY <1>1 DEF Existed, StreamInv
<1>4. StreamInv'
    <2>1. listed' \cap expired' = {} /\ fresh' \subseteq listed'
        BY <1>1 DEF StreamInv, Existed
    <2>2. \A c \in Existed' : Parents(c) \subseteq Existed' \ fresh'
        BY <1>1, <1>3 DEF StreamInv, Existed, TypeOK
    <2>3. \A c \in Shards : Parents(c) = {} => c \in Existed' \ fresh'
        BY <1>3 DEF StreamInv
    <2>4. \A c, d \in Shards : Parents(c) = Parents(d) =>
             /\ c \in Existed' => d \in Existed'
             /\ c \in fresh' => d \in fresh'
        BY <1>1, <1>3 DEF StreamInv
    <2>5. \A c \in Shards : Parents(c) \cap expired' # {} => c \in Existed' \ fresh'
        BY <1>1, <1>3 DEF StreamInv
    <2> QED
        BY <2>1, <2>2, <2>3, <2>4, <2>5 DEF StreamInv
<1>5. PassInv' /\ GraphInv'
    BY <1>1, <1>3 DEF PassInv, GraphInv, Missed
<1> QED
    BY <1>2, <1>4, <1>5

\* What expires later than the first complete pass is known, so nothing more is missed.
LEMMA ExpireInv ==
    ASSUME DiscoveryInv, NEW S \in SUBSET Shards, Expire(S)
    PROVE  DiscoveryInv'
<1>1. /\ S \subseteq listed /\ listed' = listed \ S /\ expired' = expired \cup S
      /\ initialised => S \subseteq known
      /\ UNCHANGED <<fresh, known, initialised, pc, remaining, fetched>>
    BY DEF Expire, graphVars, loopVars
<1>2. PICK c \in listed \ fresh : Parents(c) = S
    BY DEF Expire
<1> USE DEF DiscoveryInv
<1>3. TypeOK'
    BY <1>1 DEF TypeOK
<1>4. Existed' = Existed
    BY <1>1 DEF Existed
<1>5. S \cap fresh = {} /\ c \in Shards /\ c \in Existed
    BY <1>2 DEF StreamInv, Existed, TypeOK
<1>6. \A d \in Shards : Parents(d) \cap S # {} => d \in Existed \ fresh
    <2> SUFFICES ASSUME NEW d \in Shards, Parents(d) \cap S # {}
                 PROVE  d \in Existed \ fresh
        OBVIOUS
    <2>1. Parents(d) = Parents(c)
        BY <1>2, <1>5, ReshardAssumption
    <2> QED
        BY <1>2, <1>5, <2>1 DEF StreamInv
<1>7. StreamInv'
    <2>1. listed' \cap expired' = {} /\ fresh' \subseteq listed'
        BY <1>1, <1>5 DEF StreamInv
    <2>2. \A d \in Shards : Parents(d) \cap expired' # {} => d \in Existed' \ fresh'
        BY <1>1, <1>4, <1>6 DEF StreamInv
    <2> QED
        BY <1>1, <1>4, <2>1, <2>2 DEF StreamInv
<1>8. PassInv'
    BY <1>1, <1>4 DEF PassInv
<1>9. GraphInv'
    <2>1. initialised => Missed' = Missed
        BY <1>1 DEF Missed
    <2> QED
        BY <1>1, <1>4, <2>1 DEF GraphInv
<1> QED
    BY <1>3, <1>7, <1>8, <1>9

-----------------------------------------------------------------------------
(* The loop *)

\* A page brings shards that are listed, so none that the graph missed.
LEMMA ListShardsInv ==
    ASSUME DiscoveryInv, NEW s \in Shards, ListShards(s)
    PROVE  DiscoveryInv'
<1> USE DEF DiscoveryInv
<1>1. /\ pc = "list" /\ remaining' = remaining \ {s}
      /\ UNCHANGED <<listed, expired, fresh, known, initialised, pc>>
      /\ fetched' = IF s \in listed THEN Append(fetched, s) ELSE fetched
    BY DEF ListShards, streamVars, graphVars
<1>2. TypeOK'
    BY <1>1 DEF TypeOK
<1>3. ToSet(fetched') = ToSet(fetched) \cup (IF s \in listed THEN {s} ELSE {})
    <2>1. CASE s \in listed
        <3>1. ToSet(Append(fetched, s)) = ToSet(fetched) \cup {s}
            BY AppendIsElement DEF TypeOK
        <3> QED
            BY <1>1, <2>1, <3>1
    <2> QED
        BY <1>1, <2>1
<1>4. StreamInv' /\ Existed' = Existed /\ Missed' = Missed
    BY <1>1 DEF StreamInv, Existed, Missed
<1>5. PassInv'
    BY <1>1, <1>3, <1>4 DEF PassInv, Existed
<1>6. GraphInv'
    <2>1. ToSet(fetched) \cap Missed = {} => ToSet(fetched') \cap Missed = {}
        BY <1>3 DEF Missed, StreamInv
    <2> QED
        BY <1>1, <1>4, <2>1 DEF GraphInv
<1> QED
    BY <1>2, <1>4, <1>5, <1>6

\* A failed pass leaves nothing behind.
LEMMA ListShardsFailsInv ==
    ASSUME DiscoveryInv, ListShardsFails
    PROVE  DiscoveryInv'
<1> USE DEF DiscoveryInv
<1>1. /\ UNCHANGED <<listed, expired, fresh, known, initialised>>
      /\ pc' = "wait" /\ fetched' = <<>> /\ UNCHANGED remaining /\ pc = "list"
    BY DEF ListShardsFails, DropPages, streamVars, graphVars
<1>2. ToSet(fetched') = {}
    BY <1>1 DEF ToSet
<1>3. fetched' \in Seq(Shards)
    BY <1>1
<1>4. TypeOK'
    BY <1>1, <1>3 DEF TypeOK
<1>5. StreamInv' /\ Existed' = Existed /\ Missed' = Missed
    BY <1>1 DEF StreamInv, Existed, Missed
<1> QED
    BY <1>1, <1>2, <1>4, <1>5 DEF PassInv, GraphInv

\* The graph has, or missed, every shard that was there when the pass began: the
\* parents of all that it knows, the roots, and the children of the shards it missed.
LEMMA DiscoverOnceInv ==
    ASSUME DiscoveryInv, DiscoverOnce
    PROVE  DiscoveryInv'
<1> USE DEF DiscoveryInv
<1>1. /\ pc = "list" /\ remaining = {} /\ known' = known \cup ToSet(fetched)
      /\ UNCHANGED <<listed, expired, fresh, remaining>>
      /\ initialised' = TRUE /\ pc' = "wait" /\ fetched' = <<>>
    BY DEF DiscoverOnce, streamVars
<1>2. ToSet(fetched') = {} /\ fetched' \in Seq(Shards)
    BY <1>1 DEF ToSet
<1>3. StreamInv' /\ Existed' = Existed
    BY <1>1 DEF StreamInv, Existed
<1>4. ToSet(fetched) \subseteq Existed /\ Existed \subseteq Shards
    BY DEF PassInv, Existed, TypeOK
<1>5. TypeOK'
    BY <1>1, <1>2, <1>4 DEF TypeOK
<1>6. PassInv'
    BY <1>1, <1>2 DEF PassInv
<1>7. Existed \ fresh \subseteq known' \cup Missed'
    BY <1>1 DEF PassInv, Existed, Missed
<1>8. known' \subseteq Existed
    BY <1>1, <1>4 DEF GraphInv
<1>9. \A c \in Shards : Parents(c) = {} => c \in known' \cup Missed'
    BY <1>7 DEF StreamInv
<1>10. \A c \in Shards : Parents(c) \cap Missed' # {} => c \in known' \cup Missed'
    BY <1>1, <1>7 DEF StreamInv, Missed
<1>11. \A c \in known' : Parents(c) \subseteq known' \cup Missed'
    BY <1>7, <1>8 DEF StreamInv
<1>12. GraphInv'
    BY <1>1, <1>2, <1>3, <1>8, <1>9, <1>10, <1>11 DEF GraphInv
<1> QED
    BY <1>3, <1>5, <1>6, <1>12

\* A pass has every page before it, and no shard is new to it.
LEMMA TimerInv ==
    ASSUME DiscoveryInv, Timer
    PROVE  DiscoveryInv'
<1> USE DEF DiscoveryInv
<1>1. /\ pc' = "list" /\ remaining' = Shards /\ fresh' = {} /\ pc = "wait"
      /\ UNCHANGED <<listed, expired, known, initialised, fetched>>
    BY DEF Timer, graphVars
<1>2. TypeOK'
    BY <1>1 DEF TypeOK
<1>3. Existed' = Existed /\ Missed' = Missed
    BY <1>1 DEF Existed, Missed
<1>4. StreamInv'
    BY <1>1, <1>3 DEF StreamInv
<1>5. PassInv'
    BY <1>1, <1>2, <1>3 DEF PassInv, TypeOK
<1>6. GraphInv'
    BY <1>1, <1>3 DEF GraphInv
<1> QED
    BY <1>2, <1>4, <1>5, <1>6

\* The loop ends between two passes.
LEMMA StopInv ==
    ASSUME DiscoveryInv, Stop
    PROVE  DiscoveryInv'
<1> USE DEF DiscoveryInv
<1>1. /\ pc' = "stopped" /\ initialised' = TRUE
      /\ UNCHANGED <<listed, expired, fresh, known, remaining, fetched>>
    BY DEF Stop, streamVars, graphVars
<1>2. TypeOK'
    BY <1>1 DEF TypeOK
<1>3. StreamInv' /\ Existed' = Existed
    BY <1>1 DEF StreamInv, Existed
<1>4. PassInv' /\ GraphInv'
    BY <1>1, <1>3 DEF PassInv, GraphInv
<1> QED
    BY <1>2, <1>3, <1>4

\* Every step of Kinesis and of the loop preserves the invariant.
LEMMA NextDiscovery == DiscoveryInv /\ [Next]_vars => DiscoveryInv'
<1> SUFFICES ASSUME DiscoveryInv, [Next]_vars
             PROVE  DiscoveryInv'
    OBVIOUS
<1>1. CASE \E S \in SUBSET Shards : Reshard(S) \/ Expire(S)
    BY <1>1, ReshardInv, ExpireInv
<1>2. CASE Pass
    BY <1>2, ListShardsInv, DiscoverOnceInv, TimerInv DEF Pass
<1>3. CASE ListShardsFails
    BY <1>3, ListShardsFailsInv
<1>4. CASE Stop
    BY <1>4, StopInv
<1>5. CASE UNCHANGED vars
    BY <1>5 DEF vars, streamVars, graphVars, loopVars, DiscoveryInv, TypeOK, StreamInv,
                PassInv, GraphInv, Existed, Missed
<1> QED
    BY <1>1, <1>2, <1>3, <1>4, <1>5 DEF Next

\* The invariant of the service and of the stream it lists.
THEOREM DiscoveryInvariant == Spec => []DiscoveryInv
<1> QED
    BY InitDiscovery, NextDiscovery, PTL DEF Spec

-----------------------------------------------------------------------------
(* The roots *)

\* A pass makes no root a child and adds no root: the parent of a root is one the graph
\* missed, and a shard that is new to the graph has its parent there.
LEMMA DiscoverOnceRoots ==
    ASSUME DiscoveryInv, DiscoverOnce, initialised
    PROVE  GetRoots' = GetRoots
<1> DEFINE F == ToSet(fetched)
<1>1. pc = "list" /\ remaining = {} /\ known' = known \cup F
    BY DEF DiscoverOnce
<1>2. /\ known \subseteq Shards /\ F \subseteq Existed /\ known \subseteq Existed
      /\ Existed \subseteq Shards
    BY DEF DiscoveryInv, TypeOK, PassInv, GraphInv, Existed
<1>3. /\ F \cap Missed = {}
      /\ \A c \in Shards : Parents(c) = {} => c \in known \cup Missed
      /\ \A c \in Shards : Parents(c) \cap Missed # {} => c \in known \cup Missed
      /\ \A c \in known : Parents(c) \subseteq known \cup Missed
    BY <1>1 DEF DiscoveryInv, GraphInv
<1>4. Existed \ fresh \subseteq known' \cup Missed
    BY <1>1 DEF DiscoveryInv, PassInv, Existed, Missed
<1>5. \A c \in Existed : Parents(c) \subseteq Existed \ fresh
    BY DEF DiscoveryInv, StreamInv
<1> HIDE DEF F
<1>6. \A s \in Shards : \/ Parent[s] = NoShard /\ Parents(s) = {}
                        \/ Parent[s] \in Parents(s)
    BY MergeAssumption DEF Parents
<1>7. NoShard \notin known'
    BY <1>1, <1>2, NilAssumption
<1>8. \A s \in known : Parent[s] \in known' => Parent[s] \in known
    BY <1>1, <1>2, <1>3, <1>6, <1>7
<1>9. \A s \in F \ known : Parent[s] \in known'
    <2> SUFFICES ASSUME NEW s \in F \ known
                 PROVE  Parent[s] \in known'
        OBVIOUS
    <2>1. s \in Shards /\ s \in Existed /\ s \notin Missed
        BY <1>2, <1>3
    <2>2. Parents(s) # {} /\ Parents(s) \cap Missed = {}
        BY <1>3, <2>1
    <2> QED
        BY <1>4, <1>5, <1>6, <2>1, <2>2
<1> QED
    BY <1>1, <1>8, <1>9 DEF GetRoots

\* For any stream and any failures: SetToInService finds the roots it found the shards
\* for, and so does every later call of GetRoots.
THEOREM RootsStay == Spec => RootsFixed
<1>1. DiscoveryInv /\ [Next]_vars => [initialised => GetRoots' = GetRoots]_vars
    <2> SUFFICES ASSUME DiscoveryInv, Next, initialised
                 PROVE  GetRoots' = GetRoots
        OBVIOUS
    <2>1. CASE DiscoverOnce
        BY <2>1, DiscoverOnceRoots
    <2>2. CASE ~DiscoverOnce
        <3>1. UNCHANGED known
            BY <2>2 DEF Next, Pass, Reshard, Expire, ListShards, ListShardsFails, Timer,
                        Stop, graphVars
        <3> QED
            BY <3>1 DEF GetRoots
    <2> QED
        BY <2>1, <2>2
<1> QED
    BY <1>1, DiscoveryInvariant, PTL DEF Spec, RootsFixed
=============================================================================
