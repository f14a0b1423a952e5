---------------------------- MODULE ShardDiscovery ----------------------------
(***************************************************************************)
(* ShardDiscoveryService (consumer/shard_discovery_service.go): a loop     *)
(* that lists the shards of the stream page by page and then, under its    *)
(* mutex, adds them to the graph from which the manager takes the roots    *)
(* and the children of shards.  The stream itself, Kinesis, goes on        *)
(* splitting, merging and expiring shards while it is being listed.        *)
(***************************************************************************)
EXTENDS Integers, Sequences, SequencesExt

CONSTANTS
    Shards, NoShard,
    Parent,          \* ParentShardId of each shard, or NoShard
    AdjacentParent,  \* AdjacentParentShardId of each shard, or NoShard
    MaxErrors        \* bound: how often ListShards fails

ASSUME NilAssumption == NoShard \notin Shards
ASSUME TreeAssumption == /\ Parent \in [Shards -> Shards \cup {NoShard}]
                         /\ AdjacentParent \in [Shards -> Shards \cup {NoShard}]
ASSUME MergeAssumption ==
    \A s \in Shards : AdjacentParent[s] # NoShard => Parent[s] # NoShard
ASSUME ErrorsAssumption == MaxErrors \in Nat

VARIABLES
    listed, expired,  \* Kinesis: the shards of the stream, and the ones it had
    fresh,            \* those it got since the pass began
    known,            \* the keys of svc.shards
    children,         \* the keys of Children of each shard in svc.shards
    initialised,      \* that channel is closed
    pc,               \* "wait" for the timer, "list", or "stopped"
    remaining,        \* shards that the next pages may hold
    fetched,          \* enumerateAllShards: the shards, in the order of the pages
    errors

streamVars == <<listed, expired, fresh>>
graphVars == <<known, children>>
loopVars == <<initialised, pc, remaining, fetched, errors>>
vars == <<streamVars, graphVars, loopVars>>

Parents(s) == {Parent[s], AdjacentParent[s]} \ {NoShard}

\* A shard is split once or merged once, so its children have the same parents.
ASSUME ReshardAssumption ==
    \A c, d \in Shards : Parents(c) \cap Parents(d) # {} => Parents(c) = Parents(d)

Init ==
    /\ listed = {s \in Shards : Parents(s) = {}} /\ expired = {} /\ fresh = {}
    /\ known = {} /\ children = [s \in Shards |-> {}]
    /\ initialised = FALSE
    /\ pc = "list" /\ remaining = Shards /\ fetched = <<>> /\ errors = 0

-----------------------------------------------------------------------------
(* Kinesis *)

\* The parents are replaced by all the shards that they are the parents of.  That
\* takes longer than a pass, so no shard comes and is replaced within one.
Reshard(S) ==
    LET new == {c \in Shards : Parents(c) = S}
    IN  /\ S # {} /\ S \subseteq listed \ fresh
        /\ new # {} /\ new \cap (listed \cup expired) = {}
        /\ listed' = listed \cup new /\ fresh' = fresh \cup new
        /\ UNCHANGED <<expired, graphVars, loopVars>>

\* Closed shards leave the stream a retention period after they were closed, all
\* parents of a shard at a time.  The period is longer than the time between two
\* passes, so that a pass lists a shard before it is gone.
Expire(S) ==
    /\ S # {} /\ S \subseteq listed
    /\ \E c \in listed \ fresh : Parents(c) = S
    /\ initialised => S \subseteq known
    /\ listed' = listed \ S /\ expired' = expired \cup S
    /\ UNCHANGED <<fresh, graphVars, loopVars>>

-----------------------------------------------------------------------------
(* The loop *)

\* A shard is on one page; the order of the pages is not known.
ListShards(s) ==
    /\ pc = "list" /\ s \in remaining
    /\ remaining' = remaining \ {s}
    /\ fetched' = IF s \in listed THEN Append(fetched, s) ELSE fetched
    /\ UNCHANGED <<streamVars, graphVars, initialised, pc, errors>>

\* The variant keeps the pages it has and goes to the graph with them.
BadDropPages == remaining' = {} /\ UNCHANGED <<fetched, pc>>
DropPages == pc' = "wait" /\ fetched' = <<>> /\ UNCHANGED remaining

ListShardsFails ==
    /\ pc = "list" /\ remaining # {} /\ errors < MaxErrors
    /\ errors' = errors + 1
    /\ DropPages
    /\ UNCHANGED <<streamVars, graphVars, initialised>>

\* The shards the graph knows when it comes to the k-th.
KnownBefore(k) == known \cup {fetched[j] : j \in 1..(k - 1)}

\* The k-th shard becomes a child of the parents known by then.  Others get a
\* placeholder, which nothing but the shard itself refers to.  The variant does
\* so only for shards that are new.
BadLinks == UNION {{<<p, fetched[k]>> : p \in Parents(fetched[k]) \cap KnownBefore(k)} :
                      k \in {n \in 1..Len(fetched) : fetched[n] \notin known}}
Links == UNION {{<<p, fetched[k]>> : p \in Parents(fetched[k]) \cap KnownBefore(k)} :
                   k \in 1..Len(fetched)}

DiscoverOnce ==
    /\ pc = "list" /\ remaining = {}
    /\ known' = known \cup ToSet(fetched)
    /\ children' = [p \in Shards |-> children[p] \cup {c \in Shards : <<p, c>> \in Links}]
    /\ initialised' = TRUE
    /\ pc' = "wait" /\ fetched' = <<>>
    /\ UNCHANGED <<streamVars, remaining, errors>>

Timer ==
    /\ pc = "wait"
    /\ pc' = "list" /\ remaining' = Shards /\ fresh' = {}
    /\ UNCHANGED <<listed, expired, graphVars, initialised, fetched, errors>>

\* ctx is done: between two passes the loop ends and lets everybody in.
Stop ==
    /\ pc = "wait" \/ (pc = "list" /\ remaining = Shards)
    /\ pc' = "stopped" /\ initialised' = TRUE
    /\ UNCHANGED <<streamVars, graphVars, remaining, fetched, errors>>

Pass == \/ \E s \in Shards : ListShards(s)
        \/ DiscoverOnce \/ Timer
Next == Pass \/ ListShardsFails \/ Stop \/ \E S \in SUBSET Shards : Reshard(S) \/ Expire(S)

Spec == Init /\ [][Next]_vars
FairSpec == Spec /\ WF_vars(Pass)

-----------------------------------------------------------------------------
(* What the manager asks, once the service is initialised *)

GetAll == known
GetRoots == {s \in known : Parent[s] \notin known}
GetChildren(s) == children[s]

-----------------------------------------------------------------------------
(* Properties *)

\* SetToInService asks for all shards first and for the roots later, and starts to
\* read at the roots.  They are the same at both times and ever after: passes that
\* fail half way, pages listed while shards split and expire, and a child listed
\* before its parent make no shard a root for a while.
RootsFixed == [][initialised => GetRoots' = GetRoots]_vars

\* The children of a shard are found at last, although a child that is listed before
\* its parent is tied to a placeholder first.
ChildrenFound ==
    \A c \in Shards : \A p \in Parents(c) :
        p \in known /\ c \in listed
            ~> c \in GetChildren(p) \/ c \notin listed \/ pc = "stopped"
=============================================================================
