------------------------------ MODULE MCManager ------------------------------
(* Small instances of Manager for TLC. *)
EXTENDS Manager

CONSTANTS w1, w2, w3, i1, i2, i3, i4, i5, s1, s2, s3, s4

\* No shard has a parent.
Flat == [s \in Shards |-> NoShard]

\* Workers are alike: the one that CHOOSE takes for NoRequest is never looked at.
\* Shards are where they have no parents.
WorkerSymmetry == Permutations(Workers)
WorkerShardSymmetry == WorkerSymmetry \cup Permutations(Shards)

\* A workerInfo as far as a later step can read it.
InfoView(i, held) ==
    CASE i \in Registered -> <<workerID[i], heartbeatAge[i], held, requested[i],
                               offer[i], offerAge[i], activeShardCount[i]>>
      [] i \in Free -> <<>>
      [] OTHER -> <<workerID[i], held, requested[i], activeShardCount[i]>>

\* States that differ in objects nothing refers to are the same state.
HeapView == <<mgrVars, handlerVars, envVars,
              [i \in Infos |-> InfoView(i, assignments[i])]>>

\* Where no checkpoint is sent the values of assignment ids make no difference
\* either, so the run needs no bound on their number.
PlacementView == <<inService, graphVars, loading, unassignedShards, liveShards, workers,
                   workerShardCount, closed, handlerVars,
                   [i \in Infos |-> InfoView(i, Assigned(i))]>>

\* Nor do they where checkpoints are sent, but for their order: the ids of a shard that
\* are still compared, those of its owners and of requests on their way, give way to
\* their ranks.  Any other processor can only be refused, which matters while it may be
\* the first to report the end of its shard.  A sequence number is as good as LATEST.
Mark(c) == IF c = "SEQ" THEN "LATEST" ELSE c
Owners ==
    UNION {{<<workerID[i], s, assignments[i][s]>> : s \in Assigned(i)} : i \in Registered}
Ended == {p[2] : p \in closing}
ShardView(s, compared) ==
    LET own == {p \in compared : p[2] = s}
        Rank(id) == Cardinality({p \in own : p[3] < id})
        others == {p \in granted \ (stopped \cup own) : p[2] = s}
    IN  <<kvsCheckpoint[s] = "CLOSED", kvsAssignment[s] = 0, Rank(kvsAssignment[s]),
          {<<p[1], Rank(p[3]), kvsAssignment[s] = p[3], p \in Owners, p \in granted,
             p \in closing, p \in stopped>> : p \in own},
          {<<c.proc[1], Rank(c.proc[3]), c.sn, c.stage, c.abandoned>> :
             c \in {r \in inflight : r.proc[2] = s}},
          s \in Ended, IF s \in Closable \ Ended THEN Cardinality(others) ELSE 0>>
TreeView == <<inService, term, nextAssignmentOffset, unassignedShards, liveShards, workers,
              workerShardCount, closed, handlerVars, graphVars,
              loading.active, loading.unread,
              [s \in Shards |-> <<Mark(checkpoints[s]), Mark(loading.checkpoints[s])>>],
              LET compared == Owners \cup {c.proc : c \in inflight}
              IN  [s \in Shards |-> ShardView(s, compared)],
              [i \in Infos |-> InfoView(i, Assigned(i))]>>

\* s1 splits into s2 and s3; s4, where there is one, has no parent.
SplitTree == [s \in Shards |-> IF s \in {s2, s3} THEN s1 ELSE NoShard]

\* s1 and s2 merge into s3.
MergeTree == [s \in Shards |-> IF s = s3 THEN s1 ELSE NoShard]
MergeAdjacent == [s \in Shards |-> IF s = s3 THEN s2 ELSE NoShard]
\* s1 and s2 are alike: the child hangs on both, and no pass lists it before either.
MergeSymmetry == WorkerSymmetry \cup Permutations({s1, s2})
=============================================================================
