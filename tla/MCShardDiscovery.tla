--------------------------- MODULE MCShardDiscovery ---------------------------
(* Small instances of ShardDiscovery for TLC. *)
EXTENDS ShardDiscovery

CONSTANTS s1, s2, s3, s4

\* s1 splits into s2 and s3, which merge into s4.
SplitThenMerge == [s \in Shards |-> CASE s \in {s2, s3} -> s1
                                      [] s = s4 -> s2
                                      [] OTHER -> NoShard]
MergeAdjacent == [s \in Shards |-> IF s = s4 THEN s3 ELSE NoShard]
=============================================================================
