----------------------------- MODULE FencedStore -----------------------------
(***************************************************************************)
(* What handleCheckpointRequest promises of the two etcd keys of a shard:  *)
(* they change together, by a write that carries an assignment id, and a   *)
(* write whose id is below the last one that was let in is not.            *)
(***************************************************************************)
EXTENDS Naturals

CONSTANT Shards

VARIABLES fence, checkpoint

Init == /\ fence = [s \in Shards |-> 0]
        /\ checkpoint = [s \in Shards |-> "none"]

Write(s, id, sn) ==
    /\ id > 0 /\ sn # "none"
    /\ fence[s] <= id
    /\ fence' = [fence EXCEPT ![s] = id]
    /\ checkpoint' = [checkpoint EXCEPT ![s] = sn]

Next == \E s \in Shards : Write(s, fence'[s], checkpoint'[s])

Spec == Init /\ [][Next]_<<fence, checkpoint>>
=============================================================================
