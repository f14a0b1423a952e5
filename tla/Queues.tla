------------------------------- MODULE Queues -------------------------------
(***************************************************************************)
(* What PriorityQueue (primitives/priority_queue.go) promises its callers: *)
(* a set of values, each with one priority.  The manager keeps two, of     *)
(* workers by their number of shards and of workers by their heartbeat.    *)
(***************************************************************************)

EXTENDS Integers

\* PriorityQueue.Push and Remove.
Push(q, v, p) == {e \in q : e.value # v} \cup {[value |-> v, priority |-> p]}
RemoveItem(q, v) == {e \in q : e.value # v}

\* The values Peek may return, with the greatest or with the least priority.
Tops(q) == {e.value : e \in {x \in q : \A y \in q : y.priority <= x.priority}}
Bottoms(q) == {e.value : e \in {x \in q : \A y \in q : x.priority <= y.priority}}
=============================================================================
