------------------------------ MODULE QueueSpec ------------------------------
(* The abstract specification of PriorityQueue: operations on a set of items. *)
EXTENDS Queues

CONSTANTS Values, Priorities, NoValue
VARIABLES reversed,  \* the argument of NewPriorityQueue
          contents,  \* the items
          result     \* what Pop returned, NoValue after other operations

First == IF reversed THEN Tops(contents) ELSE Bottoms(contents)

Init == reversed \in BOOLEAN /\ contents = {} /\ result = NoValue

Insert(v, p) == /\ contents' = Push(contents, v, p) /\ result' = NoValue
                /\ UNCHANGED reversed
Delete(v) == /\ contents' = RemoveItem(contents, v) /\ result' = NoValue
             /\ UNCHANGED reversed
Pop == /\ \E v \in First : contents' = RemoveItem(contents, v) /\ result' = v
       /\ UNCHANGED reversed

Next == \/ \E v \in Values, p \in Priorities : Insert(v, p)
        \/ \E v \in Values : Delete(v)
        \/ Pop
Spec == Init /\ [][Next]_<<reversed, contents, result>>
=============================================================================
