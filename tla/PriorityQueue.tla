---------------------------- MODULE PriorityQueue ----------------------------
(***************************************************************************)
(* PriorityQueue (primitives/priority_queue.go): a binary heap of items,   *)
(* each of which knows its position, and idx, which finds the item of a    *)
(* value, on top of container/heap.  An operation is the sequence of its   *)
(* loop iterations; pc is the loop that runs, or "idle" between calls.     *)
(* Positions count from 0, as in the code.                                 *)
(***************************************************************************)
EXTENDS Integers, Sequences

CONSTANTS Values, Priorities,
          NoValue

ASSUME NoValueAssumption == NoValue \notin Values
ASSUME PriorityAssumption == Priorities \subseteq Int

VARIABLES
    reversed,
    items,      \* pq.items, each by its value
    priority,   \* item.priority, 0 for a value that has no item
    index,      \* item.index, -1 for a value that has no item
    idx,        \* the values PriorityQueue.idx has an item for
    pc,
    start, at,  \* where a loop of container/heap began and where it is
    limit,      \* the length of the part that down may use
    leaving,    \* the value that Pop or Remove takes out, or NoValue
    result      \* what Pop returns, NoValue in and after other operations

heapVars == <<items, priority, index, idx>>
loopVars == <<pc, start, at, limit, leaving>>
vars == <<reversed, heapVars, loopVars, result>>

Item(k) == items[k + 1]
LastPosition == Len(items) - 1

\* The variant compares against the direction of the queue.
BadLess(i, j) == IF reversed THEN priority[Item(i)] < priority[Item(j)]
                             ELSE priority[Item(i)] > priority[Item(j)]
Less(i, j) == IF reversed THEN priority[Item(i)] > priority[Item(j)]
                          ELSE priority[Item(i)] < priority[Item(j)]

\* Variant: only the first of the two items learns its new position.
BadSwap(i, j) ==
    /\ items' = [items EXCEPT ![i + 1] = Item(j), ![j + 1] = Item(i)]
    /\ index' = [index EXCEPT ![Item(j)] = i]
Swap(i, j) ==
    /\ items' = [items EXCEPT ![i + 1] = Item(j), ![j + 1] = Item(i)]
    /\ index' = [index EXCEPT ![Item(j)] = i, ![Item(i)] = j]

Init ==
    /\ reversed \in BOOLEAN
    /\ items = <<>> /\ idx = {}
    /\ priority = [v \in Values |-> 0] /\ index = [v \in Values |-> -1]
    /\ pc = "idle" /\ start = 0 /\ at = 0 /\ limit = 0 /\ leaving = NoValue
    /\ result = NoValue

Loop(part, from, length) ==
    pc' = part /\ start' = from /\ at' = from /\ limit' = length

\* Push of a value that has no item, and of one that has.
PushNew(v, p) ==
    /\ pc = "idle" /\ v \notin idx
    /\ idx' = idx \cup {v}
    /\ items' = Append(items, v)
    /\ priority' = [priority EXCEPT ![v] = p]
    /\ index' = [index EXCEPT ![v] = Len(items)]
    /\ Loop("up", Len(items), 0)
    /\ result' = NoValue
    /\ UNCHANGED <<reversed, leaving>>

\* The variant changes the priority and leaves the item where it is.
BadPushAgain(v, p) ==
    /\ pc = "idle" /\ v \in idx
    /\ priority' = [priority EXCEPT ![v] = p]
    /\ result' = NoValue
    /\ UNCHANGED <<reversed, items, index, idx, loopVars>>
PushAgain(v, p) ==
    /\ pc = "idle" /\ v \in idx
    /\ priority' = [priority EXCEPT ![v] = p]
    /\ Loop("down", index[v], Len(items))
    /\ result' = NoValue
    /\ UNCHANGED <<reversed, items, index, idx, leaving>>

Pop ==
    /\ pc = "idle" /\ items # <<>>
    /\ Swap(0, LastPosition)
    /\ leaving' = Item(0) /\ result' = Item(0)
    /\ Loop("down", 0, LastPosition)
    /\ UNCHANGED <<reversed, priority, idx>>

Remove(v) ==
    /\ pc = "idle" /\ v \in idx
    /\ idx' = idx \ {v}
    /\ leaving' = v /\ result' = NoValue
    /\ IF index[v] = LastPosition
       THEN Loop("last", 0, 0) /\ UNCHANGED <<items, index>>
       ELSE Swap(index[v], LastPosition) /\ Loop("down", index[v], LastPosition)
    /\ UNCHANGED <<reversed, priority>>

Return == pc' = IF leaving = NoValue THEN "idle" ELSE "last"

\* heap.down: the item at position at goes below its first child.
FirstChild ==
    LET left == 2 * at + 1
    IN  IF left + 1 < limit /\ Less(left + 1, left) THEN left + 1 ELSE left
Sinks == 2 * at + 1 < limit /\ Less(FirstChild, at)
Down ==
    /\ pc = "down" /\ Sinks
    /\ Swap(at, FirstChild)
    /\ at' = FirstChild
    /\ UNCHANGED <<reversed, priority, idx, pc, start, limit, leaving, result>>

\* Fix and Remove go on with up if down moved nothing.
DownDone ==
    /\ pc = "down" /\ ~Sinks
    /\ IF at > start THEN Return ELSE pc' = "up"
    /\ UNCHANGED <<reversed, heapVars, start, at, limit, leaving, result>>

\* heap.up.
Rises == at > 0 /\ Less(at, (at - 1) \div 2)
Up ==
    /\ pc = "up" /\ Rises
    /\ Swap((at - 1) \div 2, at)
    /\ at' = (at - 1) \div 2
    /\ UNCHANGED <<reversed, priority, idx, pc, start, limit, leaving, result>>

UpDone ==
    /\ pc = "up" /\ ~Rises
    /\ Return
    /\ UNCHANGED <<reversed, heapVars, start, at, limit, leaving, result>>

\* pq.Pop: the last item leaves the heap and becomes garbage.
TakeLast ==
    /\ pc = "last"
    /\ items' = SubSeq(items, 1, LastPosition)
    /\ index' = [index EXCEPT ![Item(LastPosition)] = -1]
    /\ priority' = [priority EXCEPT ![Item(LastPosition)] = 0]
    /\ idx' = idx \ {leaving}
    /\ Loop("idle", 0, 0) /\ leaving' = NoValue
    /\ UNCHANGED <<reversed, result>>

Next ==
    \/ \E v \in Values, p \in Priorities : PushNew(v, p) \/ PushAgain(v, p)
    \/ Pop
    \/ \E v \in Values : Remove(v)
    \/ Down \/ DownDone \/ Up \/ UpDone \/ TakeLast

Spec == Init /\ [][Next]_vars

-----------------------------------------------------------------------------
(* Properties *)

Contents == {[value |-> v, priority |-> priority[v]] : v \in idx \ {leaving}}
Abstract == INSTANCE QueueSpec WITH contents <- Contents

\* Pop takes out a value with the first priority, and what each operation does to
\* the items is what its caller, who only sees the set of them, expects.
Implements == Abstract!Spec

\* Peek, which looks at position 0 only, finds a value with the first priority.
PeekIsFirst == pc = "idle" /\ items # <<>> => Item(0) \in Abstract!First

\* Every item knows its position, also while loops move items about, and idx knows
\* every item: Fix and Remove go by these.
IndexExact ==
    /\ \A k \in 0..LastPosition : index[Item(k)] = k
    /\ pc = "idle" => idx = {Item(k) : k \in 0..LastPosition}
=============================================================================
