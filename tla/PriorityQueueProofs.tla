------------------------- MODULE PriorityQueueProofs -------------------------
(***************************************************************************)
(* What is proved of PriorityQueue for every set of values and of          *)
(* priorities: every item knows its position, the first item has the first *)
(* priority, and the operations are those of a set of items.               *)
(***************************************************************************)
EXTENDS PriorityQueue, TLAPS, WellFoundedInduction

-----------------------------------------------------------------------------
(* Heaps.  K[j] is the key of position j, the least key goes first, and n is *)
(* the number of positions in use.                                           *)

Above(j) == (j - 1) \div 2
Exchanged(K, i, j) == [K EXCEPT ![i] = K[j], ![j] = K[i]]

\* No position comes before the one above it.
Heap(K, n) == \A j \in 1..(n - 1) : K[Above(j)] <= K[j]

\* The same but for position i, which may come before the one above it.
HeapBelow(K, n, i) ==
    \A j \in 1..(n - 1) :
        /\ j # i => K[Above(j)] <= K[j]
        /\ Above(j) = i /\ i > 0 => K[Above(i)] <= K[j]

\* The same but for position i, which may also come after those below it.
HeapAround(K, n, i) ==
    \A j \in 1..(n - 1) :
        /\ j # i /\ Above(j) # i => K[Above(j)] <= K[j]
        /\ Above(j) = i /\ i > 0 => K[Above(i)] <= K[j]

\* The positions below i are 2i + 1 and 2i + 2, as heap.up and heap.down have it.
LEMMA AboveBelow ==
    ASSUME NEW j \in Nat \ {0}
    PROVE  /\ Above(j) \in Nat /\ Above(j) < j
           /\ j = 2 * Above(j) + 1 \/ j = 2 * Above(j) + 2
    BY DEF Above

\* The first position of a heap has the least key.
LEMMA HeapFirst ==
    ASSUME NEW n \in Nat, NEW K \in [0..(n - 1) -> Int], Heap(K, n),
           NEW j \in 0..(n - 1)
    PROVE  K[0] <= K[j]
<1> DEFINE R == {ss \in Nat \X Nat : ss[1] < ss[2]}
           T == {k \in 0..(n - 1) : K[k] < K[0]}
<1>1. IsWellFoundedOn(R, Nat)
    BY NatLessThanWellFounded DEF OpToRel
<1>2. CASE T = {}
    BY <1>2
<1>3. CASE T # {}
    <2>1. T \subseteq Nat
        OBVIOUS
    <2>2. \E x \in T : \A y \in T : ~(<<y, x>> \in R)
        <3> HIDE DEF R, T
        <3> QED
            BY <1>1, <1>3, <2>1, WFMin
    <2>3. PICK x \in T : \A y \in T : ~(y < x)
        BY <2>1, <2>2
    <2>4. x \in 1..(n - 1)
        OBVIOUS
    <2>5. Above(x) \in 0..(n - 1) /\ Above(x) < x
        BY <2>4, AboveBelow
    <2>6. K[Above(x)] <= K[x] /\ K[x] < K[0]
        BY <2>4 DEF Heap
    <2> QED
        BY <2>3, <2>5, <2>6
<1> QED
    BY <1>2, <1>3

\* An iteration of heap.up: the position that may be too low moves up.
LEMMA RiseKeeps ==
    ASSUME NEW n \in Nat, NEW m \in Nat, n <= m, NEW K \in [0..(m - 1) -> Int],
           NEW i \in 1..(n - 1), HeapBelow(K, n, i), K[i] < K[Above(i)]
    PROVE  HeapBelow(Exchanged(K, Above(i), i), n, Above(i))
<1> DEFINE u == Above(i)
           L == Exchanged(K, u, i)
<1>1. u \in 0..(n - 1) /\ u < i
    BY AboveBelow
<1>2. L[u] = K[i] /\ L[i] = K[u] /\ \A j \in 0..(m - 1) : j \notin {u, i} => L[j] = K[j]
    BY <1>1 DEF Exchanged
<1> SUFFICES ASSUME NEW j \in 1..(n - 1)
             PROVE  /\ j # u => L[Above(j)] <= L[j]
                    /\ Above(j) = u /\ u > 0 => L[Above(u)] <= L[j]
    BY DEF HeapBelow
<1>3. Above(j) \in 0..(n - 1) /\ Above(j) < j
    BY AboveBelow
<1>4. u > 0 => Above(u) \in 0..(n - 1) /\ Above(u) < u /\ K[Above(u)] <= K[u]
    BY <1>1, AboveBelow DEF HeapBelow
<1>5. j # i => K[Above(j)] <= K[j]
    BY DEF HeapBelow
<1>6. Above(j) = i => K[u] <= K[j]
    BY DEF HeapBelow
<1>7. Above(i) = u
    OBVIOUS
<1>8. /\ j \in 0..(m - 1) /\ Above(j) \in 0..(m - 1) /\ i \in 0..(m - 1) /\ u \in 0..(m - 1)
      /\ u > 0 => Above(u) \in 0..(m - 1)
    BY <1>1, <1>3, <1>4
<1>9. \A k \in 0..(m - 1) : K[k] \in Int
    OBVIOUS
<1> HIDE DEF u, L
<1>10. K[i] < K[u] /\ L[u] = K[i] /\ L[i] = K[u]
    BY <1>2 DEF u
<1>11. ASSUME j # u
       PROVE  L[Above(j)] <= L[j]
    <2>1. CASE j = i
        BY <1>7, <1>8, <1>9, <1>10, <2>1
    <2>2. CASE j # i /\ Above(j) = i
        BY <1>2, <1>6, <1>8, <1>10, <1>11, <2>2
    <2>3. CASE j # i /\ Above(j) = u
        <3>1. K[u] <= K[j] /\ L[j] = K[j]
            BY <1>2, <1>5, <1>8, <1>11, <2>3
        <3> QED
            BY <1>8, <1>9, <1>10, <2>3, <3>1
    <2>4. CASE j # i /\ Above(j) # i /\ Above(j) # u
        BY <1>2, <1>5, <1>8, <1>11, <2>4
    <2> QED
        BY <2>1, <2>2, <2>3, <2>4
<1>12. ASSUME Above(j) = u, u > 0
       PROVE  L[Above(u)] <= L[j]
    <2>1. Above(u) # i /\ Above(u) # u /\ j # u
        BY <1>1, <1>3, <1>4, <1>12
    <2>2. L[Above(u)] = K[Above(u)] /\ K[Above(u)] <= K[u]
        BY <1>2, <1>4, <1>8, <1>12, <2>1
    <2>3. L[j] = K[u] \/ (L[j] = K[j] /\ K[u] <= K[j])
        BY <1>2, <1>5, <1>8, <1>10, <1>12, <2>1
    <2> QED
        BY <1>8, <1>9, <1>12, <2>2, <2>3
<1> QED
    BY <1>11, <1>12

\* The end of heap.up: nothing is too low any more.
LEMMA RiseEnds ==
    ASSUME NEW n \in Nat, NEW K, NEW i \in Nat, HeapBelow(K, n, i),
           i \in 1..(n - 1) => K[Above(i)] <= K[i]
    PROVE  Heap(K, n)
    BY DEF HeapBelow, Heap

\* An iteration of heap.down: the position goes below the first of its children.
LEMMA SinkKeeps ==
    ASSUME NEW n \in Nat, NEW m \in Nat, n <= m, NEW K \in [0..(m - 1) -> Int],
           NEW i \in Nat, NEW c \in 1..(n - 1), HeapAround(K, n, i),
           Above(c) = i, K[c] < K[i],
           \A j \in 1..(n - 1) : Above(j) = i => K[c] <= K[j]
    PROVE  LET L == Exchanged(K, i, c)
           IN  HeapAround(L, n, c) /\ L[i] <= L[c]
<1> DEFINE L == Exchanged(K, i, c)
<1>1. i \in 0..(n - 1) /\ i < c
    BY AboveBelow
<1>2. L[i] = K[c] /\ L[c] = K[i] /\ \A j \in 0..(m - 1) : j \notin {i, c} => L[j] = K[j]
    BY <1>1 DEF Exchanged
<1>3. ASSUME NEW j \in 1..(n - 1)
      PROVE  /\ j # c /\ Above(j) # c => L[Above(j)] <= L[j]
             /\ Above(j) = c /\ c > 0 => L[Above(c)] <= L[j]
    <2>1. Above(j) \in 0..(n - 1) /\ Above(j) < j
        BY AboveBelow
    <2>2. CASE j = i
        BY <1>1, <1>2, <2>1, <2>2 DEF HeapAround
    <2>3. CASE Above(j) = i /\ j # i
        BY <1>1, <1>2, <2>1, <2>3
    <2>4. CASE j # i /\ Above(j) # i
        <3>1. K[Above(j)] <= K[j]
            BY <2>4 DEF HeapAround
        <3> HIDE DEF L
        <3> QED
            BY <1>1, <1>2, <2>1, <2>4, <3>1
    <2> QED
        BY <2>2, <2>3, <2>4
<1>4. L[i] <= L[c]
    BY <1>1, <1>2
<1> QED
    BY <1>3, <1>4 DEF HeapAround

\* The end of heap.down: whatever is still wrong is above the position.
LEMMA SinkEnds ==
    ASSUME NEW n \in Nat, NEW K, NEW i \in Nat, HeapAround(K, n, i),
           \A j \in 1..(n - 1) : Above(j) = i => K[i] <= K[j]
    PROVE  HeapBelow(K, n, i)
    BY DEF HeapAround, HeapBelow

\* A new last position is all that may be wrong after Push.
LEMMA GrowKeeps ==
    ASSUME NEW n \in Nat, NEW K, NEW L, Heap(K, n),
           \A j \in 0..(n - 1) : L[j] = K[j]
    PROVE  HeapBelow(L, n + 1, n)
<1> SUFFICES ASSUME NEW j \in 1..n
             PROVE  /\ j # n => L[Above(j)] <= L[j]
                    /\ Above(j) = n /\ n > 0 => L[Above(n)] <= L[j]
    BY DEF HeapBelow
<1>1. Above(j) \in Nat /\ Above(j) < j
    BY AboveBelow
<1> QED
    BY <1>1 DEF Heap

\* The one position that Fix, Pop and Remove give another item is all that may be
\* wrong afterwards, also if the last position is no longer in use.
LEMMA ChangeKeeps ==
    ASSUME NEW n \in Nat, NEW m \in Nat, m <= n, NEW K \in [0..(n - 1) -> Int],
           NEW L, NEW i \in Nat, Heap(K, n),
           \A j \in 0..(m - 1) : j # i => L[j] = K[j]
    PROVE  HeapAround(L, m, i)
<1> SUFFICES ASSUME NEW j \in 1..(m - 1)
             PROVE  /\ j # i /\ Above(j) # i => L[Above(j)] <= L[j]
                    /\ Above(j) = i /\ i > 0 => L[Above(i)] <= L[j]
    BY DEF HeapAround
<1>1. Above(j) \in 0..(m - 1) /\ Above(j) < j /\ K[Above(j)] <= K[j]
    BY AboveBelow DEF Heap
<1>2. i \in 1..(m - 1) => /\ Above(i) \in 0..(m - 1) /\ Above(i) < i
                          /\ K[Above(i)] <= K[i]
    BY AboveBelow DEF Heap
<1> QED
    BY <1>1, <1>2

\* Fewer positions of a heap are a heap.
LEMMA ShrinkKeeps ==
    ASSUME NEW n \in Nat, NEW m \in Nat, m <= n, NEW K, NEW L, Heap(K, n),
           \A j \in 0..(m - 1) : L[j] = K[j]
    PROVE  Heap(L, m)
<1> SUFFICES ASSUME NEW j \in 1..(m - 1) PROVE L[Above(j)] <= L[j]
    BY DEF Heap
<1>1. Above(j) \in 0..(m - 1)
    BY AboveBelow
<1> QED
    BY <1>1 DEF Heap

-----------------------------------------------------------------------------
(* The inductive invariant *)

TypeOK ==
    /\ reversed \in BOOLEAN
    /\ items \in Seq(Values) /\ idx \in SUBSET Values
    /\ priority \in [Values -> Int] /\ index \in [Values -> Int]
    /\ pc \in {"idle", "up", "down", "last"}
    /\ start \in Nat /\ at \in Nat /\ limit \in Nat
    /\ leaving \in Values \cup {NoValue} /\ result \in Values \cup {NoValue}

\* The positions in use: the item that leaves waits behind them, at the last one.
Used == IF leaving = NoValue THEN Len(items) ELSE LastPosition

LoopOK ==
    /\ leaving # NoValue => items # <<>> /\ Item(LastPosition) = leaving
    /\ pc = "idle" => leaving = NoValue
    /\ pc = "last" => leaving # NoValue
    /\ pc \in {"up", "down"} => at < Used \/ at = 0
    /\ pc = "down" => limit = Used /\ start <= at

\* Positions and items name each other, and idx has the items but the leaving one.
PositionsOK ==
    /\ \A k \in 0..LastPosition : index[Item(k)] = k
    /\ \A k \in 0..LastPosition : Item(k) \in idx \/ Item(k) = leaving
    /\ \A v \in idx : index[v] \in 0..LastPosition /\ Item(index[v]) = v

\* Less compares these.
Keys == [k \in 0..LastPosition |->
            IF reversed THEN -priority[Item(k)] ELSE priority[Item(k)]]

\* What each loop has left to do.
OrderOK ==
    /\ pc \in {"idle", "last"} => Heap(Keys, Used)
    /\ pc = "up" => HeapBelow(Keys, Used, at)
    /\ pc = "down" => /\ HeapAround(Keys, Used, at)
                      /\ at > start => Keys[Above(at)] <= Keys[at]

QueueInv == TypeOK /\ LoopOK /\ PositionsOK /\ OrderOK

\* Positions of the heap, counted from zero as in the code, and what is there.
LEMMA PositionTypes ==
    ASSUME TypeOK
    PROVE  /\ Len(items) \in Nat /\ LastPosition \in Int
           /\ LastPosition = Len(items) - 1
           /\ \A k \in 0..LastPosition : Item(k) \in Values
           /\ Keys \in [0..LastPosition -> Int]
<1>1. Len(items) \in Nat /\ LastPosition = Len(items) - 1
    BY DEF TypeOK, LastPosition
<1>2. ASSUME NEW k \in 0..LastPosition PROVE Item(k) \in Values
    BY <1>1 DEF TypeOK, Item
<1>3. ASSUME NEW k \in 0..LastPosition PROVE priority[Item(k)] \in Int
    BY <1>2 DEF TypeOK
<1> QED
    BY <1>1, <1>2, <1>3 DEF Keys

\* The positions in use are some of the positions.
LEMMA UsedTypes ==
    ASSUME TypeOK, LoopOK
    PROVE  /\ Used \in Nat /\ Used <= Len(items) /\ Used - 1 <= LastPosition
           /\ LastPosition \in Int
           /\ leaving # NoValue => Used = LastPosition
<1>1. Len(items) \in Nat /\ LastPosition = Len(items) - 1
    BY PositionTypes
<1>2. CASE leaving = NoValue
    BY <1>1, <1>2 DEF Used
<1>3. CASE leaving # NoValue
    <2>1. Len(items) # 0
        BY <1>3 DEF LoopOK, TypeOK
    <2> QED
        BY <1>1, <1>3, <2>1 DEF Used
<1> QED
    BY <1>2, <1>3

\* Less compares keys.
LEMMA LessIsKeys ==
    ASSUME TypeOK, NEW i \in 0..LastPosition, NEW j \in 0..LastPosition
    PROVE  Less(i, j) <=> Keys[i] < Keys[j]
<1>1. priority[Item(i)] \in Int /\ priority[Item(j)] \in Int
    BY PositionTypes DEF TypeOK
<1> QED
    BY <1>1 DEF Less, Keys

\* What Swap does to the items and to their keys.
LEMMA SwapItems ==
    ASSUME TypeOK, NEW i \in 0..LastPosition, NEW j \in 0..LastPosition, Swap(i, j)
    PROVE  /\ items' \in Seq(Values) /\ Len(items') = Len(items)
           /\ items'[i + 1] = Item(j) /\ items'[j + 1] = Item(i)
           /\ \A k \in 0..LastPosition : k \notin {i, j} => items'[k + 1] = Item(k)
           /\ index' \in [Values -> Int]
           /\ UNCHANGED <<reversed, priority>> => Keys' = Exchanged(Keys, i, j)
<1>1. Item(i) \in Values /\ Item(j) \in Values /\ Len(items) \in Nat
      /\ LastPosition = Len(items) - 1
    BY PositionTypes
<1>2. items' = [items EXCEPT ![i + 1] = Item(j), ![j + 1] = Item(i)]
    BY DEF Swap
<1>3. i + 1 \in 1..Len(items) /\ j + 1 \in 1..Len(items)
    BY <1>1
<1>4. items' \in Seq(Values) /\ Len(items') = Len(items)
    BY <1>1, <1>2, <1>3 DEF TypeOK
<1>5. /\ items'[i + 1] = Item(j) /\ items'[j + 1] = Item(i)
      /\ \A k \in 0..LastPosition : k \notin {i, j} => items'[k + 1] = Item(k)
    <2>1. ASSUME NEW k \in 0..LastPosition
          PROVE  k + 1 \in 1..Len(items) /\ k + 1 \in DOMAIN items
        BY <1>1 DEF TypeOK
    <2> QED
        BY <1>2, <2>1 DEF Item
<1>6. index' \in [Values -> Int]
    BY <1>1 DEF Swap, TypeOK
<1>7. ASSUME UNCHANGED <<reversed, priority>>
      PROVE  Keys' = Exchanged(Keys, i, j)
    <2>1. LastPosition' = LastPosition
        BY <1>4 DEF LastPosition
    <2>2. Keys' = [k \in 0..LastPosition |->
                      IF reversed THEN -priority[items'[k + 1]] ELSE priority[items'[k + 1]]]
        BY <1>7, <2>1 DEF Keys, Item
    <2>3. /\ Keys[i] = (IF reversed THEN -priority[Item(i)] ELSE priority[Item(i)])
          /\ Keys[j] = (IF reversed THEN -priority[Item(j)] ELSE priority[Item(j)])
          /\ \A k \in 0..LastPosition :
                Keys[k] = (IF reversed THEN -priority[Item(k)] ELSE priority[Item(k)])
        BY DEF Keys
    <2>4. Exchanged(Keys, i, j) =
             [k \in 0..LastPosition |-> IF k = j THEN Keys[i]
                                        ELSE IF k = i THEN Keys[j] ELSE Keys[k]]
        BY DEF Exchanged, Keys
    <2>5. ASSUME NEW k \in 0..LastPosition
          PROVE  (IF reversed THEN -priority[items'[k + 1]] ELSE priority[items'[k + 1]])
                    = IF k = j THEN Keys[i] ELSE IF k = i THEN Keys[j] ELSE Keys[k]
        BY <1>5, <2>3
    <2> QED
        BY <2>2, <2>4, <2>5
<1> QED
    BY <1>4, <1>5, <1>6, <1>7

\* Swap tells both items where they are.
LEMMA SwapPositions ==
    ASSUME TypeOK, PositionsOK,
           NEW i \in 0..LastPosition, NEW j \in 0..LastPosition, Swap(i, j)
    PROVE  /\ \A k \in 0..LastPosition :
                 /\ index'[items'[k + 1]] = k
                 /\ \E m \in 0..LastPosition : items'[k + 1] = Item(m)
           /\ \A v \in idx : index'[v] \in 0..LastPosition /\ items'[index'[v] + 1] = v
<1>1. Item(i) \in Values /\ Item(j) \in Values
    BY PositionTypes
<1>2. /\ index'[Item(j)] = i /\ index'[Item(i)] = j
      /\ \A v \in Values : v \notin {Item(i), Item(j)} => index'[v] = index[v]
    <2>1. index[Item(i)] = i /\ index[Item(j)] = j
        BY DEF PositionsOK
    <2> QED
        BY <1>1, <2>1 DEF Swap, TypeOK
<1>3. ASSUME NEW k \in 0..LastPosition
      PROVE  /\ index'[items'[k + 1]] = k
             /\ \E m \in 0..LastPosition : items'[k + 1] = Item(m)
    <2>1. CASE k \in {i, j}
        BY <1>2, <2>1, SwapItems
    <2>2. CASE k \notin {i, j}
        <3>1. items'[k + 1] = Item(k) /\ Item(k) \in Values
            BY <2>2, SwapItems, PositionTypes
        <3>2. Item(k) \notin {Item(i), Item(j)} /\ index[Item(k)] = k
            BY <2>2 DEF PositionsOK
        <3> QED
            BY <1>2, <3>1, <3>2
    <2> QED
        BY <2>1, <2>2
<1>4. ASSUME NEW v \in idx
      PROVE  index'[v] \in 0..LastPosition /\ items'[index'[v] + 1] = v
    <2>1. index[v] \in 0..LastPosition /\ Item(index[v]) = v /\ v \in Values
        BY DEF PositionsOK, TypeOK
    <2>2. CASE v \in {Item(i), Item(j)}
        BY <1>2, <2>2, SwapItems
    <2>3. CASE v \notin {Item(i), Item(j)}
        <3>1. index'[v] = index[v] /\ index[v] \notin {i, j}
            BY <1>2, <2>1, <2>3
        <3> QED
            BY <2>1, <3>1, SwapItems
    <2> QED
        BY <2>2, <2>3
<1> QED
    BY <1>3, <1>4

-----------------------------------------------------------------------------
(* Each step keeps the invariant *)

\* A queue that NewPriorityQueue returns.
LEMMA InitInv == Init => QueueInv
<1> SUFFICES ASSUME Init PROVE QueueInv
    OBVIOUS
<1>1. TypeOK
    BY DEF Init, TypeOK
<1>2. LoopOK /\ PositionsOK
    BY DEF Init, LoopOK, PositionsOK, LastPosition
<1>3. OrderOK
    BY DEF Init, OrderOK, Heap, Used
<1> QED
    BY <1>1, <1>2, <1>3 DEF QueueInv

\* Between calls idx and the items are the same.
LEMMA IdleItems ==
    ASSUME QueueInv, pc = "idle"
    PROVE  /\ leaving = NoValue /\ Used = Len(items)
           /\ \A k \in 0..LastPosition : Item(k) \in idx
           /\ Heap(Keys, Len(items))
<1>1. leaving = NoValue /\ Used = Len(items)
    BY DEF QueueInv, LoopOK, Used
<1>2. \A k \in 0..LastPosition : Item(k) # NoValue
    BY PositionTypes, NoValueAssumption DEF QueueInv
<1> QED
    BY <1>1, <1>2 DEF QueueInv, PositionsOK, OrderOK

\* Push of a new value: it comes last, and up has to find its place.
LEMMA PushNewInv ==
    ASSUME QueueInv, NEW v \in Values, NEW p \in Priorities, PushNew(v, p)
    PROVE  QueueInv'
<1> USE DEF QueueInv
<1> DEFINE n == Len(items)
<1>1. /\ n \in Nat /\ items' = Append(items, v) /\ LastPosition = n - 1
      /\ leaving = NoValue /\ leaving' = NoValue /\ p \in Int /\ v \notin idx
      /\ pc' = "up" /\ at' = n /\ start' = n /\ limit' = 0
    BY PositionTypes, IdleItems, PriorityAssumption DEF PushNew, Loop
<1>2. TypeOK'
    BY <1>1 DEF PushNew, TypeOK
<1>3. /\ Len(items') = n + 1 /\ LastPosition' = n /\ Used' = n + 1
      /\ items'[n + 1] = v
      /\ \A k \in 0..(n - 1) : items'[k + 1] = Item(k)
    BY <1>1 DEF LastPosition, Used, TypeOK, Item
<1>4. LoopOK'
    BY <1>1, <1>3 DEF LoopOK
<1>5. \A k \in 0..(n - 1) : Item(k) \in idx /\ Item(k) \in Values /\ Item(k) # v
    BY <1>1, IdleItems, PositionTypes DEF PushNew
<1>6. PositionsOK'
    <2>1. index' = [index EXCEPT ![v] = n] /\ idx' = idx \cup {v}
        BY DEF PushNew
    <2>2. ASSUME NEW k \in 0..n
          PROVE  index'[items'[k + 1]] = k /\ items'[k + 1] \in idx'
        BY <1>1, <1>3, <1>5, <2>1, <2>2 DEF PositionsOK, TypeOK
    <2>3. ASSUME NEW u \in idx'
          PROVE  index'[u] \in 0..n /\ items'[index'[u] + 1] = u
        <3>1. CASE u = v
            BY <1>1, <1>3, <2>1, <3>1 DEF TypeOK
        <3>2. CASE u # v
            <4>1. u \in idx /\ index'[u] = index[u]
                BY <2>1, <3>2 DEF TypeOK
            <4> QED
                BY <1>1, <1>3, <4>1 DEF PositionsOK
        <3> QED
            BY <3>1, <3>2
    <2> QED
        BY <1>3, <2>2, <2>3 DEF PositionsOK, Item
<1>7. OrderOK'
    <2>1. \A k \in 0..(n - 1) : Keys'[k] = Keys[k]
        <3>1. priority' = [priority EXCEPT ![v] = p] /\ reversed' = reversed
            BY DEF PushNew
        <3>2. ASSUME NEW k \in 0..(n - 1)
              PROVE  priority'[items'[k + 1]] = priority[Item(k)]
            BY <1>3, <1>5, <3>1 DEF TypeOK
        <3> QED
            BY <1>1, <1>3, <3>1, <3>2 DEF Keys, Item
    <2>2. HeapBelow(Keys', n + 1, n)
        BY <1>1, <2>1, IdleItems, GrowKeeps DEF PushNew
    <2> QED
        BY <1>1, <1>3, <2>2 DEF OrderOK
<1> QED
    BY <1>2, <1>4, <1>6, <1>7

\* Push of a value that has an item: Fix has to find its place.
LEMMA PushAgainInv ==
    ASSUME QueueInv, NEW v \in Values, NEW p \in Priorities, PushAgain(v, p)
    PROVE  QueueInv'
<1> USE DEF QueueInv
<1> DEFINE n == Len(items)
           i == index[v]
<1>1. /\ n \in Nat /\ LastPosition = n - 1 /\ Used = n /\ p \in Int
      /\ leaving = NoValue /\ i \in 0..(n - 1) /\ Item(i) = v
      /\ UNCHANGED <<reversed, items, index, idx, leaving>>
      /\ pc' = "down" /\ at' = i /\ start' = i /\ limit' = n
    BY PositionTypes, IdleItems, PriorityAssumption DEF PushAgain, Loop, PositionsOK
<1>2. TypeOK'
    BY <1>1 DEF PushAgain, TypeOK
<1>3. LastPosition' = n - 1 /\ Used' = n /\ LoopOK' /\ PositionsOK'
    BY <1>1 DEF LastPosition, Used, LoopOK, PositionsOK, Item
<1>4. OrderOK'
    <2>1. \A k \in 0..(n - 1) : k # i => Keys'[k] = Keys[k]
        <3>1. priority' = [priority EXCEPT ![v] = p]
            BY DEF PushAgain
        <3>2. ASSUME NEW k \in 0..(n - 1), k # i
              PROVE  priority'[Item(k)] = priority[Item(k)]
            <4>1. Item(k) \in Values /\ index[Item(k)] = k
                BY <1>1, PositionTypes DEF PositionsOK
            <4> QED
                BY <3>1, <3>2, <4>1 DEF TypeOK
        <3> QED
            BY <1>1, <1>3, <3>2 DEF Keys, Item
    <2>2. Keys \in [0..(n - 1) -> Int] /\ Heap(Keys, n) /\ i \in Nat
        BY <1>1, PositionTypes, IdleItems DEF PushAgain
    <2>3. HeapAround(Keys', n, i)
        <3> HIDE DEF n, i
        <3> QED
            BY <1>1, <2>1, <2>2, ChangeKeeps
    <2> QED
        BY <1>1, <1>3, <2>3 DEF OrderOK
<1> QED
    BY <1>2, <1>3, <1>4

\* Pop and Remove put the last item in the place of the one that leaves, for which
\* down has to find its place; the leaving item waits at the last position.
LEMMA LeaveInv ==
    ASSUME QueueInv, pc = "idle", NEW v \in Values, NEW i \in 0..LastPosition,
           Item(i) = v, Swap(i, LastPosition), leaving' = v,
           Loop("down", i, LastPosition), result' \in Values \cup {NoValue},
           idx' \in {idx, idx \ {v}}, UNCHANGED <<reversed, priority>>,
           i < LastPosition \/ i = 0
    PROVE  QueueInv'
<1> USE DEF QueueInv
<1> DEFINE n == Len(items)
<1>1. /\ n \in Nat /\ LastPosition = n - 1 /\ n > 0 /\ v # NoValue
      /\ pc' = "down" /\ at' = i /\ start' = i /\ limit' = n - 1
    BY PositionTypes, NoValueAssumption DEF Loop
<1>2. LastPosition \in 0..LastPosition /\ i \in Nat
    BY <1>1
<1>3. TypeOK'
    <2>1. items' \in Seq(Values) /\ index' \in [Values -> Int]
        BY <1>2, SwapItems
    <2>2. at' \in Nat /\ start' \in Nat /\ limit' \in Nat
        BY <1>1, <1>2
    <2> QED
        BY <1>1, <2>1, <2>2 DEF TypeOK
<1>4. Len(items') = n /\ items'[n] = v /\ LastPosition' = n - 1 /\ Used' = n - 1
    BY <1>1, <1>2, SwapItems DEF LastPosition, Used
<1>5. LoopOK'
    BY <1>1, <1>4 DEF LoopOK, Item
<1>6. PositionsOK'
    <2>1. ASSUME NEW k \in 0..(n - 1)
          PROVE  /\ index'[items'[k + 1]] = k
                 /\ items'[k + 1] \in idx' \/ items'[k + 1] = v
        <3>1. PICK m \in 0..LastPosition : items'[k + 1] = Item(m)
            BY <1>1, <1>2, SwapPositions
        <3>2. Item(m) \in idx
            BY IdleItems
        <3> QED
            BY <1>1, <1>2, <3>1, <3>2, SwapPositions
    <2>2. \A u \in idx' : index'[u] \in 0..(n - 1) /\ items'[index'[u] + 1] = u
        BY <1>1, <1>2, SwapPositions
    <2> QED
        BY <1>4, <2>1, <2>2 DEF PositionsOK, Item
<1>7. OrderOK'
    <2>1. Keys' = Exchanged(Keys, i, LastPosition)
        BY <1>2, SwapItems
    <2>2. Keys \in [0..(n - 1) -> Int] /\ Heap(Keys, n)
        BY <1>1, PositionTypes, IdleItems
    <2>3. \A j \in 0..(n - 2) : j # i => Keys'[j] = Keys[j]
        BY <1>1, <2>1, <2>2 DEF Exchanged
    <2>4. HeapAround(Keys', n - 1, i)
        <3>1. n - 1 \in Nat /\ n - 1 <= n /\ (n - 1) - 1 = n - 2
            BY <1>1
        <3> HIDE DEF n
        <3> QED
            BY <1>1, <1>2, <2>2, <2>3, <3>1, ChangeKeeps
    <2> QED
        BY <1>1, <1>4, <2>4 DEF OrderOK
<1> QED
    BY <1>3, <1>5, <1>6, <1>7

\* Pop takes out the first item.
LEMMA PopInv ==
    ASSUME QueueInv, Pop
    PROVE  QueueInv'
<1>1. /\ pc = "idle" /\ Swap(0, LastPosition) /\ leaving' = Item(0) /\ result' = Item(0)
      /\ Loop("down", 0, LastPosition) /\ UNCHANGED <<reversed, priority, idx>>
      /\ items # <<>>
    BY DEF Pop
<1>2. 0 \in 0..LastPosition /\ Item(0) \in Values
    BY <1>1, PositionTypes DEF QueueInv, TypeOK
<1> QED
    BY <1>1, <1>2, LeaveInv

\* Remove of the last item leaves the heap alone; of another one it is like Pop.
LEMMA RemoveInv ==
    ASSUME QueueInv, NEW v \in Values, Remove(v)
    PROVE  QueueInv'
<1> USE DEF QueueInv
<1>1. /\ pc = "idle" /\ v \in idx /\ idx' = idx \ {v} /\ leaving' = v
      /\ result' = NoValue /\ UNCHANGED <<reversed, priority>>
    BY DEF Remove
<1>2. /\ index[v] \in 0..LastPosition /\ Item(index[v]) = v /\ v # NoValue
      /\ LastPosition = Len(items) - 1 /\ Len(items) \in Nat
    BY <1>1, PositionTypes, NoValueAssumption DEF PositionsOK
<1>3. CASE index[v] = LastPosition
    <2>1. Loop("last", 0, 0) /\ UNCHANGED <<items, index>>
        BY <1>3 DEF Remove
    <2>2. TypeOK'
        BY <1>1, <2>1 DEF TypeOK, Loop
    <2>3. LastPosition' = LastPosition /\ Used' = LastPosition /\ Keys' = Keys
        BY <1>1, <1>2, <2>1 DEF LastPosition, Used, Keys, Item
    <2>4. LoopOK'
        BY <1>1, <1>2, <1>3, <2>1, <2>3 DEF LoopOK, Loop, Item
    <2>5. PositionsOK'
        BY <1>1, <2>1, <2>3, IdleItems DEF PositionsOK, Item
    <2>6. Heap(Keys', LastPosition)
        <3>1. LastPosition \in Nat /\ LastPosition <= Len(items) /\ Heap(Keys, Len(items))
            BY <1>1, <1>2, IdleItems
        <3> QED
            BY <1>2, <2>3, <3>1, ShrinkKeeps
    <2> QED
        BY <2>1, <2>2, <2>3, <2>4, <2>5, <2>6 DEF OrderOK, Loop
<1>4. CASE index[v] # LastPosition
    <2>1. Swap(index[v], LastPosition) /\ Loop("down", index[v], LastPosition)
        BY <1>4 DEF Remove
    <2>2. index[v] < LastPosition
        BY <1>2, <1>4
    <2> QED
        BY <1>1, <1>2, <2>1, <2>2, LeaveInv
<1> QED
    BY <1>3, <1>4

\* What an exchange of two positions in use leaves as it was.
LEMMA ExchangeKeeps ==
    ASSUME QueueInv, NEW i \in 0..(Used - 1), NEW j \in 0..(Used - 1), Swap(i, j),
           UNCHANGED <<reversed, priority, idx, leaving, result, pc, start, limit>>,
           at' \in Nat
    PROVE  /\ TypeOK' /\ PositionsOK' /\ Used' = Used /\ LastPosition' = LastPosition
           /\ leaving' # NoValue => items' # <<>> /\ Item(LastPosition)' = leaving'
           /\ Keys' = Exchanged(Keys, i, j)
<1> USE DEF QueueInv
<1>1. /\ Len(items) \in Nat /\ LastPosition = Len(items) - 1
      /\ Used \in Int /\ Used <= Len(items)
      /\ leaving # NoValue => Used = LastPosition
    BY PositionTypes, UsedTypes
<1>2. i \in 0..LastPosition /\ j \in 0..LastPosition
    BY <1>1
<1>3. /\ items' \in Seq(Values) /\ Len(items') = Len(items)
      /\ index' \in [Values -> Int] /\ Keys' = Exchanged(Keys, i, j)
      /\ \A k \in 0..LastPosition : k \notin {i, j} => items'[k + 1] = Item(k)
    BY <1>2, SwapItems
<1>4. TypeOK'
    BY <1>3 DEF TypeOK
<1>5. Used' = Used /\ LastPosition' = LastPosition
    BY <1>3 DEF Used, LastPosition
<1>6. leaving' # NoValue => items' # <<>> /\ Item(LastPosition)' = leaving'
    <2> SUFFICES ASSUME leaving # NoValue
                 PROVE  items' # <<>> /\ items'[LastPosition + 1] = leaving
        BY <1>5 DEF Item
    <2>1. LastPosition \in 0..LastPosition /\ LastPosition \notin {i, j}
        BY <1>1
    <2>2. Item(LastPosition) = leaving
        BY DEF LoopOK
    <2>3. items' # <<>>
        BY <1>1, <1>3, <2>1
    <2> QED
        BY <1>3, <2>1, <2>2, <2>3
<1>7. PositionsOK'
    <2>1. ASSUME NEW k \in 0..LastPosition
          PROVE  /\ index'[items'[k + 1]] = k
                 /\ items'[k + 1] \in idx' \/ items'[k + 1] = leaving'
        <3>1. PICK m \in 0..LastPosition : items'[k + 1] = Item(m)
            BY <1>2, SwapPositions
        <3>2. Item(m) \in idx \/ Item(m) = leaving
            BY DEF PositionsOK
        <3> QED
            BY <1>2, <3>1, <3>2, SwapPositions
    <2>2. \A u \in idx' : index'[u] \in 0..LastPosition /\ items'[index'[u] + 1] = u
        BY <1>2, SwapPositions
    <2> QED
        BY <1>5, <2>1, <2>2 DEF PositionsOK, Item
<1> QED
    BY <1>3, <1>4, <1>5, <1>6, <1>7

\* The child that down looks at goes before the other one.
LEMMA FirstChildFirst ==
    ASSUME QueueInv, pc = "down", 2 * at + 1 < Used
    PROVE  /\ FirstChild \in 1..(Used - 1) /\ Above(FirstChild) = at /\ FirstChild > at
           /\ \A j \in 1..(Used - 1) : Above(j) = at => Keys[FirstChild] <= Keys[j]
<1> USE DEF QueueInv
<1> DEFINE left == 2 * at + 1
<1>1. /\ at \in Nat /\ limit = Used /\ Used \in Nat /\ Used - 1 <= LastPosition
      /\ LastPosition \in Int
    BY UsedTypes DEF LoopOK, TypeOK
<1>2. left \in 0..LastPosition /\ (left + 1 < Used => left + 1 \in 0..LastPosition)
    BY <1>1
<1>3. \A k \in 0..LastPosition : Keys[k] \in Int
    BY PositionTypes
<1>4. FirstChild = IF left + 1 < Used /\ Keys[left + 1] < Keys[left]
                   THEN left + 1 ELSE left
    BY <1>1, <1>2, LessIsKeys DEF FirstChild
<1>5. Above(left) = at /\ Above(left + 1) = at
    BY <1>1 DEF Above
<1>6. ASSUME NEW j \in 1..(Used - 1), Above(j) = at
      PROVE  j \in {left, left + 1}
    BY <1>6, AboveBelow
<1> HIDE DEF left
<1>7. left \in Nat /\ left > at /\ left < Used
    BY <1>1 DEF left
<1>8. ASSUME NEW j \in 1..(Used - 1), Above(j) = at
      PROVE  Keys[FirstChild] <= Keys[j]
    <2>1. Keys[left] \in Int /\ (left + 1 < Used => Keys[left + 1] \in Int)
        BY <1>2, <1>3
    <2>2. j = left \/ (j = left + 1 /\ left + 1 < Used)
        BY <1>1, <1>2, <1>6, <1>8
    <2> QED
        BY <1>4, <2>1, <2>2
<1>9. FirstChild = left \/ (FirstChild = left + 1 /\ left + 1 < Used)
    BY <1>4
<1>10. FirstChild \in 1..(Used - 1) /\ FirstChild > at
    BY <1>1, <1>7, <1>9
<1>11. Above(FirstChild) = at
    BY <1>5, <1>9
<1> QED
    BY <1>8, <1>10, <1>11

\* An iteration of down.
LEMMA DownInv ==
    ASSUME QueueInv, Down
    PROVE  QueueInv'
<1> USE DEF QueueInv
<1> DEFINE c == FirstChild
<1>1. /\ pc = "down" /\ Less(c, at) /\ Swap(at, c) /\ at' = c
      /\ UNCHANGED <<reversed, priority, idx, pc, start, limit, leaving, result>>
    BY DEF Down, Sinks
<1>2. 2 * at + 1 < Used /\ Used \in Nat /\ Used - 1 <= LastPosition
      /\ LastPosition \in Int /\ start <= at /\ limit = Used /\ at \in Nat /\ start \in Nat
    BY UsedTypes DEF Down, Sinks, LoopOK, TypeOK
<1>3. /\ c \in 1..(Used - 1) /\ Above(c) = at /\ c > at
      /\ \A j \in 1..(Used - 1) : Above(j) = at => Keys[c] <= Keys[j]
    BY <1>1, <1>2, FirstChildFirst
<1> HIDE DEF c
<1>4. at \in 0..(Used - 1) /\ c \in 0..(Used - 1)
    BY <1>2, <1>3
<1>5. /\ TypeOK' /\ PositionsOK' /\ Used' = Used /\ LastPosition' = LastPosition
      /\ leaving' # NoValue => items' # <<>> /\ Item(LastPosition)' = leaving'
      /\ Keys' = Exchanged(Keys, at, c)
    BY <1>1, <1>4, ExchangeKeeps
<1>6. LoopOK'
    BY <1>1, <1>2, <1>3, <1>5 DEF LoopOK
<1>7. OrderOK'
    <2>1. Keys[c] < Keys[at]
        BY <1>1, <1>2, <1>4, LessIsKeys
    <2>2. Keys \in [0..(Len(items) - 1) -> Int] /\ Used <= Len(items) /\ Len(items) \in Nat
        BY <1>2, PositionTypes
    <2>3. HeapAround(Keys, Used, at)
        BY <1>1 DEF OrderOK
    <2>4. HeapAround(Keys', Used, c) /\ Keys'[at] <= Keys'[c]
        BY <1>2, <1>3, <1>5, <2>1, <2>2, <2>3, SinkKeeps
    <2> QED
        BY <1>1, <1>3, <1>5, <2>4 DEF OrderOK
<1> QED
    BY <1>5, <1>6, <1>7

\* The end of down: either the item has found its place or up goes on with it.
LEMMA DownDoneInv ==
    ASSUME QueueInv, DownDone
    PROVE  QueueInv'
<1> USE DEF QueueInv
<1>1. /\ pc = "down" /\ ~Sinks
      /\ UNCHANGED <<reversed, items, priority, index, idx, start, at, limit, leaving,
                     result>>
      /\ \/ at > start /\ pc' = IF leaving = NoValue THEN "idle" ELSE "last"
         \/ ~(at > start) /\ pc' = "up"
    BY DEF DownDone, Return, heapVars
<1>2. /\ Used \in Nat /\ Used - 1 <= LastPosition /\ LastPosition \in Int
      /\ limit = Used /\ at \in Nat /\ start \in Nat /\ (at < Used \/ at = 0)
    BY <1>1, UsedTypes DEF LoopOK, TypeOK
<1>3. /\ Used' = Used /\ LastPosition' = LastPosition /\ Keys' = Keys
      /\ TypeOK' /\ LoopOK' /\ PositionsOK'
    BY <1>1 DEF Used, LastPosition, Keys, TypeOK, LoopOK, PositionsOK, Item
<1>4. HeapBelow(Keys, Used, at)
    <2>1. ASSUME NEW j \in 1..(Used - 1), Above(j) = at
          PROVE  Keys[at] <= Keys[j]
        <3>1. 2 * at + 1 < Used
            BY <1>2, <2>1, AboveBelow
        <3>2. /\ FirstChild \in 1..(Used - 1) /\ FirstChild > at
              /\ Keys[FirstChild] <= Keys[j]
            BY <1>1, <2>1, <3>1, FirstChildFirst
        <3>3. FirstChild \in 0..LastPosition /\ at \in 0..LastPosition
              /\ j \in 0..LastPosition
            BY <1>2, <3>2
        <3>4. ~Less(FirstChild, at)
            <4>1. 2 * at + 1 < limit
                BY <1>2, <3>1
            <4> QED
                BY <1>1, <4>1, Zenon DEF Sinks
        <3>5. Keys[FirstChild] \in Int /\ Keys[at] \in Int /\ Keys[j] \in Int
            BY <3>3, PositionTypes
        <3> QED
            BY <3>2, <3>3, <3>4, <3>5, LessIsKeys
    <2> QED
        BY <1>1, <1>2, <2>1, SinkEnds DEF OrderOK
<1>5. ASSUME at > start
      PROVE  Heap(Keys, Used)
    <2>1. Keys[Above(at)] <= Keys[at]
        BY <1>1, <1>5 DEF OrderOK
    <2> QED
        BY <1>2, <1>4, <1>5, <2>1, RiseEnds
<1> QED
    BY <1>1, <1>3, <1>4, <1>5 DEF OrderOK

\* An iteration of up.
LEMMA UpInv ==
    ASSUME QueueInv, Up
    PROVE  QueueInv'
<1> USE DEF QueueInv
<1> DEFINE u == Above(at)
<1>1. /\ pc = "up" /\ at > 0 /\ Less(at, u) /\ Swap(u, at) /\ at' = u
      /\ UNCHANGED <<reversed, priority, idx, pc, start, limit, leaving, result>>
    BY DEF Up, Rises, Above
<1>2. /\ Used \in Nat /\ Used - 1 <= LastPosition /\ LastPosition \in Int
      /\ at \in 1..(Used - 1)
    BY <1>1, UsedTypes DEF LoopOK, TypeOK
<1>3. u \in 0..(Used - 1) /\ u < at /\ at \in 0..(Used - 1)
    BY <1>2, AboveBelow
<1>4. /\ TypeOK' /\ PositionsOK' /\ Used' = Used /\ LastPosition' = LastPosition
      /\ leaving' # NoValue => items' # <<>> /\ Item(LastPosition)' = leaving'
      /\ Keys' = Exchanged(Keys, u, at)
    BY <1>1, <1>3, ExchangeKeeps
<1>5. LoopOK'
    BY <1>1, <1>2, <1>3, <1>4 DEF LoopOK
<1>6. OrderOK'
    <2>1. Keys[at] < Keys[u]
        BY <1>1, <1>2, <1>3, LessIsKeys
    <2>2. Keys \in [0..(Len(items) - 1) -> Int] /\ Used <= Len(items) /\ Len(items) \in Nat
        BY <1>2, PositionTypes
    <2>3. HeapBelow(Keys, Used, at)
        BY <1>1 DEF OrderOK
    <2>4. HeapBelow(Keys', Used, u)
        BY <1>2, <1>4, <2>1, <2>2, <2>3, RiseKeeps
    <2> QED
        BY <1>1, <1>4, <2>4 DEF OrderOK
<1> QED
    BY <1>4, <1>5, <1>6

\* The end of up: every item is in its place.
LEMMA UpDoneInv ==
    ASSUME QueueInv, UpDone
    PROVE  QueueInv'
<1> USE DEF QueueInv
<1>1. /\ pc = "up" /\ ~Rises
      /\ UNCHANGED <<reversed, items, priority, index, idx, start, at, limit, leaving,
                     result>>
      /\ pc' = IF leaving = NoValue THEN "idle" ELSE "last"
    BY DEF UpDone, Return, heapVars
<1>2. /\ Used \in Nat /\ Used - 1 <= LastPosition /\ LastPosition \in Int /\ at \in Nat
    BY UsedTypes DEF TypeOK
<1>3. /\ Used' = Used /\ LastPosition' = LastPosition /\ Keys' = Keys
      /\ TypeOK' /\ LoopOK' /\ PositionsOK'
    BY <1>1 DEF Used, LastPosition, Keys, TypeOK, LoopOK, PositionsOK, Item
<1>4. at \in 1..(Used - 1) => Keys[Above(at)] <= Keys[at]
    <2> SUFFICES ASSUME at \in 1..(Used - 1) PROVE Keys[Above(at)] <= Keys[at]
        OBVIOUS
    <2>1. Above(at) \in 0..LastPosition /\ at \in 0..LastPosition
        BY <1>2, AboveBelow
    <2>2. ~(Keys[at] < Keys[Above(at)])
        BY <1>1, <2>1, LessIsKeys DEF Rises, Above
    <2>3. Keys[at] \in Int /\ Keys[Above(at)] \in Int
        BY <2>1, PositionTypes
    <2> QED
        BY <2>2, <2>3
<1>5. Heap(Keys, Used)
    BY <1>1, <1>2, <1>4, RiseEnds DEF OrderOK
<1> QED
    BY <1>1, <1>3, <1>5 DEF OrderOK

\* What is left of a sequence without its last element.
LEMMA WithoutLast ==
    ASSUME NEW S, NEW seq \in Seq(S), Len(seq) > 0
    PROVE  LET rest == SubSeq(seq, 1, Len(seq) - 1)
           IN  /\ rest \in Seq(S) /\ Len(rest) = Len(seq) - 1
               /\ \A k \in 1..(Len(seq) - 1) : rest[k] = seq[k]
<1> DEFINE m == Len(seq) - 1
           rest == SubSeq(seq, 1, m)
<1>1. m \in Nat /\ m + 1 = Len(seq) /\ \A k \in 1..m : seq[k] \in S
    OBVIOUS
<1> HIDE DEF m
<1>2. Len(rest) = m
    BY <1>1
<1>3. \A k \in 1..m : rest[k] = seq[k]
    BY <1>1
<1>4. rest \in Seq(S)
    BY <1>1
<1> QED
    BY <1>2, <1>3, <1>4 DEF m

\* The item that leaves is dropped from the last position.
LEMMA TakeLastInv ==
    ASSUME QueueInv, TakeLast
    PROVE  QueueInv'
<1> USE DEF QueueInv
<1> DEFINE n == Len(items)
           v == leaving
<1>1. /\ pc = "last" /\ v # NoValue /\ v \in Values /\ n \in Nat /\ n > 0
      /\ LastPosition = n - 1 /\ Item(LastPosition) = v /\ Used = n - 1
      /\ items' = SubSeq(items, 1, n - 1)
      /\ index' = [index EXCEPT ![v] = -1] /\ priority' = [priority EXCEPT ![v] = 0]
      /\ idx' = idx \ {v} /\ leaving' = NoValue /\ UNCHANGED <<reversed, result>>
      /\ pc' = "idle" /\ start' = 0 /\ at' = 0 /\ limit' = 0
    <2>1. pc = "last" /\ v # NoValue /\ v \in Values /\ Item(LastPosition) = v
        BY DEF TakeLast, LoopOK, TypeOK
    <2>2. n \in Nat /\ LastPosition = n - 1 /\ Used = n - 1 /\ Used \in Nat
        BY <2>1, PositionTypes, UsedTypes
    <2> QED
        BY <2>1, <2>2 DEF TakeLast, Loop
<1>2. /\ items' \in Seq(Values) /\ Len(items') = n - 1
      /\ \A k \in 0..(n - 2) : items'[k + 1] = Item(k)
    <2>1. items \in Seq(Values)
        BY DEF TypeOK
    <2>2. /\ SubSeq(items, 1, n - 1) \in Seq(Values) /\ Len(SubSeq(items, 1, n - 1)) = n - 1
          /\ \A k \in 1..(n - 1) : SubSeq(items, 1, n - 1)[k] = items[k]
        BY <1>1, <2>1, WithoutLast
    <2>3. \A k \in 0..(n - 2) : k + 1 \in 1..(n - 1)
        BY <1>1
    <2> QED
        BY <1>1, <2>2, <2>3 DEF Item
<1>3. TypeOK' /\ LoopOK' /\ LastPosition' = n - 2 /\ Used' = n - 1
    <2>1. LastPosition' = n - 2 /\ Used' = n - 1
        BY <1>1, <1>2 DEF LastPosition, Used
    <2>2. LoopOK'
        BY <1>1, <2>1 DEF LoopOK
    <2>3. priority' \in [Values -> Int] /\ index' \in [Values -> Int]
        BY <1>1 DEF TypeOK
    <2>4. idx' \in SUBSET Values /\ reversed' \in BOOLEAN /\ result' \in Values \cup {NoValue}
        BY <1>1 DEF TypeOK
    <2>5. TypeOK'
        BY <1>1, <1>2, <2>3, <2>4 DEF TypeOK
    <2> QED
        BY <2>1, <2>2, <2>5
<1>4. \A k \in 0..(n - 2) : /\ Item(k) \in Values /\ Item(k) # v /\ Item(k) \in idx
                            /\ index[Item(k)] = k
    <2>1. index[v] = n - 1
        BY <1>1 DEF PositionsOK
    <2> QED
        BY <1>1, <2>1, PositionTypes DEF PositionsOK
<1>5. PositionsOK'
    <2>1. ASSUME NEW u \in idx'
          PROVE  index'[u] \in 0..(n - 2) /\ items'[index'[u] + 1] = u
        <3>1. u # v /\ index'[u] = index[u] /\ index[u] \in 0..(n - 1) /\ Item(index[u]) = u
            BY <1>1 DEF PositionsOK, TypeOK
        <3>2. index[u] # n - 1
            BY <1>1, <3>1
        <3> QED
            BY <1>1, <1>2, <3>1, <3>2
    <2>2. ASSUME NEW k \in 0..(n - 2)
          PROVE  /\ items'[k + 1] = Item(k) /\ index'[Item(k)] = k /\ Item(k) \in idx'
        BY <1>1, <1>2, <1>4, <2>2 DEF TypeOK
    <2> QED
        BY <1>3, <2>1, <2>2 DEF PositionsOK, Item
<1>6. OrderOK'
    <2>1. ASSUME NEW k \in 0..(n - 2)
          PROVE  Keys'[k] = Keys[k]
        <3>1. priority'[items'[k + 1]] = priority[Item(k)]
            BY <1>1, <1>2, <1>4 DEF TypeOK
        <3>2. k \in 0..LastPosition /\ k \in 0..LastPosition'
            BY <1>1, <1>3
        <3> QED
            BY <1>1, <3>1, <3>2 DEF Keys, Item
    <2>2. Heap(Keys, n - 1)
        BY <1>1 DEF OrderOK
    <2>3. Heap(Keys', n - 1)
        <3>1. n - 1 \in Nat /\ n - 1 <= n - 1 /\ (n - 1) - 1 = n - 2
            BY <1>1
        <3> HIDE DEF n
        <3> QED
            BY <2>1, <2>2, <3>1, ShrinkKeeps
    <2> QED
        BY <1>1, <1>3, <2>3 DEF OrderOK
<1> QED
    BY <1>3, <1>5, <1>6

\* Every step, and every stutter, keeps the invariant.
LEMMA NextInv == QueueInv /\ [Next]_vars => QueueInv'
<1> SUFFICES ASSUME QueueInv, [Next]_vars PROVE QueueInv'
    OBVIOUS
<1>1. ASSUME NEW v \in Values, NEW p \in Priorities, PushNew(v, p) \/ PushAgain(v, p)
      PROVE  QueueInv'
    BY <1>1, PushNewInv, PushAgainInv
<1>2. ASSUME NEW v \in Values, Remove(v)
      PROVE  QueueInv'
    BY <1>2, RemoveInv
<1>3. CASE UNCHANGED vars
    BY <1>3 DEF QueueInv, TypeOK, LoopOK, PositionsOK, OrderOK, Used, LastPosition,
                Keys, Item, vars, heapVars, loopVars
<1> QED
    BY <1>1, <1>2, <1>3, PopInv, DownInv, DownDoneInv, UpInv, UpDoneInv, TakeLastInv
       DEF Next

\* The heap is in order and every item knows its position, after every operation.
LEMMA QueueInvariant == Spec => []QueueInv
    BY InitInv, NextInv, PTL DEF Spec

-----------------------------------------------------------------------------
(* What callers rely on *)

\* Every item knows its position at every moment, so that Fix and Remove start at the
\* right one, and between calls idx has the items and no others.
THEOREM PositionsExact == Spec => []IndexExact
<1>1. QueueInv => IndexExact
    <2> SUFFICES ASSUME QueueInv PROVE IndexExact
        OBVIOUS
    <2>1. ASSUME pc = "idle"
          PROVE  idx = {Item(k) : k \in 0..LastPosition}
        BY <2>1, IdleItems DEF QueueInv, PositionsOK
    <2> QED
        BY <2>1 DEF IndexExact, QueueInv, PositionsOK
<1> QED
    BY <1>1, QueueInvariant, PTL

\* Between calls the first position has a value of the first priority.
LEMMA FirstIsFirst ==
    ASSUME QueueInv, pc = "idle", items # <<>>
    PROVE  Item(0) \in Abstract!First
<1> USE DEF QueueInv
<1>1. 0 \in 0..LastPosition /\ Len(items) \in Nat /\ LastPosition = Len(items) - 1
    BY PositionTypes DEF TypeOK
<1>2. \A k \in 0..LastPosition : Keys[0] <= Keys[k]
    BY <1>1, IdleItems, PositionTypes, HeapFirst
<1>3. Contents = {[value |-> v, priority |-> priority[v]] : v \in idx}
    BY IdleItems, NoValueAssumption DEF Contents, TypeOK
<1>4. ASSUME NEW v \in idx
      PROVE  IF reversed THEN priority[v] <= priority[Item(0)]
                         ELSE priority[Item(0)] <= priority[v]
    <2>1. index[v] \in 0..LastPosition /\ Item(index[v]) = v
        BY DEF PositionsOK
    <2>2. Keys[0] <= Keys[index[v]]
        BY <1>2, <2>1
    <2>3. priority[v] \in Int /\ priority[Item(0)] \in Int
        BY <1>1, PositionTypes DEF TypeOK
    <2> QED
        BY <1>1, <2>1, <2>2, <2>3 DEF Keys
<1>5. [value |-> Item(0), priority |-> priority[Item(0)]] \in Contents /\ Item(0) \in idx
    BY <1>1, <1>3, IdleItems
<1>6. CASE reversed
    BY <1>3, <1>4, <1>5, <1>6 DEF Abstract!First, Abstract!Tops
<1>7. CASE ~reversed
    BY <1>3, <1>4, <1>5, <1>7 DEF Abstract!First, Abstract!Bottoms
<1> QED
    BY <1>6, <1>7

\* Peek, which the manager asks for the worker with the oldest heartbeat or the most
\* shards, looks at position 0 and is right about it, however large the heap is.
THEOREM PeekCorrect == Spec => []PeekIsFirst
<1>1. QueueInv => PeekIsFirst
    BY FirstIsFirst DEF PeekIsFirst
<1> QED
    BY <1>1, QueueInvariant, PTL

-----------------------------------------------------------------------------
(* Refinement *)

\* An operation changes the set of items as QueueSpec says; the iterations of the loops
\* leave it alone, and the leaving item belongs to it no more.
LEMMA StepImplements ==
    ASSUME QueueInv, QueueInv', [Next]_vars
    PROVE  [Abstract!Next]_<<reversed, Contents, result>>
<1> USE DEF QueueInv
<1>1. ASSUME NEW v \in Values, NEW p \in Priorities, PushNew(v, p) \/ PushAgain(v, p)
      PROVE  Abstract!Insert(v, p)
    <2>1. /\ leaving = NoValue /\ leaving' = NoValue /\ NoValue \notin idx
          /\ idx' = idx \cup {v} /\ priority' = [priority EXCEPT ![v] = p]
          /\ result' = NoValue /\ reversed' = reversed
        BY <1>1, IdleItems, NoValueAssumption DEF PushNew, PushAgain, TypeOK
    <2>2. Contents' = {[value |-> u, priority |-> priority'[u]] : u \in idx \cup {v}}
        BY <2>1, NoValueAssumption DEF Contents, TypeOK
    <2>3. Contents = {[value |-> u, priority |-> priority[u]] : u \in idx}
        BY <2>1 DEF Contents
    <2>4. /\ priority'[v] = p
          /\ \A u \in idx : u # v => priority'[u] = priority[u]
        BY <2>1 DEF TypeOK
    <2>5. Contents' = {e \in Contents : e.value # v} \cup {[value |-> v, priority |-> p]}
        BY <2>2, <2>3, <2>4
    <2> QED
        BY <2>1, <2>5 DEF Abstract!Insert, Abstract!Push
<1>2. ASSUME NEW v \in Values, pc = "idle", leaving' = v, idx' \in {idx, idx \ {v}},
             priority' = priority
      PROVE  Contents' = {e \in Contents : e.value # v}
    <2>0. leaving = NoValue /\ NoValue \notin idx
        BY <1>2, IdleItems, NoValueAssumption DEF TypeOK
    <2>1. Contents = {[value |-> u, priority |-> priority[u]] : u \in idx}
        BY <2>0 DEF Contents
    <2>2. Contents' = {[value |-> u, priority |-> priority[u]] : u \in idx \ {v}}
        BY <1>2 DEF Contents
    <2> QED
        BY <2>1, <2>2
<1>3. ASSUME Pop
      PROVE  Abstract!Pop
    <2>1. /\ pc = "idle" /\ items # <<>> /\ leaving' = Item(0) /\ result' = Item(0)
          /\ UNCHANGED <<reversed, priority, idx>>
        BY <1>3 DEF Pop
    <2>2. Item(0) \in Abstract!First
        BY <2>1, FirstIsFirst
    <2>3. Item(0) \in Values
        BY <2>1, PositionTypes DEF TypeOK
    <2>4. Contents' = {e \in Contents : e.value # Item(0)}
        BY <1>2, <2>1, <2>3
    <2> QED
        BY <2>1, <2>2, <2>4 DEF Abstract!Pop, Abstract!RemoveItem
<1>4. ASSUME NEW v \in Values, Remove(v)
      PROVE  Abstract!Delete(v)
    <2>1. /\ pc = "idle" /\ leaving' = v /\ result' = NoValue /\ idx' = idx \ {v}
          /\ UNCHANGED <<reversed, priority>>
        BY <1>4 DEF Remove
    <2>2. Contents' = {e \in Contents : e.value # v}
        BY <1>2, <2>1
    <2> QED
        BY <2>1, <2>2 DEF Abstract!Delete, Abstract!RemoveItem
<1>5. CASE UNCHANGED <<reversed, priority, idx, leaving, result>>
    BY <1>5 DEF Contents
<1>6. ASSUME TakeLast
      PROVE  UNCHANGED <<reversed, Contents, result>>
    <2>1. /\ idx' = idx \ {leaving} /\ leaving' = NoValue /\ leaving # NoValue
          /\ Item(LastPosition) = leaving /\ leaving \in Values
          /\ priority' = [priority EXCEPT ![leaving] = 0]
          /\ UNCHANGED <<reversed, result>>
        BY <1>6 DEF TakeLast, LoopOK, TypeOK
    <2>2. idx' \ {leaving'} = idx \ {leaving}
        BY <2>1, NoValueAssumption DEF TypeOK
    <2>3. \A u \in idx \ {leaving} : priority'[u] = priority[u]
        BY <2>1 DEF TypeOK
    <2> QED
        BY <2>1, <2>2, <2>3 DEF Contents
<1>7. CASE Down \/ DownDone \/ Up \/ UpDone
    BY <1>5, <1>7 DEF Down, DownDone, Up, UpDone, heapVars
<1>8. CASE UNCHANGED vars
    BY <1>5, <1>8 DEF vars, heapVars, loopVars
<1> QED
    BY <1>1, <1>3, <1>4, <1>6, <1>7, <1>8 DEF Next, Abstract!Next

\* The heap with its index, seen from outside, is a set of items: Push, Remove and Pop
\* do to it what QueueSpec says, and Pop returns a value of the first priority.
THEOREM QueueImplemented == Spec => Implements
<1>1. Init => Abstract!Init
    BY DEF Init, Abstract!Init, Contents
<1> QED
    BY <1>1, StepImplements, QueueInvariant, PTL DEF Spec, Implements, Abstract!Spec
=============================================================================
