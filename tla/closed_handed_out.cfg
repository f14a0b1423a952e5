\* The owner of a shard it has closed expires before the next request.
CONSTANTS
    w1 = w1  w2 = w2  w3 = w3
    i1 = i1  i2 = i2  i3 = i3  i4 = i4  i5 = i5
    s1 = s1  s2 = s2  s3 = s3  s4 = s4
    NoInfo = NoInfo
    NoShard = NoShard
    Workers = {w1, w2}
    Shards = {s1, s2, s3}
    Infos = {i1, i2, i3}
    Parent <- SplitTree
    AdjacentParent <- Flat
    Closable = {s1}
    MaxShardsValues = {2}
    Terms = {1}
    InactivityTimeout = 1
    ReleaseTimeout = 1
    MaxLag = 0
    MaxOffset = 3
    LateUntil = 0
    MaxInflight = 1
    MaxAbandoned = 0
SPECIFICATION Spec
INVARIANTS NoClosedHandedOut
VIEW HeapView
