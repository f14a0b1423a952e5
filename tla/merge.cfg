\* s1 and s2 merge into s3 while two workers come and go and the manager loses and
\* regains leadership.
CONSTANTS
    w1 = w1  w2 = w2  w3 = w3
    i1 = i1  i2 = i2  i3 = i3  i4 = i4  i5 = i5
    s1 = s1  s2 = s2  s3 = s3  s4 = s4
    NoInfo = NoInfo
    NoShard = NoShard
    Workers = {w1, w2}
    Shards = {s1, s2, s3}
    Infos = {i1, i2, i3}
    Parent <- MergeTree
    AdjacentParent <- MergeAdjacent
    Closable = {s1, s2}
    MaxShardsValues = {2}
    Terms = {1, 2}
    InactivityTimeout = 1
    ReleaseTimeout = 1
    MaxLag = 0
    MaxOffset = 3
    LateUntil = 0
    MaxInflight = 1
    MaxAbandoned = 0
SPECIFICATION Spec
INVARIANTS ParentsFirst NoChildForgotten NoLiveShardLost
SYMMETRY MergeSymmetry
VIEW TreeView
