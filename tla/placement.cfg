\* Three workers that come and go share a stream whose shards never close; requests
\* may wait for the mutex after they read the clock.
\* The values of ids make no difference to PlacementView: MaxOffset is no bound.
CONSTANTS
    w1 = w1  w2 = w2  w3 = w3
    i1 = i1  i2 = i2  i3 = i3  i4 = i4  i5 = i5
    s1 = s1  s2 = s2  s3 = s3  s4 = s4
    NoInfo = NoInfo
    NoShard = NoShard
    Workers = {w1, w2, w3}
    Shards = {s1, s2, s3}
    Infos = {i1, i2, i3, i4, i5}
    Parent <- Flat
    AdjacentParent <- Flat
    Closable = {}
    MaxShardsValues = {1, 2}
    Terms = {1}
    InactivityTimeout = 2
    ReleaseTimeout = 1
    MaxLag = 1
    MaxOffset = 1000000
    LateUntil = 0
    MaxInflight = 0
    MaxAbandoned = 0
SPECIFICATION Spec
INVARIANTS PlacedOnce ExclusiveAssignment CountsExact QueueInSync
SYMMETRY WorkerShardSymmetry
VIEW PlacementView
