\* Two checkpoint requests at a time while shards change hands and the manager
\* loses and regains leadership; the client of one may have given up.
CONSTANTS
    w1 = w1  w2 = w2  w3 = w3
    i1 = i1  i2 = i2  i3 = i3  i4 = i4  i5 = i5
    s1 = s1  s2 = s2  s3 = s3  s4 = s4
    NoInfo = NoInfo
    NoShard = NoShard
    Workers = {w1, w2}
    Shards = {s1, s2}
    Infos = {i1, i2, i3}
    Parent <- Flat
    AdjacentParent <- Flat
    Closable = {}
    MaxShardsValues = {1}
    Terms = {1, 2}
    InactivityTimeout = 1
    ReleaseTimeout = 1
    MaxLag = 0
    MaxOffset = 3
    LateUntil = 0
    MaxInflight = 2
    MaxAbandoned = 1
SPECIFICATION Spec
INVARIANTS TypeOK FenceAdmitsOwner IdsUnique
PROPERTIES FenceOnlyRises OwnerNotRefused ImplementsStore
SYMMETRY WorkerShardSymmetry
VIEW HeapView
