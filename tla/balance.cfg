\* Workers that may be late at first and later never are; some requests are
\* heartbeats only.
CONSTANTS
    w1 = w1  w2 = w2  w3 = w3
    i1 = i1  i2 = i2  i3 = i3  i4 = i4  i5 = i5
    s1 = s1  s2 = s2  s3 = s3  s4 = s4
    NoInfo = NoInfo
    NoShard = NoShard
    Workers = {w1, w2}
    Shards = {s1, s2, s3}
    Infos = {i1, i2, i3}
    Parent <- Flat
    AdjacentParent <- Flat
    Closable = {}
    MaxShardsValues = {0, 1, 2}
    Terms = {1}
    InactivityTimeout = 2
    ReleaseTimeout = 1
    MaxLag = 0
    MaxOffset = 9
    LateUntil = 2
    MaxInflight = 0
    MaxAbandoned = 0
SPECIFICATION PromptSpec
PROPERTIES EventuallyBalanced AssignReturns
