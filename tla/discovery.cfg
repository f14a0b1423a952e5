\* A split and a merge; ListShards fails up to twice.
CONSTANTS
    s1 = s1  s2 = s2  s3 = s3  s4 = s4
    Shards = {s1, s2, s3, s4}
    NoShard = NoShard
    Parent <- SplitThenMerge
    AdjacentParent <- MergeAdjacent
    MaxErrors = 2
SPECIFICATION FairSpec
PROPERTIES RootsFixed ChildrenFound
CHECK_DEADLOCK FALSE
