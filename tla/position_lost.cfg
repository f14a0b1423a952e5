\* One shard with a few records and no faults.
CONSTANTS
    s1 = s1  p1 = p1  p2 = p2
    Shards = {s1}
    UrlCount = 2
    Procs = {p1, p2}
    Closable = {}
    MaxTip = 3
    MaxFaults = 0
    NoProc = NoProc
    Width = 2
    MaxId = 1
SPECIFICATION Spec
INVARIANTS NothingSkipped
CHECK_DEADLOCK FALSE
