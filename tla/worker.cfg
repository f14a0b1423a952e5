\* One shard among others, two managers, two processors at a time, one fault.
CONSTANTS
    s1 = s1  p1 = p1  p2 = p2
    Shards = {s1}
    UrlCount = 2
    Procs = {p1, p2}
    Closable = {s1}
    MaxTip = 1
    MaxFaults = 1
    NoProc = NoProc
    Width = 2
    MaxId = 2
SPECIFICATION FairSpec
INVARIANTS TypeOK StoppedOnce NoOrphan
PROPERTIES AssignedIsRead LostIsLeft ShutdownCompletes
CHECK_DEADLOCK FALSE
