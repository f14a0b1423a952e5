\* Two nodes, two faults of any kind.
CONSTANTS
    n1 = n1  n2 = n2  n3 = n3
    Nodes = {n1, n2}
    MaxFaults = 2
    MaxGiven = 2
    MaxInflight = 1
    MaxRevision = 5
SPECIFICATION FairSpec
INVARIANTS TypeOK LeaderIsNewest OwnerAdmittedApart
PROPERTIES FencedInTermOrder StaleManagerLeaves EventuallyLed ShutdownCompletes
CHECK_DEADLOCK FALSE
