\* Two nodes that start together; the first one to lead fails once.
CONSTANTS
    n1 = n1  n2 = n2  n3 = n3
    Nodes = {n1, n2}
    MaxFaults = 1
    MaxGiven = 4
    MaxInflight = 1
    MaxRevision = 5
SPECIFICATION Spec
INVARIANTS OwnerAdmitted
CHECK_DEADLOCK FALSE
