SPECIFICATION Spec
CONSTANTS
    p1 = p1
    f1 = f1
    n1 = n1
    Sentinel = Sentinel
    Project = {p1}
    Foreign = {f1}
    Neighbor = {n1}
    MaxFaults = 1
    MaxChanges = 2
INVARIANTS
    TypeOK
    NeighborsOutliveTeardown
    ExitAgreesWithEvidence
    SentinelLeaksExplained
CHECK_DEADLOCK FALSE
