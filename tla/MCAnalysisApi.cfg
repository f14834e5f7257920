SPECIFICATION Spec
CONSTANTS
    l1 = l1
    Probe = {p1}
    Write = {w1}
    Query <- MCQuery
    Health = {h1}
    Workers = 1
    Tokens = 2
    PoolSize = 1
    MaxOverflow = 0
    MaxFreezes = 1
    NumScenes = 2
    NumPages = 3
    PageSize = 1
    Lookup <- MCLookup
    MaxChanges = 1
INVARIANTS
    TypeOK
    ReadyIsTruthful
    WalkIsFaithful
PROPERTIES
    EveryRequestAnswered
CHECK_DEADLOCK FALSE
