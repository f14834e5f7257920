SPECIFICATION Spec
CONSTANTS
    Request = {r1, r2, r3}
    EventId = {e1, e2}
    Key = {k1, k2}
    Body = {b1, b2}
    MaxFaults = 1
    MaxCrashes = 1
SYMMETRY Requests
INVARIANTS
    TypeOK
    FailureExplained
PROPERTIES
    ImplementsRegister
CHECK_DEADLOCK FALSE
