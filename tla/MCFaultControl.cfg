SPECIFICATION Spec
CONSTANTS
    first = first
    second = second
    postgres = postgres
    minio = minio
    x1 = x1
    NoFault = NoFault
    Operator = {first, second}
    Service = {postgres, minio}
    Postgres = postgres
    Minio = minio
    Object = {x1}
    MaxFaults = 2
    MaxGenerations = 3
    MaxDrift = 2
INVARIANTS
    TypeOK
    EveryFaultRecorded
    CredentialsFit
PROPERTIES
    EveryFaultCleared
CHECK_DEADLOCK FALSE
