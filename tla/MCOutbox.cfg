SPECIFICATION Spec
CONSTANTS
    ingest = ingest
    event = event
    request = request
    NumRows = 3
    Loop = {ingest}
    Once <- OneRequest
    Limit = 2
    Refused <- FirstRow
    MaxFaults = 2
    MaxExpiries = 1
INVARIANTS
    TypeOK
    StreamAgreesWithTable
PROPERTIES
    MarkedRowsRest
    EveryRowPublished
CHECK_DEADLOCK FALSE
