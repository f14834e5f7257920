SPECIFICATION CorrelationSpec
CONSTANTS
    m1 = m1
    e1 = e1
    s1 = s1
    s2 = s2
    NoMsg = NoMsg
    Msg <- OneMsg
    MessageId <- OneEvent
    IdOf <- Single
    MaxAttempts = 2
    MaxDeliveries = 4
    MaxFaults = 1
    MaxFreezes = 1
    MaxTimeouts = 0
    Scene <- TwoScenes
    Verdict <- Verdicts
INVARIANTS
    CorrelationTypeOK
    AckedEventIsSettled
    DeadLetterIsLastResort
    AnalysisHasItsCorrelations
    RetriesAreBounded
PROPERTIES
    
    EveryMessageSettled
CHECK_DEADLOCK FALSE
