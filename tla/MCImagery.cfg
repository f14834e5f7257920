SPECIFICATION ImagerySpec
CONSTANTS
    m1 = m1
    s1 = s1
    NoMsg = NoMsg
    Msg <- OneMsg
    MessageId <- OneScene
    IdOf <- Single
    MaxAttempts = 2
    MaxDeliveries = 4
    MaxFaults = 1
    MaxFreezes = 1
    MaxSlowCalls = 1
    MaxDamages = 1
INVARIANTS
    AckedSceneIsSettled
    RejectedIsDeadLettered
PROPERTIES
    AcceptanceStands
    EverySceneDecided
CHECK_DEADLOCK FALSE
