SPECIFICATION Spec
CONSTANTS
    n1 = n1
    n2 = n2
    s1 = s1
    s2 = s2
    m1 = m1
    e1 = e1
    NoMsg = NoMsg
    SceneMsg <- TwoSceneMsgs
    SceneId <- TwoScenes
    SceneOf <- SceneOfEach
    EventMsg <- OneEventMsg
    EventId <- OneEvent
    EventOf <- SingleEvent
    Verdict <- Verdicts
    SceneAttempts = 1
    SceneDeliveries = 1
    SceneFaults = 0
    EventAttempts = 2
    EventDeliveries = 3
    EventFaults = 1
    MaxFreezes = 0
    MaxTimeouts = 1
    MaxDamages = 0
PROPERTIES
    ImplementsCatalog
    EveryEventServed
CHECK_DEADLOCK FALSE
