SPECIFICATION Spec
CONSTANTS
    a = a
    b = b
    plain = plain
    tagged = tagged
    SceneId <- MCSceneId
    Digest <- MCDigest
    Admits <- MCAdmits
    Request = {r1, r2, r3}
    MaxFaults = 1
    MaxCrashes = 1
SYMMETRY Requests
INVARIANTS
    TypeOK
    EverySceneAnnouncedOnce
    AnswersAreTruthful
    LeftoversExplained
PROPERTIES
    ImplementsRegister
CHECK_DEADLOCK FALSE
