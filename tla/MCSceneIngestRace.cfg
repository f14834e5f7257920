SPECIFICATION Spec
CONSTANTS
    a = a
    b = b
    plain = plain
    tagged = tagged
    SceneId <- MCSceneId
    Digest <- MCDigest
    Admits <- MCAdmits
    Request = {r1, r2}
    MaxFaults = 0
    MaxCrashes = 0
INVARIANTS
    EverySceneHasItsObject
CHECK_DEADLOCK FALSE
