--------------------------- MODULE MCSceneIngest ---------------------------
\* Instance of SceneIngest for TLC: two scene ids and two contents, one without
\* tags and one whose SCENE_ID tag names the scene a.
EXTENDS SceneIngest, TLC

CONSTANTS a, b, plain, tagged

MCSceneId == {a, b}
MCDigest == {plain, tagged}
MCAdmits == [d \in MCDigest |-> IF d = tagged THEN {a} ELSE MCSceneId]

Requests == Permutations(Request)
==============================================================================
