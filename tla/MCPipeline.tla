----------------------------- MODULE MCPipeline -----------------------------
\* Instance of Pipeline for TLC: the messages of one event and of two scenes, one that
\* covers it and one that does not.
EXTENDS Pipeline, TLC

CONSTANTS n1, n2, s1, s2, m1, e1

TwoSceneMsgs == {n1, n2}
TwoScenes == {s1, s2}
SceneOfEach == (n1 :> s1) @@ (n2 :> s2)
Verdicts == (<<s1, e1>> :> "spatial-non-match") @@ (<<s2, e1>> :> "matched")
OneEventMsg == {m1}
OneEvent == {e1}
SingleEvent == (m1 :> e1)
=============================================================================
