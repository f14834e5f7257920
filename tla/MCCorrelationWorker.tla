------------------------ MODULE MCCorrelationWorker ------------------------
\* Instance of CorrelationWorker for TLC: the message of one event, one scene that
\* covers it and one that does not.
EXTENDS CorrelationWorker, TLC

CONSTANTS m1, e1, s1, s2

OneMsg == {m1}
OneEvent == {e1}
Single == (m1 :> e1)
TwoScenes == {s1, s2}
Verdicts == (<<s1, e1>> :> "spatial-non-match") @@ (<<s2, e1>> :> "matched")
=============================================================================
