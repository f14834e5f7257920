-------------------------- MODULE MCImageryWorker --------------------------
\* Instance of ImageryWorker for TLC: the message of one scene.
EXTENDS ImageryWorker, TLC

CONSTANTS m1, s1

OneMsg == {m1}
OneScene == {s1}
Single == (m1 :> s1)
=============================================================================
