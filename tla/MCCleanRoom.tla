----------------------------- MODULE MCCleanRoom -----------------------------
\* Instance of CleanRoom for TLC: a container of each kind.
EXTENDS CleanRoom

CONSTANTS p1, f1, n1
==============================================================================
