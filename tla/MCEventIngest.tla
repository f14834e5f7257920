--------------------------- MODULE MCEventIngest ---------------------------
\* Instance of EventIngest for TLC.
EXTENDS EventIngest, TLC

Requests == Permutations(Request)
==============================================================================
