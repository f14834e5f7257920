--------------------------- MODULE MCFaultControl ---------------------------
\* Instance of FaultControl for TLC: two operators, the two services that other
\* faults need.
EXTENDS FaultControl, TLC

CONSTANTS first, second, postgres, minio, x1
==============================================================================
