--------------------------- MODULE MCAnalysisApi ---------------------------
\* Instance of AnalysisApi for TLC: three pages, a lookup, a probe, a
\* request that writes and a health check over one pooled connection.
EXTENDS AnalysisApi

CONSTANTS l1

MCLookup == {l1}
MCQuery == {1, 2, 3, l1}
=============================================================================
