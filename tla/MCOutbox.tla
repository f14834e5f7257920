------------------------------ MODULE MCOutbox ------------------------------
\* Instances of Outbox for TLC: the loops of the two APIs, a request, and rows
\* the first of which may be refused.
EXTENDS Outbox, TLC

CONSTANTS ingest, event, request

OneRequest == {request}
Nobody == {}
FirstRow == {1}
==============================================================================
