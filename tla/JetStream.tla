----------------------------- MODULE JetStream -----------------------------
(***************************************************************************)
(* A durable JetStream pull consumer as the two workers use it: explicit    *)
(* acknowledgement, no bound on deliveries, redelivery after a nak or when  *)
(* the acknowledgement wait runs out.  The server is not part of the        *)
(* repository; this is what pull_subscribe, fetch, ack and nak rely on.     *)
(***************************************************************************)
EXTENDS Naturals

CONSTANTS
    Msg,            \* stored messages, i.e. stream sequence numbers
    MaxDeliveries   \* bound: deliveries of one message

ASSUME MaxDeliveriesAssumption == MaxDeliveries \in Nat \ {0}

VARIABLES
    stored,     \* messages in the stream
    delivered,  \* metadata.num_delivered of each message
    held,       \* delivered, and the server waits for the acknowledgement
    acked       \* acknowledged

streamVars == <<stored, delivered, held, acked>>

StreamTypeOK ==
    /\ stored \subseteq Msg
    /\ delivered \in [Msg -> 0..MaxDeliveries]
    /\ held \subseteq stored
    /\ acked \subseteq stored

StreamInit ==
    /\ stored = {} /\ held = {} /\ acked = {}
    /\ delivered = [m \in Msg |-> 0]

\* A publisher's message is stored.
Store(m) ==
    /\ m \notin stored
    /\ stored' = stored \cup {m}
    /\ UNCHANGED <<delivered, held, acked>>

Deliverable(m) == m \in stored \ (held \cup acked) /\ delivered[m] < MaxDeliveries

\* fetch(1): the server hands out one message that is new or due again.
Deliver(m) ==
    /\ Deliverable(m)
    /\ delivered' = [delivered EXCEPT ![m] = @ + 1]
    /\ held' = held \cup {m}
    /\ UNCHANGED <<stored, acked>>

\* An acknowledgement counts even when the wait for it had run out.
AckArrives(m) ==
    /\ acked' = acked \cup {m}
    /\ held' = held \ {m}
    /\ UNCHANGED <<stored, delivered>>

\* A nak, whose delay has passed, or the end of the acknowledgement wait.
Release(m) ==
    /\ held' = held \ {m}
    /\ UNCHANGED <<stored, delivered, acked>>
==============================================================================
