----------------------------- MODULE WorkerLoop -----------------------------
(***************************************************************************)
(* The skeleton both workers share: run_correlation_worker and              *)
(* _process_message in src/terrawatch/correlation.py, and their twins in    *)
(* imagery_worker.py.  One process takes one message at a time, works on    *)
(* it, records the attempt, and acknowledges, naks or dead-letters it.      *)
(* What the work is, and what it does to the database, is left to the       *)
(* module that extends this one.                                            *)
(*                                                                         *)
(* The worker's messages are well formed (the outbox wrote them), so the    *)
(* parsing before the try block does not fail.  PostGIS may be frozen: a    *)
(* call on an idle pooled connection then hangs until it thaws, a call that *)
(* opens a connection raises.                                               *)
(***************************************************************************)
EXTENDS JetStream, FiniteSets

CONSTANTS
    MessageId,      \* ids of the outbox rows
    IdOf,           \* message_id in the envelope of each stored message
    NoMsg,          \* no message in hand
    MaxAttempts,    \* settings.max_attempts
    MaxFaults,      \* bound: calls that raise or whose message is lost
    MaxFreezes      \* bound: times PostGIS is frozen

ASSUME IdOfAssumption == IdOf \in [Msg -> MessageId]
ASSUME NoMsgAssumption == NoMsg \notin Msg
ASSUME LimitsAssumption ==
    MaxAttempts \in Nat \ {0} /\ MaxFaults \in Nat /\ MaxFreezes \in Nat

VARIABLES
    pc,             \* where the worker's coroutine stands
    current,        \* the message in hand
    attempt,        \* its num_delivered when it was fetched
    attempts,       \* table processing_attempts
    deadLetters,    \* table dead_letters, by message_id
    dlq,            \* stream TERRAWATCH_DLQ, by message_id
    frozen,         \* PostGIS accepts connections but does not reply
    faults, freezes

tableVars == <<attempts, deadLetters, dlq>>
envVars == <<frozen, faults, freezes>>
loopVars == <<streamVars, pc, current, attempt, tableVars, envVars>>

Steps == {"idle", "working", "recordPassed", "ack", "recordFailed", "nak",
          "publishDead", "bury", "close", "closeRaising", "dead"}

Attempt == [message_id: MessageId, attempt: 1..MaxDeliveries, status: {"passed", "failed"}]

LoopTypeOK ==
    /\ StreamTypeOK
    /\ pc \in Steps
    /\ current \in Msg \cup {NoMsg}
    /\ attempt \in 0..MaxDeliveries
    /\ pc \notin {"idle", "dead"} => current \in stored /\ attempt > 0
    /\ attempts \subseteq Attempt
    /\ deadLetters \subseteq MessageId
    /\ dlq \subseteq MessageId
    /\ frozen \in BOOLEAN
    /\ faults \in 0..MaxFaults
    /\ freezes \in 0..MaxFreezes

LoopInit ==
    /\ StreamInit
    /\ pc = "idle" /\ current = NoMsg /\ attempt = 0
    /\ attempts = {} /\ deadLetters = {} /\ dlq = {}
    /\ frozen = FALSE /\ faults = 0 /\ freezes = 0

------------------------------------------------------------------------------
(* Calls and their failures. *)

\* A call raises, or what it sends is lost.
Fault == faults < MaxFaults /\ faults' = faults + 1 /\ UNCHANGED <<frozen, freezes>>

\* A database call returns.
DbReplies == ~frozen /\ UNCHANGED envVars

\* A database call raises: the database fails, or it is frozen and the call had
\* to open a connection.
DbRaises == Fault \/ (frozen /\ UNCHANGED envVars)

Goto(from, to) == pc = from /\ pc' = to /\ UNCHANGED <<current, attempt>>

\* The message is done with; the loop fetches the next one.
Return(from) == pc = from /\ pc' = "idle" /\ current' = NoMsg /\ attempt' = 0

\* An exception leaves _process_message: nothing catches it, the process ends.
Die(from) == pc = from /\ pc' = "dead" /\ current' = NoMsg /\ attempt' = 0

InHand == IdOf[current]
Row(status) == [message_id |-> InHand, attempt |-> attempt, status |-> status]

(* The loop. *)

\* Faulty variant of Fetch: the attempts are counted from zero.
FetchCountingFromZero(m) ==
    /\ pc = "idle" /\ pc' = "working"
    /\ Deliver(m)
    /\ current' = m /\ attempt' = delivered[m]
    /\ UNCHANGED <<tableVars, envVars>>

\* subscription.fetch(1) returns m; num_delivered is read before the work.
Fetch(m) ==
    /\ pc = "idle" /\ pc' = "working"
    /\ Deliver(m)
    /\ current' = m /\ attempt' = delivered[m] + 1
    /\ UNCHANGED <<tableVars, envVars>>

\* Any error of fetch but a timeout ends the process.
FetchRaises ==
    /\ Die("idle") /\ Fault
    /\ UNCHANGED <<streamVars, tableVars>>

\* SIGTERM sets the stop event, which the loop reads between two messages.
Stop ==
    /\ Die("idle")
    /\ UNCHANGED <<streamVars, tableVars, envVars>>

(* The work has succeeded. *)

RecordPassed ==
    /\ Goto("recordPassed", "ack") /\ DbReplies
    /\ attempts' = attempts \cup {Row("passed")}
    /\ UNCHANGED <<streamVars, deadLetters, dlq>>

\* The insert raises, before or after its commit: the attempt counts as failed.
RecordPassedRaises ==
    /\ Goto("recordPassed", "recordFailed") /\ DbRaises
    /\ attempts' \in {attempts, attempts \cup {Row("passed")}}
    /\ UNCHANGED <<streamVars, deadLetters, dlq>>

Ack ==
    /\ Return("ack")
    /\ AckArrives(current)
    /\ UNCHANGED <<tableVars, envVars>>

\* ack does not wait for the server: what it sent may be lost.
AckLost ==
    /\ Return("ack") /\ Fault
    /\ UNCHANGED <<streamVars, tableVars>>

AckRaises ==
    /\ Goto("ack", "recordFailed") /\ Fault
    /\ UNCHANGED <<streamVars, tableVars>>

(* The work, the record of its success or its acknowledgement has raised. *)

\* Faulty variants of Exhausted.
ExhaustedEarly == attempt + 1 >= MaxAttempts
ExhaustedLate == attempt > MaxAttempts

\* retry_exhausted
Exhausted == attempt >= MaxAttempts
AfterFailure == IF Exhausted THEN "publishDead" ELSE "nak"

RecordFailed ==
    /\ Goto("recordFailed", AfterFailure) /\ DbReplies
    /\ attempts' = attempts \cup {Row("failed")}
    /\ UNCHANGED <<streamVars, deadLetters, dlq>>

\* The error is suppressed.
RecordFailedRaises ==
    /\ Goto("recordFailed", AfterFailure) /\ DbRaises
    /\ UNCHANGED <<streamVars, tableVars>>

\* Faulty variant of Nak: the message is acknowledged instead.
NakAcks ==
    /\ Return("nak")
    /\ AckArrives(current)
    /\ UNCHANGED <<tableVars, envVars>>

Nak ==
    /\ Return("nak")
    /\ Release(current)
    /\ UNCHANGED <<tableVars, envVars>>

NakRaises ==
    /\ Die("nak") /\ Fault
    /\ UNCHANGED <<streamVars, tableVars>>

\* The dead letter is published under the id dlq-<message_id>.
PublishDead ==
    /\ Goto("publishDead", "bury")
    /\ dlq' = dlq \cup {InHand}
    /\ UNCHANGED <<streamVars, attempts, deadLetters, envVars>>

\* Faulty variant of PublishDeadRaises: the error is suppressed.
PublishDeadSuppressed ==
    /\ Goto("publishDead", "bury") /\ Fault
    /\ UNCHANGED <<streamVars, tableVars>>

\* Connecting, publishing or draining raises, before or after the server stored
\* the dead letter.
PublishDeadRaises ==
    /\ Die("publishDead") /\ Fault
    /\ dlq' \in {dlq, dlq \cup {InHand}}
    /\ UNCHANGED <<streamVars, attempts, deadLetters>>

\* Faulty variant of BuryReplyLost: only a part of the transaction is kept.
BuryHalfway ==
    /\ Goto("bury", "closeRaising") /\ Fault
    /\ UNCHANGED <<streamVars, tableVars>>

\* _record_dead_letter: one row per message_id.
Bury ==
    /\ Goto("bury", "close") /\ DbReplies
    /\ deadLetters' = deadLetters \cup {InHand}
    /\ UNCHANGED <<streamVars, attempts, dlq>>

\* It commits, but the reply is lost and the call raises.
BuryReplyLost ==
    /\ Goto("bury", "closeRaising") /\ Fault
    /\ deadLetters' = deadLetters \cup {InHand}
    /\ UNCHANGED <<streamVars, attempts, dlq>>

BuryRaises ==
    /\ Goto("bury", "closeRaising") /\ DbRaises
    /\ UNCHANGED <<streamVars, tableVars>>

Close ==
    /\ Return("close")
    /\ AckArrives(current)
    /\ UNCHANGED <<tableVars, envVars>>

CloseLost ==
    /\ Return("close") /\ Fault
    /\ UNCHANGED <<streamVars, tableVars>>

CloseRaises ==
    /\ Die("close") /\ Fault
    /\ UNCHANGED <<streamVars, tableVars>>

\* finally: the message is acknowledged, then the exception goes on.
CloseRaising ==
    /\ Die("closeRaising")
    /\ AckArrives(current)
    /\ UNCHANGED <<tableVars, envVars>>

------------------------------------------------------------------------------
(* The environment. *)

\* The process is killed.
Kill ==
    /\ pc \notin {"idle", "dead"} /\ Fault
    /\ pc' = "dead" /\ current' = NoMsg /\ attempt' = 0
    /\ UNCHANGED <<streamVars, tableVars>>

\* An operator starts the worker again: compose restarts nothing by itself.
Restart ==
    /\ pc = "dead" /\ pc' = "idle"
    /\ UNCHANGED <<streamVars, current, attempt, tableVars, envVars>>

Unattended == UNCHANGED <<pc, current, attempt, tableVars>>

Arrive(m) == Store(m) /\ Unattended /\ UNCHANGED envVars

\* The acknowledgement wait of a message runs out, in hand or not.
AckWaitExpires(m) ==
    /\ m \in held
    /\ Release(m) /\ Unattended /\ UNCHANGED envVars

Freeze ==
    /\ ~frozen /\ freezes < MaxFreezes
    /\ frozen' = TRUE /\ freezes' = freezes + 1
    /\ Unattended /\ UNCHANGED <<streamVars, faults>>

Thaw ==
    /\ frozen /\ frozen' = FALSE
    /\ Unattended /\ UNCHANGED <<streamVars, faults, freezes>>

\* What the process does once the work is over, when its calls succeed.  Bury is
\* left to the module that extends this one, since it may change its tables too.
Settle ==
    \/ RecordPassed \/ Ack \/ RecordFailed \/ Nak
    \/ PublishDead \/ Close \/ CloseRaising

\* The same calls raising, or their effect being lost.
SettleBadly ==
    \/ RecordPassedRaises \/ AckLost \/ AckRaises \/ RecordFailedRaises \/ NakRaises
    \/ PublishDeadRaises \/ BuryRaises \/ CloseLost \/ CloseRaises

Surroundings ==
    \/ \E m \in Msg : Arrive(m) \/ AckWaitExpires(m)
    \/ Freeze \/ Thaw
==============================================================================
