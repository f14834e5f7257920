------------------------------- MODULE Outbox -------------------------------
(***************************************************************************)
(* The transactional outbox, src/terrawatch/outbox.py, and the event stream *)
(* it publishes to, src/terrawatch/messaging.py.  Both APIs run outbox_loop *)
(* over the same table, and every accepted request also runs                *)
(* publish_pending once, so several publishers read, publish and mark the   *)
(* same rows at once.  The stream drops a message whose Nats-Msg-Id it has  *)
(* seen within its duplicate window.                                        *)
(*                                                                         *)
(* Rows are numbered by created_at, which is not the order they commit in.  *)
(* Payloads are abstracted, except that the stream may refuse a row's       *)
(* message every time; of the column attempts only whether last_error is    *)
(* set is kept.                                                             *)
(***************************************************************************)
EXTENDS Naturals, FiniteSets

CONSTANTS
    NumRows,    \* rows the APIs insert
    Loop,       \* publishers that run outbox_loop, one per API process
    Once,       \* publishers that run publish_pending for one request
    Limit,      \* rows fetched at once
    Refused,    \* rows whose message the stream never accepts
    MaxFaults,  \* bound: calls that fail, publishers that die
    MaxExpiries \* bound: times the duplicate window of one message ends

ASSUME RowsAssumption == NumRows \in Nat
ASSUME LimitAssumption == Limit \in Nat \ {0}
ASSUME BoundsAssumption == MaxFaults \in Nat /\ MaxExpiries \in Nat

Row == 1..NumRows
Publisher == Loop \cup Once

VARIABLES
    inserted,   \* rows committed so far
    published,  \* rows with published_at set
    errors,     \* rows with last_error set
    copies,     \* how often each row's message is in the stream
    window,     \* rows whose message id the stream recognises as a duplicate
    expired,    \* how often the duplicate window of a row's message has ended
    pc,         \* where each publisher stands
    batch,      \* rows each publisher has fetched and not dealt with
    faults

vars == <<inserted, published, errors, copies, window, expired, pc, batch, faults>>

Steps == {"idle", "connect", "publish", "mark", "fail", "gone"}

TypeOK ==
    /\ inserted \subseteq Row
    /\ published \subseteq inserted
    /\ errors \subseteq inserted
    /\ copies \in [Row -> Nat]
    /\ window \subseteq Row
    /\ expired \in [Row -> 0..MaxExpiries]
    /\ pc \in [Publisher -> Steps]
    /\ batch \in [Publisher -> SUBSET Row]
    /\ faults \in 0..MaxFaults

Init ==
    /\ inserted = {} /\ published = {} /\ errors = {}
    /\ copies = [r \in Row |-> 0]
    /\ window = {}
    /\ expired = [r \in Row |-> 0]
    /\ pc = [p \in Publisher |-> "idle"]
    /\ batch = [p \in Publisher |-> {}]
    /\ faults = 0

------------------------------------------------------------------------------
Goto(p, from, to) == pc[p] = from /\ pc' = [pc EXCEPT ![p] = to]

Fault == faults < MaxFaults /\ faults' = faults + 1

tables == <<inserted, published, errors>>
stream == <<copies, window, expired>>

\* A request commits its record and its outbox row.
Insert(r) ==
    /\ r \notin inserted /\ inserted' = inserted \cup {r}
    /\ UNCHANGED <<published, errors, stream, pc, batch, faults>>

\* Faulty variants of Pending: rows of open transactions are seen; the condition
\* on published_at is missing.
PendingDirty == Row \ published
PendingAll == inserted

Pending == inserted \ published

\* order_by(created_at).limit(limit)
Page(rows) == {r \in rows : Cardinality({q \in rows : q < r}) < Limit}

\* pending_outbox finds rows to publish.
Fetch(p) ==
    /\ Pending # {}
    /\ Goto(p, "idle", "connect")
    /\ batch' = [batch EXCEPT ![p] = Page(Pending)]
    /\ UNCHANGED <<tables, stream, faults>>

\* publish_pending of a request finds nothing, or fails to read.
Skip(p) ==
    /\ p \in Once
    /\ Goto(p, "idle", "gone")
    /\ \/ Pending = {} /\ UNCHANGED faults
       \/ Fault
    /\ UNCHANGED <<tables, stream, batch>>

\* Where a publisher goes when publish_pending ends: the loop waits for its
\* interval and starts over, a request is answered.
Rest(p) == IF p \in Loop THEN "idle" ELSE "gone"

Connect(p) ==
    /\ Goto(p, "connect", "publish")
    /\ UNCHANGED <<tables, stream, batch, faults>>

ConnectRaises(p) ==
    /\ Fault
    /\ Goto(p, "connect", Rest(p))
    /\ batch' = [batch EXCEPT ![p] = {}]
    /\ UNCHANGED <<tables, stream>>

\* r is the row the loop over the batch has reached.
IsNext(p, r) == r \in batch[p] /\ \A q \in batch[p] : r <= q

\* The stream stores the message unless its id is within the duplicate window.
Receive(r) ==
    /\ copies' = IF r \in window THEN copies ELSE [copies EXCEPT ![r] = @ + 1]
    /\ window' = window \cup {r}

\* jetstream.publish returns the stream's acknowledgement.
Publish(p) ==
    \E r \in Row :
        /\ IsNext(p, r) /\ r \notin Refused
        /\ Goto(p, "publish", "mark")
        /\ Receive(r)
        /\ UNCHANGED <<tables, expired, batch, faults>>

\* The stream refuses the message.
PublishRefused(p) ==
    \E r \in Row :
        /\ IsNext(p, r) /\ r \in Refused
        /\ Goto(p, "publish", "fail")
        /\ UNCHANGED <<tables, stream, batch, faults>>

\* Faulty variant of PublishRaises: the error is swallowed.
PublishRaisesUnseen(p) ==
    \E r \in Row :
        /\ IsNext(p, r) /\ r \notin Refused
        /\ Fault
        /\ Goto(p, "publish", "mark")
        /\ UNCHANGED <<tables, stream, batch>>

\* publish raises, before or after the stream received the message.
PublishRaises(p) ==
    \E r \in Row :
        /\ IsNext(p, r) /\ r \notin Refused
        /\ Fault
        /\ Goto(p, "publish", "fail")
        /\ Receive(r) \/ UNCHANGED <<copies, window>>
        /\ UNCHANGED <<tables, expired, batch>>

\* On to the next row, or the end of publish_pending.
Advance(p, r, from) ==
    /\ Goto(p, from, IF batch[p] = {r} THEN Rest(p) ELSE "publish")
    /\ batch' = [batch EXCEPT ![p] = @ \ {r}]

SetPublished(r) == published' = published \cup {r} /\ errors' = errors \ {r}

\* mark_published commits.
Mark(p) ==
    \E r \in Row :
        /\ IsNext(p, r)
        /\ Advance(p, r, "mark")
        /\ SetPublished(r)
        /\ UNCHANGED <<inserted, stream, faults>>

\* mark_published raises, before or after its commit.
MarkRaises(p) ==
    \E r \in Row :
        /\ IsNext(p, r)
        /\ Fault
        /\ Goto(p, "mark", "fail")
        /\ SetPublished(r) \/ UNCHANGED <<published, errors>>
        /\ UNCHANGED <<inserted, stream, batch>>

\* Faulty variant of RecordFailure: one failure ends the whole batch.
RecordFailureAndStop(p) ==
    \E r \in Row :
        /\ IsNext(p, r)
        /\ Goto(p, "fail", Rest(p))
        /\ batch' = [batch EXCEPT ![p] = {}]
        /\ errors' = errors \cup {r}
        /\ UNCHANGED <<inserted, published, stream, faults>>

\* mark_failed commits, on a row that may have been published all the same.
RecordFailure(p) ==
    \E r \in Row :
        /\ IsNext(p, r)
        /\ Advance(p, r, "fail")
        /\ errors' = errors \cup {r}
        /\ UNCHANGED <<inserted, published, stream, faults>>

\* mark_failed raises: publish_pending ends and the rest of the batch is left.
RecordFailureRaises(p) ==
    /\ Fault
    /\ Goto(p, "fail", Rest(p))
    /\ batch' = [batch EXCEPT ![p] = {}]
    /\ UNCHANGED <<tables, stream>>

\* The process is killed, or its stop event ends the loop; compose starts
\* nothing again.
Die(p) ==
    /\ Fault
    /\ pc[p] # "gone" /\ pc' = [pc EXCEPT ![p] = "gone"]
    /\ batch' = [batch EXCEPT ![p] = {}]
    /\ UNCHANGED <<tables, stream>>

\* The duplicate window of a message ends.
Expire(r) ==
    /\ r \in window /\ expired[r] < MaxExpiries
    /\ window' = window \ {r}
    /\ expired' = [expired EXCEPT ![r] = @ + 1]
    /\ UNCHANGED <<copies, tables, pc, batch, faults>>

Proceed(p) ==
    \/ Fetch(p) \/ Connect(p) \/ Publish(p) \/ PublishRefused(p)
    \/ Mark(p) \/ RecordFailure(p)

GoWrong(p) ==
    \/ ConnectRaises(p) \/ PublishRaises(p) \/ MarkRaises(p)
    \/ RecordFailureRaises(p) \/ Die(p)

Next ==
    \/ \E r \in Row : Insert(r) \/ Expire(r)
    \/ \E p \in Publisher : Proceed(p) \/ GoWrong(p) \/ Skip(p)

\* outbox_loop swallows every error and goes on once per interval.
Fairness == \A p \in Loop : WF_vars(Proceed(p))

Spec == Init /\ [][Next]_vars /\ Fairness

------------------------------------------------------------------------------
(* Properties *)

PublishedIsStored == \A r \in published : copies[r] > 0
StoredIsCommitted == \A r \in Row : copies[r] > 0 => r \in inserted
OneCopyPerWindow == \A r \in Row : copies[r] <= 1 + expired[r]

\* However many publishers race for a row and whatever they lose on the way, it is
\* marked only when the stream holds its message, and the stream announces only what is
\* committed.  Republication reaches consumers only across duplicate windows: a message
\* is stored once, and once more for each time its window has ended.
StreamAgreesWithTable == PublishedIsStored /\ StoredIsCommitted /\ OneCopyPerWindow

\* Once a row is marked and the last publisher that had fetched it is done with it,
\* it stays so: it is never fetched or published again, and its mark is not undone.
AtRest(r) == r \in published /\ \A p \in Publisher : r \notin batch[p]
MarkedRowsRest ==
    [][\A r \in Row : AtRest(r) => AtRest(r)' /\ copies'[r] = copies[r]]_vars

\* Every committed row is marked as published in the end, although older rows
\* are refused for ever (fewer of them than a page holds), publishers race and
\* calls fail, as long as one API process is left.
EveryRowPublished ==
    \A r \in Row \ Refused :
        r \in inserted ~> r \in published \/ \A p \in Loop : pc[p] = "gone"
==============================================================================
