---------------------------- MODULE EventIngest ----------------------------
(***************************************************************************)
(* The telemetry service, src/terrawatch/events.py: concurrent requests     *)
(* POST /v1/events with an Idempotency-Key against the tables               *)
(* telemetry_events and outbox_events.  As in SceneIngest the handler       *)
(* interleaves at its awaits: reading the body, the lookup transaction, the *)
(* insert transaction and the publication of the outbox.                    *)
(*                                                                         *)
(* The payload hash covers the whole event, its id included; everything     *)
(* else about an event is its body.                                         *)
(***************************************************************************)
EXTENDS Naturals, FiniteSets

CONSTANTS
    Request,    \* the requests
    EventId,
    Key,        \* idempotency keys
    Body,       \* the rest of an event
    MaxFaults,  \* bound: how many database calls may fail
    MaxCrashes  \* bound: how many times the service process is killed

ASSUME BoundsAssumption == MaxFaults \in Nat /\ MaxCrashes \in Nat

VARIABLES
    pc,         \* where each request's handler stands
    post,       \* what each request submits
    found,      \* the rows by_id and by_key that the lookup returned
    answer,     \* the HTTP answers given
    events,     \* table telemetry_events
    outbox,     \* table outbox_events: [request, published_at is set]
    faults, crashes

vars == <<pc, post, found, answer, events, outbox, faults, crashes>>
tables == <<events, outbox>>

Row == [event_id: EventId, key: Key, body: Body]
Hash(e) == <<e.event_id, e.body>>

Steps == {"idle", "received", "looked", "persisting", "committed", "failed",
          "answered", "lost"}

TypeOK ==
    /\ pc \in [Request -> Steps]
    /\ post \in [Request -> Row]
    /\ found \in [Request -> [by_id: SUBSET Row, by_key: SUBSET Row]]
    /\ answer \in [Request -> {0, 200, 202, 409, 422, 500}]
    /\ events \subseteq Row
    /\ outbox \subseteq [request: Request, published: BOOLEAN]
    /\ faults \in 0..MaxFaults
    /\ crashes \in 0..MaxCrashes

Init ==
    /\ pc = [r \in Request |-> "idle"]
    /\ post \in [Request -> Row]
    /\ found = [r \in Request |-> [by_id |-> {}, by_key |-> {}]]
    /\ answer = [r \in Request |-> 0]
    /\ events = {} /\ outbox = {}
    /\ faults = 0 /\ crashes = 0

------------------------------------------------------------------------------
Goto(r, from, to) == pc[r] = from /\ pc' = [pc EXCEPT ![r] = to]

Fault == faults < MaxFaults /\ faults' = faults + 1

Finish(r, from, status) ==
    /\ Goto(r, from, "answered")
    /\ answer' = [answer EXCEPT ![r] = status]

\* A missing or malformed key, or an event that does not validate.
RejectInvalid(r) ==
    /\ Finish(r, "idle", 422)
    /\ UNCHANGED <<post, found, tables, faults, crashes>>

Receive(r) ==
    /\ Goto(r, "idle", "received")
    /\ UNCHANGED <<post, found, answer, tables, faults, crashes>>

ById(r) == {e \in events : e.event_id = post[r].event_id}
ByKey(r) == {e \in events : e.key = post[r].key}

\* _existing_events: one transaction reads the rows with this id or key.
Lookup(r) ==
    /\ Goto(r, "received", "looked")
    /\ found' = [found EXCEPT ![r] = [by_id |-> ById(r), by_key |-> ByKey(r)]]
    /\ UNCHANGED <<post, answer, tables, faults, crashes>>

\* The lookup is outside the try block: the framework answers 500.
LookupRaises(r) ==
    /\ Fault
    /\ Finish(r, "received", 500)
    /\ UNCHANGED <<post, found, tables, crashes>>

\* Faulty variant of Exact: the payload hash is not compared.
ExactIgnoringPayload(r) ==
    \E e \in found[r].by_id, f \in found[r].by_key : e.event_id = f.event_id

Exact(r) ==
    \E e \in found[r].by_id, f \in found[r].by_key :
        e.event_id = f.event_id /\ Hash(e) = Hash(post[r])

AnswerReplay(r) ==
    /\ Exact(r)
    /\ Finish(r, "looked", 200)
    /\ UNCHANGED <<post, found, tables, faults, crashes>>

New(r) == found[r].by_id = {} /\ found[r].by_key = {}

\* idempotency-key-conflict or event-id-conflict
AnswerConflict(r) ==
    /\ ~Exact(r) /\ ~New(r)
    /\ Finish(r, "looked", 409)
    /\ UNCHANGED <<post, found, tables, faults, crashes>>

Proceed(r) ==
    /\ New(r)
    /\ Goto(r, "looked", "persisting")
    /\ UNCHANGED <<post, found, answer, tables, faults, crashes>>

\* Faulty variant of Unique: the body is unique as well.
UniqueBody(r) == \A e \in events : ~(e.event_id = post[r].event_id \/ e.key = post[r].key
                                     \/ e.body = post[r].body)

\* The primary key event_id and the unique column idempotency_key.
Unique(r) == ById(r) = {} /\ ByKey(r) = {}

\* Faulty variant of Insert: the key is not stored.
InsertWithoutKey(r) ==
    /\ events' = events \cup {[event_id |-> post[r].event_id, body |-> post[r].body]}
    /\ outbox' = outbox \cup {[request |-> r, published |-> FALSE]}

Insert(r) ==
    /\ events' = events \cup {post[r]}
    /\ outbox' = outbox \cup {[request |-> r, published |-> FALSE]}

\* _persist_event commits the event and its outbox row in one transaction.
Persist(r) ==
    /\ Unique(r)
    /\ Goto(r, "persisting", "committed")
    /\ Insert(r)
    /\ UNCHANGED <<post, found, answer, faults, crashes>>

\* The transaction violates a uniqueness constraint and rolls back.
PersistRefused(r) ==
    /\ ~Unique(r)
    /\ Goto(r, "persisting", "failed")
    /\ UNCHANGED <<post, found, answer, tables, faults, crashes>>

\* The database fails before the commit, or the commit's reply is lost.
PersistRaises(r) ==
    /\ Fault
    /\ Goto(r, "persisting", "failed")
    /\ \/ UNCHANGED tables
       \/ Unique(r) /\ Insert(r)
    /\ UNCHANGED <<post, found, answer, crashes>>

AnswerFailed(r) ==
    /\ Finish(r, "failed", 500)
    /\ UNCHANGED <<post, found, tables, faults, crashes>>

Pending == {o \in outbox : ~o.published}

Publish(rows) ==
    outbox' = {[o EXCEPT !.published = o.published \/ o \in rows] : o \in outbox}

\* publish_pending gets some of the pending rows out; its errors are logged.
AnswerAccepted(r) ==
    /\ \E rows \in SUBSET Pending : Publish(rows)
    /\ Finish(r, "committed", 202)
    /\ UNCHANGED <<post, found, events, faults, crashes>>

\* A round of the background task outbox_loop.
OutboxRound ==
    /\ \E rows \in SUBSET Pending : rows # {} /\ Publish(rows)
    /\ UNCHANGED <<pc, post, found, answer, events, faults, crashes>>

InFlight(r) == pc[r] \notin {"idle", "answered", "lost"}

\* The service process dies and its handlers with it.
Crash ==
    /\ crashes < MaxCrashes
    /\ crashes' = crashes + 1
    /\ \E r \in Request : InFlight(r)
    /\ pc' = [r \in Request |-> IF InFlight(r) THEN "lost" ELSE pc[r]]
    /\ UNCHANGED <<post, found, answer, tables, faults>>

Handle(r) ==
    \/ Lookup(r) \/ LookupRaises(r) \/ AnswerReplay(r) \/ AnswerConflict(r)
    \/ Proceed(r) \/ Persist(r) \/ PersistRefused(r) \/ PersistRaises(r)
    \/ AnswerFailed(r) \/ AnswerAccepted(r)

Next ==
    \/ \E r \in Request : Receive(r) \/ RejectInvalid(r) \/ Handle(r)
    \/ OutboxRound
    \/ Crash

Spec == Init /\ [][Next]_vars

------------------------------------------------------------------------------
(* Properties *)

\* A request that is answered 500 without any failing call lost a race against a
\* request with its id or key.
FailureExplained ==
    \A r \in Request : answer[r] = 500 /\ faults = 0 =>
        \E e \in events : e.event_id = post[r].event_id \/ e.key = post[r].key

Reply(r) ==
    CASE answer[r] = 202 -> "accepted"
      [] answer[r] = 200 -> "replayed"
      [] answer[r] = 409 -> "conflict"
      [] answer[r] \in {422, 500} -> "failed"
      [] OTHER -> "nothing"

Clash(e, f) == e.event_id = f.event_id \/ e.key = f.key
Same(e, f) == e = f

Entered == {o.request : o \in outbox}

R == INSTANCE Register WITH
        Client <- Request, Submission <- Row,
        submitted <- post, entered <- Entered,
        told <- [r \in Request |-> Reply(r)]

\* The service is an idempotent register of events: a lookup that is stale when
\* it is used never shows in an answer or in the tables.
ImplementsRegister == R!RegisterSpec
==============================================================================
