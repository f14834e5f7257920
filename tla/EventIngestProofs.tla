-------------------------- MODULE EventIngestProofs --------------------------
(***************************************************************************)
(* Proofs about the telemetry service, for any number of requests, event    *)
(* ids, keys and bodies and any number of faults and crashes.               *)
(***************************************************************************)
EXTENDS EventIngest, TLAPS

USE BoundsAssumption

\* The primary key and the unique column: two rows share neither id nor key.
OneRowPerIdentity ==
    \A e, f \in events : e.event_id = f.event_id \/ e.key = f.key => e = f

\* Messages and rows come in pairs, committed together.
EveryEventAnnounced ==
    /\ \A e \in events : \E o \in outbox : post[o.request] = e
    /\ \A o \in outbox : post[o.request] \in events

\* A lookup result stays true, because rows are never deleted or changed, and its
\* two halves were read in one transaction.
LookupsStayTrue ==
    \A r \in Request :
        /\ \A e \in found[r].by_id :
              /\ e \in events /\ e.event_id = post[r].event_id
              /\ e.key = post[r].key => e \in found[r].by_key
        /\ \A e \in found[r].by_key :
              /\ e \in events /\ e.key = post[r].key
              /\ e.event_id = post[r].event_id => e \in found[r].by_id

\* A request whose insert is still to come has no message; one past its commit has.
MessagesFollowCommits ==
    \A o \in outbox : pc[o.request] \in {"committed", "failed", "answered", "lost"}

CommitsAreRecorded ==
    \A r \in Request : pc[r] = "committed" => \E o \in outbox : o.request = r

AnswersComeLast ==
    \A r \in Request : pc[r] # "answered" => answer[r] = 0

\* Some row has the id or the key of the request.
Taken(r) == \E e \in events : e.event_id = post[r].event_id \/ e.key = post[r].key

\* FailureExplained, and the same of the handlers that are about to answer 500.
FailuresExplained ==
    \A r \in Request : answer[r] = 500 \/ pc[r] = "failed" => faults > 0 \/ Taken(r)

Inv ==
    /\ TypeOK
    /\ OneRowPerIdentity
    /\ EveryEventAnnounced
    /\ LookupsStayTrue
    /\ MessagesFollowCommits
    /\ CommitsAreRecorded
    /\ AnswersComeLast
    /\ FailuresExplained

\* The service starts with empty tables and no request in progress.
LEMMA InitInv == Init => Inv
BY DEF Init, Inv, TypeOK, OneRowPerIdentity, EveryEventAnnounced, LookupsStayTrue,
       MessagesFollowCommits, CommitsAreRecorded, AnswersComeLast, FailuresExplained, Steps

-----------------------------------------------------------------------------
(* Each step keeps the types. *)

\* Publishing keeps the request of every message.
LEMMA PublishKeepsMessages ==
    ASSUME TypeOK, NEW rows \in SUBSET Pending, Publish(rows)
    PROVE  /\ outbox' \subseteq [request : Request, published : BOOLEAN]
           /\ \A o \in outbox : \E p \in outbox' : p.request = o.request
           /\ \A p \in outbox' : \E o \in outbox : p.request = o.request
<1> DEFINE Marked(o) == [o EXCEPT !.published = o.published \/ o \in rows]
<1>1. outbox' = {Marked(o) : o \in outbox}
  BY DEF Publish
<1>2. ASSUME NEW o \in outbox
      PROVE  Marked(o).request = o.request /\ Marked(o) \in [request : Request, published : BOOLEAN]
  <2>1. o \in [request : Request, published : BOOLEAN]
    BY DEF TypeOK
  <2> QED
    BY <2>1
<1>3. /\ \A o \in outbox : Marked(o) \in outbox'
      /\ \A p \in outbox' : \E o \in outbox : p = Marked(o)
  BY <1>1
<1> HIDE DEF Marked
<1> QED
  BY <1>2, <1>3

\* An insert adds a row and a message of the right form.
LEMMA InsertType ==
    ASSUME TypeOK, NEW r \in Request, Insert(r)
    PROVE  events' \subseteq Row /\ outbox' \subseteq [request : Request, published : BOOLEAN]
<1>1. post[r] \in Row /\ [request |-> r, published |-> FALSE] \in [request : Request, published : BOOLEAN]
  BY DEF TypeOK
<1>2. events \subseteq Row /\ outbox \subseteq [request : Request, published : BOOLEAN]
  BY DEF TypeOK
<1> QED
  BY <1>1, <1>2 DEF Insert

\* No step leaves the types.
LEMMA TypeStep == TypeOK /\ [Next]_vars => TypeOK'
<1> SUFFICES ASSUME TypeOK, [Next]_vars PROVE TypeOK'
  OBVIOUS
<1> USE DEF TypeOK, Goto, Finish, Steps, tables
<1>1. ASSUME NEW r \in Request, RejectInvalid(r) \/ Receive(r) PROVE TypeOK'
  BY <1>1 DEF RejectInvalid, Receive
<1>2. ASSUME NEW r \in Request, Lookup(r) PROVE TypeOK'
  BY <1>2 DEF Lookup, ById, ByKey
<1>3. ASSUME NEW r \in Request, LookupRaises(r) PROVE TypeOK'
  BY <1>3 DEF LookupRaises, Fault
<1>4. ASSUME NEW r \in Request, AnswerReplay(r) \/ AnswerConflict(r) \/ Proceed(r) PROVE TypeOK'
  BY <1>4 DEF AnswerReplay, AnswerConflict, Proceed
<1>5. ASSUME NEW r \in Request, Persist(r) PROVE TypeOK'
  BY <1>5, InsertType DEF Persist
<1>6. ASSUME NEW r \in Request, PersistRefused(r) \/ AnswerFailed(r) PROVE TypeOK'
  <2>1. CASE PersistRefused(r)
    BY <2>1 DEF PersistRefused
  <2>2. CASE AnswerFailed(r)
    BY <2>2 DEF AnswerFailed
  <2> QED
    BY <1>6, <2>1, <2>2
<1>7. ASSUME NEW r \in Request, PersistRaises(r) PROVE TypeOK'
  <2>1. events' \subseteq Row /\ outbox' \subseteq [request : Request, published : BOOLEAN]
    BY <1>7, InsertType DEF PersistRaises
  <2> QED
    BY <1>7, <2>1 DEF PersistRaises, Fault
<1>8. ASSUME NEW r \in Request, AnswerAccepted(r) PROVE TypeOK'
  BY <1>8, PublishKeepsMessages DEF AnswerAccepted
<1>9. CASE OutboxRound
  BY <1>9, PublishKeepsMessages DEF OutboxRound
<1>10. CASE Crash
  BY <1>10 DEF Crash, InFlight
<1>11. CASE UNCHANGED vars
  BY <1>11 DEF vars
<1> QED
  BY <1>1, <1>2, <1>3, <1>4, <1>5, <1>6, <1>7, <1>8, <1>9, <1>10, <1>11 DEF Next, Handle

-----------------------------------------------------------------------------
(* What a step does to the tables. *)

Past == {"committed", "failed", "answered", "lost"}

TablesKept == UNCHANGED <<events, outbox>>
TablesPublished == UNCHANGED events /\ \E rows \in SUBSET Pending : Publish(rows)
TablesInserted(r) == Unique(r) /\ Insert(r) /\ pc[r] = "persisting" /\ pc'[r] \in Past
                     /\ UNCHANGED answer

\* The tables change only by an insert, which the request makes once, answering
\* nothing, and with the uniqueness constraints satisfied, or by marking messages.
LEMMA TableStep ==
    ASSUME TypeOK, [Next]_vars
    PROVE  /\ post' = post
           /\ TablesKept \/ TablesPublished \/ \E r \in Request : TablesInserted(r)
           /\ \A r \in Request : pc[r] \in Past => pc'[r] \in Past
<1> USE DEF TypeOK, TablesKept, Past, Goto, Finish, tables
<1> DEFINE Goal == /\ post' = post
                   /\ TablesKept \/ TablesPublished \/ \E r \in Request : TablesInserted(r)
                   /\ \A r \in Request : pc[r] \in Past => pc'[r] \in Past
<1>1. ASSUME NEW r \in Request, RejectInvalid(r) \/ Receive(r) \/ Lookup(r) PROVE Goal
  BY <1>1 DEF RejectInvalid, Receive, Lookup
<1>2. ASSUME NEW r \in Request, LookupRaises(r) \/ AnswerReplay(r) \/ AnswerConflict(r) PROVE Goal
  BY <1>2 DEF LookupRaises, AnswerReplay, AnswerConflict
<1>3. ASSUME NEW r \in Request, Proceed(r) \/ PersistRefused(r) \/ AnswerFailed(r) PROVE Goal
  BY <1>3 DEF Proceed, PersistRefused, AnswerFailed
<1>4. ASSUME NEW r \in Request, Persist(r) PROVE Goal
  BY <1>4 DEF Persist, TablesInserted
<1>5. ASSUME NEW r \in Request, PersistRaises(r) PROVE Goal
  BY <1>5 DEF PersistRaises, TablesInserted
<1>6. ASSUME NEW r \in Request, AnswerAccepted(r) PROVE Goal
  BY <1>6 DEF AnswerAccepted, TablesPublished
<1>7. ASSUME OutboxRound PROVE Goal
  BY <1>7 DEF OutboxRound, TablesPublished
<1>8. ASSUME Crash PROVE Goal
  BY <1>8 DEF Crash, InFlight
<1>9. ASSUME UNCHANGED vars PROVE Goal
  BY <1>9 DEF vars
<1> HIDE DEF Goal, TypeOK, Goto, Finish
<1>10. Goal
  BY <1>1, <1>2, <1>3, <1>4, <1>5, <1>6, <1>7, <1>8, <1>9 DEF Next, Handle
<1> QED
  BY <1>10 DEF Goal

\* The tables keep their invariants, and no row is ever deleted.
LEMMA TablesInv ==
    ASSUME Inv, [Next]_vars, TypeOK'
    PROVE  /\ OneRowPerIdentity' /\ EveryEventAnnounced' /\ MessagesFollowCommits'
           /\ events \subseteq events'
           /\ \A o \in outbox : \E p \in outbox' : p.request = o.request
<1> USE DEF Inv
<1> DEFINE Goal == /\ OneRowPerIdentity' /\ EveryEventAnnounced' /\ MessagesFollowCommits'
                   /\ events \subseteq events'
                   /\ \A o \in outbox : \E p \in outbox' : p.request = o.request
<1>1. post' = post /\ \A r \in Request : pc[r] \in Past => pc'[r] \in Past
  BY TableStep
<1>2. ASSUME TablesKept PROVE Goal
  BY <1>1, <1>2 DEF TablesKept, OneRowPerIdentity, EveryEventAnnounced, MessagesFollowCommits,
     Past, TypeOK
<1>3. ASSUME TablesPublished PROVE Goal
  <2> PICK rows \in SUBSET Pending : Publish(rows)
    BY <1>3 DEF TablesPublished
  <2>1. events' = events
    BY <1>3 DEF TablesPublished
  <2>2. /\ \A o \in outbox : \E p \in outbox' : p.request = o.request
        /\ \A p \in outbox' : \E o \in outbox : p.request = o.request
    BY PublishKeepsMessages
  <2>3. OneRowPerIdentity'
    BY <2>1 DEF OneRowPerIdentity
  <2>4. MessagesFollowCommits'
    BY <1>1, <2>2 DEF MessagesFollowCommits, Past, TypeOK
  <2>5. EveryEventAnnounced'
    BY <1>1, <2>1, <2>2 DEF EveryEventAnnounced
  <2> QED
    BY <2>1, <2>2, <2>3, <2>4, <2>5
<1>4. ASSUME NEW r \in Request, TablesInserted(r) PROVE Goal
  <2> DEFINE new == [request |-> r, published |-> FALSE]
  <2>1. /\ events' = events \cup {post[r]} /\ outbox' = outbox \cup {new}
        /\ ById(r) = {} /\ ByKey(r) = {}
        /\ pc'[r] \in Past /\ new.request = r
    BY <1>4 DEF TablesInserted, Insert, Unique
  <2> HIDE DEF new
  <2>2. OneRowPerIdentity'
    BY <2>1 DEF OneRowPerIdentity, ById, ByKey
  <2>3. MessagesFollowCommits'
    BY <1>1, <2>1 DEF MessagesFollowCommits, Past, TypeOK
  <2>4. \A e \in events' : \E o \in outbox' : post[o.request] = e
    BY <2>1 DEF EveryEventAnnounced
  <2>5. \A o \in outbox' : post[o.request] \in events'
    BY <2>1 DEF EveryEventAnnounced
  <2>6. EveryEventAnnounced'
    BY <1>1, <2>4, <2>5 DEF EveryEventAnnounced
  <2> QED
    BY <2>1, <2>2, <2>3, <2>6
<1> HIDE DEF Goal
<1>5. Goal
  BY <1>2, <1>3, <1>4, TableStep
<1> QED
  BY <1>5 DEF Goal

-----------------------------------------------------------------------------
(* What a step does to the handlers. *)

Told(r, status) == answer' = [answer EXCEPT ![r] = status]

\* A handler answers once and on what it has seen; it looks up and commits only what
\* is so at that moment; and it is about to fail only after a call failed, or
\* because its id or its key was taken.
LEMMA HandlerStep ==
    ASSUME Inv, [Next]_vars
    PROVE  /\ AnswersComeLast'
           /\ faults' >= faults
           /\ \A q \in Request : pc'[q] = "committed" => pc[q] = "committed" \/ TablesInserted(q)
           /\ \A q \in Request : pc'[q] = "failed" => pc[q] = "failed" \/ faults' > 0 \/ ~Unique(q)
           /\ \A q \in Request : found'[q] = found[q]
                                 \/ found'[q] = [by_id |-> ById(q), by_key |-> ByKey(q)]
           /\ \/ UNCHANGED answer
              \/ \E r \in Request : /\ pc[r] # "answered"
                                    /\ \/ Told(r, 422)
                                       \/ Told(r, 500) /\ (faults' > 0 \/ pc[r] = "failed")
                                       \/ Told(r, 200) /\ Exact(r)
                                       \/ Told(r, 409) /\ ~Exact(r) /\ ~New(r)
                                       \/ Told(r, 202) /\ pc[r] = "committed"
<1> USE DEF Inv, TypeOK, Goto, Finish, AnswersComeLast, Past
<1> DEFINE
      Moving == /\ AnswersComeLast'
                /\ faults' >= faults
                /\ \A q \in Request :
                     pc'[q] = "committed" => pc[q] = "committed" \/ TablesInserted(q)
                /\ \A q \in Request :
                     pc'[q] = "failed" => pc[q] = "failed" \/ faults' > 0 \/ ~Unique(q)
      Looking == \A q \in Request : \/ found'[q] = found[q]
                                    \/ found'[q] = [by_id |-> ById(q), by_key |-> ByKey(q)]
      Answering(r) == \/ Told(r, 422)
                      \/ Told(r, 500) /\ (faults' > 0 \/ pc[r] = "failed")
                      \/ Told(r, 200) /\ Exact(r)
                      \/ Told(r, 409) /\ ~Exact(r) /\ ~New(r)
                      \/ Told(r, 202) /\ pc[r] = "committed"
      Telling == \/ UNCHANGED answer
                 \/ \E r \in Request : pc[r] # "answered" /\ Answering(r)
      Goal == Moving /\ Looking /\ Telling
<1>0. ASSUME NEW r \in Request, Receive(r) PROVE Goal
  BY <1>0 DEF Receive
<1>1. ASSUME NEW r \in Request, RejectInvalid(r) PROVE Goal
  <2>1. Moving /\ Looking
    BY <1>1 DEF RejectInvalid
  <2>2. pc[r] # "answered" /\ Answering(r)
    BY <1>1 DEF RejectInvalid, Told
  <2> HIDE DEF Answering
  <2> QED
    BY <2>1, <2>2
<1>2. ASSUME NEW r \in Request, Lookup(r) PROVE Goal
  BY <1>2 DEF Lookup
<1>3. ASSUME NEW r \in Request, LookupRaises(r) PROVE Goal
  <2>1. Moving /\ Looking
    BY <1>3 DEF LookupRaises, Fault
  <2>2. pc[r] # "answered" /\ Answering(r)
    BY <1>3 DEF LookupRaises, Fault, Told
  <2> HIDE DEF Answering
  <2> QED
    BY <2>1, <2>2
<1>4. ASSUME NEW r \in Request, AnswerReplay(r) PROVE Goal
  <2>1. Moving /\ Looking
    BY <1>4 DEF AnswerReplay
  <2>2. pc[r] # "answered" /\ Answering(r)
    BY <1>4 DEF AnswerReplay, Told
  <2> HIDE DEF Answering
  <2> QED
    BY <2>1, <2>2
<1>5. ASSUME NEW r \in Request, AnswerConflict(r) PROVE Goal
  <2>1. Moving /\ Looking
    BY <1>5 DEF AnswerConflict
  <2>2. pc[r] # "answered" /\ Answering(r)
    BY <1>5 DEF AnswerConflict, Told
  <2> HIDE DEF Answering
  <2> QED
    BY <2>1, <2>2
<1>6. ASSUME NEW r \in Request, Proceed(r) PROVE Goal
  BY <1>6 DEF Proceed
<1>7. ASSUME NEW r \in Request, Persist(r) PROVE Goal
  BY <1>7 DEF Persist, TablesInserted
<1>8. ASSUME NEW r \in Request, PersistRefused(r) PROVE Goal
  BY <1>8 DEF PersistRefused
<1>9. ASSUME NEW r \in Request, PersistRaises(r) PROVE Goal
  BY <1>9 DEF PersistRaises, Fault
<1>10. ASSUME NEW r \in Request, AnswerFailed(r) PROVE Goal
  <2>1. Moving /\ Looking
    BY <1>10 DEF AnswerFailed
  <2>2. pc[r] # "answered" /\ Answering(r)
    BY <1>10 DEF AnswerFailed, Told
  <2> HIDE DEF Answering
  <2> QED
    BY <2>1, <2>2
<1>11. ASSUME NEW r \in Request, AnswerAccepted(r) PROVE Goal
  <2>1. Moving /\ Looking
    BY <1>11 DEF AnswerAccepted
  <2>2. pc[r] # "answered" /\ Answering(r)
    BY <1>11 DEF AnswerAccepted, Told
  <2> HIDE DEF Answering
  <2> QED
    BY <2>1, <2>2
<1>12. ASSUME OutboxRound PROVE Goal
  BY <1>12 DEF OutboxRound
<1>13. ASSUME Crash PROVE Goal
  BY <1>13 DEF Crash, InFlight
<1>14. ASSUME UNCHANGED vars PROVE Goal
  BY <1>14 DEF vars
<1> HIDE DEF Goal, Inv, TypeOK, Goto, Finish, AnswersComeLast, Past
<1>15. Goal
  BY <1>0, <1>1, <1>2, <1>3, <1>4, <1>5, <1>6, <1>7, <1>8, <1>9, <1>10, <1>11, <1>12, <1>13,
     <1>14 DEF Next, Handle
<1> QED
  BY <1>15 DEF Goal

\* What a handler relies on and what explains its failure stay true.
LEMMA HandlersInv ==
    ASSUME Inv, [Next]_vars, TypeOK'
    PROVE  LookupsStayTrue' /\ CommitsAreRecorded' /\ FailuresExplained'
<1> USE DEF Inv
<1>1. /\ post' = post /\ events \subseteq events'
      /\ \A o \in outbox : \E p \in outbox' : p.request = o.request
  BY TableStep, TablesInv
<1>2. LookupsStayTrue'
  <2> SUFFICES ASSUME NEW r \in Request
               PROVE  /\ \A e \in found'[r].by_id :
                            /\ e \in events' /\ e.event_id = post[r].event_id
                            /\ e.key = post[r].key => e \in found'[r].by_key
                      /\ \A e \in found'[r].by_key :
                            /\ e \in events' /\ e.key = post[r].key
                            /\ e.event_id = post[r].event_id => e \in found'[r].by_id
    BY <1>1 DEF LookupsStayTrue
  <2>1. CASE found'[r] = found[r]
    BY <1>1, <2>1 DEF LookupsStayTrue
  <2>2. CASE found'[r] = [by_id |-> ById(r), by_key |-> ByKey(r)]
    BY <1>1, <2>2 DEF ById, ByKey
  <2> QED
    BY <2>1, <2>2, HandlerStep
<1>3. CommitsAreRecorded'
  <2> SUFFICES ASSUME NEW r \in Request, pc'[r] = "committed"
               PROVE  \E o \in outbox' : o.request = r
    BY DEF CommitsAreRecorded
  <2>1. CASE pc[r] = "committed"
    BY <1>1, <2>1 DEF CommitsAreRecorded
  <2>2. CASE TablesInserted(r)
    <3>1. [request |-> r, published |-> FALSE] \in outbox'
      BY <2>2 DEF TablesInserted, Insert
    <3> QED
      BY <3>1
  <2> QED
    BY <2>1, <2>2, HandlerStep
<1>4. FailuresExplained'
  <2>1. faults \in Nat /\ faults' \in Nat /\ faults' >= faults
    BY HandlerStep DEF TypeOK
  <2>2. ASSUME NEW r \in Request, ~Unique(r) PROVE Taken(r)
    BY <2>2 DEF Unique, ById, ByKey, Taken
  <2>3. ASSUME NEW r \in Request, Taken(r) PROVE Taken(r)'
    BY <1>1, <2>3 DEF Taken
  <2> DEFINE Excused(r) == faults' > 0 \/ Taken(r)
  <2>4. ASSUME NEW r \in Request, pc'[r] = "failed" PROVE Excused(r)
    BY <2>1, <2>2, <2>4, HandlerStep DEF FailuresExplained
  <2>5. ASSUME NEW r \in Request, answer'[r] = 500, answer[r] = 500 PROVE Excused(r)
    BY <2>1, <2>5 DEF FailuresExplained
  <2>6. ASSUME NEW r \in Request, answer'[r] = 500, answer[r] # 500
        PROVE  faults' > 0 \/ pc[r] = "failed"
    BY <2>6, HandlerStep DEF Told, TypeOK
  <2>7. ASSUME NEW r \in Request, pc[r] = "failed" PROVE Excused(r)
    BY <2>1, <2>7 DEF FailuresExplained
  <2>8. ASSUME NEW r \in Request, answer'[r] = 500 \/ pc'[r] = "failed" PROVE Excused(r)
    BY <2>4, <2>5, <2>6, <2>7, <2>8
  <2>9. ASSUME NEW r \in Request, answer'[r] = 500 \/ pc'[r] = "failed"
        PROVE  faults' > 0 \/ Taken(r)'
    BY <2>3, <2>8, <2>9
  <2> QED
    BY <2>9 DEF FailuresExplained
<1> QED
  BY <1>2, <1>3, <1>4

\* The inductive invariant of the telemetry service.
THEOREM Invariance == Spec => []Inv
<1>1. Init => Inv
  BY InitInv
<1>2. Inv /\ [Next]_vars => Inv'
  <2> SUFFICES ASSUME Inv, [Next]_vars PROVE Inv'
    OBVIOUS
  <2>1. TypeOK'
    BY TypeStep DEF Inv
  <2> QED
    BY <2>1, TablesInv, HandlersInv, HandlerStep DEF Inv
<1> QED
  BY <1>1, <1>2, PTL DEF Spec

\* The state of the service keeps its types.
THEOREM TypeCorrect == Spec => []TypeOK
<1>1. Inv => TypeOK
  BY DEF Inv
<1> QED
  BY <1>1, Invariance, PTL

\* The error path of _persist_event: for any number of racing requests, a client
\* that is answered 500 although no call failed lost to a row with its id or key.
THEOREM FailuresAreExplained == Spec => []FailureExplained
<1>1. Inv => FailureExplained
  BY DEF Inv, FailuresExplained, FailureExplained, TypeOK, Taken
<1> QED
  BY <1>1, Invariance, PTL

-----------------------------------------------------------------------------
(* The service implements the register. *)

Heard == [r \in Request |-> Reply(r)]

\* Before the first request the register is empty and nobody was told anything.
LEMMA RegisterInitial == Init => R!RegisterInit
BY DEF Init, R!RegisterInit, Reply, Entered

\* An insert enters exactly its own request.
LEMMA EnteredStep ==
    ASSUME TypeOK, [Next]_vars
    PROVE  \/ Entered' = Entered
           \/ \E r \in Request : TablesInserted(r) /\ Entered' = Entered \cup {r}
<1>1. CASE TablesKept
  BY <1>1 DEF TablesKept, Entered
<1>2. CASE TablesPublished
  BY <1>2, PublishKeepsMessages DEF TablesPublished, Entered
<1>3. ASSUME NEW r \in Request, TablesInserted(r)
      PROVE  Entered' = Entered \cup {r}
  <2> DEFINE new == [request |-> r, published |-> FALSE]
  <2>1. outbox' = outbox \cup {new} /\ new.request = r
    BY <1>3 DEF TablesInserted, Insert
  <2> HIDE DEF new
  <2> QED
    BY <2>1 DEF Entered
<1> QED
  BY <1>1, <1>2, <1>3, TableStep

\* Each row belongs to a request that is entered, and each entered request has its row.
LEMMA EnteredRows ==
    ASSUME Inv
    PROVE  /\ \A q \in Entered : q \in Request /\ post[q] \in events
           /\ \A e \in events : \E q \in Entered : post[q] = e
BY DEF Inv, TypeOK, EveryEventAnnounced, Entered

\* What one answer changes in what the clients have heard.
LEMMA HeardStep ==
    ASSUME TypeOK, NEW r \in Request, NEW status, Told(r, status)
    PROVE  /\ status = 202 => Heard' = [Heard EXCEPT ![r] = "accepted"]
           /\ status = 200 => Heard' = [Heard EXCEPT ![r] = "replayed"]
           /\ status = 409 => Heard' = [Heard EXCEPT ![r] = "conflict"]
           /\ status \in {422, 500} => Heard' = [Heard EXCEPT ![r] = "failed"]
<1>1. answer'[r] = status /\ \A q \in Request : q # r => answer'[q] = answer[q]
  BY DEF TypeOK, Told
<1>2. /\ status = 202 => Heard'[r] = "accepted"
      /\ status = 200 => Heard'[r] = "replayed"
      /\ status = 409 => Heard'[r] = "conflict"
      /\ status \in {422, 500} => Heard'[r] = "failed"
  BY <1>1 DEF Reply, Heard
<1>3. ASSUME NEW q \in Request, q # r PROVE Heard'[q] = Heard[q]
  BY <1>1, <1>3 DEF Reply, Heard
<1>4. Heard \in [Request -> {Heard[q] : q \in Request}] /\ Heard' = [q \in Request |-> Heard'[q]]
  BY DEF Heard
<1> HIDE DEF Heard
<1> QED
  BY <1>2, <1>3, <1>4

\* A request has been told nothing until its handler has ended.
LEMMA NotHeard ==
    ASSUME AnswersComeLast, NEW r \in Request, pc[r] # "answered"
    PROVE  Heard[r] = "nothing"
BY DEF AnswersComeLast, Heard, Reply

\* What the lookup found decides the reply as the register would.
LEMMA LookupDecides ==
    ASSUME Inv, NEW r \in Request
    PROVE  /\ Exact(r) => \E q \in Entered : Same(post[r], post[q])
           /\ ~Exact(r) /\ ~New(r) =>
                \E q \in Entered : Clash(post[r], post[q]) /\ ~Same(post[r], post[q])
<1> USE DEF Inv
<1>1. ASSUME NEW e \in found[r].by_id, NEW f \in found[r].by_key,
             e.event_id = f.event_id, Hash(e) = Hash(post[r])
      PROVE  e \in events /\ e = post[r]
  <2>1. e \in events /\ f \in events /\ e = f
    BY <1>1 DEF LookupsStayTrue, OneRowPerIdentity
  <2>2. e \in Row /\ post[r] \in Row
    BY <2>1 DEF TypeOK
  <2>3. e.event_id = post[r].event_id /\ e.body = post[r].body /\ e.key = post[r].key
    BY <1>1, <2>1 DEF Hash, LookupsStayTrue
  <2> QED
    BY <2>1, <2>2, <2>3 DEF Row
<1>2. Exact(r) => \E q \in Entered : Same(post[r], post[q])
  BY <1>1, EnteredRows DEF Exact, Same
<1>3. ASSUME ~Exact(r), NEW e \in found[r].by_id \cup found[r].by_key
      PROVE  e \in events /\ Clash(post[r], e) /\ e # post[r]
  <2>1. e \in events /\ Clash(post[r], e)
    BY <1>3 DEF LookupsStayTrue, Clash
  <2>2. ASSUME e = post[r] PROVE FALSE
    <3>1. e \in found[r].by_id /\ e \in found[r].by_key
      BY <1>3, <2>2 DEF LookupsStayTrue
    <3> QED
      BY <1>3, <2>2, <3>1 DEF Exact
  <2> QED
    BY <2>1, <2>2
<1>4. ASSUME ~Exact(r), ~New(r)
      PROVE  \E q \in Entered : Clash(post[r], post[q]) /\ ~Same(post[r], post[q])
  <2> PICK e \in found[r].by_id \cup found[r].by_key : TRUE
    BY <1>4 DEF New, TypeOK
  <2> QED
    BY <1>3, <1>4, EnteredRows DEF Same
<1> QED
  BY <1>2, <1>4

\* Each step of the service enters the register, answers one client, or is invisible.
LEMMA RegisterStep == Inv /\ [Next]_vars => [R!RegisterNext]_(R!registerVars)
<1> SUFFICES ASSUME Inv, [Next]_vars PROVE [R!RegisterNext]_(R!registerVars)
  OBVIOUS
<1>1. post' = post
  BY TableStep DEF Inv
<1>2. ASSUME NEW r \in Request, TablesInserted(r), Entered' = Entered \cup {r}
      PROVE  R!Enter(r)
  <2>1. Heard' = Heard
    BY <1>2 DEF TablesInserted, Heard, Reply
  <2>2. Heard[r] = "nothing"
    BY <1>2, NotHeard DEF TablesInserted, Inv
  <2>3. r \notin Entered
    BY <1>2 DEF Inv, MessagesFollowCommits, TablesInserted, Entered
  <2>4. \A q \in Entered : ~Clash(post[r], post[q])
    BY <1>2, EnteredRows DEF TablesInserted, Unique, ById, ByKey, Clash
  <2> QED
    BY <1>1, <1>2, <2>1, <2>2, <2>3, <2>4 DEF R!Enter, Heard
<1>3. ASSUME UNCHANGED answer PROVE [R!RegisterNext]_(R!registerVars)
  <2>1. Heard' = Heard
    BY <1>3 DEF Heard, Reply
  <2>2. CASE Entered' = Entered
    BY <1>1, <2>1, <2>2 DEF R!registerVars, Heard
  <2>3. ASSUME NEW r \in Request, TablesInserted(r), Entered' = Entered \cup {r}
        PROVE  R!RegisterNext
    BY <1>2, <2>3 DEF R!RegisterNext
  <2> QED
    BY <2>2, <2>3, EnteredStep DEF Inv
<1>4. ASSUME ~UNCHANGED answer PROVE R!RegisterNext
  <2>1. Entered' = Entered
    BY <1>4, EnteredStep DEF TablesInserted, Inv
  <2>2. ASSUME NEW r \in Request, pc[r] # "answered" PROVE Heard[r] = "nothing"
    BY <2>2, NotHeard DEF Inv
  <2>3. ASSUME NEW r \in Request, pc[r] # "answered",
               \/ Told(r, 422)
               \/ Told(r, 500) /\ (faults' > 0 \/ pc[r] = "failed")
               \/ Told(r, 200) /\ Exact(r)
               \/ Told(r, 409) /\ ~Exact(r) /\ ~New(r)
               \/ Told(r, 202) /\ pc[r] = "committed"
        PROVE  R!RegisterNext
    <3>1. CASE Told(r, 422) \/ Told(r, 500)
      <4>1. Heard' = [Heard EXCEPT ![r] = "failed"]
        BY <3>1, HeardStep DEF Inv
      <4>2. R!Fail(r)
        BY <1>1, <2>1, <2>2, <2>3, <4>1 DEF R!Fail, R!Tell, Heard
      <4> QED
        BY <4>2 DEF R!RegisterNext
    <3>2. CASE Told(r, 200) /\ Exact(r)
      <4>1. Heard' = [Heard EXCEPT ![r] = "replayed"]
        BY <3>2, HeardStep DEF Inv
      <4>2. R!Replay(r)
        BY <1>1, <2>1, <2>2, <2>3, <3>2, <4>1, LookupDecides DEF R!Replay, R!Tell, Heard
      <4> QED
        BY <4>2 DEF R!RegisterNext
    <3>3. CASE Told(r, 409) /\ ~Exact(r) /\ ~New(r)
      <4>1. Heard' = [Heard EXCEPT ![r] = "conflict"]
        BY <3>3, HeardStep DEF Inv
      <4>2. R!Refuse(r)
        BY <1>1, <2>1, <2>2, <2>3, <3>3, <4>1, LookupDecides DEF R!Refuse, R!Tell, Heard
      <4> QED
        BY <4>2 DEF R!RegisterNext
    <3>4. CASE Told(r, 202) /\ pc[r] = "committed"
      <4>1. Heard' = [Heard EXCEPT ![r] = "accepted"]
        BY <3>4, HeardStep DEF Inv
      <4>2. r \in Entered
        BY <3>4 DEF Inv, CommitsAreRecorded, Entered
      <4>3. R!Accept(r)
        BY <1>1, <2>1, <2>2, <2>3, <3>4, <4>1, <4>2 DEF R!Accept, R!Tell, Heard
      <4> QED
        BY <4>3 DEF R!RegisterNext
    <3> QED
      BY <2>3, <3>1, <3>2, <3>3, <3>4
  <2>4. \E r \in Request : /\ pc[r] # "answered"
                           /\ \/ Told(r, 422)
                              \/ Told(r, 500) /\ (faults' > 0 \/ pc[r] = "failed")
                              \/ Told(r, 200) /\ Exact(r)
                              \/ Told(r, 409) /\ ~Exact(r) /\ ~New(r)
                              \/ Told(r, 202) /\ pc[r] = "committed"
    BY <1>4, HandlerStep
  <2> QED
    BY <2>3, <2>4
<1> QED
  BY <1>3, <1>4

\* The idempotency contract of POST /v1/events, for any number of concurrent requests,
\* faults and crashes: each key and each id is used at most once, a repetition of the
\* same event is replayed, and other events with its key or id are refused.
THEOREM EventsImplementRegister == Spec => ImplementsRegister
<1>1. Init => R!RegisterInit
  BY RegisterInitial
<1>2. Inv /\ [Next]_vars => [R!RegisterNext]_(R!registerVars)
  BY RegisterStep
<1> QED
  BY <1>1, <1>2, Invariance, PTL DEF Spec, ImplementsRegister, R!RegisterSpec
==============================================================================
