------------------------- MODULE SceneIngestProofs -------------------------
(***************************************************************************)
(* Proofs about the scene upload service, for any number of requests, ids   *)
(* and contents and any number of faults and crashes.                       *)
(***************************************************************************)
EXTENDS SceneIngest, TLAPS

USE AdmitsAssumption, BoundsAssumption

\* What the handlers rely on between their awaits.  A lookup result stays true
\* because rows are never deleted; a request whose insert is still to come has
\* no message yet; a handler past its commit has both its row and its message.
LookupsStayTrue ==
    \A r \in Request :
        /\ \A s \in found[r].by_id : s \in scenes /\ s.scene_id = upload[r].scene_id
        /\ \A s \in found[r].by_digest : s \in scenes /\ s.sha256 = upload[r].sha256

MessagesFollowCommits ==
    \A o \in outbox : pc[o.request] \in {"committed", "failed", "answered", "lost"}

CommitsAreRecorded ==
    \A r \in Request : pc[r] = "committed" =>
        upload[r] \in scenes /\ \E o \in outbox : o.request = r

Inv ==
    /\ TypeOK
    /\ OneRowPerIdentity
    /\ EverySceneAnnouncedOnce
    /\ LookupsStayTrue
    /\ MessagesFollowCommits
    /\ CommitsAreRecorded
    /\ AnswersAreTruthful

\* The service starts with empty tables and no request in progress.
LEMMA InitInv == Init => Inv
BY DEF Init, Inv, TypeOK, OneRowPerIdentity, EverySceneAnnouncedOnce, LookupsStayTrue,
       MessagesFollowCommits, CommitsAreRecorded, AnswersAreTruthful, Row, Steps, NoAnswer

\* Each step keeps the types.
LEMMA TypeStep == TypeOK /\ [Next]_vars => TypeOK'
<1> SUFFICES ASSUME TypeOK, [Next]_vars PROVE TypeOK'
  OBVIOUS
<1> USE DEF TypeOK
<1>1. ASSUME NEW r \in Request, RejectUpload(r) PROVE TypeOK'
  BY <1>1 DEF RejectUpload, Finish, Goto, Steps, Plain
<1>2. ASSUME NEW r \in Request, Stage(r) PROVE TypeOK'
  BY <1>2 DEF Stage, Goto, Steps
<1>3. ASSUME NEW r \in Request, RejectContent(r) PROVE TypeOK'
  BY <1>3 DEF RejectContent, Finish, Goto, Steps, Plain
<1>4. ASSUME NEW r \in Request, Lookup(r) PROVE TypeOK'
  BY <1>4 DEF Lookup, Goto, Steps, ById, ByDigest
<1>5. ASSUME NEW r \in Request, LookupFails(r) PROVE TypeOK'
  BY <1>5 DEF LookupFails, Fault, Finish, Goto, Steps, Plain
<1>6. ASSUME NEW r \in Request, AnswerConflict(r) PROVE TypeOK'
  BY <1>6 DEF AnswerConflict, Finish, Goto, Steps, Plain
<1>7. ASSUME NEW r \in Request, AnswerReplay(r) PROVE TypeOK'
  BY <1>7 DEF AnswerReplay, Existing, Finish, Goto, Steps, Described
<1>8. ASSUME NEW r \in Request, RejectTags(r) PROVE TypeOK'
  BY <1>8 DEF RejectTags, Finish, Goto, Steps, Plain
<1>9. ASSUME NEW r \in Request, PutObject(r) PROVE TypeOK'
  BY <1>9 DEF PutObject, Goto, Steps, Row
<1>10. ASSUME NEW r \in Request, PutObjectFails(r) PROVE TypeOK'
  BY <1>10 DEF PutObjectFails, Fault, Finish, Goto, Steps, Plain, Row
<1>20. ASSUME NEW r \in Request, Insert(r)
       PROVE scenes' \subseteq Row /\ outbox' \subseteq [request : Request, published : BOOLEAN]
  <2>1. upload[r] \in Row
    OBVIOUS
  <2>2. [request |-> r, published |-> FALSE] \in [request : Request, published : BOOLEAN]
    OBVIOUS
  <2> QED
    BY <1>20, <2>1, <2>2 DEF Insert
<1>11. ASSUME NEW r \in Request, Persist(r) PROVE TypeOK'
  BY <1>11, <1>20 DEF Persist, Goto, Steps
<1>12. ASSUME NEW r \in Request, PersistRefused(r) PROVE TypeOK'
  BY <1>12 DEF PersistRefused, Goto, Steps
<1>13. ASSUME NEW r \in Request, PersistFails(r) PROVE TypeOK'
  <2>1. scenes' \subseteq Row /\ outbox' \subseteq [request : Request, published : BOOLEAN]
    BY <1>13, <1>20 DEF PersistFails
  <2> QED
    BY <1>13, <2>1 DEF PersistFails, Fault, Goto, Steps
<1>14. ASSUME NEW r \in Request, Cleanup(r) PROVE TypeOK'
  BY <1>14 DEF Cleanup, Fault, Finish, Goto, Steps, Plain
<1>15. ASSUME NEW rows \in SUBSET Pending, Publish(rows)
       PROVE outbox' \subseteq [request : Request, published : BOOLEAN]
  <2> SUFFICES ASSUME NEW m \in outbox'
               PROVE m \in [request : Request, published : BOOLEAN]
    OBVIOUS
  <2>1. PICK o \in outbox : m = [o EXCEPT !.published = o.published \/ o \in rows]
    BY <1>15 DEF Publish
  <2>2. o \in [request : Request, published : BOOLEAN]
    OBVIOUS
  <2> QED
    BY <2>1, <2>2
<1>16. ASSUME NEW r \in Request, AnswerAccepted(r) PROVE TypeOK'
  BY <1>15, <1>16 DEF AnswerAccepted, Finish, Goto, Steps, Described
<1>17. CASE OutboxRound
  BY <1>15, <1>17 DEF OutboxRound
<1>18. CASE Crash
  BY <1>18 DEF Crash, InFlight, Steps
<1>19. CASE UNCHANGED vars
  BY <1>19 DEF vars
<1> QED
  BY <1>1, <1>2, <1>3, <1>4, <1>5, <1>6, <1>7, <1>8, <1>9, <1>10, <1>11, <1>12,
     <1>13, <1>14, <1>16, <1>17, <1>18, <1>19 DEF Next, Handle

-----------------------------------------------------------------------------
(* What a step does to the tables. *)

Past == {"committed", "failed", "answered", "lost"}

TablesKept == UNCHANGED <<scenes, outbox>>
TablesPublished == UNCHANGED scenes /\ \E rows \in SUBSET Pending : Publish(rows)
TablesInserted(r) == Unique(r) /\ Insert(r) /\ pc[r] = "persisting" /\ pc'[r] \in Past

\* The tables change only by an insert, which the request makes once and with
\* the uniqueness constraints satisfied, or by marking messages as published;
\* and a handler that has passed its insert never returns to it.
LEMMA TableStep ==
    ASSUME TypeOK, [Next]_vars
    PROVE  /\ upload' = upload
           /\ TablesKept \/ TablesPublished \/ \E r \in Request : TablesInserted(r)
           /\ \A r \in Request : pc[r] \in Past => pc'[r] \in Past
<1> USE DEF TypeOK, TablesKept, Past, Goto, Finish
<1> DEFINE Goal == /\ upload' = upload
                   /\ TablesKept \/ TablesPublished \/ \E r \in Request : TablesInserted(r)
                   /\ \A r \in Request : pc[r] \in Past => pc'[r] \in Past
<1>1. ASSUME NEW r \in Request, RejectUpload(r) \/ Stage(r) PROVE Goal
  BY <1>1 DEF RejectUpload, Stage
<1>2. ASSUME NEW r \in Request, RejectContent(r) \/ Lookup(r) \/ LookupFails(r) PROVE Goal
  BY <1>2 DEF RejectContent, Lookup, LookupFails
<1>3. ASSUME NEW r \in Request, AnswerConflict(r) \/ RejectTags(r) PROVE Goal
  BY <1>3 DEF AnswerConflict, RejectTags
<1>4. ASSUME NEW r \in Request, AnswerReplay(r) PROVE Goal
  BY <1>4 DEF AnswerReplay
<1>5. ASSUME NEW r \in Request, PutObject(r) \/ PutObjectFails(r) PROVE Goal
  BY <1>5 DEF PutObject, PutObjectFails
<1>6. ASSUME NEW r \in Request, Persist(r) PROVE Goal
  BY <1>6 DEF Persist, TablesInserted
<1>7. ASSUME NEW r \in Request, PersistRefused(r) \/ Cleanup(r) PROVE Goal
  BY <1>7 DEF PersistRefused, Cleanup
<1>8. ASSUME NEW r \in Request, PersistFails(r) PROVE Goal
  BY <1>8 DEF PersistFails, TablesInserted
<1>9. ASSUME NEW r \in Request, AnswerAccepted(r) PROVE Goal
  BY <1>9 DEF AnswerAccepted, TablesPublished
<1>10. CASE OutboxRound
  BY <1>10 DEF OutboxRound, TablesPublished
<1>11. CASE Crash
  BY <1>11 DEF Crash, InFlight
<1>12. CASE UNCHANGED vars
  BY <1>12 DEF vars
<1> QED
  BY <1>1, <1>2, <1>3, <1>4, <1>5, <1>6, <1>7, <1>8, <1>9, <1>10, <1>11, <1>12
     DEF Next, Handle

\* Publishing keeps the request of every message and merges no two messages.
LEMMA PublishKeepsMessages ==
    ASSUME TypeOK, NEW rows \in SUBSET Pending, Publish(rows)
    PROVE  /\ \A o \in outbox : \E p \in outbox' : p.request = o.request
           /\ \A p \in outbox' : \E o \in outbox :
                  /\ p.request = o.request
                  /\ p = [o EXCEPT !.published = o.published \/ o \in rows]
<1> DEFINE Marked(o) == [o EXCEPT !.published = o.published \/ o \in rows]
<1>1. outbox' = {Marked(o) : o \in outbox}
  BY DEF Publish
<1>2. ASSUME NEW o \in outbox PROVE Marked(o).request = o.request
  BY DEF TypeOK
<1>3. \A o \in outbox : Marked(o) \in outbox'
  BY <1>1
<1>4. \A p \in outbox' : \E o \in outbox : p = Marked(o)
  BY <1>1
<1> HIDE DEF Marked
<1>5. \A o \in outbox : \E p \in outbox' : p.request = o.request
  BY <1>2, <1>3
<1>6. \A p \in outbox' : \E o \in outbox : p.request = o.request /\ p = Marked(o)
  BY <1>2, <1>4
<1> QED
  BY <1>5, <1>6 DEF Marked

\* The tables keep their two invariants.
LEMMA TablesInv ==
    ASSUME Inv, [Next]_vars, TypeOK'
    PROVE  OneRowPerIdentity' /\ EverySceneAnnouncedOnce' /\ MessagesFollowCommits'
<1> USE DEF Inv
<1>1. /\ upload' = upload
      /\ \A r \in Request : pc[r] \in Past => pc'[r] \in Past
  BY TableStep
<1>2. CASE TablesKept
  BY <1>1, <1>2 DEF TablesKept, OneRowPerIdentity, EverySceneAnnouncedOnce,
     MessagesFollowCommits, Past, TypeOK
<1>3. CASE TablesPublished
  <2> PICK rows \in SUBSET Pending : Publish(rows)
    BY <1>3 DEF TablesPublished
  <2>1. scenes' = scenes
    BY <1>3 DEF TablesPublished
  <2>2. /\ \A o \in outbox : \E p \in outbox' : p.request = o.request
        /\ \A p \in outbox' : \E o \in outbox :
               /\ p.request = o.request
               /\ p = [o EXCEPT !.published = o.published \/ o \in rows]
    BY PublishKeepsMessages
  <2>3. OneRowPerIdentity'
    BY <2>1 DEF OneRowPerIdentity
  <2>4. MessagesFollowCommits'
    BY <1>1, <2>2 DEF MessagesFollowCommits, Past, TypeOK
  <2>5. ASSUME NEW s \in scenes
        PROVE  \E p \in outbox' : /\ upload[p.request] = s
                                  /\ \A q \in outbox' : upload[q.request] = s => q = p
    BY <2>2 DEF EverySceneAnnouncedOnce
  <2>6. \A p \in outbox' : upload[p.request] \in scenes
    BY <2>2 DEF EverySceneAnnouncedOnce
  <2> QED
    BY <1>1, <2>1, <2>3, <2>4, <2>5, <2>6 DEF EverySceneAnnouncedOnce
<1>4. ASSUME NEW r \in Request, TablesInserted(r)
      PROVE  OneRowPerIdentity' /\ EverySceneAnnouncedOnce' /\ MessagesFollowCommits'
  <2> DEFINE new == [request |-> r, published |-> FALSE]
  <2>1. /\ scenes' = scenes \cup {upload[r]} /\ outbox' = outbox \cup {new}
        /\ ById(r) = {} /\ ByDigest(r) = {}
        /\ pc[r] = "persisting" /\ pc'[r] \in Past
    BY <1>4 DEF TablesInserted, Insert, Unique
  <2>2. OneRowPerIdentity'
    BY <2>1 DEF OneRowPerIdentity, ById, ByDigest
  <2>3. \A o \in outbox : o.request # r
    BY <2>1 DEF MessagesFollowCommits
  <2>4. MessagesFollowCommits'
    BY <1>1, <2>1 DEF MessagesFollowCommits, Past, TypeOK
  <2>5. upload[r] \notin scenes
    BY <2>1 DEF ById
  <2>6. \A o \in outbox : upload[o.request] \in scenes
    BY DEF EverySceneAnnouncedOnce
  <2>7. ASSUME NEW s \in scenes
        PROVE  \E p \in outbox' : /\ upload[p.request] = s
                                  /\ \A q \in outbox' : upload[q.request] = s => q = p
    BY <2>1, <2>5 DEF EverySceneAnnouncedOnce
  <2>8. \A q \in outbox' : upload[q.request] = upload[r] => q = new
    BY <2>1, <2>5, <2>6
  <2>9. new \in outbox' /\ upload[new.request] = upload[r]
    BY <2>1
  <2>10. ASSUME NEW s \in scenes'
         PROVE  \E p \in outbox' : /\ upload[p.request] = s
                                   /\ \A q \in outbox' : upload[q.request] = s => q = p
    <3>1. CASE s \in scenes
      BY <2>7, <3>1
    <3>2. CASE s = upload[r]
      BY <2>8, <2>9, <3>2
    <3> QED
      BY <2>1, <3>1, <3>2
  <2>11. \A o \in outbox' : upload[o.request] \in scenes'
    BY <2>1, <2>6
  <2>12. EverySceneAnnouncedOnce'
    BY <1>1, <2>10, <2>11 DEF EverySceneAnnouncedOnce
  <2> QED
    BY <2>2, <2>4, <2>12
<1> QED
  BY <1>2, <1>3, <1>4, TableStep

\* Rows are never deleted and messages never withdrawn.
LEMMA TablesGrow ==
    ASSUME TypeOK, [Next]_vars
    PROVE  scenes \subseteq scenes' /\ \A o \in outbox : \E p \in outbox' : p.request = o.request
<1>1. CASE TablesKept
  BY <1>1 DEF TablesKept
<1>2. CASE TablesPublished
  BY <1>2, PublishKeepsMessages DEF TablesPublished
<1>3. ASSUME NEW r \in Request, TablesInserted(r)
      PROVE  scenes \subseteq scenes' /\ \A o \in outbox : \E p \in outbox' : p.request = o.request
  BY <1>3 DEF TablesInserted, Insert
<1> QED
  BY <1>1, <1>2, <1>3, TableStep

Untold == UNCHANGED answer
Told(r, response) == answer' = [answer EXCEPT ![r] = response]

\* A handler only answers 200, 202 or 409 on what it has seen, and looks up and
\* commits only what is so at that moment.
LEMMA HandlerStep ==
    ASSUME Inv, [Next]_vars
    PROVE  /\ \A q \in Request : pc'[q] = "committed" => pc[q] = "committed" \/ TablesInserted(q)
           /\ \A q \in Request : found'[q] = found[q]
                                 \/ found'[q] = [by_id |-> ById(q), by_digest |-> ByDigest(q)]
           /\ \/ Untold
              \/ \E r \in Request :
                   \/ \E c \in {413, 415, 422, 500} : Told(r, [status |-> c])
                   \/ Conflicting(r) /\ Told(r, [status |-> 409])
                   \/ /\ ~Conflicting(r)
                      /\ \E s \in Existing(r) : Told(r, [status |-> 200, row |-> s])
                   \/ /\ pc[r] = "committed"
                      /\ Told(r, [status |-> 202, row |-> upload[r]])
<1> USE DEF Inv, TypeOK, Past, Goto, Finish
<1> DEFINE
      Committing == \A q \in Request :
          pc'[q] = "committed" => pc[q] = "committed" \/ TablesInserted(q)
      Looking == \A q \in Request :
          \/ found'[q] = found[q]
          \/ found'[q] = [by_id |-> ById(q), by_digest |-> ByDigest(q)]
      Telling == \/ Untold
                 \/ \E r \in Request :
                      \/ \E c \in {413, 415, 422, 500} : Told(r, [status |-> c])
                      \/ Conflicting(r) /\ Told(r, [status |-> 409])
                      \/ /\ ~Conflicting(r)
                         /\ \E s \in Existing(r) : Told(r, [status |-> 200, row |-> s])
                      \/ /\ pc[r] = "committed"
                         /\ Told(r, [status |-> 202, row |-> upload[r]])
      Goal == Committing /\ Looking /\ Telling
<1>1. ASSUME NEW r \in Request, RejectUpload(r) \/ Stage(r) PROVE Goal
  BY <1>1 DEF RejectUpload, Stage, Untold, Told
<1>2. ASSUME NEW r \in Request, RejectContent(r) \/ LookupFails(r) PROVE Goal
  BY <1>2 DEF RejectContent, LookupFails, Untold, Told
<1>3. ASSUME NEW r \in Request, Lookup(r) PROVE Goal
  BY <1>3 DEF Lookup, Untold, Told
<1>4. ASSUME NEW r \in Request, AnswerConflict(r) \/ RejectTags(r) PROVE Goal
  BY <1>4 DEF AnswerConflict, RejectTags, Untold, Told
<1>5. ASSUME NEW r \in Request, AnswerReplay(r) PROVE Goal
  <2> PICK s \in Existing(r) : Finish(r, "looked", [status |-> 200, row |-> s])
    BY <1>5 DEF AnswerReplay
  <2>1. Committing /\ Looking
    BY <1>5 DEF AnswerReplay
  <2>2. Told(r, [status |-> 200, row |-> s]) /\ ~Conflicting(r)
    BY <1>5 DEF AnswerReplay, Told
  <2> QED
    BY <2>1, <2>2
<1>6. ASSUME NEW r \in Request, PutObject(r) \/ PutObjectFails(r) PROVE Goal
  BY <1>6 DEF PutObject, PutObjectFails, Untold, Told
<1>7. ASSUME NEW r \in Request, Persist(r) PROVE Goal
  BY <1>7 DEF Persist, TablesInserted, Untold, Told
<1>8. ASSUME NEW r \in Request, PersistRefused(r) \/ PersistFails(r) PROVE Goal
  BY <1>8 DEF PersistRefused, PersistFails, Untold, Told
<1>9. ASSUME NEW r \in Request, Cleanup(r) PROVE Goal
  <2>1. Committing /\ Looking
    BY <1>9 DEF Cleanup
  <2>2. Told(r, [status |-> 500])
    BY <1>9 DEF Cleanup, Told
  <2> QED
    BY <2>1, <2>2
<1>10. ASSUME NEW r \in Request, AnswerAccepted(r) PROVE Goal
  <2>1. Committing /\ Looking
    BY <1>10 DEF AnswerAccepted
  <2>2. pc[r] = "committed" /\ Told(r, [status |-> 202, row |-> upload[r]])
    BY <1>10 DEF AnswerAccepted, Told
  <2> QED
    BY <2>1, <2>2
<1>11. ASSUME OutboxRound PROVE Goal
  BY <1>11 DEF OutboxRound, Untold, Told
<1>12. ASSUME Crash PROVE Goal
  BY <1>12 DEF Crash, InFlight, Untold, Told
<1>13. ASSUME UNCHANGED vars PROVE Goal
  BY <1>13 DEF vars, Untold, Told
<1> HIDE DEF Goal, Inv, TypeOK, Past, Goto, Finish
<1>14. ASSUME NEW r \in Request, Handle(r) PROVE Goal
  BY <1>2, <1>3, <1>4, <1>5, <1>6, <1>7, <1>8, <1>9, <1>10, <1>14 DEF Handle
<1>15. ASSUME NEW r \in Request, Stage(r) \/ RejectUpload(r) \/ Handle(r) PROVE Goal
  BY <1>1, <1>14, <1>15
<1>16. ASSUME Next PROVE Goal
  BY <1>11, <1>12, <1>15, <1>16 DEF Next
<1>17. Goal
  BY <1>13, <1>16
<1> QED
  BY <1>17 DEF Goal

\* What a handler relies on, and what its client was told, stay true.
LEMMA HandlersInv ==
    ASSUME Inv, [Next]_vars, TypeOK'
    PROVE  LookupsStayTrue' /\ CommitsAreRecorded' /\ AnswersAreTruthful'
<1> USE DEF Inv
<1>1. upload' = upload
  BY TableStep
<1>2. scenes \subseteq scenes' /\ \A o \in outbox : \E p \in outbox' : p.request = o.request
  BY TablesGrow
<1>3. LookupsStayTrue'
  <2> SUFFICES ASSUME NEW r \in Request
               PROVE  /\ \A s \in found'[r].by_id : s \in scenes' /\ s.scene_id = upload[r].scene_id
                      /\ \A s \in found'[r].by_digest : s \in scenes' /\ s.sha256 = upload[r].sha256
    BY <1>1 DEF LookupsStayTrue
  <2>1. CASE found'[r] = found[r]
    BY <1>2, <2>1 DEF LookupsStayTrue
  <2>2. CASE found'[r] = [by_id |-> ById(r), by_digest |-> ByDigest(r)]
    BY <1>2, <2>2 DEF ById, ByDigest
  <2> QED
    BY <2>1, <2>2, HandlerStep
<1>4. CommitsAreRecorded'
  <2> SUFFICES ASSUME NEW r \in Request, pc'[r] = "committed"
               PROVE  upload[r] \in scenes' /\ \E o \in outbox' : o.request = r
    BY <1>1 DEF CommitsAreRecorded
  <2>1. CASE pc[r] = "committed"
    BY <1>2, <2>1 DEF CommitsAreRecorded
  <2>2. CASE TablesInserted(r)
    <3>1. upload[r] \in scenes' /\ [request |-> r, published |-> FALSE] \in outbox'
      BY <2>2 DEF TablesInserted, Insert
    <3> QED
      BY <3>1
  <2>3. pc[r] = "committed" \/ TablesInserted(r)
    BY HandlerStep
  <2> QED
    BY <2>1, <2>2, <2>3
<1>5. AnswersAreTruthful'
  <2> DEFINE Truthful(q, given, rows, messages) ==
        /\ given.status = 202 => /\ given.row = upload[q] /\ upload[q] \in rows
                                 /\ \E o \in messages : o.request = q
        /\ given.status = 200 => given.row \in rows /\ given.row.sha256 = upload[q].sha256
        /\ given.status = 409 => \E s \in rows : /\ s.scene_id = upload[q].scene_id
                                                 /\ s.sha256 # upload[q].sha256
  <2>1. \A q \in Request : Truthful(q, answer[q], scenes', outbox')
    BY <1>2 DEF AnswersAreTruthful
  <2>2. ASSUME NEW r \in Request, NEW c \in {413, 415, 422, 500}, Told(r, [status |-> c])
        PROVE  Truthful(r, answer'[r], scenes', outbox')
    BY <2>2 DEF Told, TypeOK
  <2>3. ASSUME NEW r \in Request, Conflicting(r), Told(r, [status |-> 409])
        PROVE  Truthful(r, answer'[r], scenes', outbox')
    <3>1. \E s \in scenes' : s.scene_id = upload[r].scene_id /\ s.sha256 # upload[r].sha256
      BY <1>2, <2>3 DEF Conflicting, LookupsStayTrue
    <3> QED
      BY <2>3, <3>1 DEF Told, TypeOK
  <2>4. ASSUME NEW r \in Request, ~Conflicting(r), NEW s \in Existing(r),
               Told(r, [status |-> 200, row |-> s])
        PROVE  Truthful(r, answer'[r], scenes', outbox')
    <3>1. s \in scenes' /\ s.sha256 = upload[r].sha256
      BY <1>2, <2>4 DEF Conflicting, Existing, LookupsStayTrue
    <3> QED
      BY <2>4, <3>1 DEF Told, TypeOK
  <2>5. ASSUME NEW r \in Request, pc[r] = "committed", Told(r, [status |-> 202, row |-> upload[r]])
        PROVE  Truthful(r, answer'[r], scenes', outbox')
    <3>1. upload[r] \in scenes' /\ \E o \in outbox' : o.request = r
      BY <1>2, <2>5 DEF CommitsAreRecorded
    <3> QED
      BY <2>5, <3>1 DEF Told, TypeOK
  <2>6. ASSUME NEW r \in Request, NEW given, Told(r, given),
               Truthful(r, answer'[r], scenes', outbox')
        PROVE  \A q \in Request : Truthful(q, answer'[q], scenes', outbox')
    <3> HIDE DEF Truthful
    <3> QED
      BY <2>1, <2>6 DEF Told, TypeOK
  <2>7. \A q \in Request : Truthful(q, answer'[q], scenes', outbox')
    <3> HIDE DEF Truthful
    <3>1. CASE Untold
      BY <2>1, <3>1 DEF Untold
    <3>2. ASSUME NEW r \in Request,
                 \E c \in {413, 415, 422, 500} : Told(r, [status |-> c])
          PROVE  \A q \in Request : Truthful(q, answer'[q], scenes', outbox')
      BY <2>2, <2>6, <3>2
    <3>3. ASSUME NEW r \in Request, Conflicting(r) /\ Told(r, [status |-> 409])
          PROVE  \A q \in Request : Truthful(q, answer'[q], scenes', outbox')
      BY <2>3, <2>6, <3>3
    <3>4. ASSUME NEW r \in Request,
                 ~Conflicting(r) /\ \E s \in Existing(r) : Told(r, [status |-> 200, row |-> s])
          PROVE  \A q \in Request : Truthful(q, answer'[q], scenes', outbox')
      BY <2>4, <2>6, <3>4
    <3>5. ASSUME NEW r \in Request,
                 pc[r] = "committed" /\ Told(r, [status |-> 202, row |-> upload[r]])
          PROVE  \A q \in Request : Truthful(q, answer'[q], scenes', outbox')
      BY <2>5, <2>6, <3>5
    <3>6. CASE \E r \in Request :
                 \/ \E c \in {413, 415, 422, 500} : Told(r, [status |-> c])
                 \/ Conflicting(r) /\ Told(r, [status |-> 409])
                 \/ /\ ~Conflicting(r)
                    /\ \E s \in Existing(r) : Told(r, [status |-> 200, row |-> s])
                 \/ /\ pc[r] = "committed"
                    /\ Told(r, [status |-> 202, row |-> upload[r]])
      <4> PICK r \in Request :
                 \/ \E c \in {413, 415, 422, 500} : Told(r, [status |-> c])
                 \/ Conflicting(r) /\ Told(r, [status |-> 409])
                 \/ /\ ~Conflicting(r)
                    /\ \E s \in Existing(r) : Told(r, [status |-> 200, row |-> s])
                 \/ /\ pc[r] = "committed"
                    /\ Told(r, [status |-> 202, row |-> upload[r]])
        BY <3>6
      <4> QED
        BY <3>2, <3>3, <3>4, <3>5
    <3> QED
      BY <3>1, <3>6, HandlerStep
  <2> QED
    BY <1>1, <2>7 DEF AnswersAreTruthful
<1> QED
  BY <1>3, <1>4, <1>5

\* The inductive invariant: what a handler saw before an await is still true
\* when it acts on it, for any number of concurrent handlers.
THEOREM Invariance == Spec => []Inv
<1>1. Init => Inv
  BY InitInv
<1>2. Inv /\ [Next]_vars => Inv'
  <2> SUFFICES ASSUME Inv, [Next]_vars PROVE Inv'
    OBVIOUS
  <2>1. TypeOK'
    BY TypeStep DEF Inv
  <2> QED
    BY <2>1, TablesInv, HandlersInv DEF Inv
<1> QED
  BY <1>1, <1>2, PTL DEF Spec

\* The state of the service keeps its types.
THEOREM TypeCorrect == Spec => []TypeOK
<1>1. Inv => TypeOK
  BY DEF Inv
<1> QED
  BY <1>1, Invariance, PTL

\* ING-006 and ING-007 hold for any number of racing uploads: an id names one
\* content and a content has one id.
THEOREM IdentityIsUnique == Spec => []OneRowPerIdentity
<1>1. Inv => OneRowPerIdentity
  BY DEF Inv
<1> QED
  BY <1>1, Invariance, PTL

\* The transactional outbox of _persist_scene: a committed scene always has
\* exactly one message, and no message announces an uncommitted one.
THEOREM OutboxIsAtomic == Spec => []EverySceneAnnouncedOnce
<1>1. Inv => EverySceneAnnouncedOnce
  BY DEF Inv
<1> QED
  BY <1>1, Invariance, PTL

\* The answers 200, 202 and 409 of ingest_scene stay true of the database.
THEOREM AnswersStayTrue == Spec => []AnswersAreTruthful
<1>1. Inv => AnswersAreTruthful
  BY DEF Inv
<1> QED
  BY <1>1, Invariance, PTL
-----------------------------------------------------------------------------
(* What is left in the object store and on the disk. *)

\* A handler that goes past its put had put the object, and has given no answer.
PutsPrecedeRows ==
    /\ \A r \in Request : pc[r] \in {"persisting", "committed", "failed"} => r \in created
    /\ \A o \in outbox : o.request \in created

AnswersComeLast ==
    \A r \in Request : pc[r] # "answered" => answer[r] = NoAnswer

\* An object that was put is there until a request that had put the same content
\* cleans up after its failed persist.
PutsExplained ==
    \A r \in created : \/ upload[r].sha256 \in objects
                       \/ \E q \in created : /\ upload[q].sha256 = upload[r].sha256
                                             /\ answer[q].status = 500

LeftoversInv ==
    /\ PutsPrecedeRows
    /\ AnswersComeLast
    /\ PutsExplained
    /\ OrphanObjectExplained
    /\ StagedFilesReleased

\* Nothing is stored or staged before the first upload.
LEMMA LeftoversInit == Init => LeftoversInv
BY DEF Init, LeftoversInv, PutsPrecedeRows, AnswersComeLast, PutsExplained,
       OrphanObjectExplained, StagedFilesReleased

\* An answer is given once, by the step that ends the handler; objects are put and
\* removed, and files staged and unlinked, only by the handler of their content.
LEMMA LeftoversStep ==
    ASSUME Inv, LeftoversInv, [Next]_vars
    PROVE  AnswersComeLast' /\ StagedFilesReleased' /\ PutsPrecedeRows' /\ created \subseteq created'
<1> USE DEF Inv, TypeOK, LeftoversInv
<1>1. upload' = upload
  BY TableStep
<1> DEFINE Goal == /\ AnswersComeLast' /\ StagedFilesReleased'
                   /\ \A r \in Request :
                        pc'[r] \in {"persisting", "committed", "failed"} => r \in created'
                   /\ created \subseteq created'
<1> USE DEF Goto, Finish, InFlight, AnswersComeLast, StagedFilesReleased, PutsPrecedeRows
<1>2. ASSUME NEW r \in Request, RejectUpload(r) \/ Stage(r) PROVE Goal
  BY <1>2 DEF RejectUpload, Stage
<1>3. ASSUME NEW r \in Request, RejectContent(r) \/ Lookup(r) \/ LookupFails(r) PROVE Goal
  BY <1>3 DEF RejectContent, Lookup, LookupFails
<1>4. ASSUME NEW r \in Request, AnswerConflict(r) \/ AnswerReplay(r) \/ RejectTags(r) PROVE Goal
  BY <1>4 DEF AnswerConflict, AnswerReplay, RejectTags
<1>5. ASSUME NEW r \in Request, PutObject(r) \/ PutObjectFails(r) PROVE Goal
  BY <1>5 DEF PutObject, PutObjectFails
<1>6. ASSUME NEW r \in Request, Persist(r) \/ PersistRefused(r) \/ PersistFails(r) PROVE Goal
  BY <1>6 DEF Persist, PersistRefused, PersistFails
<1>7. ASSUME NEW r \in Request, Cleanup(r) \/ AnswerAccepted(r) PROVE Goal
  BY <1>7 DEF Cleanup, AnswerAccepted
<1>8. ASSUME OutboxRound PROVE Goal
  <2>1. UNCHANGED <<pc, staged, created, answer>>
    BY <1>8 DEF OutboxRound
  <2> QED
    BY <2>1
<1>9. ASSUME Crash PROVE Goal
  BY <1>9 DEF Crash
<1>10. ASSUME UNCHANGED vars PROVE Goal
  BY <1>10 DEF vars
<1>11. Goal
  <2> HIDE DEF Goal, Inv, TypeOK, LeftoversInv, Goto, Finish, InFlight
  <2> QED
    BY <1>2, <1>3, <1>4, <1>5, <1>6, <1>7, <1>8, <1>9, <1>10 DEF Next, Handle
<1>12. \A o \in outbox' : o.request \in created'
  <2>1. created \subseteq created'
    BY <1>11
  <2>2. CASE TablesKept
    BY <2>1, <2>2 DEF TablesKept
  <2>3. CASE TablesPublished
    BY <2>1, <2>3, PublishKeepsMessages DEF TablesPublished
  <2>4. ASSUME NEW r \in Request, TablesInserted(r)
        PROVE  \A o \in outbox' : o.request \in created'
    <3>1. r \in created /\ outbox' = outbox \cup {[request |-> r, published |-> FALSE]}
      BY <2>4 DEF TablesInserted, Insert
    <3> QED
      BY <2>1, <3>1
  <2> QED
    BY <2>2, <2>3, <2>4, TableStep
<1> QED
  BY <1>11, <1>12

\* The bucket changes only by a put, which may take effect and still raise, and by
\* the cleanup of a failed persist, which may fail too.
LEMMA ObjectsStep ==
    ASSUME Inv, LeftoversInv, [Next]_vars
    PROVE  /\ faults' >= faults
           /\ \A r \in Request : answer[r] # NoAnswer => answer'[r] = answer[r]
           /\ \A r \in created' : r \in created \/ upload[r].sha256 \in objects'
           /\ \/ objects' = objects
              \/ \E r \in Request :
                   /\ objects' = objects \cup {upload[r].sha256}
                   /\ \/ pc'[r] = "persisting"
                      \/ answer'[r].status = 500 /\ faults' > 0
              \/ \E r \in created :
                   objects' = objects \ {upload[r].sha256} /\ answer'[r].status = 500
<1> USE DEF Inv, TypeOK, LeftoversInv, AnswersComeLast, PutsPrecedeRows, Goto, Finish
<1> DEFINE
      Past3 == /\ faults' >= faults
               /\ \A r \in Request : answer[r] # NoAnswer => answer'[r] = answer[r]
               /\ \A r \in created' : r \in created \/ upload[r].sha256 \in objects'
      Stored == \E r \in Request :
                   /\ objects' = objects \cup {upload[r].sha256}
                   /\ \/ pc'[r] = "persisting"
                      \/ answer'[r].status = 500 /\ faults' > 0
      Removed == \E r \in created :
                   objects' = objects \ {upload[r].sha256} /\ answer'[r].status = 500
      Goal == Past3 /\ (objects' = objects \/ Stored \/ Removed)
<1>1. ASSUME NEW r \in Request, RejectUpload(r) \/ Stage(r) PROVE Goal
  BY <1>1 DEF RejectUpload, Stage
<1>2. ASSUME NEW r \in Request, RejectContent(r) \/ Lookup(r) PROVE Goal
  BY <1>2 DEF RejectContent, Lookup
<1>3. ASSUME NEW r \in Request, LookupFails(r) PROVE Goal
  BY <1>3 DEF LookupFails, Fault
<1>4. ASSUME NEW r \in Request, AnswerConflict(r) \/ AnswerReplay(r) \/ RejectTags(r) PROVE Goal
  BY <1>4 DEF AnswerConflict, AnswerReplay, RejectTags
<1>5. ASSUME NEW r \in Request, PutObject(r) PROVE Goal
  <2>1. objects' = objects \cup {upload[r].sha256} /\ pc'[r] = "persisting"
    BY <1>5 DEF PutObject
  <2>2. Stored
    BY <2>1
  <2>3. Past3
    BY <1>5 DEF PutObject
  <2> QED
    BY <2>2, <2>3
<1>6. ASSUME NEW r \in Request, PutObjectFails(r) PROVE Goal
  BY <1>6 DEF PutObjectFails, Fault
<1>7. ASSUME NEW r \in Request, Persist(r) \/ PersistRefused(r) PROVE Goal
  BY <1>7 DEF Persist, PersistRefused
<1>8. ASSUME NEW r \in Request, PersistFails(r) PROVE Goal
  BY <1>8 DEF PersistFails, Fault
<1>9. ASSUME NEW r \in Request, Cleanup(r) PROVE Goal
  <2>1. r \in created /\ answer'[r].status = 500 /\ Past3
    BY <1>9 DEF Cleanup, Fault
  <2> QED
    BY <1>9, <2>1 DEF Cleanup
<1>10. ASSUME NEW r \in Request, AnswerAccepted(r) PROVE Goal
  BY <1>10 DEF AnswerAccepted
<1>11. ASSUME OutboxRound PROVE Goal
  BY <1>11 DEF OutboxRound
<1>12. ASSUME Crash PROVE Goal
  BY <1>12 DEF Crash
<1>13. ASSUME UNCHANGED vars PROVE Goal
  BY <1>13 DEF vars
<1> HIDE DEF Goal, Inv, TypeOK, LeftoversInv, AnswersComeLast, PutsPrecedeRows, Goto, Finish
<1>14. Goal
  BY <1>1, <1>2, <1>3, <1>4, <1>5, <1>6, <1>7, <1>8, <1>9, <1>10, <1>11, <1>12, <1>13
     DEF Next, Handle
<1> QED
  BY <1>14 DEF Goal

\* A handler that has put its object leaves its place only by registering the
\* scene, by being lost, or by answering for the object.
LEMMA UploaderStep ==
    ASSUME Inv, LeftoversInv, [Next]_vars,
           NEW r \in Request, pc[r] \in {"persisting", "failed", "lost"}
    PROVE  \/ pc'[r] \in {"persisting", "failed", "lost"}
           \/ upload[r] \in scenes'
           \/ upload[r].sha256 \notin objects'
           \/ answer'[r].status = 500 /\ faults' > 0
<1> USE DEF Inv, TypeOK, LeftoversInv, PutsPrecedeRows, Goto, Finish
<1> DEFINE Goal == \/ pc'[r] \in {"persisting", "failed", "lost"}
                   \/ upload[r] \in scenes'
                   \/ upload[r].sha256 \notin objects'
                   \/ answer'[r].status = 500 /\ faults' > 0
<1>1. ASSUME NEW q \in Request, RejectUpload(q) \/ Stage(q) PROVE Goal
  BY <1>1 DEF RejectUpload, Stage
<1>2. ASSUME NEW q \in Request, RejectContent(q) \/ Lookup(q) \/ LookupFails(q) PROVE Goal
  BY <1>2 DEF RejectContent, Lookup, LookupFails
<1>3. ASSUME NEW q \in Request, AnswerConflict(q) \/ AnswerReplay(q) \/ RejectTags(q) PROVE Goal
  BY <1>3 DEF AnswerConflict, AnswerReplay, RejectTags
<1>4. ASSUME NEW q \in Request, PutObject(q) \/ PutObjectFails(q) PROVE Goal
  BY <1>4 DEF PutObject, PutObjectFails
<1>5. ASSUME NEW q \in Request, Persist(q) PROVE Goal
  BY <1>5 DEF Persist, Insert
<1>6. ASSUME NEW q \in Request, PersistRefused(q) \/ PersistFails(q) PROVE Goal
  BY <1>6 DEF PersistRefused, PersistFails
<1>7. ASSUME NEW q \in Request, Cleanup(q) PROVE Goal
  BY <1>7 DEF Cleanup, Fault
<1>8. ASSUME NEW q \in Request, AnswerAccepted(q) PROVE Goal
  BY <1>8 DEF AnswerAccepted
<1>9. ASSUME OutboxRound PROVE Goal
  BY <1>9 DEF OutboxRound
<1>10. ASSUME Crash PROVE Goal
  BY <1>10 DEF Crash, InFlight
<1>11. ASSUME UNCHANGED vars PROVE Goal
  BY <1>11 DEF vars
<1> HIDE DEF Goal, Inv, TypeOK, LeftoversInv, PutsPrecedeRows, Goto, Finish
<1>12. Goal
  BY <1>1, <1>2, <1>3, <1>4, <1>5, <1>6, <1>7, <1>8, <1>9, <1>10, <1>11 DEF Next, Handle
<1> QED
  BY <1>12 DEF Goal

\* Whatever a cleanup removes it answers for, and whatever a put leaves behind
\* belongs to a handler in progress, a lost one or a failed call.
LEMMA ObjectsInv ==
    ASSUME Inv, LeftoversInv, [Next]_vars, TypeOK'
    PROVE  PutsExplained' /\ OrphanObjectExplained'
<1> USE DEF Inv, TypeOK, LeftoversInv
<1>1. upload' = upload /\ scenes \subseteq scenes' /\ created \subseteq created'
  BY TableStep, TablesGrow, LeftoversStep
<1>2. PutsExplained'
  <2> DEFINE Cleaned(d) == \E q \in created' : upload[q].sha256 = d /\ answer'[q].status = 500
  <2>1. ASSUME NEW r \in created PROVE upload[r].sha256 \in objects \/ Cleaned(upload[r].sha256)
    BY <1>1, ObjectsStep DEF PutsExplained, NoAnswer
  <2>2. ASSUME NEW r \in created' PROVE upload[r].sha256 \in objects' \/ Cleaned(upload[r].sha256)
    <3>1. CASE r \notin created
      BY <3>1, ObjectsStep
    <3>2. CASE r \in created /\ objects \subseteq objects'
      BY <2>1, <3>2
    <3>3. ASSUME NEW q \in created,
                 objects' = objects \ {upload[q].sha256}, answer'[q].status = 500, r \in created
          PROVE  upload[r].sha256 \in objects' \/ Cleaned(upload[r].sha256)
      BY <1>1, <2>1, <3>3
    <3> QED
      BY <3>1, <3>2, <3>3, ObjectsStep
  <2> QED
    BY <1>1, <2>2 DEF PutsExplained
<1>3. OrphanObjectExplained'
  <2> SUFFICES ASSUME NEW d \in objects', \A s \in scenes' : s.sha256 # d
               PROVE  \E r \in Request :
                        /\ upload[r].sha256 = d
                        /\ \/ pc'[r] \in {"persisting", "failed", "lost"}
                           \/ answer'[r].status = 500 /\ faults' > 0
    BY <1>1 DEF OrphanObjectExplained
  <2>1. CASE d \notin objects
    BY <2>1, ObjectsStep
  <2>2. CASE d \in objects
    <3>1. PICK r \in Request :
             /\ upload[r].sha256 = d
             /\ \/ pc[r] \in {"persisting", "failed", "lost"}
                \/ answer[r].status = 500 /\ faults > 0
      BY <1>1, <2>2 DEF OrphanObjectExplained
    <3>2. CASE answer[r].status = 500 /\ faults > 0
      BY <3>1, <3>2, ObjectsStep DEF NoAnswer
    <3>3. CASE pc[r] \in {"persisting", "failed", "lost"}
      BY <1>1, <2>2, <3>1, <3>3, UploaderStep
    <3> QED
      BY <3>1, <3>2, <3>3
  <2> QED
    BY <2>1, <2>2
<1> QED
  BY <1>2, <1>3

\* The strengthened invariant is inductive.
THEOREM LeftoversInvariance == Spec => []LeftoversInv
<1>1. Init => LeftoversInv
  BY LeftoversInit
<1>2. Inv /\ Inv' /\ LeftoversInv /\ [Next]_vars => LeftoversInv'
  BY LeftoversStep, ObjectsInv DEF Inv, LeftoversInv
<1> QED
  BY <1>1, <1>2, Invariance, PTL DEF Spec

\* Whatever mixture of failing calls, kills and races of uploads: the object of a
\* registered scene is missing only when a request that put the same content was
\* answered 500, an object without a row is in use or belongs to a crash or a
\* failed call, and no answered request keeps a temporary file.
THEOREM LeftoversAreExplained == Spec => []LeftoversExplained
<1>1. Inv /\ LeftoversInv => LeftoversExplained
  <2> SUFFICES ASSUME Inv, LeftoversInv PROVE MissingObjectExplained
    BY DEF LeftoversExplained, LeftoversInv
  <2> SUFFICES ASSUME NEW s \in scenes, s.sha256 \notin objects
               PROVE  \E r \in created : upload[r].sha256 = s.sha256 /\ answer[r].status = 500
    BY DEF MissingObjectExplained
  <2> PICK o \in outbox : upload[o.request] = s
    BY DEF Inv, EverySceneAnnouncedOnce
  <2>1. o.request \in created
    BY DEF LeftoversInv, PutsPrecedeRows
  <2> QED
    BY <2>1 DEF LeftoversInv, PutsExplained
<1> QED
  BY <1>1, Invariance, LeftoversInvariance, PTL

-----------------------------------------------------------------------------
(* The service implements the register. *)

Heard == [r \in Request |-> Reply(r)]

\* Before the first upload the register is empty and nobody was told anything.
LEMMA RegisterInitial == Init => R!RegisterInit
BY DEF Init, R!RegisterInit, Reply, NoAnswer, Entered

\* An insert enters exactly its own request.
LEMMA EnteredStep ==
    ASSUME TypeOK, [Next]_vars
    PROVE  Entered' = Entered \/ \E r \in Request : TablesInserted(r) /\ Entered' = Entered \cup {r}
<1>1. CASE TablesKept
  BY <1>1 DEF TablesKept, Entered
<1>2. CASE TablesPublished
  BY <1>2, PublishKeepsMessages DEF TablesPublished, Entered
<1>3. ASSUME NEW r \in Request, TablesInserted(r)
      PROVE  Entered' = Entered \cup {r}
  <2> DEFINE new == [request |-> r, published |-> FALSE]
  <2>1. outbox' = outbox \cup {new} /\ new.request = r
    BY <1>3 DEF TablesInserted, Insert
  <2> HIDE DEF new
  <2> QED
    BY <2>1 DEF Entered
<1> QED
  BY <1>1, <1>2, <1>3, TableStep

\* A step that inserts a row gives no answer, and a request is answered once.
LEMMA InsertTellsNothing ==
    ASSUME Inv, [Next]_vars
    PROVE  /\ Untold \/ UNCHANGED scenes
           /\ \A q \in Request : pc[q] = "answered" => answer'[q] = answer[q]
<1> USE DEF Untold, Finish, Goto, Inv, TypeOK
<1> DEFINE Goal == /\ Untold \/ UNCHANGED scenes
                   /\ \A q \in Request : pc[q] = "answered" => answer'[q] = answer[q]
<1>1. ASSUME NEW r \in Request, RejectUpload(r) \/ Stage(r) \/ Handle(r)
      PROVE  Goal
  <2>1. CASE RejectUpload(r) \/ Stage(r) \/ RejectContent(r) \/ Lookup(r) \/ LookupFails(r)
    BY <2>1 DEF RejectUpload, Stage, RejectContent, Lookup, LookupFails
  <2>2. CASE AnswerConflict(r) \/ AnswerReplay(r) \/ RejectTags(r) \/ PutObject(r) \/ PutObjectFails(r)
    BY <2>2 DEF AnswerConflict, AnswerReplay, RejectTags, PutObject, PutObjectFails
  <2>3. CASE Persist(r) \/ PersistRefused(r) \/ PersistFails(r) \/ Cleanup(r) \/ AnswerAccepted(r)
    BY <2>3 DEF Persist, PersistRefused, PersistFails, Cleanup, AnswerAccepted
  <2> QED
    BY <1>1, <2>1, <2>2, <2>3 DEF Handle
<1> QED
  BY <1>1 DEF Next, OutboxRound, Crash, vars

\* Each row belongs to a request that is entered, and each entered request has its row.
LEMMA EnteredRows ==
    ASSUME Inv
    PROVE  /\ \A q \in Entered : q \in Request /\ upload[q] \in scenes
           /\ \A s \in scenes : \E q \in Entered : upload[q] = s
BY DEF Inv, TypeOK, EverySceneAnnouncedOnce, Entered

\* What one answer changes in what the clients have heard.
LEMMA HeardStep ==
    ASSUME TypeOK, NEW r \in Request, NEW response, Told(r, response)
    PROVE  /\ response.status = 202 => Heard' = [Heard EXCEPT ![r] = "accepted"]
           /\ response.status = 200 => Heard' = [Heard EXCEPT ![r] = "replayed"]
           /\ response.status = 409 => Heard' = [Heard EXCEPT ![r] = "conflict"]
           /\ response.status \in {413, 415, 422, 500} => Heard' = [Heard EXCEPT ![r] = "failed"]
<1>1. answer'[r] = response /\ \A q \in Request : q # r => answer'[q] = answer[q]
  BY DEF TypeOK, Told
<1>2. /\ response.status = 202 => Heard'[r] = "accepted"
      /\ response.status = 200 => Heard'[r] = "replayed"
      /\ response.status = 409 => Heard'[r] = "conflict"
      /\ response.status \in {413, 415, 422, 500} => Heard'[r] = "failed"
  BY <1>1 DEF Reply, Heard
<1>3. ASSUME NEW q \in Request, q # r PROVE Heard'[q] = Heard[q]
  BY <1>1, <1>3 DEF Reply, Heard
<1>4. Heard \in [Request -> {Heard[q] : q \in Request}] /\ Heard' = [q \in Request |-> Heard'[q]]
  BY DEF Heard
<1> HIDE DEF Heard
<1> QED
  BY <1>2, <1>3, <1>4

\* A request has been told nothing until its handler has ended.
LEMMA NotHeard ==
    ASSUME TypeOK, AnswersComeLast, NEW r \in Request, pc[r] # "answered"
    PROVE  Heard[r] = "nothing"
BY DEF AnswersComeLast, Heard, Reply, NoAnswer

\* Each step of the service enters the register, answers one client, or is invisible.
LEMMA RegisterStep ==
    ASSUME Inv, AnswersComeLast, [Next]_vars
    PROVE  [R!RegisterNext]_(R!registerVars)
<1>1. upload' = upload
  BY TableStep DEF Inv
<1>2. ASSUME NEW r \in Request, TablesInserted(r), Entered' = Entered \cup {r}
      PROVE  R!Enter(r)
  <2>1. Untold
    BY <1>2, InsertTellsNothing DEF TablesInserted, Unique, ById, Insert
  <2>2. Heard' = Heard
    BY <2>1 DEF Untold, Heard, Reply
  <2>3. Heard[r] = "nothing"
    BY <1>2, NotHeard DEF TablesInserted, Inv
  <2>4. r \notin Entered
    BY <1>2 DEF Inv, MessagesFollowCommits, TablesInserted, Entered
  <2>5. \A q \in Entered : ~Clash(upload[r], upload[q])
    BY <1>2, EnteredRows DEF TablesInserted, Unique, ById, ByDigest, Clash
  <2> QED
    BY <1>1, <1>2, <2>2, <2>3, <2>4, <2>5 DEF R!Enter, Heard
<1>3. CASE Untold
  <2>1. Heard' = Heard
    BY <1>3 DEF Untold, Heard, Reply
  <2>2. CASE Entered' = Entered
    BY <1>1, <2>1, <2>2 DEF R!registerVars, Heard
  <2>3. ASSUME NEW r \in Request, TablesInserted(r), Entered' = Entered \cup {r}
        PROVE  R!RegisterNext
    BY <1>2, <2>3 DEF R!RegisterNext
  <2> QED
    BY <2>2, <2>3, EnteredStep DEF Inv
<1>4. CASE ~Untold
  <2>1. UNCHANGED scenes
    BY <1>4, InsertTellsNothing
  <2>2. Entered' = Entered
    BY <2>1, EnteredStep DEF TablesInserted, Unique, ById, Insert, Inv
  <2>3. ASSUME NEW r \in Request, NEW response, Told(r, response)
        PROVE  Heard[r] = "nothing"
    <3>1. pc[r] # "answered"
      BY <1>4, <2>3, InsertTellsNothing DEF Untold, Told, Inv, TypeOK
    <3> QED
      BY <3>1, NotHeard DEF Inv
  <2>4. ASSUME NEW r \in Request, NEW c \in {413, 415, 422, 500}, Told(r, [status |-> c])
        PROVE  R!Fail(r)
    <3>1. Heard' = [Heard EXCEPT ![r] = "failed"]
      BY <2>4, HeardStep DEF Inv
    <3> QED
      BY <1>1, <2>2, <2>3, <2>4, <3>1 DEF R!Fail, R!Tell, Heard
  <2>5. ASSUME NEW r \in Request, Conflicting(r), Told(r, [status |-> 409])
        PROVE  R!Refuse(r)
    <3>1. Heard' = [Heard EXCEPT ![r] = "conflict"]
      BY <2>5, HeardStep DEF Inv
    <3>2. \E q \in Entered : Clash(upload[r], upload[q]) /\ ~Same(upload[r], upload[q])
      BY <2>5, EnteredRows DEF Inv, Conflicting, LookupsStayTrue, Clash, Same
    <3> QED
      BY <1>1, <2>2, <2>3, <2>5, <3>1, <3>2 DEF R!Refuse, R!Tell, Heard
  <2>6. ASSUME NEW r \in Request, ~Conflicting(r), NEW s \in Existing(r),
               Told(r, [status |-> 200, row |-> s])
        PROVE  R!Replay(r)
    <3>1. Heard' = [Heard EXCEPT ![r] = "replayed"]
      BY <2>6, HeardStep DEF Inv
    <3>2. s \in scenes /\ s.sha256 = upload[r].sha256
      BY <2>6 DEF Inv, Conflicting, Existing, LookupsStayTrue
    <3>3. \E q \in Entered : Same(upload[r], upload[q])
      BY <3>2, EnteredRows DEF Same
    <3> QED
      BY <1>1, <2>2, <2>3, <2>6, <3>1, <3>3 DEF R!Replay, R!Tell, Heard
  <2>7. ASSUME NEW r \in Request, pc[r] = "committed", Told(r, [status |-> 202, row |-> upload[r]])
        PROVE  R!Accept(r)
    <3>1. Heard' = [Heard EXCEPT ![r] = "accepted"]
      BY <2>7, HeardStep DEF Inv
    <3>2. r \in Entered
      BY <2>7 DEF Inv, CommitsAreRecorded, Entered
    <3> QED
      BY <1>1, <2>2, <2>3, <2>7, <3>1, <3>2 DEF R!Accept, R!Tell, Heard
  <2>8. ASSUME NEW r \in Request,
               \/ \E c \in {413, 415, 422, 500} : Told(r, [status |-> c])
               \/ Conflicting(r) /\ Told(r, [status |-> 409])
               \/ /\ ~Conflicting(r)
                  /\ \E s \in Existing(r) : Told(r, [status |-> 200, row |-> s])
               \/ /\ pc[r] = "committed"
                  /\ Told(r, [status |-> 202, row |-> upload[r]])
        PROVE  R!RegisterNext
    <3>1. CASE \E c \in {413, 415, 422, 500} : Told(r, [status |-> c])
      BY <2>4, <3>1 DEF R!RegisterNext
    <3>2. CASE Conflicting(r) /\ Told(r, [status |-> 409])
      BY <2>5, <3>2 DEF R!RegisterNext
    <3>3. CASE /\ ~Conflicting(r)
               /\ \E s \in Existing(r) : Told(r, [status |-> 200, row |-> s])
      BY <2>6, <3>3 DEF R!RegisterNext
    <3>4. CASE /\ pc[r] = "committed"
               /\ Told(r, [status |-> 202, row |-> upload[r]])
      BY <2>7, <3>4 DEF R!RegisterNext
    <3> QED
      BY <2>8, <3>1, <3>2, <3>3, <3>4
  <2>9. \E r \in Request :
           \/ \E c \in {413, 415, 422, 500} : Told(r, [status |-> c])
           \/ Conflicting(r) /\ Told(r, [status |-> 409])
           \/ /\ ~Conflicting(r)
              /\ \E s \in Existing(r) : Told(r, [status |-> 200, row |-> s])
           \/ /\ pc[r] = "committed"
              /\ Told(r, [status |-> 202, row |-> upload[r]])
    BY <1>4, HandlerStep
  <2>10. R!RegisterNext
    BY <2>8, <2>9
  <2> QED
    BY <2>10
<1> QED
  BY <1>3, <1>4

\* ING-006 and ING-007 together, for any number of concurrent uploads, faults and
\* crashes: the service behaves as a register that each upload enters atomically,
\* although it looks up and inserts in two transactions and answers in a third step.
THEOREM IngestImplementsRegister == Spec => ImplementsRegister
<1>1. Init => R!RegisterInit
  BY RegisterInitial
<1>2. Inv /\ LeftoversInv /\ [Next]_vars => [R!RegisterNext]_(R!registerVars)
  BY RegisterStep DEF LeftoversInv
<1> QED
  BY <1>1, <1>2, Invariance, LeftoversInvariance, PTL DEF Spec, ImplementsRegister, R!RegisterSpec
==============================================================================
