---------------------------- MODULE WorkerProofs ----------------------------
(***************************************************************************)
(* Proofs about the workers: for any messages, events and scenes, any limit *)
(* on attempts, and any number of faults, freezes, slow calls and damaged   *)
(* objects.  First what the loop of WorkerLoop guarantees whatever the work  *)
(* is, then the correlation worker, then the imagery worker.  Each worker    *)
(* is the loop with the variables of its own work; no formula below speaks   *)
(* of both.                                                                 *)
(***************************************************************************)
EXTENDS CorrelationWorker, ImageryWorker, TLAPS, FiniteSetTheorems

USE IdOfAssumption, NoMsgAssumption, LimitsAssumption, MaxDeliveriesAssumption,
    MaxTimeoutsAssumption, WorkBoundsAssumption, ScenesAssumption, VerdictAssumption

------------------------------------------------------------------------------
(* The loop. *)

InProgress == pc \notin {"idle", "dead"}

\* The attempt in hand is the last delivery of its message.
AttemptIsCurrent == InProgress => attempt = delivered[current]

\* Past the limit the worker has decided to give the message up, and once that is
\* published it is in the dead-letter stream.
GivingUp ==
    /\ pc \in {"publishDead", "bury", "close", "closeRaising"} => Exhausted
    /\ pc \in {"bury", "close", "closeRaising"} => InHand \in dlq
    /\ pc = "nak" => ~Exhausted

LastResort ==
    /\ \A e \in dlq : \E m \in Msg : IdOf[m] = e /\ delivered[m] >= MaxAttempts
    /\ deadLetters \subseteq dlq

\* A message that waits for another delivery has used up its attempts only by as
\* many calls as have failed.
WithinBudget ==
    \A m \in Msg :
        \/ delivered[m] < MaxAttempts + faults
        \/ delivered[m] <= MaxAttempts + faults /\ (m \in acked \/ (InProgress /\ m = current))

LoopInv == LoopTypeOK /\ AttemptIsCurrent /\ GivingUp /\ LastResort /\ WithinBudget

\* The work succeeds or raises; what it does to other tables is not the loop's.
WorkOver ==
    /\ pc = "working" /\ pc' \in {"recordPassed", "recordFailed"}
    /\ UNCHANGED <<current, attempt, streamVars, tableVars>>

\* The database, or a call of the work, replies or fails.
EnvStep == UNCHANGED envVars \/ Fault

\* A step in which the loop's own state is left alone.
Aside == UNCHANGED <<streamVars, pc, current, attempt, tableVars>> /\ EnvStep

Looping ==
    \/ \E m \in Msg : Fetch(m)
    \/ Settle \/ Bury \/ BuryReplyLost \/ SettleBadly
    \/ FetchRaises \/ Stop \/ Kill \/ Restart \/ Surroundings

LoopStep == Looping \/ (WorkOver /\ EnvStep) \/ Aside

\* The loop starts with no message and no table.
LEMMA LoopStart == LoopInit => LoopInv
<1> SUFFICES ASSUME LoopInit PROVE LoopInv
  OBVIOUS
<1>1. LoopTypeOK
  <2>1. StreamTypeOK
    BY DEF LoopInit, StreamInit, StreamTypeOK
  <2>2. attempt \in 0..MaxDeliveries /\ faults \in 0..MaxFaults /\ freezes \in 0..MaxFreezes
    BY DEF LoopInit
  <2> QED
    BY <2>1, <2>2 DEF LoopInit, LoopTypeOK, Steps
<1>2. AttemptIsCurrent /\ GivingUp
  BY DEF LoopInit, AttemptIsCurrent, InProgress, GivingUp
<1>3. LastResort
  BY DEF LoopInit, LastResort
<1>4. WithinBudget
  <2> SUFFICES ASSUME NEW m \in Msg PROVE delivered[m] < MaxAttempts + faults
    BY DEF WithinBudget
  <2>1. delivered[m] = 0 /\ faults = 0
    BY DEF LoopInit, StreamInit
  <2> QED
    BY <2>1
<1> QED
  BY <1>1, <1>2, <1>3, <1>4 DEF LoopInv

\* The stream keeps its types.
LEMMA StreamType ==
    ASSUME LoopTypeOK, LoopStep
    PROVE  StreamTypeOK'
<1> USE DEF LoopTypeOK, StreamTypeOK
<1>1. CASE \E m \in Msg : Fetch(m)
  BY <1>1 DEF Fetch, Deliver, Deliverable
<1>2. CASE Settle \/ Bury \/ BuryReplyLost
  BY <1>2 DEF Settle, RecordPassed, Ack, RecordFailed, Nak, PublishDead, Close, CloseRaising,
       Bury, BuryReplyLost, AckArrives, Release, Goto, Return, Die, streamVars
<1>3. CASE SettleBadly \/ FetchRaises \/ Stop \/ Kill \/ Restart
  BY <1>3 DEF SettleBadly, RecordPassedRaises, AckLost, AckRaises, RecordFailedRaises,
       NakRaises, PublishDeadRaises, BuryRaises, CloseLost, CloseRaises, FetchRaises, Stop,
       Kill, Restart, streamVars
<1>4. CASE Surroundings
  BY <1>4 DEF Surroundings, Arrive, Store, AckWaitExpires, Release, Freeze, Thaw, streamVars
<1>5. CASE WorkOver \/ Aside
  BY <1>5 DEF WorkOver, Aside, streamVars
<1> QED
  BY <1>1, <1>2, <1>3, <1>4, <1>5 DEF LoopStep, Looping

\* The process and the message in hand keep their types.
LEMMA ProcessType ==
    ASSUME LoopTypeOK, LoopStep
    PROVE  /\ pc' \in Steps
           /\ current' \in Msg \cup {NoMsg}
           /\ attempt' \in 0..MaxDeliveries
           /\ InProgress' => current' \in stored' /\ attempt' > 0
<1> USE DEF LoopTypeOK, StreamTypeOK, Steps, InProgress
<1>1. CASE \E m \in Msg : Fetch(m)
  BY <1>1 DEF Fetch, Deliver, Deliverable
<1>2. CASE Settle \/ Bury \/ BuryReplyLost
  BY <1>2 DEF Settle, RecordPassed, Ack, RecordFailed, Nak, PublishDead, Close, CloseRaising,
       Bury, BuryReplyLost, AckArrives, Release, Goto, Return, Die, streamVars, AfterFailure
<1>3. CASE SettleBadly
  BY <1>3 DEF SettleBadly, RecordPassedRaises, AckLost, AckRaises, RecordFailedRaises,
       NakRaises, PublishDeadRaises, BuryRaises, CloseLost, CloseRaises, Goto, Return, Die,
       streamVars, AfterFailure
<1>4. CASE FetchRaises \/ Stop \/ Kill \/ Restart
  BY <1>4 DEF FetchRaises, Stop, Kill, Restart, Die, streamVars
<1>5. CASE Surroundings
  BY <1>5 DEF Surroundings, Arrive, Store, AckWaitExpires, Release, Freeze, Thaw, Unattended,
       streamVars
<1>6. CASE WorkOver \/ Aside
  BY <1>6 DEF WorkOver, Aside, streamVars
<1> QED
  BY <1>1, <1>2, <1>3, <1>4, <1>5, <1>6 DEF LoopStep, Looping

\* The tables keep their types: attempts are recorded for the message in hand.
LEMMA TablesType ==
    ASSUME LoopTypeOK, LoopStep
    PROVE  /\ attempts' \subseteq Attempt /\ deadLetters' \subseteq MessageId
           /\ dlq' \subseteq MessageId
<1> USE DEF LoopTypeOK, StreamTypeOK, Steps, tableVars
<1>1. pc \notin {"idle", "dead"} =>
        /\ InHand \in MessageId
        /\ \A outcome \in {"passed", "failed"} : Row(outcome) \in Attempt
  <2> SUFFICES ASSUME pc \notin {"idle", "dead"}, NEW outcome \in {"passed", "failed"}
               PROVE  InHand \in MessageId /\ Row(outcome) \in Attempt
    OBVIOUS
  <2>1. current \in Msg /\ attempt \in 1..MaxDeliveries
    OBVIOUS
  <2> QED
    BY <2>1 DEF InHand, Row, Attempt
<1>2. CASE \E m \in Msg : Fetch(m)
  BY <1>2 DEF Fetch
<1>3. CASE Settle \/ Bury \/ BuryReplyLost
  BY <1>1, <1>3 DEF Settle, RecordPassed, Ack, RecordFailed, Nak, PublishDead, Close,
       CloseRaising, Bury, BuryReplyLost, Goto, Return, Die
<1>4. CASE SettleBadly
  BY <1>1, <1>4 DEF SettleBadly, RecordPassedRaises, AckLost, AckRaises, RecordFailedRaises,
       NakRaises, PublishDeadRaises, BuryRaises, CloseLost, CloseRaises, Goto, Return, Die
<1>5. CASE FetchRaises \/ Stop \/ Kill \/ Restart \/ Surroundings
  BY <1>5 DEF FetchRaises, Stop, Kill, Restart, Surroundings, Arrive, AckWaitExpires,
       Freeze, Thaw, Unattended
<1>6. CASE WorkOver \/ Aside
  BY <1>6 DEF WorkOver, Aside
<1> QED
  BY <1>2, <1>3, <1>4, <1>5, <1>6 DEF LoopStep, Looping

\* The counters of the bounds keep their types, and what has happened is not forgotten.
LEMMA EnvType ==
    ASSUME LoopTypeOK, LoopStep
    PROVE  /\ frozen' \in BOOLEAN /\ faults' \in 0..MaxFaults /\ freezes' \in 0..MaxFreezes
           /\ faults' >= faults /\ freezes' >= freezes
           /\ frozen' => frozen \/ freezes' > 0
<1>1. UNCHANGED envVars \/ Fault \/ Freeze \/ Thaw
  <2>1. CASE \E m \in Msg : Fetch(m)
    BY <2>1 DEF Fetch
  <2>2. CASE Settle \/ Bury \/ BuryReplyLost
    BY <2>2 DEF Settle, RecordPassed, Ack, RecordFailed, Nak, PublishDead, Close,
         CloseRaising, Bury, BuryReplyLost, DbReplies
  <2>3. CASE SettleBadly
    BY <2>3 DEF SettleBadly, RecordPassedRaises, AckLost, AckRaises, RecordFailedRaises,
         NakRaises, PublishDeadRaises, BuryRaises, CloseLost, CloseRaises, DbRaises
  <2>4. CASE FetchRaises \/ Stop \/ Kill \/ Restart
    BY <2>4 DEF FetchRaises, Stop, Kill, Restart
  <2>5. CASE Surroundings
    BY <2>5 DEF Surroundings, Arrive, AckWaitExpires
  <2>6. CASE (WorkOver /\ EnvStep) \/ Aside
    BY <2>6 DEF EnvStep, Aside
  <2> QED
    BY <2>1, <2>2, <2>3, <2>4, <2>5, <2>6 DEF LoopStep, Looping
<1>2. faults \in 0..MaxFaults /\ freezes \in 0..MaxFreezes /\ frozen \in BOOLEAN
  BY DEF LoopTypeOK
<1>3. CASE UNCHANGED envVars
  BY <1>2, <1>3 DEF envVars
<1>4. CASE Fault
  BY <1>2, <1>4 DEF Fault
<1>5. CASE Freeze
  BY <1>2, <1>5 DEF Freeze
<1>6. CASE Thaw
  <2>1. frozen' \in BOOLEAN /\ ~frozen'
    BY <1>6 DEF Thaw
  <2>2. faults' = faults /\ freezes' = freezes
    BY <1>6 DEF Thaw
  <2> QED
    BY <1>2, <2>1, <2>2
<1> QED
  BY <1>1, <1>3, <1>4, <1>5, <1>6

\* The loop keeps its types.
LEMMA LoopType ==
    ASSUME LoopTypeOK, LoopStep
    PROVE  LoopTypeOK'
BY StreamType, ProcessType, TablesType, EnvType DEF LoopTypeOK, InProgress

\* Which steps touch what the message in hand is.
LEMMA InHandStays ==
    ASSUME LoopTypeOK, LoopStep, InProgress, InProgress'
    PROVE  current' = current /\ attempt' = attempt
<1> USE DEF InProgress
<1>1. CASE \E m \in Msg : Fetch(m)
  BY <1>1 DEF Fetch
<1>2. CASE Settle \/ Bury \/ BuryReplyLost
  BY <1>2 DEF Settle, RecordPassed, Ack, RecordFailed, Nak, PublishDead, Close, CloseRaising,
       Bury, BuryReplyLost, Goto, Return, Die
<1>3. CASE SettleBadly
  BY <1>3 DEF SettleBadly, RecordPassedRaises, AckLost, AckRaises, RecordFailedRaises,
       NakRaises, PublishDeadRaises, BuryRaises, CloseLost, CloseRaises, Goto, Return, Die
<1>4. CASE FetchRaises \/ Stop \/ Kill \/ Restart
  BY <1>4 DEF FetchRaises, Stop, Kill, Restart, Die
<1>5. CASE Surroundings
  BY <1>5 DEF Surroundings, Arrive, AckWaitExpires, Freeze, Thaw, Unattended
<1>6. CASE WorkOver \/ Aside
  BY <1>6 DEF WorkOver, Aside
<1> QED
  BY <1>1, <1>2, <1>3, <1>4, <1>5, <1>6 DEF LoopStep, Looping

\* Only fetching a message counts as a delivery.
LEMMA DeliveriesGrow ==
    ASSUME LoopTypeOK, LoopStep
    PROVE  \/ delivered' = delivered /\ (InProgress' => InProgress)
           \/ \E m \in Msg :
                 /\ ~InProgress /\ InProgress' /\ current' = m
                 /\ m \notin acked /\ acked' = acked
                 /\ attempt' = delivered[m] + 1
                 /\ delivered' = [delivered EXCEPT ![m] = @ + 1]
                 /\ dlq' = dlq /\ deadLetters' = deadLetters /\ faults' = faults /\ pc' = "working"
<1> USE DEF InProgress
<1>1. CASE \E m \in Msg : Fetch(m)
  BY <1>1 DEF Fetch, Deliver, Deliverable, tableVars, envVars
<1>2. CASE Settle \/ Bury \/ BuryReplyLost
  BY <1>2 DEF Settle, RecordPassed, Ack, RecordFailed, Nak, PublishDead, Close, CloseRaising,
       Bury, BuryReplyLost, AckArrives, Release, Goto, Return, Die, streamVars
<1>3. CASE SettleBadly
  BY <1>3 DEF SettleBadly, RecordPassedRaises, AckLost, AckRaises, RecordFailedRaises,
       NakRaises, PublishDeadRaises, BuryRaises, CloseLost, CloseRaises, Goto, Return, Die,
       streamVars
<1>4. CASE FetchRaises \/ Stop \/ Kill \/ Restart
  BY <1>4 DEF FetchRaises, Stop, Kill, Restart, Die, streamVars
<1>5. CASE Surroundings
  BY <1>5 DEF Surroundings, Arrive, Store, AckWaitExpires, Release, Freeze, Thaw, Unattended,
       streamVars
<1>6. CASE WorkOver \/ Aside
  BY <1>6 DEF WorkOver, Aside, streamVars
<1> QED
  BY <1>1, <1>2, <1>3, <1>4, <1>5, <1>6 DEF LoopStep, Looping

\* The attempt in hand stays the last delivery of its message.
LEMMA AttemptStep ==
    ASSUME LoopTypeOK, AttemptIsCurrent, LoopStep
    PROVE  AttemptIsCurrent'
<1> SUFFICES ASSUME InProgress' PROVE attempt' = delivered'[current']
  BY DEF AttemptIsCurrent
<1>1. CASE delivered' = delivered /\ InProgress
  BY <1>1, InHandStays DEF AttemptIsCurrent
<1>2. CASE ~(delivered' = delivered /\ InProgress)
  BY <1>2, DeliveriesGrow DEF LoopTypeOK, StreamTypeOK
<1> QED
  BY <1>1, <1>2

\* Acknowledgements: only of the message in hand, after success or after its dead
\* letter was published.  Dead letters are never taken back.
LEMMA WhatIsAcknowledged ==
    ASSUME LoopTypeOK, LoopStep
    PROVE  /\ dlq \subseteq dlq'
           /\ acked \subseteq acked'
           /\ acked' # acked => /\ pc \in {"ack", "close", "closeRaising"}
                               /\ acked' = acked \cup {current}
<1>1. CASE \E m \in Msg : Fetch(m)
  BY <1>1 DEF Fetch, Deliver, tableVars
<1>2. CASE Settle \/ Bury \/ BuryReplyLost
  BY <1>2 DEF Settle, RecordPassed, Ack, RecordFailed, Nak, PublishDead, Close, CloseRaising,
       Bury, BuryReplyLost, AckArrives, Release, Goto, Return, Die, streamVars, tableVars
<1>3. CASE SettleBadly
  BY <1>3 DEF SettleBadly, RecordPassedRaises, AckLost, AckRaises, RecordFailedRaises,
       NakRaises, PublishDeadRaises, BuryRaises, CloseLost, CloseRaises, streamVars,
       tableVars
<1>4. CASE FetchRaises \/ Stop \/ Kill \/ Restart \/ Surroundings
  BY <1>4 DEF FetchRaises, Stop, Kill, Restart, Surroundings, Arrive, Store, AckWaitExpires,
       Release, Freeze, Thaw, Unattended, streamVars, tableVars
<1>5. CASE WorkOver \/ Aside
  BY <1>5 DEF WorkOver, Aside, streamVars, tableVars
<1> QED
  BY <1>1, <1>2, <1>3, <1>4, <1>5 DEF LoopStep, Looping

\* The decision to give a message up is made once, after its last attempt, and its
\* dead letter is published before anything else is done about it.
LEMMA GivingUpStep ==
    ASSUME LoopTypeOK, GivingUp, LoopStep
    PROVE  GivingUp'
<1> USE DEF GivingUp, Exhausted, InHand
<1>1. CASE \E m \in Msg : Fetch(m)
  BY <1>1 DEF Fetch
<1>2. CASE Settle \/ Bury \/ BuryReplyLost
  BY <1>2 DEF Settle, RecordPassed, Ack, RecordFailed, Nak, PublishDead, Close, CloseRaising,
       Bury, BuryReplyLost, Goto, Return, Die, AfterFailure
<1>3. CASE SettleBadly
  BY <1>3 DEF SettleBadly, RecordPassedRaises, AckLost, AckRaises, RecordFailedRaises,
       NakRaises, PublishDeadRaises, BuryRaises, CloseLost, CloseRaises, Goto, Return, Die,
       AfterFailure, tableVars
<1>4. CASE FetchRaises \/ Stop \/ Kill \/ Restart
  BY <1>4 DEF FetchRaises, Stop, Kill, Restart, Die
<1>5. CASE Surroundings
  BY <1>5 DEF Surroundings, Arrive, AckWaitExpires, Freeze, Thaw, Unattended, tableVars
<1>6. CASE WorkOver \/ Aside
  BY <1>6 DEF WorkOver, Aside, tableVars
<1> QED
  BY <1>1, <1>2, <1>3, <1>4, <1>5, <1>6 DEF LoopStep, Looping

\* What is new in the dead letters is the message in hand.
LEMMA WhatIsDead ==
    ASSUME LoopTypeOK, LoopStep
    PROVE  /\ dlq' = dlq \/ (pc = "publishDead" /\ dlq' = dlq \cup {InHand})
           /\ \/ deadLetters' = deadLetters
              \/ pc = "bury" /\ deadLetters' = deadLetters \cup {InHand}
<1>1. CASE \E m \in Msg : Fetch(m)
  BY <1>1 DEF Fetch, tableVars
<1>2. CASE Settle \/ Bury \/ BuryReplyLost
  BY <1>2 DEF Settle, RecordPassed, Ack, RecordFailed, Nak, PublishDead, Close, CloseRaising,
       Bury, BuryReplyLost, Goto, tableVars
<1>3. CASE SettleBadly
  BY <1>3 DEF SettleBadly, RecordPassedRaises, AckLost, AckRaises, RecordFailedRaises,
       NakRaises, PublishDeadRaises, BuryRaises, CloseLost, CloseRaises, Die, tableVars
<1>4. CASE FetchRaises \/ Stop \/ Kill \/ Restart \/ Surroundings
  BY <1>4 DEF FetchRaises, Stop, Kill, Restart, Surroundings, Arrive, AckWaitExpires,
       Freeze, Thaw, Unattended, tableVars
<1>5. CASE WorkOver \/ Aside
  BY <1>5 DEF WorkOver, Aside, tableVars
<1> QED
  BY <1>1, <1>2, <1>3, <1>4, <1>5 DEF LoopStep, Looping

\* A message is dead-lettered only after its last attempt, and its row in the table
\* follows its copy in the stream.
LEMMA LastResortStep ==
    ASSUME LoopTypeOK, AttemptIsCurrent, GivingUp, LastResort, LoopStep
    PROVE  LastResort'
<1>1. ASSUME NEW m \in Msg
      PROVE  delivered'[m] >= delivered[m] /\ delivered[m] \in Nat /\ delivered'[m] \in Nat
  BY <1>1, DeliveriesGrow DEF LoopTypeOK, StreamTypeOK
<1>2. ASSUME NEW e \in dlq' PROVE \E m \in Msg : IdOf[m] = e /\ delivered'[m] >= MaxAttempts
  <2>1. CASE e \in dlq
    BY <1>1, <2>1 DEF LastResort
  <2>2. CASE e \notin dlq
    <3>1. pc = "publishDead" /\ e = InHand
      BY <1>2, <2>2, WhatIsDead
    <3>2. current \in Msg /\ delivered[current] >= MaxAttempts
      BY <3>1 DEF GivingUp, Exhausted, AttemptIsCurrent, InProgress, LoopTypeOK, StreamTypeOK
    <3> QED
      BY <1>1, <3>1, <3>2 DEF InHand
  <2> QED
    BY <2>1, <2>2
<1>3. deadLetters' \subseteq dlq'
  BY WhatIsDead DEF LastResort, GivingUp
<1> QED
  BY <1>2, <1>3 DEF LastResort

\* How a message leaves the worker's hands: acknowledged, or with attempts left, or
\* because a call failed.
LEMMA HowMessagesLeave ==
    ASSUME LoopTypeOK, GivingUp, LoopStep, InProgress, ~InProgress'
    PROVE  \/ current \in acked'
           \/ ~Exhausted
           \/ faults' = faults + 1
<1> USE DEF InProgress
<1>1. CASE \E m \in Msg : Fetch(m)
  BY <1>1 DEF Fetch
<1>2. CASE Settle \/ Bury \/ BuryReplyLost
  BY <1>2 DEF Settle, RecordPassed, Ack, RecordFailed, Nak, PublishDead, Close, CloseRaising,
       Bury, BuryReplyLost, AckArrives, Goto, Return, Die, AfterFailure, GivingUp
<1>3. CASE SettleBadly
  BY <1>3 DEF SettleBadly, RecordPassedRaises, AckLost, AckRaises, RecordFailedRaises,
       NakRaises, PublishDeadRaises, BuryRaises, CloseLost, CloseRaises, Goto, Return, Die,
       AfterFailure, Fault
<1>4. CASE FetchRaises \/ Stop \/ Kill \/ Restart
  BY <1>4 DEF FetchRaises, Stop, Kill, Restart, Die, Fault
<1>5. CASE Surroundings
  BY <1>5 DEF Surroundings, Arrive, AckWaitExpires, Freeze, Thaw, Unattended
<1>6. CASE WorkOver \/ Aside
  BY <1>6 DEF WorkOver, Aside
<1> QED
  BY <1>1, <1>2, <1>3, <1>4, <1>5, <1>6 DEF LoopStep, Looping

\* Each failed call costs a message at most one more delivery.
LEMMA BudgetStep ==
    ASSUME LoopTypeOK, AttemptIsCurrent, GivingUp, WithinBudget, LoopStep
    PROVE  WithinBudget'
<1>1. faults \in Nat /\ faults' \in Nat /\ faults' >= faults
  BY EnvType DEF LoopTypeOK
<1>2. SUFFICES ASSUME NEW m \in Msg
               PROVE  \/ delivered'[m] < MaxAttempts + faults'
                      \/ /\ delivered'[m] <= MaxAttempts + faults'
                         /\ m \in acked' \/ (InProgress' /\ m = current')
  BY DEF WithinBudget
<1>3. /\ delivered[m] \in Nat
      /\ \/ delivered[m] < MaxAttempts + faults
         \/ delivered[m] <= MaxAttempts + faults /\ (m \in acked \/ (InProgress /\ m = current))
  BY DEF WithinBudget, LoopTypeOK, StreamTypeOK
<1>4. CASE \E k \in Msg :
              /\ ~InProgress /\ InProgress' /\ current' = k
              /\ k \notin acked /\ acked' = acked
              /\ delivered' = [delivered EXCEPT ![k] = @ + 1]
              /\ faults' = faults
  BY <1>1, <1>3, <1>4 DEF LoopTypeOK, StreamTypeOK
<1>5. CASE delivered' = delivered
  <2>1. CASE m \in acked
    BY <1>1, <1>3, <1>5, <2>1, WhatIsAcknowledged
  <2>2. CASE delivered[m] < MaxAttempts + faults
    BY <1>1, <1>3, <1>5, <2>2
  <2>3. CASE InProgress /\ m = current /\ InProgress'
    BY <1>1, <1>3, <1>5, <2>3, InHandStays
  <2>4. CASE InProgress /\ m = current /\ ~InProgress'
    <3>1. attempt = delivered[m]
      BY <2>4 DEF AttemptIsCurrent
    <3>2. ~Exhausted => delivered[m] < MaxAttempts
      BY <1>3, <3>1 DEF Exhausted
    <3>3. m \in acked' \/ ~Exhausted \/ faults' = faults + 1
      BY <2>4, HowMessagesLeave
    <3> QED
      BY <1>1, <1>3, <1>5, <3>2, <3>3
  <2> QED
    BY <1>3, <2>1, <2>2, <2>3, <2>4
<1> QED
  BY <1>4, <1>5, DeliveriesGrow

\* The loop's invariant, for any work.
LEMMA LoopInvariant ==
    ASSUME LoopInv, LoopStep
    PROVE  LoopInv'
BY LoopType, AttemptStep, GivingUpStep, LastResortStep, BudgetStep DEF LoopInv

\* What a process shares with others only grows: calls that failed and freezes are
\* counted, and a frozen database has been frozen.
SurroundingsGrow ==
    /\ frozen' \in BOOLEAN /\ faults' \in 0..MaxFaults /\ freezes' \in 0..MaxFreezes
    /\ faults' >= faults /\ freezes' >= freezes
    /\ frozen' => frozen \/ freezes' > 0

\* Then the loop keeps its invariant while its own state is left alone.
LEMMA LoopRests ==
    ASSUME LoopInv, SurroundingsGrow, UNCHANGED <<streamVars, pc, current, attempt, tableVars>>
    PROVE  LoopInv'
<1> USE DEF LoopInv, SurroundingsGrow, streamVars, tableVars
<1>1. LoopTypeOK'
  BY DEF LoopTypeOK, StreamTypeOK, Attempt, Steps
<1>2. AttemptIsCurrent' /\ GivingUp' /\ LastResort'
  BY DEF AttemptIsCurrent, InProgress, GivingUp, Exhausted, InHand, LastResort
<1>3. WithinBudget'
  BY DEF LoopTypeOK, StreamTypeOK, WithinBudget, InProgress
<1> QED
  BY <1>1, <1>2, <1>3

------------------------------------------------------------------------------
(* The correlation worker. *)

\* There are finitely many scenes to count.
LEMMA CountsType ==
    ASSUME NEW scenes \in SUBSET Scene
    PROVE  Cardinality(scenes) \in Nat
BY FS_Subset, FS_CardinalityType

\* An analysis is a row, which names the scenes evaluated and matches some of them.
LEMMA AnalysisType ==
    ASSUME NEW e \in Event, NEW scenes \in SUBSET Scene
    PROVE  /\ Analysis(e, scenes) \in AnalysisResult
           /\ Analysis(e, scenes).provenance = scenes
           /\ Analysis(e, scenes).matched_correlation_ids \subseteq scenes
<1>1. ASSUME NEW verdict PROVE Judged(e, scenes, verdict) \subseteq scenes
  BY DEF Judged
<1>2. AnalysisStatus(e, scenes) \in CorrelationStatus \cup {"no-scenes"}
  BY DEF AnalysisStatus, CorrelationStatus
<1>3. [v \in CorrelationStatus |-> Cardinality(Judged(e, scenes, v))]
          \in [CorrelationStatus -> Nat]
  BY <1>1, CountsType
<1> QED
  BY <1>1, <1>2, <1>3, CountsType DEF Analysis, AnalysisResult

\* An update leaves a row, each column of it from the old one or from the analysis.
LEMMA UpdatedColumns ==
    ASSUME NEW row \in AnalysisResult, NEW analysis \in AnalysisResult, NEW columns
    PROVE  /\ Updated(row, analysis, columns) \in AnalysisResult
           /\ Updated(row, analysis, columns).provenance \in
                  {row.provenance, analysis.provenance}
           /\ Updated(row, analysis, columns).matched_correlation_ids \in
                  {row.matched_correlation_ids, analysis.matched_correlation_ids}
BY DEF Updated, AnalysisResult, Column

\* If the columns are all those that differ, the row is the analysis.
LEMMA WholeUpdate ==
    ASSUME NEW row \in AnalysisResult, NEW analysis \in AnalysisResult, NEW columns,
           {c \in Column : analysis[c] # row[c]} \subseteq columns
    PROVE  Updated(row, analysis, columns) = analysis
BY DEF Updated, AnalysisResult, Column

\* Once its work has succeeded, the message in hand has an analysis.
SuccessIsAnalysed == pc \in {"recordPassed", "ack"} => InHand \in analysed

CorrelationInv ==
    /\ LoopInv
    /\ CorrelationTypeOK
    /\ SuccessIsAnalysed
    /\ AckedEventIsSettled
    /\ AnalysisHasItsCorrelations

\* Every step of the worker is a step of the loop, or leaves the loop alone.
LEMMA CorrelationStepsLoop ==
    ASSUME [CorrelationNext]_correlationVars
    PROVE  LoopStep
<1>1. CASE \E m \in Msg : BeginEvent(m)
  BY <1>1 DEF BeginEvent, LoopStep, Looping
<1>2. CASE \E j \in evaluations : ReadScenes(j) \/ ReadRows(j)
  BY <1>2 DEF ReadScenes, ReadRows, EvaluationGoesOn, DbReplies, LoopStep, Aside, EnvStep
<1>3. ASSUME NEW j \in evaluations, NEW next \in {"recordPassed", "recordFailed"},
             EvaluationEnds(j, next), EnvStep
      PROVE  LoopStep
  BY <1>3 DEF EvaluationEnds, EvaluationAwaited, LoopStep, WorkOver, Aside
<1>4. CASE \E j \in evaluations : CommitAnalysis(j) \/ CommitCollides(j)
  BY <1>3, <1>4 DEF CommitAnalysis, CommitCollides, DbReplies, EnvStep
<1>5. CASE \E j \in evaluations : EvaluationRaises(j)
  BY <1>3, <1>5 DEF EvaluationRaises, EnvStep
<1>6. CASE GiveUpEvent
  BY <1>6 DEF GiveUpEvent, Goto, LoopStep, WorkOver, EnvStep
<1>7. CASE Settle \/ Bury \/ SettleBadly \/ BuryReplyLost \/ FetchRaises \/ Stop \/ Surroundings
  BY <1>7 DEF LoopStep, Looping
<1>8. CASE KillCorrelation \/ RestartCorrelation
  BY <1>8 DEF KillCorrelation, RestartCorrelation, EvaluationsEnd, LoopStep, Looping
<1>9. CASE (\E s \in Scene : AcceptScene(s)) \/ UNCHANGED correlationVars
  BY <1>9 DEF AcceptScene, correlationVars, loopVars, LoopStep, Aside, EnvStep
<1> QED
  BY <1>1, <1>2, <1>4, <1>5, <1>6, <1>7, <1>8, <1>9 DEF CorrelationNext, Evaluate

\* What an evaluation may do to the tables of the work.
WriteStep ==
    \/ UNCHANGED <<correlations, analysed, results>>
    \/ \E j \in evaluations :
           j.stage = "rowsRead" /\ Write(j) /\ evaluations' = evaluations \ {j}

\* Only the commit of an evaluation writes, only what it has seen, and at its end.
LEMMA OnlyEvaluationsWrite ==
    ASSUME [CorrelationNext]_correlationVars
    PROVE  WriteStep
<1>1. CASE \E m \in Msg : BeginEvent(m)
  BY <1>1 DEF BeginEvent, WriteStep
<1>2. CASE Evaluate
  BY <1>2 DEF Evaluate, ReadScenes, ReadRows, EvaluationGoesOn, CommitAnalysis,
       CommitCollides, EvaluationEnds, WriteStep
<1>3. CASE \E j \in evaluations : EvaluationRaises(j)
  BY <1>3 DEF EvaluationRaises, EvaluationEnds, WriteStep
<1>4. CASE GiveUpEvent \/ KillCorrelation \/ RestartCorrelation
  BY <1>4 DEF GiveUpEvent, KillCorrelation, RestartCorrelation, EvaluationsEnd, WriteStep
<1>5. CASE UNCHANGED evaluationVars
  BY <1>5 DEF evaluationVars, WriteStep
<1>6. CASE (\E s \in Scene : AcceptScene(s)) \/ UNCHANGED correlationVars
  BY <1>6 DEF AcceptScene, evaluationVars, correlationVars, WriteStep
<1> QED
  BY <1>1, <1>2, <1>3, <1>4, <1>5, <1>6 DEF CorrelationNext

\* Evaluations keep their types.
LEMMA EvaluationsType ==
    ASSUME CorrelationTypeOK, [CorrelationNext]_correlationVars
    PROVE  evaluations' \subseteq Evaluation
<1> USE DEF CorrelationTypeOK
<1>1. CASE \E m \in Msg : BeginEvent(m)
  <2> PICK m \in Msg : BeginEvent(m)
    BY <1>1
  <2>1. delivered[m] \in 0..MaxDeliveries /\ delivered[m] < MaxDeliveries
    BY DEF BeginEvent, Fetch, Deliver, Deliverable, LoopTypeOK, StreamTypeOK
  <2>2. Analysis(IdOf[m], {}) \in AnalysisResult
    BY AnalysisType DEF Event
  <2>3. Started(m) \in Evaluation
    BY <2>1, <2>2 DEF Started, Evaluation, Stages
  <2> QED
    BY <2>3 DEF BeginEvent
<1>2. CASE Evaluate
  <2> PICK j \in evaluations :
                ReadScenes(j) \/ ReadRows(j) \/ CommitAnalysis(j) \/ CommitCollides(j)
    BY <1>2 DEF Evaluate
  <2>1. j \in Evaluation
    OBVIOUS
  <2>2. CASE ReadScenes(j)
    <3>1. [j EXCEPT !.stage = "scenesRead", !.seen = accepted] \in Evaluation
      BY <2>1 DEF Evaluation, Stages
    <3> QED
      BY <2>2, <3>1 DEF ReadScenes, EvaluationGoesOn
  <2>3. CASE ReadRows(j)
    <3>1. Of(j) \in Event
      BY <2>1 DEF Of, Evaluation, Event
    <3>2. /\ j.seen \cap Correlated(Of(j)) \subseteq Scene
          /\ (Of(j) \in analysed) \in BOOLEAN
          /\ results[Of(j)] \in AnalysisResult
      BY <3>1 DEF Correlated
    <3>3. [j EXCEPT !.stage = "rowsRead", !.known = j.seen \cap Correlated(Of(j)),
                    !.existed = Of(j) \in analysed, !.loaded = results[Of(j)]] \in Evaluation
      BY <2>1, <3>2 DEF Evaluation, Stages
    <3> QED
      BY <2>3, <3>3 DEF ReadRows, EvaluationGoesOn
  <2>4. CASE CommitAnalysis(j) \/ CommitCollides(j)
    BY <2>4 DEF CommitAnalysis, CommitCollides, EvaluationEnds
  <2> QED
    BY <2>2, <2>3, <2>4
<1>3. CASE \E j \in evaluations : EvaluationRaises(j)
  BY <1>3 DEF EvaluationRaises, EvaluationEnds
<1>4. CASE GiveUpEvent \/ KillCorrelation \/ RestartCorrelation
  BY <1>4 DEF GiveUpEvent, KillCorrelation, RestartCorrelation, EvaluationsEnd
<1>5. CASE UNCHANGED evaluationVars
  BY <1>5 DEF evaluationVars
<1>6. CASE (\E s \in Scene : AcceptScene(s)) \/ UNCHANGED correlationVars
  BY <1>6 DEF AcceptScene, evaluationVars, correlationVars
<1> QED
  BY <1>1, <1>2, <1>3, <1>4, <1>5, <1>6 DEF CorrelationNext

\* Accepted scenes and the bound on slow evaluations keep their types.
LEMMA RestType ==
    ASSUME CorrelationTypeOK, [CorrelationNext]_correlationVars
    PROVE  accepted' \subseteq Scene /\ timeouts' \in 0..MaxTimeouts
<1> USE DEF CorrelationTypeOK
<1>1. CASE \E m \in Msg : BeginEvent(m)
  BY <1>1 DEF BeginEvent
<1>2. CASE Evaluate
  BY <1>2 DEF Evaluate, ReadScenes, ReadRows, EvaluationGoesOn, CommitAnalysis,
       CommitCollides, EvaluationEnds
<1>3. CASE \E j \in evaluations : EvaluationRaises(j)
  BY <1>3 DEF EvaluationRaises, EvaluationEnds
<1>4. CASE GiveUpEvent \/ KillCorrelation \/ RestartCorrelation
  BY <1>4 DEF GiveUpEvent, KillCorrelation, RestartCorrelation, EvaluationsEnd
<1>5. CASE UNCHANGED <<evaluationVars, accepted>>
  BY <1>5 DEF evaluationVars
<1>6. CASE (\E s \in Scene : AcceptScene(s)) \/ UNCHANGED correlationVars
  BY <1>6 DEF AcceptScene, evaluationVars, correlationVars
<1> QED
  BY <1>1, <1>2, <1>3, <1>4, <1>5, <1>6 DEF CorrelationNext

\* What a write does to the row of an event.
LEMMA WhatIsWritten ==
    ASSUME CorrelationTypeOK, NEW j \in evaluations, Write(j)
    PROVE  /\ Of(j) \in Event /\ j.seen \subseteq Scene /\ Conclusion(j) \in AnalysisResult
           /\ \E columns \in ColumnsSet(j) :
                  results' = [results EXCEPT ![Of(j)] =
                                 Updated(results[Of(j)], Conclusion(j), columns)]
           /\ results' \in [Event -> AnalysisResult]
<1> USE DEF CorrelationTypeOK
<1>1. Of(j) \in Event /\ j.seen \subseteq Scene
  BY DEF Of, Evaluation, Event
<1>2. Conclusion(j) \in AnalysisResult
  BY <1>1, AnalysisType DEF Conclusion
<1>3. PICK columns \in ColumnsSet(j) :
          results' = [results EXCEPT ![Of(j)] =
                         Updated(results[Of(j)], Conclusion(j), columns)]
  BY <1>1 DEF Write
<1>4. Updated(results[Of(j)], Conclusion(j), columns) \in AnalysisResult
  BY <1>1, <1>2, UpdatedColumns
<1>5. results' \in [Event -> AnalysisResult]
  BY <1>1, <1>3, <1>4
<1> QED
  BY <1>1, <1>2, <1>3, <1>5

\* What a write leaves: more correlations, more analyses, and an analysis that
\* has its correlations.
LEMMA WriteKeeps ==
    ASSUME CorrelationTypeOK, AnalysisHasItsCorrelations, WriteStep
    PROVE  /\ correlations' \subseteq Scene \X Event
           /\ analysed' \subseteq Event /\ analysed \subseteq analysed'
           /\ results' \in [Event -> AnalysisResult]
           /\ AnalysisHasItsCorrelations'
<1> USE DEF CorrelationTypeOK
<1>1. CASE UNCHANGED <<correlations, analysed, results>>
  BY <1>1 DEF AnalysisHasItsCorrelations, Correlated
<1>2. CASE \E j \in evaluations : j.stage = "rowsRead" /\ Write(j)
  <2> PICK j \in evaluations : Write(j)
    BY <1>2
  <2>1. /\ Of(j) \in Event /\ j.seen \subseteq Scene /\ Conclusion(j) \in AnalysisResult
        /\ results' \in [Event -> AnalysisResult]
    BY WhatIsWritten
  <2>2. /\ correlations' \subseteq Scene \X Event /\ analysed' \subseteq Event
        /\ analysed \subseteq analysed'
    BY <2>1 DEF Write
  <2>3. \A s \in j.seen : <<s, Of(j)>> \in correlations'
    BY DEF Write
  <2>4. Conclusion(j).provenance \cup Conclusion(j).matched_correlation_ids \subseteq j.seen
    BY <2>1, AnalysisType DEF Conclusion
  <2>5. PICK columns :
            results' = [results EXCEPT ![Of(j)] =
                           Updated(results[Of(j)], Conclusion(j), columns)]
    BY WhatIsWritten
  <2>6. ASSUME NEW e \in Event,
               NEW s \in results'[e].provenance \cup results'[e].matched_correlation_ids
        PROVE  <<s, e>> \in correlations'
    <3>1. CASE s \in results[e].provenance \cup results[e].matched_correlation_ids
      BY <3>1 DEF AnalysisHasItsCorrelations, Correlated, Write
    <3>2. CASE s \notin results[e].provenance \cup results[e].matched_correlation_ids
      <4>1. e = Of(j) /\ results'[e] = Updated(results[Of(j)], Conclusion(j), columns)
        BY <2>1, <2>5, <2>6, <3>2
      <4>2. /\ results'[e].provenance \in {results[e].provenance, Conclusion(j).provenance}
            /\ results'[e].matched_correlation_ids \in
                   {results[e].matched_correlation_ids, Conclusion(j).matched_correlation_ids}
        BY <2>1, <4>1, UpdatedColumns
      <4> QED
        BY <2>3, <2>4, <2>6, <3>2, <4>1, <4>2
    <3> QED
      BY <3>1, <3>2
  <2>7. ASSUME NEW e \in Event
        PROVE  results'[e].provenance \cup results'[e].matched_correlation_ids \subseteq
                   Correlated(e)'
    <3>1. results'[e].provenance \cup results'[e].matched_correlation_ids \subseteq Scene
      BY <2>1 DEF AnalysisResult
    <3> QED
      BY <2>6, <3>1 DEF Correlated
  <2>8. AnalysisHasItsCorrelations'
    BY <2>7 DEF AnalysisHasItsCorrelations
  <2> QED
    BY <2>1, <2>2, <2>8
<1> QED
  BY <1>1, <1>2 DEF WriteStep

\* A message counts as done only when the thread that evaluated it has committed
\* its analysis: a thread that was given up on ends without moving the worker.
LEMMA AnalysisStep ==
    ASSUME CorrelationTypeOK, SuccessIsAnalysed, [CorrelationNext]_correlationVars,
           analysed \subseteq analysed'
    PROVE  SuccessIsAnalysed'
<1> SUFFICES ASSUME pc' \in {"recordPassed", "ack"} PROVE InHand' \in analysed'
  BY DEF SuccessIsAnalysed
<1>1. CASE pc \in {"recordPassed", "ack"} /\ current' = current
  BY <1>1 DEF SuccessIsAnalysed, InHand
<1>2. CASE \E m \in Msg : BeginEvent(m)
  BY <1>2 DEF BeginEvent, Fetch
<1>3. CASE Evaluate
  <2> PICK j \in evaluations :
                ReadScenes(j) \/ ReadRows(j) \/ CommitAnalysis(j) \/ CommitCollides(j)
    BY <1>3 DEF Evaluate
  <2>1. CASE CommitAnalysis(j) /\ EvaluationAwaited(j)
    BY <2>1 DEF CommitAnalysis, Write, EvaluationEnds, EvaluationAwaited, InHand, Of
  <2>2. CASE ~(CommitAnalysis(j) /\ EvaluationAwaited(j))
    BY <1>1, <2>2 DEF ReadScenes, ReadRows, EvaluationGoesOn, CommitAnalysis,
         CommitCollides, EvaluationEnds
  <2> QED
    BY <2>1, <2>2
<1>4. CASE \E j \in evaluations : EvaluationRaises(j)
  BY <1>1, <1>4 DEF EvaluationRaises, EvaluationEnds
<1>5. CASE GiveUpEvent \/ KillCorrelation \/ RestartCorrelation
  BY <1>5 DEF GiveUpEvent, Goto, KillCorrelation, Kill, RestartCorrelation, Restart
<1>6. CASE Settle \/ Bury \/ SettleBadly \/ BuryReplyLost
  <2>1. pc \in {"recordPassed", "ack"}
    BY <1>6 DEF Settle, RecordPassed, Ack, RecordFailed, Nak, PublishDead, Close,
         CloseRaising, Bury, BuryReplyLost, SettleBadly, RecordPassedRaises, AckLost,
         AckRaises, RecordFailedRaises, NakRaises, PublishDeadRaises, BuryRaises, CloseLost,
         CloseRaises, Goto, Return, Die, AfterFailure
  <2>2. InProgress /\ InProgress'
    BY <2>1 DEF InProgress
  <2> QED
    BY <1>1, <2>1, <2>2, InHandStays, CorrelationStepsLoop DEF CorrelationTypeOK
<1>7. CASE FetchRaises \/ Stop
  BY <1>7 DEF FetchRaises, Stop, Die
<1>8. CASE Surroundings
  BY <1>1, <1>8 DEF Surroundings, Arrive, AckWaitExpires, Freeze, Thaw, Unattended
<1>9. CASE (\E s \in Scene : AcceptScene(s)) \/ UNCHANGED correlationVars
  BY <1>1, <1>9 DEF AcceptScene, correlationVars, loopVars
<1> QED
  BY <1>2, <1>3, <1>4, <1>5, <1>6, <1>7, <1>8, <1>9 DEF CorrelationNext

\* The worker starts with nothing to be wrong about.
LEMMA CorrelationStart == CorrelationInit => CorrelationInv
<1> SUFFICES ASSUME CorrelationInit PROVE CorrelationInv
  OBVIOUS
<1>1. LoopInv
  BY LoopStart DEF CorrelationInit
<1>2. CorrelationTypeOK
  <2>1. results \in [Event -> AnalysisResult]
    BY AnalysisType DEF CorrelationInit
  <2> QED
    BY <1>1, <2>1 DEF CorrelationInit, LoopInv, CorrelationTypeOK
<1>3. SuccessIsAnalysed /\ AckedEventIsSettled
  BY DEF CorrelationInit, LoopInit, StreamInit, SuccessIsAnalysed, AckedEventIsSettled
<1>4. AnalysisHasItsCorrelations
  BY AnalysisType DEF CorrelationInit, AnalysisHasItsCorrelations, Correlated
<1> QED
  BY <1>1, <1>2, <1>3, <1>4 DEF CorrelationInv

\* Each step keeps the worker's invariant.
LEMMA CorrelationStep ==
    ASSUME CorrelationInv, [CorrelationNext]_correlationVars
    PROVE  CorrelationInv'
<1> USE DEF CorrelationInv
<1>1. LoopStep /\ LoopInv'
  BY CorrelationStepsLoop, LoopInvariant
<1>2. /\ analysed \subseteq analysed' /\ AnalysisHasItsCorrelations'
      /\ correlations' \subseteq Scene \X Event /\ analysed' \subseteq Event
      /\ results' \in [Event -> AnalysisResult]
  BY OnlyEvaluationsWrite, WriteKeeps
<1>3. CorrelationTypeOK'
  BY <1>1, <1>2, EvaluationsType, RestType DEF LoopInv, CorrelationTypeOK
<1>4. SuccessIsAnalysed'
  BY <1>2, AnalysisStep
<1>5. AckedEventIsSettled'
  <2> SUFFICES ASSUME NEW m \in acked' PROVE IdOf[m] \in analysed' \cup dlq'
    BY DEF AckedEventIsSettled
  <2>1. dlq \subseteq dlq'
    BY <1>1, WhatIsAcknowledged DEF LoopInv
  <2>2. CASE m \in acked
    BY <1>2, <2>1, <2>2 DEF AckedEventIsSettled
  <2>3. CASE m \notin acked
    <3>1. m = current /\ pc \in {"ack", "close", "closeRaising"}
      BY <1>1, <2>3, WhatIsAcknowledged DEF LoopInv
    <3>2. InHand \in analysed \cup dlq
      BY <3>1 DEF SuccessIsAnalysed, LoopInv, GivingUp
    <3> QED
      BY <1>2, <2>1, <3>1, <3>2 DEF InHand
  <2> QED
    BY <2>2, <2>3
<1> QED
  BY <1>1, <1>2, <1>3, <1>4, <1>5

\* The worker's invariant holds in every state it reaches.
THEOREM CorrelationInvariant == CorrelationSpec => []CorrelationInv
BY CorrelationStart, CorrelationStep, PTL DEF CorrelationSpec

\* Every variable stays in its range; in particular whenever a message is worked
\* on, the stream holds it, and what a thread writes is about events and scenes.
THEOREM CorrelationTypeCorrect == CorrelationSpec => []CorrelationTypeOK
<1>1. CorrelationInv => CorrelationTypeOK
  BY DEF CorrelationInv
<1> QED
  BY <1>1, CorrelationInvariant, PTL

\* RES-005: an acknowledged message has had its event analysed or was published as
\* a dead letter, whatever calls fail and however late threads commit.
THEOREM AckedEventsSettled == CorrelationSpec => []AckedEventIsSettled
<1>1. CorrelationInv => AckedEventIsSettled
  BY DEF CorrelationInv
<1> QED
  BY <1>1, CorrelationInvariant, PTL

\* A message is dead-lettered only after MaxAttempts deliveries, and its row in
\* dead_letters never precedes its copy in the dead-letter stream.
THEOREM DeadLettersLast == CorrelationSpec => []DeadLetterIsLastResort
<1>1. CorrelationInv => DeadLetterIsLastResort
  BY DEF CorrelationInv, LoopInv, LastResort, DeadLetterIsLastResort
<1> QED
  BY <1>1, CorrelationInvariant, PTL

\* RES-004: a message is delivered at most MaxAttempts times, and once more for each
\* call that failed.
THEOREM RetriesBounded == CorrelationSpec => []RetriesAreBounded
<1>1. CorrelationInv => RetriesAreBounded
  <2> SUFFICES ASSUME CorrelationInv, NEW m \in Msg PROVE delivered[m] <= MaxAttempts + faults
    BY DEF RetriesAreBounded
  <2>1. delivered[m] \in Nat /\ faults \in Nat
    BY DEF CorrelationInv, LoopInv, LoopTypeOK, StreamTypeOK
  <2> QED
    BY <2>1 DEF CorrelationInv, LoopInv, WithinBudget
<1> QED
  BY <1>1, CorrelationInvariant, PTL

\* Every scene an analysis says it evaluated or matched has its correlation row, also
\* when threads that were given up on overwrite some columns of a later one.
THEOREM CorrelationsExist == CorrelationSpec => []AnalysisHasItsCorrelations
<1>1. CorrelationInv => AnalysisHasItsCorrelations
  BY DEF CorrelationInv
<1> QED
  BY <1>1, CorrelationInvariant, PTL

-----------------------------------------------------------------------------
(* Repeated evaluations. *)

\* No wait for an evaluation has been given up.
Patient == timeouts = 0 /\ freezes = 0

\* What is evaluated is accepted, and scenes stay accepted.
EvaluatedIsAccepted ==
    /\ \A e \in Event : results[e].provenance \subseteq accepted
    /\ \A j \in evaluations : j.seen \subseteq accepted

\* Then the coroutine waits for the only evaluation there is, that one has selected
\* whatever an earlier one had, the row it loaded is the one there is, and the columns of
\* every row belong together.
EvaluationsFollow ==
    /\ frozen => freezes # 0
    /\ Patient =>
           /\ \A j \in evaluations : EvaluationAwaited(j)
           /\ \A j, k \in evaluations : j = k
           /\ \A j \in evaluations :
                  j.stage # "started" => results[Of(j)].provenance \subseteq j.seen
           /\ \A j \in evaluations :
                  j.stage = "rowsRead" /\ j.existed => j.loaded = results[Of(j)]
           /\ \A e \in Event : results[e] = Analysis(e, results[e].provenance)

GrowthInv == EvaluatedIsAccepted /\ EvaluationsFollow

\* What a step may do to the evaluations that run: one begins, goes on or ends, or all end
\* with the process.
LEMMA WhatEvaluationsDo ==
    ASSUME CorrelationTypeOK, [CorrelationNext]_correlationVars
    PROVE  \/ \E m \in Msg : /\ pc = "idle" /\ evaluations' = evaluations \cup {Started(m)}
                             /\ pc' = "working" /\ current' = m /\ attempt' = delivered[m] + 1
                             /\ m \in stored
           \/ \E j \in evaluations, k \in Evaluation :
                 /\ evaluations' = (evaluations \ {j}) \cup {k}
                 /\ k.message = j.message /\ k.attempt = j.attempt
                 /\ k.existed => j.existed \/ Of(j) \in analysed
                 /\ k.stage = "rowsRead" => k.loaded = results[Of(j)]
                 /\ UNCHANGED results
                 /\ \/ j.stage = "started" /\ k.seen = accepted
                    \/ j.stage # "started" /\ k.seen = j.seen
                 /\ UNCHANGED <<pc, current, attempt>>
           \/ \E j \in evaluations : evaluations' = evaluations \ {j}
           \/ evaluations' = {}
           \/ evaluations' = evaluations /\ (pc' = "working" \/ pc = "working" =>
                                  UNCHANGED <<pc, current, attempt>> \/ timeouts' # 0 \/ frozen)
<1> DEFINE Goal ==
           \/ \E m \in Msg : /\ pc = "idle" /\ evaluations' = evaluations \cup {Started(m)}
                             /\ pc' = "working" /\ current' = m /\ attempt' = delivered[m] + 1
                             /\ m \in stored
           \/ \E j \in evaluations, k \in Evaluation :
                 /\ evaluations' = (evaluations \ {j}) \cup {k}
                 /\ k.message = j.message /\ k.attempt = j.attempt
                 /\ k.existed => j.existed \/ Of(j) \in analysed
                 /\ k.stage = "rowsRead" => k.loaded = results[Of(j)]
                 /\ UNCHANGED results
                 /\ \/ j.stage = "started" /\ k.seen = accepted
                    \/ j.stage # "started" /\ k.seen = j.seen
                 /\ UNCHANGED <<pc, current, attempt>>
           \/ \E j \in evaluations : evaluations' = evaluations \ {j}
           \/ evaluations' = {}
           \/ evaluations' = evaluations /\ (pc' = "working" \/ pc = "working" =>
                                  UNCHANGED <<pc, current, attempt>> \/ timeouts' # 0 \/ frozen)
<1>1. ASSUME NEW m \in Msg, BeginEvent(m) PROVE Goal
  BY <1>1 DEF BeginEvent, Fetch, Deliver, Deliverable
<1>2. ASSUME Evaluate PROVE Goal
  <2> PICK j \in evaluations :
                ReadScenes(j) \/ ReadRows(j) \/ CommitAnalysis(j) \/ CommitCollides(j)
    BY <1>2 DEF Evaluate
  <2>1. j \in Evaluation
    BY DEF CorrelationTypeOK
  <2>2. ASSUME ReadScenes(j) PROVE Goal
    <3> DEFINE k == [j EXCEPT !.stage = "scenesRead", !.seen = accepted]
    <3>1. /\ k \in Evaluation /\ k.message = j.message /\ k.attempt = j.attempt
          /\ k.seen = accepted /\ k.existed = j.existed /\ k.stage # "rowsRead"
      BY <2>1 DEF CorrelationTypeOK, Evaluation, Stages
    <3>2. /\ j.stage = "started" /\ evaluations' = (evaluations \ {j}) \cup {k}
          /\ UNCHANGED <<pc, current, attempt, results>>
      BY <2>2 DEF ReadScenes, EvaluationGoesOn
    <3> HIDE DEF k
    <3> QED
      BY <3>1, <3>2
  <2>3. ASSUME ReadRows(j) PROVE Goal
    <3> DEFINE k == [j EXCEPT !.stage = "rowsRead",
                              !.known = j.seen \cap Correlated(Of(j)),
                              !.existed = Of(j) \in analysed,
                              !.loaded = results[Of(j)]]
    <3>0. Of(j) \in Event
      BY <2>1 DEF Of, Evaluation, Event
    <3>1. /\ j.seen \cap Correlated(Of(j)) \subseteq Scene
          /\ (Of(j) \in analysed) \in BOOLEAN
          /\ results[Of(j)] \in AnalysisResult
      BY <3>0 DEF Correlated, CorrelationTypeOK
    <3>2. /\ k \in Evaluation /\ k.message = j.message /\ k.attempt = j.attempt
          /\ k.seen = j.seen /\ k.existed = (Of(j) \in analysed)
          /\ k.loaded = results[Of(j)]
      BY <2>1, <3>1 DEF Evaluation, Stages
    <3>3. /\ j.stage # "started" /\ evaluations' = (evaluations \ {j}) \cup {k}
          /\ UNCHANGED <<pc, current, attempt, results>>
      BY <2>3 DEF ReadRows, EvaluationGoesOn
    <3> HIDE DEF k
    <3> QED
      BY <3>2, <3>3
  <2>4. ASSUME CommitAnalysis(j) \/ CommitCollides(j) PROVE Goal
    BY <2>4 DEF CommitAnalysis, CommitCollides, EvaluationEnds
  <2> QED
    BY <2>2, <2>3, <2>4
<1>3. ASSUME NEW j \in evaluations, EvaluationRaises(j) PROVE Goal
  BY <1>3 DEF EvaluationRaises, EvaluationEnds
<1>4. ASSUME GiveUpEvent PROVE Goal
  BY <1>4 DEF GiveUpEvent, CorrelationTypeOK
<1>5. ASSUME KillCorrelation \/ RestartCorrelation PROVE Goal
  BY <1>5 DEF KillCorrelation, RestartCorrelation, EvaluationsEnd
<1>6. ASSUME Settle \/ Bury, UNCHANGED <<evaluationVars, accepted>> PROVE Goal
  BY <1>6 DEF Settle, RecordPassed, Ack, RecordFailed, Nak, PublishDead, Close,
       CloseRaising, Bury, Goto, Return, Die, AfterFailure, evaluationVars
<1>7. ASSUME SettleBadly \/ BuryReplyLost, UNCHANGED <<evaluationVars, accepted>> PROVE Goal
  BY <1>7 DEF BuryReplyLost, SettleBadly, RecordPassedRaises, AckLost, AckRaises,
       RecordFailedRaises, NakRaises, PublishDeadRaises, BuryRaises, CloseLost, CloseRaises,
       Goto, Return, Die, AfterFailure, evaluationVars
<1>8. ASSUME FetchRaises \/ Stop \/ Surroundings, UNCHANGED <<evaluationVars, accepted>>
      PROVE  Goal
  BY <1>8 DEF FetchRaises, Stop, Die, Surroundings, Arrive, AckWaitExpires, Freeze, Thaw,
       Unattended, evaluationVars
<1>9. ASSUME (\E s \in Scene : AcceptScene(s)) \/ UNCHANGED correlationVars PROVE Goal
  BY <1>9 DEF AcceptScene, correlationVars, loopVars, evaluationVars
<1> HIDE DEF Goal
<1>10. Goal
  BY <1>1, <1>2, <1>3, <1>4, <1>5, <1>6, <1>7, <1>8, <1>9 DEF CorrelationNext
<1> QED
  BY <1>10 DEF Goal

\* Scenes stay accepted; freezes and waits that were given up are counted.
LEMMA WhatOnlyGrows ==
    ASSUME CorrelationTypeOK, [CorrelationNext]_correlationVars
    PROVE  /\ accepted \subseteq accepted'
           /\ timeouts' = timeouts \/ timeouts' = timeouts + 1
           /\ freezes' = freezes \/ freezes' = freezes + 1
           /\ frozen' => frozen \/ freezes' # 0
<1> DEFINE Goal == /\ accepted \subseteq accepted'
                   /\ timeouts' = timeouts \/ timeouts' = timeouts + 1
                   /\ freezes' = freezes \/ freezes' = freezes + 1
                   /\ frozen' => frozen \/ freezes' # 0
<1> USE DEF envVars, Fault, DbReplies
<1>1. ASSUME NEW m \in Msg, BeginEvent(m) PROVE Goal
  BY <1>1 DEF BeginEvent, Fetch
<1>2. ASSUME Evaluate PROVE Goal
  BY <1>2 DEF Evaluate, ReadScenes, ReadRows, EvaluationGoesOn, CommitAnalysis,
       CommitCollides, EvaluationEnds
<1>3. ASSUME NEW j \in evaluations, EvaluationRaises(j) PROVE Goal
  BY <1>3 DEF EvaluationRaises, EvaluationEnds
<1>4. ASSUME GiveUpEvent PROVE Goal
  BY <1>4 DEF GiveUpEvent
<1>5. ASSUME KillCorrelation \/ RestartCorrelation PROVE Goal
  BY <1>5 DEF KillCorrelation, RestartCorrelation, EvaluationsEnd, Kill, Restart
<1>6. ASSUME Settle \/ Bury, UNCHANGED <<evaluationVars, accepted>> PROVE Goal
  BY <1>6 DEF Settle, RecordPassed, Ack, RecordFailed, Nak, PublishDead, Close,
       CloseRaising, Bury, evaluationVars
<1>7. ASSUME SettleBadly \/ BuryReplyLost, UNCHANGED <<evaluationVars, accepted>> PROVE Goal
  BY <1>7 DEF BuryReplyLost, SettleBadly, RecordPassedRaises, AckLost, AckRaises,
       RecordFailedRaises, NakRaises, PublishDeadRaises, BuryRaises, CloseLost, CloseRaises,
       DbRaises, evaluationVars
<1>8. ASSUME FetchRaises \/ Stop \/ Surroundings, UNCHANGED <<evaluationVars, accepted>>
      PROVE  Goal
  BY <1>8 DEF FetchRaises, Stop, Surroundings, Arrive, AckWaitExpires, Freeze, Thaw,
       evaluationVars, CorrelationTypeOK, LoopTypeOK
<1>9. ASSUME (\E s \in Scene : AcceptScene(s)) \/ UNCHANGED correlationVars PROVE Goal
  BY <1>9 DEF AcceptScene, correlationVars, loopVars, evaluationVars
<1> HIDE DEF Goal
<1>10. Goal
  BY <1>1, <1>2, <1>3, <1>4, <1>5, <1>6, <1>7, <1>8, <1>9 DEF CorrelationNext
<1> QED
  BY <1>10 DEF Goal

\* Whatever is evaluated was accepted.
LEMMA AcceptedStep ==
    ASSUME CorrelationTypeOK, EvaluatedIsAccepted, [CorrelationNext]_correlationVars
    PROVE  EvaluatedIsAccepted'
<1> USE DEF EvaluatedIsAccepted
<1>1. accepted \subseteq accepted'
  BY WhatOnlyGrows
<1>2. ASSUME NEW e \in Event PROVE results'[e].provenance \subseteq accepted
  <2>1. CASE UNCHANGED results
    BY <2>1
  <2>2. ASSUME NEW j \in evaluations, Write(j) PROVE results'[e].provenance \subseteq accepted
    <3>1. PICK columns :
              results' = [results EXCEPT ![Of(j)] =
                             Updated(results[Of(j)], Conclusion(j), columns)]
      BY <2>2, WhatIsWritten
    <3>2. /\ Of(j) \in Event /\ j.seen \subseteq Scene /\ Conclusion(j) \in AnalysisResult
          /\ results[Of(j)] \in AnalysisResult
      BY <2>2, WhatIsWritten DEF CorrelationTypeOK
    <3>3. Conclusion(j).provenance = j.seen
      BY <3>2, AnalysisType DEF Conclusion
    <3>4. Updated(results[Of(j)], Conclusion(j), columns).provenance \in
              {results[Of(j)].provenance, j.seen}
      BY <3>2, <3>3, UpdatedColumns
    <3> QED
      BY <3>1, <3>2, <3>4 DEF CorrelationTypeOK
  <2> QED
    BY <2>1, <2>2, OnlyEvaluationsWrite DEF WriteStep
<1>3. ASSUME NEW k \in evaluations' PROVE k.seen \subseteq accepted
  <2>1. ASSUME NEW m \in Msg PROVE Started(m).seen = {}
    BY DEF Started
  <2> QED
    BY <2>1, WhatEvaluationsDo
<1> QED
  BY <1>1, <1>2, <1>3

\* Without a wait that was given up, an evaluation writes its conclusion as a whole.
LEMMA WholeWrite ==
    ASSUME CorrelationTypeOK, GrowthInv, Patient,
           NEW j \in evaluations, j.stage = "rowsRead", Write(j)
    PROVE  /\ Of(j) \in Event
           /\ results' = [results EXCEPT ![Of(j)] = Conclusion(j)]
           /\ Conclusion(j) = Analysis(Of(j), Conclusion(j).provenance)
           /\ Conclusion(j).provenance = j.seen
<1>1. /\ Of(j) \in Event /\ j.seen \subseteq Scene /\ Conclusion(j) \in AnalysisResult
      /\ results[Of(j)] \in AnalysisResult
  BY WhatIsWritten DEF CorrelationTypeOK
<1>2. PICK columns \in ColumnsSet(j) :
          results' = [results EXCEPT ![Of(j)] =
                         Updated(results[Of(j)], Conclusion(j), columns)]
  BY WhatIsWritten
<1>3. {c \in Column : Conclusion(j)[c] # results[Of(j)][c]} \subseteq columns
  <2>1. CASE j.existed
    BY <2>1 DEF ColumnsSet, Changed, GrowthInv, EvaluationsFollow
  <2>2. CASE ~j.existed
    BY <2>2 DEF ColumnsSet
  <2> QED
    BY <2>1, <2>2
<1>4. Updated(results[Of(j)], Conclusion(j), columns) = Conclusion(j)
  BY <1>1, <1>3, WholeUpdate
<1>5. Conclusion(j).provenance = j.seen
  BY <1>1, AnalysisType DEF Conclusion
<1> QED
  BY <1>1, <1>2, <1>4, <1>5 DEF Conclusion

\* Without a wait that was given up, evaluations follow each other, and each writes what the
\* ones before it wrote, and more.
LEMMA GrowthStep ==
    ASSUME CorrelationTypeOK, GrowthInv, [CorrelationNext]_correlationVars
    PROVE  /\ EvaluationsFollow'
           /\ Patient => \A e \in Event :
                  /\ results[e].provenance \subseteq results'[e].provenance
                  /\ results'[e] = Analysis(e, results'[e].provenance)
<1> USE DEF GrowthInv, EvaluatedIsAccepted, EvaluationsFollow
<1>1. /\ Patient' => Patient
      /\ frozen' => freezes' # 0
  BY WhatOnlyGrows DEF Patient, CorrelationTypeOK, LoopTypeOK
<1>2. ASSUME Patient, NEW e \in Event
      PROVE  /\ results[e].provenance \subseteq results'[e].provenance
             /\ results'[e].provenance \subseteq accepted
             /\ results'[e] = Analysis(e, results'[e].provenance)
             /\ \A j \in evaluations :
                    j.stage # "started" /\ e = Of(j) => results'[e].provenance \subseteq j.seen
  <2>1. CASE UNCHANGED results
    BY <1>2, <2>1
  <2>2. ASSUME NEW j \in evaluations, j.stage = "rowsRead", Write(j)
        PROVE  /\ \/ results'[e] = results[e]
                  \/ /\ e = Of(j) /\ results'[e].provenance = j.seen
                     /\ results'[e] = Analysis(e, results'[e].provenance)
               /\ results[Of(j)].provenance \subseteq j.seen
    BY <1>2, <2>2, WholeWrite DEF CorrelationTypeOK
  <2> QED
    BY <1>2, <2>1, <2>2, OnlyEvaluationsWrite DEF WriteStep
<1>3. ASSUME Patient' PROVE \A j, k \in evaluations' : j = k
  BY <1>1, <1>3, WhatEvaluationsDo DEF EvaluationAwaited
<1>4. ASSUME Patient' PROVE \A j \in evaluations' : EvaluationAwaited(j)'
  <2>1. ASSUME NEW m \in Msg
        PROVE  Started(m).message = m /\ Started(m).attempt = delivered[m] + 1
    BY DEF Started
  <2>2. ~frozen /\ timeouts' = 0
    BY <1>1, <1>4 DEF Patient
  <2> QED
    BY <1>1, <1>4, <2>1, <2>2, WhatEvaluationsDo DEF EvaluationAwaited
<1>5. ASSUME Patient', NEW k \in evaluations', k.stage # "started"
      PROVE  results'[Of(k)].provenance \subseteq k.seen
  <2>1. ASSUME NEW m \in Msg PROVE Started(m).stage = "started"
    BY DEF Started
  <2>2. CASE k \in evaluations
    BY <1>1, <1>2, <1>5, <2>2 DEF Of, CorrelationTypeOK, Evaluation, Event
  <2>3. CASE k \notin evaluations
    <3>1. PICK j \in evaluations : /\ k \in Evaluation /\ k.message = j.message
                            /\ \/ j.stage = "started" /\ k.seen = accepted
                               \/ j.stage # "started" /\ k.seen = j.seen
      BY <1>5, <2>1, <2>3, WhatEvaluationsDo
    <3>2. Of(k) = Of(j) /\ Of(k) \in Event
      BY <3>1 DEF Of, Evaluation, Event
    <3> QED
      BY <1>1, <1>2, <1>5, <3>1, <3>2
  <2> QED
    BY <2>2, <2>3
<1>6. ASSUME Patient', NEW k \in evaluations', k.stage = "rowsRead", k.existed
      PROVE  k.loaded = results'[Of(k)]
  <2>1. ASSUME NEW m \in Msg PROVE Started(m).stage = "started"
    BY DEF Started
  <2>2. CASE k \in evaluations
    <3>1. UNCHANGED results
      BY <1>1, <1>6, <2>2, OnlyEvaluationsWrite DEF WriteStep
    <3> QED
      BY <1>1, <1>6, <2>2, <3>1
  <2>3. CASE k \notin evaluations
    <3>1. PICK j \in evaluations : /\ k \in Evaluation /\ k.message = j.message
                            /\ k.loaded = results[Of(j)] /\ UNCHANGED results
      BY <1>6, <2>1, <2>3, WhatEvaluationsDo
    <3> QED
      BY <3>1 DEF Of
  <2> QED
    BY <2>2, <2>3
<1> QED
  BY <1>1, <1>2, <1>3, <1>4, <1>5, <1>6

\* There is nothing to lose at first.
LEMMA GrowthStart == CorrelationInit => GrowthInv
<1> SUFFICES ASSUME CorrelationInit PROVE GrowthInv
  OBVIOUS
<1>1. ASSUME NEW e \in Event
      PROVE  results[e] = Analysis(e, {}) /\ results[e].provenance = {}
  BY AnalysisType DEF CorrelationInit
<1> QED
  BY <1>1 DEF CorrelationInit, LoopInit, GrowthInv, EvaluatedIsAccepted, EvaluationsFollow

\* COR-001: as long as no wait for an evaluation has been given up, a repeated evaluation,
\* after a lost acknowledgement, a failed record or a restart, never loses a scene that an
\* earlier one had evaluated, and the columns of an analysis belong together.
THEOREM AnalysesGrow == CorrelationSpec => AnalysisGrows
<1>1. CorrelationInit => CorrelationInv /\ GrowthInv
  BY CorrelationStart, GrowthStart
<1>2. CorrelationInv /\ GrowthInv /\ [CorrelationNext]_correlationVars =>
          CorrelationInv' /\ GrowthInv'
  BY CorrelationStep, AcceptedStep, GrowthStep DEF CorrelationInv, GrowthInv
<1>3. ASSUME CorrelationInv, GrowthInv, [CorrelationNext]_correlationVars
      PROVE  [timeouts = 0 /\ freezes = 0 =>
                 \A e \in Event :
                     /\ results[e].provenance \subseteq results'[e].provenance
                     /\ results'[e] = Analysis(e, results'[e].provenance)]_correlationVars
  BY <1>3, GrowthStep DEF CorrelationInv, Patient
<1> QED
  BY <1>1, <1>2, <1>3, PTL DEF CorrelationSpec, AnalysisGrows

------------------------------------------------------------------------------
(* The imagery worker. *)

\* Once its work has succeeded, the scene of the message in hand is accepted.
SuccessIsAccepted == pc \in {"recordPassed", "ack"} => status[InHand] = "accepted"

InHandOf(j) == pc = "working" /\ j.message = current /\ j.attempt = attempt

\* A thread belongs to a delivery that has begun, and the one of the delivery in
\* hand is started last.
CompletionsAreOfThePast ==
    \A j \in completions :
        /\ j.attempt <= delivered[j.message]
        /\ InHandOf(j) => step = "complete"

\* While the worker waits for it, a thread that found its scene accepted is right.
LoadedHolds ==
    \A j \in completions :
        InHandOf(j) /\ j.stage = "loaded" /\ j.loaded = "accepted" => status[InHand] = "accepted"

\* Something went wrong on the way of a scene.
Trouble(s) == faults > 0 \/ slowCalls > 0 \/ freezes > 0 \/ objects[s] # "stored"

\* A delivery that has failed has a reason, and so has a bad copy; the database is
\* frozen only if it was frozen.
FailureHasReason ==
    /\ pc \in {"recordFailed", "nak", "publishDead", "bury", "close", "closeRaising"}
           => Trouble(InHand)
    /\ pc = "working" /\ copy # "stored" /\ step \notin {"describe", "download"}
           => objects[InHand] # "stored"
    /\ frozen => freezes > 0

ImageryInv ==
    /\ LoopInv
    /\ ImageryTypeOK
    /\ CompletionsAreOfThePast
    /\ LoadedHolds
    /\ SuccessIsAccepted
    /\ AckedSceneIsSettled
    /\ RejectedIsDeadLettered
    /\ FailureHasReason

\* Every step of the worker is a step of the loop, or leaves the loop alone.
LEMMA ImageryStepsLoop ==
    ASSUME [ImageryNext]_imageryVars
    PROVE  LoopStep
<1>1. CASE \E m \in Msg : BeginScene(m)
  BY <1>1 DEF BeginScene, LoopStep, Looping
<1>2. CASE Describe \/ Download \/ Inspect
  BY <1>2 DEF Describe, Download, Inspect, Onward, DbReplies, LoopStep, Aside, EnvStep
<1>3. ASSUME NEW at, Abort(at), EnvStep PROVE LoopStep
  BY <1>3 DEF Abort, Goto, LoopStep, WorkOver
<1>4. CASE ObjectMissing \/ DigestDiffers \/ DescribeRaises \/ DownloadRaises \/ GiveUpScene
  BY <1>3, <1>4 DEF ObjectMissing, DigestDiffers, DescribeRaises, DownloadRaises,
       GiveUpScene, DbRaises, EnvStep
<1>5. ASSUME NEW j \in completions, NEW next \in {"recordPassed", "recordFailed"},
             CompletionEnds(j, next), EnvStep
      PROVE  LoopStep
  BY <1>5 DEF CompletionEnds, CompletionAwaited, AtWork, LoopStep, WorkOver, Aside
<1>6. CASE Complete
  <2> PICK j \in completions : Load(j) \/ CommitScene(j)
    BY <1>6 DEF Complete
  <2>1. CASE Load(j)
    BY <2>1 DEF Load, DbReplies, LoopStep, Aside, EnvStep
  <2>2. CASE CommitScene(j)
    BY <1>5, <2>2 DEF CommitScene, DbReplies, EnvStep
  <2> QED
    BY <2>1, <2>2
<1>7. CASE \E j \in completions : CompletionRaises(j)
  BY <1>5, <1>7 DEF CompletionRaises, EnvStep
<1>8. CASE BuryScene \/ BurySceneReplyLost \/ KillImagery \/ RestartImagery
  BY <1>8 DEF BuryScene, BurySceneReplyLost, KillImagery, RestartImagery, CompletionsEnd,
       LoopStep, Looping
<1>9. CASE Settle \/ SettleBadly \/ FetchRaises \/ Stop \/ Surroundings
  BY <1>9 DEF LoopStep, Looping
<1>10. CASE (\E s \in SceneKey : Damage(s)) \/ UNCHANGED imageryVars
  BY <1>10 DEF Damage, imageryVars, loopVars, LoopStep, Aside, EnvStep
<1> QED
  BY <1>1, <1>2, <1>4, <1>6, <1>7, <1>8, <1>9, <1>10 DEF ImageryNext, Work

\* How a step treats the threads and the status of scenes.
Untouched == UNCHANGED <<completions, status>>
Starts ==
    /\ AtWork("inspect") /\ step' = "complete" /\ UNCHANGED <<pc, current, attempt, status>>
    /\ completions' = completions \cup
           {[message |-> current, attempt |-> attempt, stage |-> "started", loaded |-> "pending"]}
Loads(j) == 
    /\ UNCHANGED <<pc, current, attempt, step, status>>
    /\ completions' = (completions \ {j}) \cup
           {[j EXCEPT !.stage = "loaded", !.loaded = status[IdOf[j.message]]]}
Ends(j) ==
    /\ completions' = completions \ {j} /\ UNCHANGED <<current, attempt, step, dlq>>
    /\ \/ pc' = pc /\ (UNCHANGED status \/ Accept(j))
       \/ CompletionAwaited(j) /\ pc' = "recordFailed" /\ (UNCHANGED status \/ Accept(j))
       \/ CompletionAwaited(j) /\ pc' = "recordPassed" /\ j.stage = "loaded" /\ Accept(j)
Rejects ==
    /\ pc = "bury" /\ pc' # "working" /\ pc' \notin {"recordPassed", "ack"}
    /\ completions' = completions /\ status' = [status EXCEPT ![InHand] = "rejected"]
    /\ deadLetters' = deadLetters \cup {InHand}

\* Those are the only ways; where threads and statuses are left alone, a message
\* that is worked on has just begun or goes on.
LEMMA WhatWorkDoes ==
    ASSUME [ImageryNext]_imageryVars
    PROVE  \/ /\ Untouched
              /\ \/ UNCHANGED <<pc, current, attempt, step>>
                 \/ pc' = "working" /\ step # "complete" /\ UNCHANGED <<pc, current, attempt>>
                 \/ \E m \in Msg : BeginScene(m)
                 \/ pc' # "working" /\ pc' # "recordPassed" /\ (pc' = "ack" => pc = "recordPassed")
           \/ completions' = {} /\ pc' \in {"dead", "idle"} /\ UNCHANGED status
           \/ Starts \/ (\E j \in completions : Loads(j) \/ Ends(j)) \/ Rejects
<1>1. CASE \E m \in Msg : BeginScene(m)
  BY <1>1 DEF BeginScene, Untouched
<1>2. CASE Describe \/ Download
  BY <1>2 DEF Describe, Download, Onward, AtWork, Untouched
<1>3. CASE Inspect
  BY <1>3 DEF Inspect, Onward, Starts
<1>4. CASE ObjectMissing \/ DigestDiffers \/ DescribeRaises \/ DownloadRaises \/ GiveUpScene
  BY <1>4 DEF ObjectMissing, DigestDiffers, DescribeRaises, DownloadRaises, GiveUpScene,
       Abort, Goto, Untouched
<1>5. CASE Complete
  BY <1>5 DEF Complete, Load, CommitScene, CompletionEnds, Loads, Ends, tableVars
<1>6. CASE \E j \in completions : CompletionRaises(j)
  BY <1>6 DEF CompletionRaises, CompletionEnds, Ends, tableVars
<1>7. CASE BuryScene \/ BurySceneReplyLost
  BY <1>7 DEF BuryScene, BurySceneReplyLost, Bury, BuryReplyLost, Reject, Goto, Rejects
<1>8. CASE KillImagery \/ RestartImagery
  BY <1>8 DEF KillImagery, CompletionsEnd, Kill, RestartImagery, Restart
<1>9. CASE (Settle \/ SettleBadly) /\ UNCHANGED completionVars
  BY <1>9 DEF Settle, RecordPassed, Ack, RecordFailed, Nak, PublishDead, Close, CloseRaising,
       SettleBadly, RecordPassedRaises, AckLost, AckRaises, RecordFailedRaises,
       NakRaises, PublishDeadRaises, BuryRaises, CloseLost, CloseRaises, Goto, Return, Die,
       AfterFailure, completionVars, Untouched
<1>10. CASE (FetchRaises \/ Stop) /\ UNCHANGED completionVars
  BY <1>10 DEF FetchRaises, Stop, Die, completionVars, Untouched
<1>11. CASE Surroundings /\ UNCHANGED completionVars
  BY <1>11 DEF Surroundings, Arrive, AckWaitExpires, Freeze, Thaw, Unattended,
       completionVars, Untouched
<1>12. CASE (\E s \in SceneKey : Damage(s)) \/ UNCHANGED imageryVars
  BY <1>12 DEF Damage, imageryVars, loopVars, completionVars, Untouched
<1> QED
  BY <1>1, <1>2, <1>3, <1>4, <1>5, <1>6, <1>7, <1>8, <1>9, <1>10, <1>11, <1>12 DEF
       ImageryNext, Work

\* The work keeps its types, and no damage is repaired.
LEMMA WorkType ==
    ASSUME ImageryTypeOK, [ImageryNext]_imageryVars
    PROVE  /\ step' \in {"describe", "download", "inspect", "complete"}
           /\ copy' \in Contents /\ objects' \in [SceneKey -> Contents]
           /\ slowCalls' \in 0..MaxSlowCalls /\ damages' \in 0..MaxDamages
           /\ slowCalls' >= slowCalls
           /\ \A s \in SceneKey : objects[s] # "stored" => objects'[s] # "stored"
<1> USE DEF ImageryTypeOK
<1>1. CASE \E m \in Msg : BeginScene(m)
  BY <1>1 DEF BeginScene, Contents
<1>2. CASE Describe \/ Download \/ Inspect
  <2>1. pc = "working" => InHand \in SceneKey
    BY DEF LoopTypeOK, StreamTypeOK, InHand, SceneKey
  <2> QED
    BY <1>2, <2>1 DEF Describe, Download, Inspect, Onward, AtWork
<1>3. CASE ObjectMissing \/ DigestDiffers \/ DescribeRaises \/ DownloadRaises \/ GiveUpScene
  <2>1. UNCHANGED <<step, copy, objects, damages>>
    BY <1>3 DEF ObjectMissing, DigestDiffers, DescribeRaises, DownloadRaises, GiveUpScene, Abort
  <2>2. slowCalls' = slowCalls \/ (slowCalls < MaxSlowCalls /\ slowCalls' = slowCalls + 1)
    BY <1>3 DEF ObjectMissing, DigestDiffers, DescribeRaises, DownloadRaises, GiveUpScene
  <2>3. slowCalls' \in 0..MaxSlowCalls /\ slowCalls' >= slowCalls
    BY <2>2
  <2> QED
    BY <2>1, <2>3
<1>4. CASE Complete \/ \E j \in completions : CompletionRaises(j)
  <2>1. UNCHANGED <<step, copy, objects, slowCalls, damages>>
    BY <1>4 DEF Complete, Load, CommitScene, CompletionRaises, CompletionEnds
  <2> QED
    BY <2>1
<1>5. CASE BuryScene \/ BurySceneReplyLost \/ KillImagery \/ RestartImagery
  BY <1>5 DEF BuryScene, BurySceneReplyLost, Reject, KillImagery, RestartImagery, CompletionsEnd
<1>6. CASE UNCHANGED completionVars
  BY <1>6 DEF completionVars
<1>7. CASE \E s \in SceneKey : Damage(s)
  BY <1>7 DEF Damage, Contents
<1>8. CASE UNCHANGED imageryVars
  BY <1>8 DEF imageryVars, completionVars
<1> QED
  BY <1>1, <1>2, <1>3, <1>4, <1>5, <1>6, <1>7, <1>8 DEF ImageryNext, Work

\* What a thread is about.
LEMMA AboutCompletions ==
    ASSUME ImageryTypeOK, NEW j \in completions
    PROVE  /\ j \in Completion /\ j.message \in Msg /\ j.attempt \in 1..MaxDeliveries
           /\ j.loaded \in Statuses /\ IdOf[j.message] \in SceneKey
           /\ status[IdOf[j.message]] \in Statuses
BY DEF ImageryTypeOK, Completion, SceneKey

\* Threads and statuses keep their types.
LEMMA CompletionsType ==
    ASSUME ImageryTypeOK, [ImageryNext]_imageryVars
    PROVE  completions' \subseteq Completion /\ status' \in [SceneKey -> Statuses]
<1> USE DEF ImageryTypeOK, Statuses
<1>1. CASE Untouched \/ (completions' = {} /\ UNCHANGED status)
  BY <1>1 DEF Untouched
<1>2. CASE Starts
  <2>1. current \in Msg /\ attempt \in 1..MaxDeliveries
    BY <1>2 DEF Starts, AtWork, LoopTypeOK, StreamTypeOK
  <2>2. [message |-> current, attempt |-> attempt, stage |-> "started", loaded |-> "pending"]
            \in Completion
    BY <2>1 DEF Completion
  <2> QED
    BY <1>2, <2>2 DEF Starts
<1>3. ASSUME NEW j \in completions, Loads(j)
      PROVE  completions' \subseteq Completion /\ status' \in [SceneKey -> Statuses]
  <2>1. [j EXCEPT !.stage = "loaded", !.loaded = status[IdOf[j.message]]] \in Completion
    BY AboutCompletions DEF Completion
  <2> QED
    BY <1>3, <2>1 DEF Loads
<1>4. ASSUME NEW j \in completions, Ends(j)
      PROVE  completions' \subseteq Completion /\ status' \in [SceneKey -> Statuses]
  BY <1>4, AboutCompletions DEF Ends, Accept
<1>5. CASE Rejects
  BY <1>5 DEF Rejects
<1> QED
  BY <1>1, <1>2, <1>3, <1>4, <1>5, WhatWorkDoes

\* Which delivery is in hand does not change while the worker is at work, but for
\* a message that has just been fetched.
LEMMA StillInHand ==
    ASSUME ImageryTypeOK, [ImageryNext]_imageryVars, pc' = "working"
    PROVE  \/ pc = "working" /\ current' = current /\ attempt' = attempt
           \/ \E m \in Msg : BeginScene(m)
<1>1. CASE pc = "working"
  <2>1. InProgress /\ InProgress'
    BY <1>1 DEF InProgress
  <2> QED
    BY <1>1, <2>1, InHandStays, ImageryStepsLoop DEF ImageryTypeOK
<1>2. CASE pc # "working"
  BY <1>2, WhatWorkDoes DEF Starts, AtWork, Loads, Ends, CompletionAwaited, Rejects
<1> QED
  BY <1>1, <1>2

\* The deliveries of a message are never taken back.
LEMMA DeliveriesStay ==
    ASSUME ImageryTypeOK, [ImageryNext]_imageryVars, NEW m \in Msg
    PROVE  delivered[m] \in Nat /\ delivered'[m] \in Nat /\ delivered'[m] >= delivered[m]
BY ImageryStepsLoop, DeliveriesGrow DEF ImageryTypeOK, LoopTypeOK, StreamTypeOK

\* A delivery that begins has no thread yet.
LEMMA FreshDelivery ==
    ASSUME ImageryTypeOK, CompletionsAreOfThePast, NEW k \in completions, NEW m \in Msg,
           BeginScene(m)
    PROVE  ~InHandOf(k)'
<1>1. current' = m /\ attempt' = delivered[m] + 1 /\ delivered[m] \in Nat
  BY DEF BeginScene, Fetch, ImageryTypeOK, LoopTypeOK, StreamTypeOK
<1>2. k.attempt <= delivered[k.message]
  BY DEF CompletionsAreOfThePast
<1>3. k.attempt \in Nat
  BY AboutCompletions
<1> QED
  BY <1>1, <1>2, <1>3 DEF InHandOf

\* Threads belong to deliveries that have begun.
LEMMA CompletionsStep ==
    ASSUME ImageryTypeOK, LoopInv, CompletionsAreOfThePast, [ImageryNext]_imageryVars
    PROVE  CompletionsAreOfThePast'
<1> SUFFICES ASSUME NEW k \in completions'
             PROVE  /\ k.attempt <= delivered'[k.message]
                    /\ InHandOf(k)' => step' = "complete"
  BY DEF CompletionsAreOfThePast
<1>1. ASSUME NEW j \in completions PROVE j.attempt <= delivered'[j.message]
  BY <1>1, AboutCompletions, DeliveriesStay DEF CompletionsAreOfThePast
<1>2. ASSUME k \in completions, \E m \in Msg : BeginScene(m) PROVE ~InHandOf(k)'
  BY <1>2, FreshDelivery
<1>3. CASE Untouched \/ (completions' = {} /\ UNCHANGED status)
  <2>1. k \in completions
    BY <1>3 DEF Untouched
  <2>2. ASSUME InHandOf(k)', ~(\E m \in Msg : BeginScene(m)) PROVE step' = "complete"
    <3>1. InHandOf(k)
      BY <2>2, StillInHand DEF InHandOf
    <3>2. step = "complete" /\ pc = "working"
      BY <2>1, <3>1 DEF CompletionsAreOfThePast, InHandOf
    <3>3. pc' = "working"
      BY <2>2 DEF InHandOf
    <3> QED
      BY <2>2, <3>2, <3>3, WhatWorkDoes DEF Starts, Loads, Ends, Rejects
  <2> QED
    BY <1>1, <1>2, <2>1, <2>2
<1>4. CASE Starts
  <2>1. current \in Msg /\ attempt = delivered[current]
    BY <1>4 DEF Starts, AtWork, LoopInv, AttemptIsCurrent, InProgress, LoopTypeOK, StreamTypeOK
  <2>2. attempt <= delivered'[current]
    BY <2>1, DeliveriesStay
  <2> QED
    BY <1>1, <1>4, <2>2 DEF Starts
<1>5. ASSUME NEW j \in completions, Loads(j)
      PROVE  k.attempt <= delivered'[k.message] /\ (InHandOf(k)' => step' = "complete")
  <2> DEFINE l == [j EXCEPT !.stage = "loaded", !.loaded = status[IdOf[j.message]]]
  <2>1. l.message = j.message /\ l.attempt = j.attempt
    BY <1>5, AboutCompletions DEF Completion
  <2>2. CASE k \in completions
    BY <1>1, <1>5, <2>2 DEF Loads, InHandOf, CompletionsAreOfThePast
  <2>3. CASE k = l
    BY <1>1, <1>5, <2>1, <2>3 DEF Loads, InHandOf, CompletionsAreOfThePast
  <2> QED
    BY <1>5, <2>2, <2>3 DEF Loads
<1>6. ASSUME NEW j \in completions, Ends(j)
      PROVE  k.attempt <= delivered'[k.message] /\ (InHandOf(k)' => step' = "complete")
  <2>1. k \in completions
    BY <1>6 DEF Ends
  <2> QED
    BY <1>1, <1>6, <2>1 DEF Ends, InHandOf, CompletionsAreOfThePast
<1>7. CASE Rejects
  BY <1>1, <1>7 DEF Rejects, InHandOf
<1> QED
  BY <1>3, <1>4, <1>5, <1>6, <1>7, WhatWorkDoes

\* A thread the worker waits for keeps being right about an accepted scene.
LEMMA LoadedStep ==
    ASSUME ImageryTypeOK, CompletionsAreOfThePast, LoadedHolds, [ImageryNext]_imageryVars
    PROVE  LoadedHolds'
<1> SUFFICES ASSUME NEW k \in completions', InHandOf(k)', k.stage = "loaded", k.loaded = "accepted"
             PROVE  status'[InHand'] = "accepted"
  BY DEF LoadedHolds
<1>1. pc' = "working"
  BY DEF InHandOf
<1>2. ASSUME k \in completions, ~(\E m \in Msg : BeginScene(m))
      PROVE  status[InHand] = "accepted" /\ InHand' = InHand /\ InHand \in SceneKey
  <2>1. InHandOf(k) /\ current' = current
    BY <1>1, <1>2, StillInHand DEF InHandOf
  <2> QED
    BY <1>2, <2>1, AboutCompletions DEF LoadedHolds, InHand, InHandOf
<1>3. CASE Untouched \/ (completions' = {} /\ UNCHANGED status)
  <2>1. k \in completions
    BY <1>3 DEF Untouched
  <2>2. ~(\E m \in Msg : BeginScene(m))
    BY <2>1, FreshDelivery
  <2> QED
    BY <1>2, <1>3, <2>1, <2>2 DEF Untouched
<1>4. CASE Starts
  <2>1. k \in completions /\ ~(\E m \in Msg : BeginScene(m))
    BY <1>4 DEF Starts, AtWork, BeginScene, Fetch
  <2> QED
    BY <1>2, <1>4, <2>1 DEF Starts
<1>5. ASSUME NEW j \in completions, Loads(j) PROVE status'[InHand'] = "accepted"
  <2> DEFINE l == [j EXCEPT !.stage = "loaded", !.loaded = status[IdOf[j.message]]]
  <2>1. l.message = j.message /\ l.loaded = status[IdOf[j.message]]
    BY <1>5, AboutCompletions DEF Completion
  <2>2. CASE k \in completions
    BY <1>1, <1>2, <1>5, <2>2 DEF Loads, BeginScene, Fetch
  <2>3. CASE k = l
    BY <1>5, <2>1, <2>3 DEF Loads, InHandOf, InHand
  <2> QED
    BY <1>5, <2>2, <2>3 DEF Loads
<1>6. ASSUME NEW j \in completions, Ends(j) PROVE status'[InHand'] = "accepted"
  <2>1. k \in completions /\ ~(\E m \in Msg : BeginScene(m))
    BY <1>1, <1>6 DEF Ends, BeginScene, Fetch
  <2> QED
    BY <1>1, <1>2, <1>6, <2>1, AboutCompletions DEF Ends, Accept, ImageryTypeOK
<1>7. CASE Rejects
  BY <1>1, <1>7 DEF Rejects
<1> QED
  BY <1>3, <1>4, <1>5, <1>6, <1>7, WhatWorkDoes

\* A status changes by a thread that accepts, or by a burial that rejects.
LEMMA StatusStep ==
    ASSUME ImageryTypeOK, [ImageryNext]_imageryVars, NEW s \in SceneKey
    PROVE  \/ status'[s] = status[s]
           \/ status'[s] = "accepted"
           \/ pc = "bury" /\ s = InHand /\ status'[s] = "rejected" /\ s \in deadLetters'
<1>1. CASE Untouched \/ (completions' = {} /\ UNCHANGED status) \/ Starts
         \/ \E j \in completions : Loads(j)
  BY <1>1 DEF Untouched, Starts, Loads
<1>2. ASSUME NEW j \in completions, Ends(j)
      PROVE  status'[s] = status[s] \/ status'[s] = "accepted"
  BY <1>2, AboutCompletions DEF Ends, Accept, ImageryTypeOK
<1>3. CASE Rejects
  BY <1>3 DEF Rejects, ImageryTypeOK
<1> QED
  BY <1>1, <1>2, <1>3, WhatWorkDoes

\* What clients can see of a step: a scene is accepted, its dead letter published, or it
\* is rejected once its dead letter has been published; never two of these at once.
LEMMA WhatIsSeen ==
    ASSUME LoopInv, ImageryTypeOK, [ImageryNext]_imageryVars
    PROVE  \/ UNCHANGED <<status, dlq>>
           \/ \E s \in SceneKey : dlq' = dlq \cup {s} /\ UNCHANGED status
           \/ \E s \in SceneKey : status' = [status EXCEPT ![s] = "accepted"] /\ UNCHANGED dlq
           \/ \E s \in SceneKey \cap dlq :
                  status' = [status EXCEPT ![s] = "rejected"] /\ UNCHANGED dlq
<1>1. dlq' = dlq \/ (pc = "publishDead" /\ dlq' = dlq \cup {InHand})
  BY ImageryStepsLoop, WhatIsDead DEF LoopInv
<1>2. pc \notin {"idle", "dead"} => InHand \in SceneKey
  BY DEF LoopInv, LoopTypeOK, StreamTypeOK, InHand, SceneKey
<1>3. CASE UNCHANGED status
  BY <1>1, <1>2, <1>3
<1>4. CASE \E j \in completions : Ends(j)
  BY <1>3, <1>4, AboutCompletions DEF Ends, Accept, ImageryTypeOK
<1>5. CASE Rejects
  <2>1. pc = "bury" /\ dlq' = dlq /\ status' = [status EXCEPT ![InHand] = "rejected"]
    BY <1>1, <1>5 DEF Rejects
  <2>2. InHand \in SceneKey \cap dlq
    BY <1>2, <2>1 DEF LoopInv, GivingUp
  <2> QED
    BY <2>1, <2>2
<1> QED
  BY <1>3, <1>4, <1>5, WhatWorkDoes DEF Untouched, Starts, Loads

\* Dead letters are not taken back.
LEMMA DeadStay ==
    ASSUME ImageryTypeOK, [ImageryNext]_imageryVars
    PROVE  dlq \subseteq dlq' /\ deadLetters \subseteq deadLetters'
BY ImageryStepsLoop, WhatIsDead DEF ImageryTypeOK

\* A message counts as done only when the thread that the worker waits for has
\* committed.
LEMMA AcceptanceStep ==
    ASSUME ImageryTypeOK, LoadedHolds, SuccessIsAccepted, [ImageryNext]_imageryVars
    PROVE  SuccessIsAccepted'
<1> SUFFICES ASSUME pc' \in {"recordPassed", "ack"} PROVE status'[InHand'] = "accepted"
  BY DEF SuccessIsAccepted
<1>1. CASE pc \in {"recordPassed", "ack"}
  <2>1. current' = current /\ InHand \in SceneKey
    BY <1>1, InHandStays, ImageryStepsLoop
       DEF InProgress, ImageryTypeOK, LoopTypeOK, StreamTypeOK, InHand, SceneKey
  <2> QED
    BY <1>1, <2>1, StatusStep DEF SuccessIsAccepted, InHand
<1>2. CASE pc \notin {"recordPassed", "ack"}
  <2>1. PICK j \in completions :
                  Ends(j) /\ CompletionAwaited(j) /\ j.stage = "loaded" /\ Accept(j)
    BY <1>2, WhatWorkDoes DEF Starts, AtWork, Loads, Ends, Rejects, BeginScene, Fetch
  <2>2. InHandOf(j) /\ InHand' = InHand /\ InHand \in SceneKey /\ InHand = IdOf[j.message]
    BY <2>1, AboutCompletions DEF Ends, CompletionAwaited, AtWork, InHandOf, InHand
  <2> QED
    BY <2>1, <2>2 DEF Accept, LoadedHolds, ImageryTypeOK
<1> QED
  BY <1>1, <1>2

\* What is acknowledged stays settled: a rejection comes with its dead letter.
LEMMA SettledStep ==
    ASSUME ImageryTypeOK, GivingUp, SuccessIsAccepted, AckedSceneIsSettled,
           [ImageryNext]_imageryVars
    PROVE  AckedSceneIsSettled'
<1> SUFFICES ASSUME NEW m \in acked'
             PROVE  status'[IdOf[m]] = "accepted" \/ IdOf[m] \in dlq'
  BY DEF AckedSceneIsSettled
<1>1. LoopStep /\ LoopTypeOK
  BY ImageryStepsLoop DEF ImageryTypeOK
<1>2. m \in Msg /\ IdOf[m] \in SceneKey
  BY <1>1, StreamType DEF StreamTypeOK, SceneKey
<1>3. status[IdOf[m]] = "accepted" \/ IdOf[m] \in dlq
  <2>1. CASE m \in acked
    BY <2>1 DEF AckedSceneIsSettled
  <2>2. CASE m \notin acked
    <3>1. m = current /\ pc \in {"ack", "close", "closeRaising"}
      BY <1>1, <2>2, WhatIsAcknowledged
    <3> QED
      BY <3>1 DEF SuccessIsAccepted, GivingUp, InHand
  <2> QED
    BY <2>1, <2>2
<1> QED
  BY <1>2, <1>3, StatusStep, DeadStay DEF GivingUp

\* A scene is rejected in the transaction that persists its dead letter, after the
\* dead letter was published.
LEMMA RejectedStep ==
    ASSUME ImageryTypeOK, GivingUp, RejectedIsDeadLettered, [ImageryNext]_imageryVars
    PROVE  RejectedIsDeadLettered'
BY StatusStep, DeadStay DEF RejectedIsDeadLettered, GivingUp

\* Nothing that went wrong is forgotten.
LEMMA TroubleStays ==
    ASSUME ImageryTypeOK, [ImageryNext]_imageryVars, NEW s \in SceneKey
    PROVE  /\ objects[s] # "stored" => objects'[s] # "stored"
           /\ Trouble(s) => Trouble(s)'
<1>1. /\ faults \in Nat /\ faults' \in Nat /\ faults' >= faults
      /\ freezes \in Nat /\ freezes' \in Nat /\ freezes' >= freezes
  BY EnvType, ImageryStepsLoop DEF ImageryTypeOK, LoopTypeOK
<1>2. slowCalls \in Nat /\ slowCalls' \in Nat /\ slowCalls' >= slowCalls
  BY WorkType DEF ImageryTypeOK
<1>3. objects[s] # "stored" => objects'[s] # "stored"
  BY WorkType
<1> QED
  BY <1>1, <1>2, <1>3 DEF Trouble

Failing == {"recordFailed", "nak", "publishDead", "bury", "close", "closeRaising"}

\* Why a delivery begins to fail.
LEMMA WhyItFails ==
    ASSUME [ImageryNext]_imageryVars, pc \notin Failing, pc' \in Failing
    PROVE  /\ current' = current /\ pc \in {"working", "recordPassed", "ack"}
           /\ \/ Fault \/ frozen
              \/ slowCalls' = slowCalls + 1
              \/ objects[InHand] = "lost"
              \/ pc = "working" /\ step = "inspect" /\ copy = "altered"
<1> USE DEF Failing
<1>1. CASE \E m \in Msg : BeginScene(m)
  BY <1>1 DEF BeginScene, Fetch
<1>2. CASE Describe \/ Download \/ Inspect
  BY <1>2 DEF Describe, Download, Inspect, Onward
<1>3. CASE ObjectMissing \/ DigestDiffers \/ DescribeRaises \/ DownloadRaises \/ GiveUpScene
  BY <1>3 DEF ObjectMissing, DigestDiffers, DescribeRaises, DownloadRaises, GiveUpScene,
       Abort, AtWork, Goto, DbRaises
<1>4. CASE Complete
  BY <1>4 DEF Complete, Load, CommitScene, CompletionEnds
<1>5. CASE \E j \in completions : CompletionRaises(j)
  BY <1>5 DEF CompletionRaises, CompletionEnds, CompletionAwaited, AtWork
<1>6. CASE BuryScene \/ BurySceneReplyLost \/ KillImagery \/ RestartImagery
  BY <1>6 DEF BuryScene, BurySceneReplyLost, Bury, BuryReplyLost, Goto, KillImagery,
       CompletionsEnd, Kill, RestartImagery, Restart
<1>7. CASE Settle
  BY <1>7 DEF Settle, RecordPassed, Ack, RecordFailed, Nak, PublishDead, Close,
       CloseRaising, Goto, Return, Die, AfterFailure
<1>8. CASE SettleBadly
  BY <1>8 DEF SettleBadly, RecordPassedRaises, AckLost, AckRaises, RecordFailedRaises,
       NakRaises, PublishDeadRaises, BuryRaises, CloseLost, CloseRaises, Goto, Return, Die,
       AfterFailure, DbRaises
<1>9. CASE FetchRaises \/ Stop \/ Surroundings
  BY <1>9 DEF FetchRaises, Stop, Die, Surroundings, Arrive, AckWaitExpires, Freeze, Thaw,
       Unattended
<1>10. CASE (\E s \in SceneKey : Damage(s)) \/ UNCHANGED imageryVars
  BY <1>10 DEF Damage, imageryVars, loopVars
<1> QED
  BY <1>1, <1>2, <1>3, <1>4, <1>5, <1>6, <1>7, <1>8, <1>9, <1>10 DEF ImageryNext, Work

\* A copy is what was stored, or comes from a damaged object.
LEMMA CopyStep ==
    ASSUME [ImageryNext]_imageryVars, pc' = "working", copy' # "stored",
           step' \notin {"describe", "download"}
    PROVE  \/ UNCHANGED <<copy, step>>
           \/ pc = "working" /\ copy' = objects[InHand] /\ UNCHANGED <<current, objects>>
<1>1. CASE \E m \in Msg : BeginScene(m)
  BY <1>1 DEF BeginScene
<1>2. CASE Describe \/ Download \/ Inspect
  BY <1>2 DEF Describe, Download, Inspect, Onward, AtWork
<1>3. CASE ObjectMissing \/ DigestDiffers \/ DescribeRaises \/ DownloadRaises \/ GiveUpScene
  BY <1>3 DEF ObjectMissing, DigestDiffers, DescribeRaises, DownloadRaises, GiveUpScene, Abort
<1>4. CASE Complete \/ \E j \in completions : CompletionRaises(j)
  BY <1>4 DEF Complete, Load, CommitScene, CompletionRaises, CompletionEnds
<1>5. CASE BuryScene \/ BurySceneReplyLost \/ KillImagery \/ RestartImagery
  BY <1>5 DEF BuryScene, BurySceneReplyLost, Reject, KillImagery, RestartImagery, CompletionsEnd
<1>6. CASE UNCHANGED completionVars
  BY <1>6 DEF completionVars
<1>7. CASE (\E s \in SceneKey : Damage(s)) \/ UNCHANGED imageryVars
  BY <1>7 DEF Damage, imageryVars, completionVars
<1> QED
  BY <1>1, <1>2, <1>3, <1>4, <1>5, <1>6, <1>7 DEF ImageryNext, Work

\* Every failure keeps its reason.
LEMMA ReasonStep ==
    ASSUME ImageryTypeOK, FailureHasReason, [ImageryNext]_imageryVars
    PROVE  FailureHasReason'
<1>1. LoopStep /\ LoopTypeOK
  BY ImageryStepsLoop DEF ImageryTypeOK
<1>2. InProgress => InHand \in SceneKey
  BY <1>1 DEF InProgress, LoopTypeOK, StreamTypeOK, InHand, SceneKey
<1>3. (frozen => freezes > 0)'
  <2>1. /\ freezes \in Nat /\ freezes' \in Nat /\ freezes' >= freezes
        /\ (frozen' => frozen \/ freezes' > 0)
    BY <1>1, EnvType DEF LoopTypeOK
  <2> QED
    BY <2>1 DEF FailureHasReason
<1>4. ASSUME pc' \in Failing PROVE Trouble(InHand)'
  <2>1. CASE pc \in Failing
    <3>1. current' = current /\ InHand \in SceneKey
      BY <1>1, <1>2, <1>4, <2>1, InHandStays DEF Failing, InProgress
    <3>2. Trouble(InHand)
      BY <2>1 DEF Failing, FailureHasReason
    <3>3. \A s \in SceneKey : Trouble(s) => Trouble(s)'
      BY TroubleStays
    <3> QED
      BY <3>1, <3>2, <3>3 DEF Trouble, InHand
  <2>2. CASE pc \notin Failing
    <3>1. InHand \in SceneKey /\ InHand' = InHand
      BY <1>2, <1>4, <2>2, WhyItFails DEF InProgress, InHand
    <3>2. CASE Fault \/ slowCalls' = slowCalls + 1
      <4>1. faults \in Nat /\ slowCalls \in Nat
        BY <1>1 DEF ImageryTypeOK, LoopTypeOK
      <4>2. faults' > 0 \/ slowCalls' > 0
        BY <3>2, <4>1 DEF Fault
      <4> QED
        BY <4>2 DEF Trouble
    <3>3. CASE frozen \/ objects[InHand] # "stored"
      <4>1. Trouble(InHand)
        BY <3>3 DEF FailureHasReason, Trouble
      <4>2. \A s \in SceneKey : Trouble(s) => Trouble(s)'
        BY TroubleStays
      <4> QED
        BY <3>1, <4>1, <4>2 DEF Trouble
    <3>4. CASE pc = "working" /\ step = "inspect" /\ copy = "altered"
      BY <3>3, <3>4 DEF FailureHasReason
    <3> QED
      BY <1>4, <2>2, <3>2, <3>3, <3>4, WhyItFails
  <2> QED
    BY <2>1, <2>2
<1>5. ASSUME pc' = "working", copy' # "stored", step' \notin {"describe", "download"}
      PROVE  objects'[InHand'] # "stored"
  <2>1. pc = "working" /\ current' = current
    BY <1>5, StillInHand DEF BeginScene
  <2>2. InHand' = InHand /\ InHand \in SceneKey
    BY <1>2, <2>1 DEF InHand, InProgress
  <2>3. objects[InHand] # "stored" \/ objects'[InHand] # "stored"
    BY <1>5, <2>1, CopyStep DEF FailureHasReason
  <2> QED
    BY <2>2, <2>3, TroubleStays
<1> QED
  BY <1>3, <1>4, <1>5 DEF Failing, FailureHasReason

\* The worker starts with nothing to be wrong about.
LEMMA ImageryStart == ImageryInit => ImageryInv
<1> SUFFICES ASSUME ImageryInit PROVE ImageryInv
  OBVIOUS
<1>1. LoopInv
  BY LoopStart DEF ImageryInit
<1>2. ImageryTypeOK
  BY <1>1 DEF ImageryInit, LoopInv, ImageryTypeOK, Statuses, Contents
<1>3. CompletionsAreOfThePast /\ LoadedHolds
  BY DEF ImageryInit, CompletionsAreOfThePast, LoadedHolds
<1>4. SuccessIsAccepted /\ AckedSceneIsSettled /\ RejectedIsDeadLettered
  BY DEF ImageryInit, LoopInit, StreamInit, SuccessIsAccepted, AckedSceneIsSettled,
       RejectedIsDeadLettered
<1>5. FailureHasReason
  BY DEF ImageryInit, LoopInit, FailureHasReason
<1> QED
  BY <1>1, <1>2, <1>3, <1>4, <1>5 DEF ImageryInv

\* Each step keeps the worker's invariant.
LEMMA ImageryStep ==
    ASSUME ImageryInv, [ImageryNext]_imageryVars
    PROVE  ImageryInv'
<1> USE DEF ImageryInv
<1>1. LoopInv'
  BY ImageryStepsLoop, LoopInvariant
<1>2. ImageryTypeOK'
  BY <1>1, WorkType, CompletionsType DEF LoopInv, ImageryTypeOK
<1>3. CompletionsAreOfThePast' /\ LoadedHolds'
  BY CompletionsStep, LoadedStep
<1>4. SuccessIsAccepted' /\ AckedSceneIsSettled' /\ RejectedIsDeadLettered'
  BY AcceptanceStep, SettledStep, RejectedStep DEF LoopInv
<1>5. FailureHasReason'
  BY ReasonStep
<1> QED
  BY <1>1, <1>2, <1>3, <1>4, <1>5

\* The worker's invariant holds in every state it reaches.
THEOREM ImageryInvariant == ImagerySpec => []ImageryInv
BY ImageryStart, ImageryStep, PTL DEF ImagerySpec

\* Every variable stays in its range.
THEOREM ImageryTypeCorrect == ImagerySpec => []ImageryTypeOK
<1>1. ImageryInv => ImageryTypeOK
  BY DEF ImageryInv
<1> QED
  BY <1>1, ImageryInvariant, PTL

\* RES-005: an acknowledged message has had its scene accepted or was published as a
\* dead letter, whatever calls fail and however late threads commit.
THEOREM AckedScenesSettled == ImagerySpec => []AckedSceneIsSettled
<1>1. ImageryInv => AckedSceneIsSettled
  BY DEF ImageryInv
<1> QED
  BY <1>1, ImageryInvariant, PTL

\* A scene is rejected only together with its dead letter, in the table and in the
\* stream.
THEOREM RejectedWithDeadLetter == ImagerySpec => []RejectedIsDeadLettered
<1>1. ImageryInv => RejectedIsDeadLettered
  BY DEF ImageryInv
<1> QED
  BY <1>1, ImageryInvariant, PTL

\* ING-006, RES-003: an acceptance is taken back only on the last attempt of its
\* scene's message, and only when something went wrong on the way.
THEOREM AcceptanceIsStable == ImagerySpec => AcceptanceStands
<1> DEFINE Stands ==
      \A s \in SceneKey :
          status[s] = "accepted" /\ status'[s] # "accepted" =>
              /\ InHand = s /\ attempt >= MaxAttempts
              /\ faults > 0 \/ slowCalls > 0 \/ freezes > 0 \/ objects[s] # "stored"
<1>1. ImageryInv /\ [ImageryNext]_imageryVars => Stands
  <2> SUFFICES ASSUME ImageryInv, [ImageryNext]_imageryVars, NEW s \in SceneKey,
                      status[s] = "accepted", status'[s] # "accepted"
               PROVE  InHand = s /\ attempt >= MaxAttempts /\ Trouble(s)
    BY DEF Trouble
  <2>1. pc = "bury" /\ s = InHand
    BY StatusStep DEF ImageryInv
  <2> QED
    BY <2>1 DEF ImageryInv, LoopInv, GivingUp, Exhausted, FailureHasReason
<1> QED
  BY <1>1, ImageryInvariant, PTL DEF ImagerySpec, AcceptanceStands
==============================================================================
