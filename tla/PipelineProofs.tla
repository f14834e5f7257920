--------------------------- MODULE PipelineProofs ---------------------------
(***************************************************************************)
(* Proofs about the two workers on one database: for any scenes, events and *)
(* messages, any limit on attempts, and any number of faults, freezes, slow *)
(* calls and damaged objects, they implement the catalogue of Catalog.  What *)
(* each worker does by itself is taken from WorkerProofs; here it is shown   *)
(* that the steps of one do not disturb what is known of the other.         *)
(***************************************************************************)
EXTENDS Pipeline, TLAPS

\* What is proved of the imagery worker and of the correlation worker, about their
\* variables in Pipeline.  Neither uses the other's part of WorkerProofs.
WI == INSTANCE WorkerProofs WITH
        Msg <- SceneMsg, MessageId <- SceneId, IdOf <- SceneOf,
        stored <- iStored, delivered <- iDelivered, held <- iHeld, acked <- iAcked,
        pc <- iPc, current <- iCurrent, attempt <- iAttempt, attempts <- iAttempts,
        deadLetters <- iDeadLetters, dlq <- iDlq, completions <- iJobs, slowCalls <- timeouts,
        MaxSlowCalls <- MaxTimeouts,
        faults <- iFaults, MaxFaults <- SceneFaults,
        MaxAttempts <- SceneAttempts, MaxDeliveries <- SceneDeliveries,
        Scene <- SceneId, Verdict <- [pair \in SceneId \X SceneId |-> "matched"],
        evaluations <- cJobs, accepted <- Visible

WC == INSTANCE WorkerProofs WITH
        Msg <- EventMsg, MessageId <- EventId, Scene <- SceneId, IdOf <- EventOf,
        stored <- cStored, delivered <- cDelivered, held <- cHeld, acked <- cAcked,
        pc <- cPc, current <- cCurrent, attempt <- cAttempt, attempts <- cAttempts,
        deadLetters <- cDeadLetters, dlq <- cDlq, evaluations <- cJobs, accepted <- Visible,
        faults <- cFaults, MaxFaults <- EventFaults,
        MaxAttempts <- EventAttempts, MaxDeliveries <- EventDeliveries,
        completions <- iJobs, slowCalls <- timeouts, MaxSlowCalls <- MaxTimeouts

USE MessagesAssumption, VerdictsAssumption, BoundsAssumption

\* What WorkerProofs assumes of scenes and verdicts.
LEMMA WorkersAssumptions ==
    /\ WI!IsFiniteSet(SceneId) /\ WC!IsFiniteSet(SceneId)
    /\ [pair \in SceneId \X SceneId |-> "matched"] \in
           [SceneId \X WI!Event -> WI!CorrelationStatus]
    /\ Verdict \in [SceneId \X WC!Event -> WC!CorrelationStatus]
BY DEF WI!IsFiniteSet, WC!IsFiniteSet, IsFiniteSet, WI!Event, WC!Event, WI!CorrelationStatus,
       WC!CorrelationStatus

USE WorkersAssumptions

\* The number of some scenes is the same whichever module counts them.
LEMMA SameNumber ==
    ASSUME NEW scenes
    PROVE  /\ C!Cardinality(scenes) = WC!Cardinality(scenes)
           /\ Promised!Cardinality(scenes) = WC!Cardinality(scenes)
BY DEF C!Cardinality, WC!Cardinality, Promised!Cardinality

\* The workers of Pipeline are those of WorkerProofs: every definition is the same,
\* reached by another path.  At first,
LEMMA SameStart ==
    /\ I!ImageryInit <=> WI!ImageryInit
    /\ C!CorrelationInit <=> WC!CorrelationInit
BY SameNumber DEF I!ImageryInit, WI!ImageryInit, I!LoopInit, WI!LoopInit, I!StreamInit, WI!StreamInit,
       I!SceneKey, WI!SceneKey, C!CorrelationInit, WC!CorrelationInit, C!LoopInit, WC!LoopInit,
       C!StreamInit, WC!StreamInit, C!Event, WC!Event,
       C!Analysis, WC!Analysis, C!AnalysisStatus, WC!AnalysisStatus, C!Judged, WC!Judged,
       C!CorrelationStatus, WC!CorrelationStatus

\* in each step of the imagery worker,
LEMMA SameImagery == I!ImageryNext <=> WI!ImageryNext
BY DEF I!Abort, I!Accept, I!Ack, I!AckArrives, I!AckLost, I!AckRaises, I!AckWaitExpires,
       I!AfterFailure, I!Arrive, I!AtWork, I!BeginScene, I!Bury, I!BuryRaises, I!BuryReplyLost,
       I!BuryScene, I!BurySceneReplyLost, I!Close, I!CloseLost, I!CloseRaises, I!CloseRaising,
       I!CommitScene, I!Complete, I!CompletionAwaited, I!CompletionEnds, I!CompletionRaises,
       I!CompletionsEnd, I!Damage, I!DbRaises, I!DbReplies, I!Deliver, I!Deliverable,
       I!Describe, I!DescribeRaises, I!Die, I!DigestDiffers, I!Download, I!DownloadRaises,
       I!Exhausted, I!Fault, I!Fetch, I!FetchRaises, I!Freeze, I!GiveUpScene, I!Goto,
       I!ImageryNext, I!InHand, I!Inspect, I!Kill, I!KillImagery, I!Load, I!Nak, I!NakRaises,
       I!ObjectMissing, I!Onward, I!PublishDead, I!PublishDeadRaises, I!RecordFailed,
       I!RecordFailedRaises, I!RecordPassed, I!RecordPassedRaises, I!Reject, I!Release,
       I!Restart, I!RestartImagery, I!Return, I!Row, I!SceneKey, I!Settle, I!SettleBadly,
       I!Stop, I!Store, I!Surroundings, I!Thaw, I!Unattended, I!Work, I!completionVars,
       I!envVars, I!imageryVars, I!loopVars, I!streamVars, I!tableVars, WI!Abort, WI!Accept,
       WI!Ack, WI!AckArrives, WI!AckLost, WI!AckRaises, WI!AckWaitExpires, WI!AfterFailure,
       WI!Arrive, WI!AtWork, WI!BeginScene, WI!Bury, WI!BuryRaises, WI!BuryReplyLost,
       WI!BuryScene, WI!BurySceneReplyLost, WI!Close, WI!CloseLost, WI!CloseRaises,
       WI!CloseRaising, WI!CommitScene, WI!Complete, WI!CompletionAwaited, WI!CompletionEnds,
       WI!CompletionRaises, WI!CompletionsEnd, WI!Damage, WI!DbRaises, WI!DbReplies, WI!Deliver,
       WI!Deliverable, WI!Describe, WI!DescribeRaises, WI!Die, WI!DigestDiffers, WI!Download,
       WI!DownloadRaises, WI!Exhausted, WI!Fault, WI!Fetch, WI!FetchRaises, WI!Freeze,
       WI!GiveUpScene, WI!Goto, WI!ImageryNext, WI!InHand, WI!Inspect, WI!Kill, WI!KillImagery,
       WI!Load, WI!Nak, WI!NakRaises, WI!ObjectMissing, WI!Onward, WI!PublishDead,
       WI!PublishDeadRaises, WI!RecordFailed, WI!RecordFailedRaises, WI!RecordPassed,
       WI!RecordPassedRaises, WI!Reject, WI!Release, WI!Restart, WI!RestartImagery, WI!Return,
       WI!Row, WI!SceneKey, WI!Settle, WI!SettleBadly, WI!Stop, WI!Store, WI!Surroundings,
       WI!Thaw, WI!Unattended, WI!Work, WI!completionVars, WI!envVars, WI!imageryVars,
       WI!loopVars, WI!streamVars, WI!tableVars

\* in what an evaluation concludes,
LEMMA SameConclusion ==
    ASSUME NEW e, NEW scenes, NEW row, NEW analysis, NEW columns
    PROVE  /\ C!Analysis(e, scenes) = WC!Analysis(e, scenes)
           /\ C!Orderable(e, scenes) = WC!Orderable(e, scenes)
           /\ C!Updated(row, analysis, columns) = WC!Updated(row, analysis, columns)
<1>1. ASSUME NEW verdict PROVE C!Judged(e, scenes, verdict) = WC!Judged(e, scenes, verdict)
  BY DEF C!Judged, WC!Judged
<1>2. C!CorrelationStatus = WC!CorrelationStatus
  BY DEF C!CorrelationStatus, WC!CorrelationStatus
<1>3. C!AnalysisStatus(e, scenes) = WC!AnalysisStatus(e, scenes)
  BY <1>1 DEF C!AnalysisStatus, WC!AnalysisStatus
<1>4. [v \in C!CorrelationStatus |-> C!Cardinality(C!Judged(e, scenes, v))] =
      [v \in WC!CorrelationStatus |-> WC!Cardinality(WC!Judged(e, scenes, v))]
  BY <1>1, <1>2, SameNumber
<1>5. C!Analysis(e, scenes) = WC!Analysis(e, scenes)
  BY <1>1, <1>3, <1>4, SameNumber DEF C!Analysis, WC!Analysis
<1>6. {v \in C!CorrelationStatus : C!Judged(e, scenes, v) # {}} =
      {v \in WC!CorrelationStatus : WC!Judged(e, scenes, v) # {}}
  BY <1>1, <1>2
<1>7. C!Orderable(e, scenes) = WC!Orderable(e, scenes)
  BY <1>1, <1>6, SameNumber DEF C!Orderable, WC!Orderable
<1>8. C!Updated(row, analysis, columns) = WC!Updated(row, analysis, columns)
  BY DEF C!Updated, WC!Updated, C!Column, WC!Column
<1> QED
  BY <1>5, <1>7, <1>8

\* in what it writes,
LEMMA SameWrite ==
    ASSUME NEW j, NEW m
    PROVE  /\ C!Write(j) <=> WC!Write(j)
           /\ C!Started(m) = WC!Started(m)
<1>1. C!Conclusion(j) = WC!Conclusion(j)
  BY SameConclusion DEF C!Conclusion, WC!Conclusion, C!Of, WC!Of
<1>2. C!ColumnsSet(j) = WC!ColumnsSet(j)
  <2>1. C!Changed(j) = WC!Changed(j) /\ C!Column = WC!Column
    BY <1>1 DEF C!Changed, WC!Changed, C!Column, WC!Column
  <2>2. C!Orderable(C!Of(j), j.seen) = WC!Orderable(WC!Of(j), j.seen)
    BY SameConclusion DEF C!Of, WC!Of
  <2>3. {C!Changed(j) \cup reordered : reordered \in SUBSET C!Orderable(C!Of(j), j.seen)} =
        {WC!Changed(j) \cup reordered : reordered \in SUBSET WC!Orderable(WC!Of(j), j.seen)}
    BY <2>1, <2>2
  <2> QED
    BY <2>1, <2>3 DEF C!ColumnsSet, WC!ColumnsSet
<1>3. C!Write(j) <=> WC!Write(j)
  BY <1>1, <1>2, SameConclusion DEF C!Write, WC!Write, C!Of, WC!Of
<1>4. C!Started(m) = WC!Started(m)
  BY SameConclusion DEF C!Started, WC!Started
<1> QED
  BY <1>3, <1>4

\* and in each step of the correlation worker.
LEMMA SameCorrelation == C!CorrelationNext <=> WC!CorrelationNext
BY SameWrite DEF C!AcceptScene, C!Ack, C!AckArrives, C!AckLost, C!AckRaises, C!AckWaitExpires,
       C!AfterFailure, C!Arrive, C!BeginEvent, C!Bury, C!BuryRaises, C!BuryReplyLost, C!Close,
       C!CloseLost, C!CloseRaises, C!CloseRaising, C!Collides, C!CommitAnalysis,
       C!CommitCollides, C!Correlated, C!CorrelationNext, C!DbRaises, C!DbReplies, C!Deliver,
       C!Deliverable, C!Die, C!Evaluate, C!EvaluationAwaited, C!EvaluationEnds,
       C!EvaluationGoesOn, C!EvaluationRaises, C!EvaluationsEnd, C!Exhausted, C!Fault, C!Fetch,
       C!FetchRaises, C!Freeze, C!GiveUpEvent, C!Goto, C!InHand, C!Kill, C!KillCorrelation,
       C!Nak, C!NakRaises, C!Of, C!PublishDead, C!PublishDeadRaises, C!ReadRows, C!ReadScenes,
       C!RecordFailed, C!RecordFailedRaises, C!RecordPassed, C!RecordPassedRaises, C!Release,
       C!Restart, C!RestartCorrelation, C!Return, C!Row, C!Settle, C!SettleBadly, C!Stop,
       C!Store, C!Surroundings, C!Thaw, C!Unattended, C!correlationVars, C!envVars,
       C!evaluationVars, C!loopVars, C!streamVars, C!tableVars, WC!AcceptScene, WC!Ack,
       WC!AckArrives, WC!AckLost, WC!AckRaises, WC!AckWaitExpires, WC!AfterFailure, WC!Arrive,
       WC!BeginEvent, WC!Bury, WC!BuryRaises, WC!BuryReplyLost, WC!Close, WC!CloseLost,
       WC!CloseRaises, WC!CloseRaising, WC!Collides, WC!CommitAnalysis, WC!CommitCollides,
       WC!Correlated, WC!CorrelationNext, WC!DbRaises, WC!DbReplies, WC!Deliver, WC!Deliverable,
       WC!Die, WC!Evaluate, WC!EvaluationAwaited, WC!EvaluationEnds, WC!EvaluationGoesOn,
       WC!EvaluationRaises, WC!EvaluationsEnd, WC!Exhausted, WC!Fault, WC!Fetch, WC!FetchRaises,
       WC!Freeze, WC!GiveUpEvent, WC!Goto, WC!InHand, WC!Kill, WC!KillCorrelation, WC!Nak,
       WC!NakRaises, WC!Of, WC!PublishDead, WC!PublishDeadRaises, WC!ReadRows, WC!ReadScenes,
       WC!RecordFailed, WC!RecordFailedRaises, WC!RecordPassed, WC!RecordPassedRaises,
       WC!Release, WC!Restart, WC!RestartCorrelation, WC!Return, WC!Row, WC!Settle,
       WC!SettleBadly, WC!Stop, WC!Store, WC!Surroundings, WC!Thaw, WC!Unattended,
       WC!correlationVars, WC!envVars, WC!evaluationVars, WC!loopVars, WC!streamVars,
       WC!tableVars

------------------------------------------------------------------------------
(* The invariant. *)

\* The catalogues of an event begin when it is posted, and the latest is among them.
MomentsKept ==
    /\ posted \subseteq EventId
    /\ moments \in [EventId -> SUBSET SUBSET SceneId]
    /\ \A e \in EventId : IF e \in posted THEN Visible \in moments[e] ELSE moments[e] = {}

StoredArePosted == \A m \in cStored : EventOf[m] \in posted

\* An evaluation is about an event that was posted before it, has selected the scenes of one
\* moment, and is right to believe that there is an analysis already.
EvaluationsAreTrue ==
    \A j \in cJobs :
        /\ EventOf[j.message] \in posted
        /\ j.stage # "started" => j.seen \in moments[EventOf[j.message]]
        /\ j.existed => EventOf[j.message] \in analysed

PipelineInv ==
    /\ WI!ImageryInv /\ WC!CorrelationInv
    /\ MomentsKept /\ StoredArePosted /\ EvaluationsAreTrue

\* At first nothing is posted, and neither worker has anything to be wrong about.
LEMMA PipelineStart == Init => PipelineInv
<1> SUFFICES ASSUME Init PROVE PipelineInv
  OBVIOUS
<1>1. WI!ImageryInit /\ WC!CorrelationInit
  BY SameStart DEF Init
<1>2. WI!ImageryInv /\ WC!CorrelationInv
  BY <1>1, WI!ImageryStart, WC!CorrelationStart
<1>3. MomentsKept
  BY DEF Init, MomentsKept
<1>4. StoredArePosted /\ EvaluationsAreTrue
  BY <1>1 DEF StoredArePosted, EvaluationsAreTrue, WC!CorrelationInit, WC!LoopInit,
       WC!StreamInit
<1> QED
  BY <1>2, <1>3, <1>4 DEF PipelineInv

-----------------------------------------------------------------------------
(* What one worker's step does to the other. *)

\* The shared variables grow, and so does the count of slow calls.
SharedGrows ==
    /\ frozen' \in BOOLEAN /\ freezes' \in 0..MaxFreezes /\ freezes' >= freezes
    /\ frozen' => frozen \/ freezes' > 0
    /\ timeouts' \in 0..MaxTimeouts /\ timeouts' >= timeouts

\* A step of the correlation worker is one of its own module,
LEMMA CorrelationSteps ==
    ASSUME PipelineInv, Correlation(C!CorrelationNext)
    PROVE  [WC!CorrelationNext]_WC!correlationVars /\ WC!CorrelationInv' /\ SharedGrows
<1>1. [WC!CorrelationNext]_WC!correlationVars
  BY SameCorrelation DEF Correlation
<1>2. WC!CorrelationInv'
  BY <1>1, WC!CorrelationStep DEF PipelineInv
<1>3. WC!CorrelationTypeOK /\ WC!CorrelationTypeOK'
  BY <1>2 DEF PipelineInv, WC!CorrelationInv
<1>4. WC!SurroundingsGrow
  BY <1>1, <1>3, WC!CorrelationStepsLoop, WC!EnvType DEF WC!CorrelationTypeOK,
       WC!SurroundingsGrow
<1>5. timeouts' = timeouts \/ timeouts' = timeouts + 1
  BY <1>1, <1>3, WC!WhatOnlyGrows
<1> QED
  BY <1>1, <1>2, <1>3, <1>4, <1>5 DEF SharedGrows, WC!SurroundingsGrow, WC!CorrelationTypeOK

\* and so is one of the imagery worker.
LEMMA ImagerySteps ==
    ASSUME PipelineInv, Imagery(I!ImageryNext)
    PROVE  [WI!ImageryNext]_WI!imageryVars /\ WI!ImageryInv' /\ SharedGrows
<1>1. [WI!ImageryNext]_WI!imageryVars
  BY SameImagery DEF Imagery
<1>2. WI!ImageryInv'
  BY <1>1, WI!ImageryStep DEF PipelineInv
<1>3. WI!ImageryTypeOK
  BY DEF PipelineInv, WI!ImageryInv
<1>4. WI!SurroundingsGrow
  BY <1>1, <1>3, WI!ImageryStepsLoop, WI!EnvType DEF WI!ImageryTypeOK,
       WI!SurroundingsGrow
<1>5. timeouts' \in 0..MaxTimeouts /\ timeouts' >= timeouts
  BY <1>1, <1>3, WI!WorkType
<1> QED
  BY <1>1, <1>2, <1>4, <1>5 DEF SharedGrows, WI!SurroundingsGrow

\* The imagery worker keeps its invariant while its own state is left alone.
LEMMA ImageryRests ==
    ASSUME WI!ImageryInv, SharedGrows, UNCHANGED imageryVars
    PROVE  WI!ImageryInv'
<1> USE DEF imageryVars
<1>0. WI!SurroundingsGrow
  BY DEF WI!ImageryInv, WI!LoopInv, WI!LoopTypeOK, SharedGrows, WI!SurroundingsGrow
<1>1. WI!LoopInv'
  BY <1>0, WI!LoopRests DEF WI!ImageryInv, WI!streamVars, WI!tableVars
<1>2. WI!ImageryTypeOK'
  BY <1>1 DEF WI!LoopInv, WI!ImageryInv, WI!ImageryTypeOK, SharedGrows, WI!Contents,
       WI!Completion, WI!Statuses, WI!SceneKey
<1>3. WI!CompletionsAreOfThePast' /\ WI!LoadedHolds' /\ WI!SuccessIsAccepted'
  BY DEF WI!ImageryInv, WI!CompletionsAreOfThePast, WI!LoadedHolds, WI!InHandOf,
       WI!SuccessIsAccepted, WI!InHand
<1>4. WI!AckedSceneIsSettled' /\ WI!RejectedIsDeadLettered'
  BY DEF WI!ImageryInv, WI!AckedSceneIsSettled, WI!RejectedIsDeadLettered, WI!SceneKey
<1>5. WI!FailureHasReason'
  <2>1. /\ UNCHANGED iFaults /\ freezes \in Nat /\ freezes' \in Nat
        /\ timeouts \in Nat /\ timeouts' \in Nat
    BY DEF WI!ImageryInv, WI!ImageryTypeOK, WI!LoopTypeOK, SharedGrows
  <2> QED
    BY <2>1 DEF WI!ImageryInv, WI!FailureHasReason, WI!Trouble, WI!InHand, SharedGrows
<1> QED
  BY <1>1, <1>2, <1>3, <1>4, <1>5 DEF WI!ImageryInv

\* So does the correlation worker, whatever becomes of the scenes.
LEMMA CorrelationRests ==
    ASSUME WC!CorrelationInv, SharedGrows, UNCHANGED correlationVars
    PROVE  WC!CorrelationInv'
<1> USE DEF correlationVars
<1>0. WC!SurroundingsGrow
  BY DEF WC!CorrelationInv, WC!LoopInv, WC!LoopTypeOK, SharedGrows, WC!SurroundingsGrow
<1>1. WC!LoopInv'
  BY <1>0, WC!LoopRests DEF WC!CorrelationInv, WC!streamVars, WC!tableVars
<1>2. WC!CorrelationTypeOK'
  <2>1. Visible' \subseteq SceneId
    BY DEF Visible
  <2> QED
    BY <1>1, <2>1 DEF WC!LoopInv, WC!CorrelationInv, WC!CorrelationTypeOK, SharedGrows,
         WC!Evaluation, WC!Stages, WC!Event, WC!AnalysisResult
<1>3. WC!SuccessIsAnalysed' /\ WC!AckedEventIsSettled' /\ WC!AnalysisHasItsCorrelations'
  BY DEF WC!CorrelationInv, WC!SuccessIsAnalysed, WC!InHand, WC!AckedEventIsSettled,
       WC!AnalysisHasItsCorrelations, WC!Correlated, WC!Event
<1> QED
  BY <1>1, <1>2, <1>3 DEF WC!CorrelationInv

-----------------------------------------------------------------------------
(* What an event may be judged by, and what it is judged by. *)

\* The catalogues of an event are only added to, and the one a step leaves is among them.
LEMMA Watched ==
    ASSUME MomentsKept, Watch, posted \subseteq posted', posted' \subseteq EventId
    PROVE  /\ MomentsKept'
           /\ \A e \in EventId : moments[e] \subseteq moments'[e]
<1>1. Visible' \subseteq SceneId
  BY DEF Visible
<1>2. moments' \in [EventId -> SUBSET SUBSET SceneId]
  BY <1>1 DEF MomentsKept, Watch
<1>3. \A e \in EventId : IF e \in posted' THEN Visible' \in moments'[e] ELSE moments'[e] = {}
  BY DEF Watch
<1>4. \A e \in EventId : moments[e] \subseteq moments'[e]
  BY DEF MomentsKept, Watch
<1> QED
  BY <1>2, <1>3, <1>4 DEF MomentsKept

\* Evaluations that are left alone stay true.
LEMMA EvaluationsRest ==
    ASSUME EvaluationsAreTrue, WC!CorrelationTypeOK, UNCHANGED <<cJobs, analysed>>,
           posted \subseteq posted', \A e \in EventId : moments[e] \subseteq moments'[e]
    PROVE  EvaluationsAreTrue'
<1>1. \A j \in cJobs : EventOf[j.message] \in EventId
  BY DEF WC!CorrelationTypeOK, WC!Evaluation
<1> QED
  BY <1>1 DEF EvaluationsAreTrue

\* An evaluation begins for an announced event, and selects the scenes of that moment.
LEMMA EvaluationsStep ==
    ASSUME PipelineInv, Correlation(C!CorrelationNext),
           \A e \in EventId : moments[e] \subseteq moments'[e]
    PROVE  EvaluationsAreTrue'
<1>1. WC!CorrelationTypeOK /\ [WC!CorrelationNext]_WC!correlationVars
  BY CorrelationSteps DEF PipelineInv, WC!CorrelationInv
<1>2. analysed \subseteq analysed'
  BY <1>1, WC!OnlyEvaluationsWrite DEF WC!WriteStep, WC!Write
<1>3. posted' = posted
  BY DEF Correlation
<1>4. ASSUME NEW j \in cJobs
      PROVE  EventOf[j.message] \in EventId
  BY <1>1 DEF WC!CorrelationTypeOK, WC!Evaluation
<1>5. ASSUME NEW k \in cJobs'
      PROVE  /\ EventOf[k.message] \in posted
             /\ k.stage # "started" => k.seen \in moments'[EventOf[k.message]]
             /\ k.existed => EventOf[k.message] \in analysed'
  <2>1. CASE k \in cJobs
    BY <1>2, <1>4, <2>1 DEF PipelineInv, EvaluationsAreTrue
  <2>2. ASSUME NEW m \in EventMsg, m \in cStored, k = WC!Started(m)
        PROVE  /\ EventOf[k.message] \in posted
               /\ k.stage = "started" /\ ~k.existed
    BY <2>2 DEF WC!Started, PipelineInv, StoredArePosted
  <2>3. ASSUME NEW j \in cJobs, k.message = j.message,
               k.existed => j.existed \/ WC!Of(j) \in analysed,
               \/ j.stage = "started" /\ k.seen = Visible
               \/ j.stage # "started" /\ k.seen = j.seen
        PROVE  /\ EventOf[k.message] \in posted
               /\ k.stage # "started" => k.seen \in moments'[EventOf[k.message]]
               /\ k.existed => EventOf[k.message] \in analysed'
    BY <1>2, <1>4, <2>3 DEF PipelineInv, EvaluationsAreTrue, MomentsKept, WC!Of
  <2> QED
    BY <1>1, <2>1, <2>2, <2>3, WC!WhatEvaluationsDo
<1> QED
  BY <1>3, <1>5 DEF EvaluationsAreTrue

\* Each step of the pipeline keeps its invariant.
LEMMA PipelineStep ==
    ASSUME PipelineInv, [Next]_vars
    PROVE  PipelineInv'
<1> USE DEF PipelineInv
<1>1. WC!CorrelationTypeOK
  BY DEF WC!CorrelationInv
<1>2. ASSUME NEW e \in EventId, Post(e) PROVE PipelineInv'
  <2>1. /\ UNCHANGED <<imageryVars, correlationVars, sharedVars>> /\ Watch
        /\ posted' = posted \cup {e}
    BY <1>2 DEF Post
  <2>2. SharedGrows
    BY <2>1 DEF sharedVars, SharedGrows, WI!ImageryInv, WI!ImageryTypeOK, WI!LoopTypeOK
  <2>3. WI!ImageryInv' /\ WC!CorrelationInv'
    BY <2>1, <2>2, ImageryRests, CorrelationRests
  <2>4. MomentsKept' /\ \A d \in EventId : moments[d] \subseteq moments'[d]
    BY <2>1, Watched DEF MomentsKept
  <2>5. StoredArePosted' /\ EvaluationsAreTrue'
    BY <1>1, <2>1, <2>4, EvaluationsRest DEF StoredArePosted, correlationVars
  <2> QED
    BY <2>3, <2>4, <2>5
<1>3. ASSUME Imagery(I!ImageryNext) PROVE PipelineInv'
  <2>1. UNCHANGED <<correlationVars, posted>> /\ Watch
    BY <1>3 DEF Imagery
  <2>2. WI!ImageryInv' /\ WC!CorrelationInv'
    BY <1>3, <2>1, ImagerySteps, CorrelationRests
  <2>3. MomentsKept' /\ \A d \in EventId : moments[d] \subseteq moments'[d]
    BY <2>1, Watched DEF MomentsKept
  <2>4. StoredArePosted' /\ EvaluationsAreTrue'
    BY <1>1, <2>1, <2>3, EvaluationsRest DEF StoredArePosted, correlationVars
  <2> QED
    BY <2>2, <2>3, <2>4
<1>4. ASSUME Correlation(C!CorrelationNext) PROVE PipelineInv'
  <2>1. UNCHANGED <<imageryVars, posted>> /\ Watch /\ Announced
    BY <1>4 DEF Correlation
  <2>2. WI!ImageryInv' /\ WC!CorrelationInv'
    BY <1>4, <2>1, CorrelationSteps, ImageryRests
  <2>3. MomentsKept' /\ \A d \in EventId : moments[d] \subseteq moments'[d]
    BY <2>1, Watched DEF MomentsKept
  <2>4. StoredArePosted'
    BY <2>1 DEF StoredArePosted, Announced
  <2>5. EvaluationsAreTrue'
    BY <1>4, <2>3, EvaluationsStep
  <2> QED
    BY <2>2, <2>3, <2>4, <2>5
<1>5. ASSUME UNCHANGED vars PROVE PipelineInv'
  <2>1. UNCHANGED <<imageryVars, correlationVars, sharedVars, posted, moments>>
    BY <1>5 DEF vars
  <2>2. SharedGrows
    BY <2>1 DEF sharedVars, SharedGrows, WI!ImageryInv, WI!ImageryTypeOK, WI!LoopTypeOK
  <2>3. WI!ImageryInv' /\ WC!CorrelationInv'
    BY <2>1, <2>2, ImageryRests, CorrelationRests
  <2>4. MomentsKept' /\ StoredArePosted' /\ EvaluationsAreTrue'
    BY <2>1 DEF MomentsKept, StoredArePosted, EvaluationsAreTrue, Visible, imageryVars,
         correlationVars
  <2> QED
    BY <2>3, <2>4
<1> QED
  BY <1>2, <1>3, <1>4, <1>5 DEF Next

\* The invariant of the two workers together holds in every state they reach.
THEOREM PipelineInvariant == Spec => []PipelineInv
BY PipelineStart, PipelineStep, PTL DEF Spec

-----------------------------------------------------------------------------
(* The refinement of Catalog. *)

\* A catalogue that stays as it is, is among each event's already.
LEMMA NothingNew ==
    ASSUME MomentsKept, Watch, posted' = posted, Visible' = Visible
    PROVE  moments' = moments
BY DEF MomentsKept, Watch

\* What the catalogue records of a step is what the abstract one does.
LEMMA Recorded ==
    ASSUME MomentsKept, Watch, posted' = posted
    PROVE  Promised!Record
BY DEF MomentsKept, Watch, Promised!Record, Promised!Posted

\* A step of the imagery worker shows, refuses or withdraws a scene, or does nothing to
\* the catalogue.
LEMMA ImageryRefines ==
    ASSUME PipelineInv, Imagery(I!ImageryNext)
    PROVE  \/ \E s \in SceneId : Promised!Show(s) \/ Promised!Refuse(s) \/ Promised!Withdraw(s)
           \/ UNCHANGED <<Visible, iDlq, moments, [e \in EventId |-> Result(e)]>>
<1>1. /\ MomentsKept /\ Watch /\ posted' = posted
      /\ UNCHANGED <<[e \in EventId |-> Result(e)]>>
  BY DEF PipelineInv, Imagery, correlationVars, Result
<1>2. Promised!Record
  BY <1>1, Recorded
<1>3. status \in [SceneId -> WI!Statuses]
  BY DEF PipelineInv, WI!ImageryInv, WI!ImageryTypeOK, WI!SceneKey
<1>4. CASE UNCHANGED <<status, iDlq>>
  BY <1>1, <1>4, NothingNew DEF Visible
<1>5. ASSUME NEW s \in SceneId, iDlq' = iDlq \cup {s}, UNCHANGED status
      PROVE  Promised!Refuse(s)
  BY <1>1, <1>5, NothingNew DEF Visible, Promised!Refuse
<1>6. ASSUME NEW s \in SceneId, status' = [status EXCEPT ![s] = "accepted"], UNCHANGED iDlq
      PROVE  Promised!Show(s)
  <2>1. Visible' = Visible \cup {s}
    BY <1>3, <1>6 DEF Visible
  <2> QED
    BY <1>1, <1>2, <1>6, <2>1 DEF Promised!Show
<1>7. ASSUME NEW s \in SceneId \cap iDlq, status' = [status EXCEPT ![s] = "rejected"],
             UNCHANGED iDlq
      PROVE  Promised!Withdraw(s) \/ UNCHANGED <<Visible, iDlq, moments>>
  <2>1. Visible' = Visible \ {s}
    BY <1>3, <1>7 DEF Visible
  <2>2. CASE s \in Visible
    BY <1>1, <1>2, <1>7, <2>1, <2>2 DEF Promised!Withdraw
  <2>3. CASE s \notin Visible
    BY <1>1, <1>7, <2>1, <2>3, NothingNew
  <2> QED
    BY <2>2, <2>3
<1>8. WI!LoopInv /\ WI!ImageryTypeOK /\ [WI!ImageryNext]_WI!imageryVars
  BY ImagerySteps DEF PipelineInv, WI!ImageryInv
<1>9. \/ UNCHANGED <<status, iDlq>>
      \/ \E s \in SceneId : iDlq' = iDlq \cup {s} /\ UNCHANGED status
      \/ \E s \in SceneId : status' = [status EXCEPT ![s] = "accepted"] /\ UNCHANGED iDlq
      \/ \E s \in SceneId \cap iDlq :
             status' = [status EXCEPT ![s] = "rejected"] /\ UNCHANGED iDlq
  BY <1>8, WI!WhatIsSeen DEF WI!SceneKey
<1> QED
  BY <1>1, <1>4, <1>5, <1>6, <1>7, <1>9

\* An analysis says the same whichever module says it.
LEMMA SameAnalysis ==
    ASSUME NEW e, NEW scenes
    PROVE  WC!Analysis(e, scenes) = Promised!Analysis(e, scenes)
BY SameNumber DEF WC!Analysis, Promised!Analysis, WC!AnalysisStatus,
       Promised!AnalysisStatus, WC!Judged, Promised!Judged, WC!CorrelationStatus,
       Promised!CorrelationStatus

LEMMA SameUpdate ==
    ASSUME NEW row, NEW analysis, NEW columns
    PROVE  WC!Updated(row, analysis, columns) = Promised!Updated(row, analysis, columns)
BY DEF WC!Updated, Promised!Updated, WC!Column, Promised!Column

\* A write sets columns of a row; all of them if it is a new one.
LEMMA WrittenColumns ==
    ASSUME NEW j, NEW columns \in WC!ColumnsSet(j)
    PROVE  columns \in SUBSET Promised!Column /\ (~j.existed => columns = WC!Column)
<1>1. WC!Orderable(WC!Of(j), j.seen) \subseteq Promised!Column
  BY DEF WC!Orderable, Promised!Column
<1>2. WC!Changed(j) \subseteq Promised!Column
  BY DEF WC!Changed, WC!Column, Promised!Column
<1> QED
  BY <1>1, <1>2 DEF WC!ColumnsSet, WC!Column, Promised!Column

\* A write answers with the analysis of a catalogue of the event, or sets some columns of an
\* earlier answer to what such an analysis says.
LEMMA WriteRefines ==
    ASSUME PipelineInv, UNCHANGED <<Visible, iDlq, moments>>,
           NEW j \in cJobs, j.stage = "rowsRead", WC!Write(j)
    PROVE  \E e \in EventId : Promised!Answer(e) \/ Promised!Revise(e)
<1> DEFINE e == EventOf[j.message]
           row == results[e]
           said == WC!Analysis(e, j.seen)
           result == [d \in EventId |-> Result(d)]
<1>1. /\ e \in EventId /\ said \in WC!AnalysisResult /\ row \in WC!AnalysisResult
      /\ results \in [EventId -> WC!AnalysisResult]
  BY WC!WhatIsWritten DEF PipelineInv, WC!CorrelationInv, WC!CorrelationTypeOK, WC!Of,
       WC!Conclusion, WC!Event
<1>2. j.seen \in moments[e] /\ (j.existed => e \in analysed)
  BY DEF PipelineInv, EvaluationsAreTrue
<1>3. PICK columns \in WC!ColumnsSet(j) :
          results' = [results EXCEPT ![e] = WC!Updated(row, said, columns)]
  BY WC!WhatIsWritten DEF PipelineInv, WC!CorrelationInv, WC!Of, WC!Conclusion
<1>4. columns \in SUBSET Promised!Column /\ (~j.existed => columns = WC!Column)
  BY WrittenColumns
<1>5. analysed' = analysed \cup {e}
  BY DEF WC!Write, WC!Of
<1>6. result' = [result EXCEPT ![e] = {WC!Updated(row, said, columns)}]
  BY <1>1, <1>3, <1>5 DEF Result
<1>7. said = Promised!Analysis(e, j.seen)
  BY SameAnalysis
<1>8. CASE e \notin analysed
  <2>1. WC!Updated(row, said, columns) = said
    BY <1>1, <1>2, <1>4, <1>8, WC!WholeUpdate
  <2>2. result[e] = Promised!NoResult
    BY <1>1, <1>8 DEF Result, Promised!NoResult
  <2>3. result' = [result EXCEPT ![e] = {Promised!Analysis(e, j.seen)}]
    BY <1>6, <1>7, <2>1
  <2> HIDE DEF result
  <2>4. Promised!Answer(e)
    BY <1>2, <2>2, <2>3 DEF Promised!Answer, result
  <2> QED
    BY <1>1, <2>4
<1>9. CASE e \in analysed
  <2>1. WC!Updated(row, said, columns) =
            Promised!Updated(row, Promised!Analysis(e, j.seen), columns)
    BY <1>7, SameUpdate
  <2>2. row \in result[e]
    BY <1>1, <1>9 DEF Result
  <2>3. result' = [result EXCEPT ![e] =
                      {Promised!Updated(row, Promised!Analysis(e, j.seen), columns)}]
    BY <1>6, <2>1
  <2> HIDE DEF result, row
  <2>4. Promised!Revise(e)
    BY <1>2, <1>4, <2>2, <2>3 DEF Promised!Revise, result
  <2> QED
    BY <1>1, <2>4
<1> QED
  BY <1>8, <1>9

\* A step of the correlation worker answers for an event, revises an answer, or answers
\* nothing new.
LEMMA CorrelationRefines ==
    ASSUME PipelineInv, Correlation(C!CorrelationNext)
    PROVE  \/ \E e \in EventId : Promised!Answer(e) \/ Promised!Revise(e)
           \/ UNCHANGED <<Visible, iDlq, moments, [e \in EventId |-> Result(e)]>>
<1>1. UNCHANGED <<Visible, iDlq>> /\ Watch /\ posted' = posted
  BY DEF Correlation, imageryVars, Visible
<1>2. moments' = moments
  BY <1>1, NothingNew DEF PipelineInv
<1>3. WC!WriteStep
  BY CorrelationSteps, WC!OnlyEvaluationsWrite
<1>4. CASE UNCHANGED <<analysed, results>>
  BY <1>1, <1>2, <1>4 DEF Result
<1>5. ASSUME NEW j \in cJobs, j.stage = "rowsRead", WC!Write(j)
      PROVE  \E e \in EventId : Promised!Answer(e) \/ Promised!Revise(e)
  BY <1>1, <1>2, <1>5, WriteRefines
<1> QED
  BY <1>3, <1>4, <1>5 DEF WC!WriteStep

\* Posting an event gives it its first catalogue.
LEMMA PostRefines ==
    ASSUME PipelineInv, NEW e \in EventId, Post(e)
    PROVE  Promised!Post(e)
<1>1. /\ UNCHANGED <<Visible, iDlq>>
      /\ [d \in EventId |-> Result(d)]' = [d \in EventId |-> Result(d)]
  BY DEF Post, imageryVars, correlationVars, Visible, Result
<1>2. /\ moments[e] = {} /\ moments \in [EventId -> SUBSET SUBSET SceneId]
      /\ posted' = posted \cup {e} /\ Watch
  BY DEF PipelineInv, MomentsKept, Post
<1>3. ASSUME NEW d \in EventId
      PROVE  moments'[d] = IF d = e THEN {Visible} ELSE moments[d]
  BY <1>1, <1>2 DEF PipelineInv, MomentsKept, Watch
<1>4. moments' = [moments EXCEPT ![e] = {Visible}]
  BY <1>2, <1>3 DEF Watch
<1> QED
  BY <1>1, <1>2, <1>4 DEF Promised!Post, Promised!Posted

\* COR-001, RES-003: the analysis of an event is at first what follows from the scenes
\* accepted at one moment after the event was posted, and each column later follows from
\* those accepted at one such moment; and a scene that clients could find is withdrawn only
\* after a dead letter of it, whatever the two workers do in between, retry, or commit late.
THEOREM WorkersImplementCatalog == Spec => ImplementsCatalog
<1>1. Init => Promised!CatalogInit
  BY SameStart DEF Init, WI!ImageryInit, WI!LoopInit, WC!CorrelationInit, Promised!CatalogInit,
     Promised!NoResult, Visible, Result, WI!SceneKey
<1>2. ASSUME PipelineInv, [Next]_vars
      PROVE  [Promised!CatalogNext]_<<Visible, iDlq, moments, [e \in EventId |-> Result(e)]>>
  <2>1. CASE \E e \in EventId : Post(e)
    BY <1>2, <2>1, PostRefines DEF Promised!CatalogNext
  <2>2. CASE Imagery(I!ImageryNext)
    BY <1>2, <2>2, ImageryRefines DEF Promised!CatalogNext
  <2>3. CASE Correlation(C!CorrelationNext)
    BY <1>2, <2>3, CorrelationRefines DEF Promised!CatalogNext
  <2>4. CASE UNCHANGED vars
    BY <2>4 DEF vars, imageryVars, correlationVars, Visible, Result
  <2> QED
    BY <1>2, <2>1, <2>2, <2>3, <2>4 DEF Next
<1> QED
  BY <1>1, <1>2, PipelineInvariant, PTL DEF Spec, ImplementsCatalog, Promised!CatalogSpec

-----------------------------------------------------------------------------
(* What each worker promises by itself. *)

BothSettle ==
    /\ I!AckedSceneIsSettled /\ I!RejectedIsDeadLettered
    /\ C!AckedEventIsSettled /\ C!AnalysisHasItsCorrelations

BothGiveUpLast ==
    /\ C!DeadLetterIsLastResort /\ C!RetriesAreBounded
    /\ \A m \in SceneMsg : iDelivered[m] <= SceneAttempts + iFaults

\* RES-004, RES-005: side by side, with one database that freezes for both,
\* each worker keeps what it promises alone: what is acknowledged is settled, and nothing
\* is given up before its last attempt or tried for ever.
THEOREM WorkersKeepTheirPromises == Spec => [](BothSettle /\ BothGiveUpLast)
<1>1. PipelineInv => BothSettle
  BY DEF PipelineInv, BothSettle, WI!ImageryInv, WC!CorrelationInv,
       I!AckedSceneIsSettled, WI!AckedSceneIsSettled,
       I!RejectedIsDeadLettered, WI!RejectedIsDeadLettered, I!SceneKey, WI!SceneKey,
       C!AckedEventIsSettled, WC!AckedEventIsSettled,
       C!AnalysisHasItsCorrelations, WC!AnalysisHasItsCorrelations,
       C!Correlated, WC!Correlated, C!Event, WC!Event
<1>2. PipelineInv => C!DeadLetterIsLastResort
  BY DEF PipelineInv, WC!CorrelationInv, WC!LoopInv, WC!LastResort, C!DeadLetterIsLastResort
<1>3. ASSUME PipelineInv
      PROVE  /\ C!RetriesAreBounded
             /\ \A m \in SceneMsg : iDelivered[m] <= SceneAttempts + iFaults
  <2>1. /\ WI!WithinBudget /\ WC!WithinBudget /\ iFaults \in Nat /\ cFaults \in Nat
        /\ \A m \in SceneMsg : iDelivered[m] \in Nat
        /\ \A m \in EventMsg : cDelivered[m] \in Nat
    BY <1>3 DEF PipelineInv, WI!ImageryInv, WC!CorrelationInv, WI!LoopInv, WC!LoopInv,
         WI!LoopTypeOK, WC!LoopTypeOK, WI!StreamTypeOK, WC!StreamTypeOK
  <2> QED
    BY <2>1 DEF WI!WithinBudget, WC!WithinBudget, C!RetriesAreBounded
<1> QED
  BY <1>1, <1>2, <1>3, PipelineInvariant, PTL DEF BothGiveUpLast
==============================================================================
