------------------------- MODULE CorrelationWorker -------------------------
(***************************************************************************)
(* The correlation worker, src/terrawatch/correlation.py: the loop of       *)
(* WorkerLoop whose work is evaluate_event, one transaction run in a        *)
(* thread.  The coroutine waits for the thread at most                      *)
(* PROCESSING_TIMEOUT_SECONDS; the thread itself is not stopped and may     *)
(* still commit while the message is retried, dead-lettered or acknowledged.*)
(*                                                                         *)
(* A telemetry event has one outbox row, so an event is its message_id.     *)
(* What an analysis says follows from the scenes evaluated (EventAnalysis);  *)
(* but an update sets only the columns in which it differs from the row the  *)
(* evaluation had loaded, so that a late one leaves the other columns as     *)
(* another evaluation has set them meanwhile.                               *)
(***************************************************************************)
EXTENDS WorkerLoop, EventAnalysis

CONSTANTS
    MaxTimeouts     \* bound: slow evaluations while the database replies

Event == MessageId

ASSUME MaxTimeoutsAssumption == MaxTimeouts \in Nat
ASSUME VerdictAssumption == Verdict \in [Scene \X Event -> CorrelationStatus]

VARIABLES
    evaluations,    \* evaluations whose thread is still running
    accepted,       \* scenes with processing_status accepted
    correlations,   \* table correlations
    analysed,       \* events with a row in analysis_results, i.e. processed
    results,        \* that row, in which no scene is evaluated if there is none
    timeouts

evaluationVars == <<evaluations, correlations, analysed, results, timeouts>>
correlationVars == <<loopVars, evaluationVars, accepted>>

Stages == {"started", "scenesRead", "rowsRead"}

Evaluation == [message: Msg, attempt: 1..MaxDeliveries, stage: Stages,
               seen: SUBSET Scene,     \* the accepted scenes it selected
               known: SUBSET Scene,    \* those of them it found correlated already
               existed: BOOLEAN,       \* it found an analysis of the event,
               loaded: AnalysisResult] \* this one

CorrelationTypeOK ==
    /\ LoopTypeOK
    /\ evaluations \subseteq Evaluation
    /\ accepted \subseteq Scene
    /\ correlations \subseteq Scene \X Event
    /\ analysed \subseteq Event
    /\ results \in [Event -> AnalysisResult]
    /\ timeouts \in 0..MaxTimeouts

CorrelationInit ==
    /\ LoopInit
    /\ evaluations = {} /\ accepted = {} /\ correlations = {} /\ analysed = {}
    /\ results = [e \in Event |-> Analysis(e, {})]
    /\ timeouts = 0

------------------------------------------------------------------------------
(* evaluate_event, in its thread. *)

Started(m) ==
    [message |-> m, attempt |-> delivered[m] + 1, stage |-> "started", seen |-> {},
     known |-> {}, existed |-> FALSE, loaded |-> Analysis(IdOf[m], {})]

Of(j) == IdOf[j.message]

Correlated(e) == {s \in Scene : <<s, e>> \in correlations}

EvaluationAwaited(j) == pc = "working" /\ j.message = current /\ j.attempt = attempt

\* The thread ends; the coroutine goes on if it still waits for it.
EvaluationEnds(j, next) ==
    /\ evaluations' = evaluations \ {j}
    /\ pc' = IF EvaluationAwaited(j) THEN next ELSE pc
    /\ UNCHANGED <<current, attempt, streamVars, tableVars, accepted, timeouts>>

EvaluationGoesOn(j, k) ==
    /\ DbReplies
    /\ evaluations' = (evaluations \ {j}) \cup {k}
    /\ UNCHANGED <<pc, current, attempt, streamVars, tableVars, correlations, analysed,
                   results, accepted, timeouts>>

\* Faulty variant of ReadScenes: scenes are selected whatever their status.
ReadScenesOfAnyStatus(j) ==
    /\ j.stage = "started"
    /\ EvaluationGoesOn(j, [j EXCEPT !.stage = "scenesRead", !.seen = Scene])

\* The statement that selects the accepted scenes.
ReadScenes(j) ==
    /\ j.stage = "started"
    /\ EvaluationGoesOn(j, [j EXCEPT !.stage = "scenesRead", !.seen = accepted])

\* The lookups of correlations and of the analysis, by primary key.
ReadRows(j) ==
    /\ j.stage = "scenesRead"
    /\ EvaluationGoesOn(j, [j EXCEPT !.stage = "rowsRead",
                                !.known = j.seen \cap Correlated(Of(j)),
                                !.existed = Of(j) \in analysed,
                                !.loaded = results[Of(j)]])

\* A row it is about to insert has been inserted since.
Collides(j) ==
    \/ (j.seen \ j.known) \cap Correlated(Of(j)) # {}
    \/ ~j.existed /\ Of(j) \in analysed

\* What it says of the event, and how it differs from what it had loaded.
Conclusion(j) == Analysis(Of(j), j.seen)
Changed(j) == {c \in Column : Conclusion(j)[c] # j.loaded[c]}

\* The columns it may set: all those of a new row; of an old one those that differ, and
\* those that differ in their order only.
ColumnsSet(j) ==
    IF j.existed
    THEN {Changed(j) \cup reordered : reordered \in SUBSET Orderable(Of(j), j.seen)}
    ELSE {Column}

\* Faulty variants of Write: an event that was analysed before gets no new
\* correlations; a repeated analysis is about the new scenes only.
WriteAnalysisOnly(j) ==
    /\ correlations' = IF j.existed THEN correlations
                       ELSE correlations \cup (j.seen \X {Of(j)})
    /\ analysed' = analysed \cup {Of(j)}
    /\ results' = [results EXCEPT ![Of(j)] = Conclusion(j)]
WriteNewOnly(j) ==
    /\ correlations' = correlations \cup (j.seen \X {Of(j)})
    /\ analysed' = analysed \cup {Of(j)}
    /\ results' = [results EXCEPT ![Of(j)] = Analysis(Of(j), j.seen \ j.known)]

\* New correlations are inserted, existing ones left as they are; the analysis
\* is inserted, or updated in some of its columns.
Write(j) ==
    /\ correlations' = correlations \cup (j.seen \X {Of(j)})
    /\ analysed' = analysed \cup {Of(j)}
    /\ \E columns \in ColumnsSet(j) :
           results' = [results EXCEPT ![Of(j)] = Updated(@, Conclusion(j), columns)]

CommitAnalysis(j) ==
    /\ j.stage = "rowsRead" /\ ~Collides(j) /\ DbReplies
    /\ Write(j)
    /\ EvaluationEnds(j, "recordPassed")

\* The insert violates a primary key; the transaction is rolled back.
CommitCollides(j) ==
    /\ j.stage = "rowsRead" /\ Collides(j) /\ DbReplies
    /\ EvaluationEnds(j, "recordFailed")
    /\ UNCHANGED <<correlations, analysed, results>>

\* The database fails, the commit's reply is lost, or no connection could be
\* opened.
EvaluationRaises(j) ==
    /\ Fault \/ (frozen /\ j.stage = "started" /\ UNCHANGED envVars)
    /\ \/ UNCHANGED <<correlations, analysed, results>>
       \/ j.stage = "rowsRead" /\ ~Collides(j) /\ Write(j)
    /\ EvaluationEnds(j, "recordFailed")

(* The coroutine. *)

BeginEvent(m) ==
    /\ Fetch(m)
    /\ evaluations' = evaluations \cup {Started(m)}
    /\ UNCHANGED <<correlations, analysed, results, accepted, timeouts>>

\* Faulty variant of GiveUpEvent: the wait has no bound.
NeverGiveUp == FALSE

\* bounded raises TimeoutError; the thread stays.
GiveUpEvent ==
    /\ Goto("working", "recordFailed")
    /\ \/ frozen /\ UNCHANGED timeouts
       \/ timeouts < MaxTimeouts /\ timeouts' = timeouts + 1
    /\ UNCHANGED <<streamVars, tableVars, envVars, evaluations, correlations, analysed, results,
                   accepted>>

\* The process is killed, or started again: the threads of the old one are gone.
EvaluationsEnd ==
    evaluations' = {} /\ UNCHANGED <<correlations, analysed, results, accepted, timeouts>>
KillCorrelation == Kill /\ EvaluationsEnd
RestartCorrelation == Restart /\ EvaluationsEnd

\* The imagery worker accepts a scene.
AcceptScene(s) ==
    /\ s \notin accepted /\ accepted' = accepted \cup {s}
    /\ UNCHANGED <<loopVars, evaluationVars>>

Evaluate ==
    \E j \in evaluations : ReadScenes(j) \/ ReadRows(j) \/ CommitAnalysis(j) \/ CommitCollides(j)

CorrelationNext ==
    \/ \E m \in Msg : BeginEvent(m)
    \/ Evaluate
    \/ \E j \in evaluations : EvaluationRaises(j)
    \/ GiveUpEvent
    \/ /\ Settle \/ Bury \/ SettleBadly \/ BuryReplyLost \/ FetchRaises \/ Stop \/ Surroundings
       /\ UNCHANGED <<evaluationVars, accepted>>
    \/ KillCorrelation \/ RestartCorrelation
    \/ \E s \in Scene : AcceptScene(s)

\* The server delivers what is due and lets acknowledgement waits run out; the
\* process makes its next call, and a call returns unless the database is frozen;
\* bounded ends a wait on a frozen database.  Nothing restarts the process and
\* nothing thaws the database by itself.
CorrelationFairness ==
    /\ \A m \in Msg :
           /\ SF_correlationVars(BeginEvent(m))
           /\ WF_correlationVars(AckWaitExpires(m) /\ UNCHANGED <<evaluationVars, accepted>>)
    /\ WF_correlationVars(Evaluate)
    /\ WF_correlationVars(frozen /\ GiveUpEvent)
    /\ WF_correlationVars((Settle \/ Bury) /\ UNCHANGED <<evaluationVars, accepted>>)

CorrelationSpec == CorrelationInit /\ [][CorrelationNext]_correlationVars /\ CorrelationFairness

------------------------------------------------------------------------------
(* Properties *)

\* RES-005: whatever calls fail and whenever threads commit, an acknowledged
\* message has had its event analysed or was published as a dead letter.
AckedEventIsSettled == \A m \in acked : IdOf[m] \in analysed \cup dlq

\* A dead letter is the last resort: its message had been delivered MaxAttempts
\* times, and a row in dead_letters has its message in the dead-letter stream.
DeadLetterIsLastResort ==
    /\ \A e \in dlq : \E m \in Msg : IdOf[m] = e /\ delivered[m] >= MaxAttempts
    /\ deadLetters \subseteq dlq

\* Every scene an analysis says it evaluated or matched has its correlation row, although
\* a late thread may overwrite some columns of a newer analysis.
AnalysisHasItsCorrelations ==
    \A e \in Event :
        results[e].provenance \cup results[e].matched_correlation_ids \subseteq Correlated(e)

\* RES-004: a message is delivered at most MaxAttempts times, and once more for
\* each call that failed.
RetriesAreBounded == \A m \in Msg : delivered[m] <= MaxAttempts + faults

\* As long as no wait for an evaluation has been given up, a repeated evaluation,
\* after a lost acknowledgement, a failed record or a restart, never loses a scene
\* that an earlier one had evaluated, and the columns of an analysis belong together.
AnalysisGrows ==
    [][timeouts = 0 /\ freezes = 0 =>
           \A e \in Event :
               /\ results[e].provenance \subseteq results'[e].provenance
               /\ results'[e] = Analysis(e, results'[e].provenance)]_correlationVars

\* Test TP-RES-005 (tests/resilience/test_delivery_and_cleanup.py:138): the message
\* is acknowledged only after its dead letter was published and persisted.
AckedDeadLetterIsPersisted == \A m \in acked : IdOf[m] \in analysed \cup deadLetters

\* The wait for the work is bounded, even when the database never replies again.
WorkEnds == pc = "working" ~> pc # "working"

\* retry.py:9-13: a frozen database does not hold up the work for ever; and if it
\* replies again for good, every message is acknowledged in the end, unless the worker's
\* process has ended.  (Without that the attempt need not end: its record is not bounded.)
EveryMessageSettled ==
    /\ WorkEnds
    /\ <>[]~frozen => \A m \in Msg : m \in stored ~> m \in acked \/ pc = "dead"
==============================================================================
