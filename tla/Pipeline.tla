------------------------------ MODULE Pipeline ------------------------------
(***************************************************************************)
(* Both workers at work on one database: the imagery worker of              *)
(* ImageryWorker and the correlation worker of CorrelationWorker, each with *)
(* a stream and a process of its own.  They meet in the table scenes, whose  *)
(* accepted rows an evaluation selects, and in PostGIS, which freezes for    *)
(* both.  An event is posted first, its row committed, and the outbox hands  *)
(* its message to the stream later.                                         *)
(*                                                                         *)
(* The bounds on freezes and slow calls are shared.  Whether a scene's row   *)
(* is committed before its message is stored makes no difference to the      *)
(* workers, so the upload is that moment.                                    *)
(***************************************************************************)
EXTENDS Naturals, FiniteSets

CONSTANTS
    SceneMsg, SceneId, SceneOf, \* messages, scenes, and the scene of each message
    EventMsg, EventId, EventOf, \* messages, events, and the event of each message
    Verdict,                    \* the correlation_status of a scene and an event
    NoMsg,
    \* the MaxAttempts, MaxDeliveries and MaxFaults of each worker
    SceneAttempts, SceneDeliveries, SceneFaults, EventAttempts, EventDeliveries, EventFaults,
    MaxFreezes, MaxTimeouts, MaxDamages

ASSUME MessagesAssumption ==
    /\ SceneOf \in [SceneMsg -> SceneId] /\ EventOf \in [EventMsg -> EventId]
    /\ NoMsg \notin SceneMsg \cup EventMsg
ASSUME VerdictsAssumption ==
    /\ IsFiniteSet(SceneId)
    /\ Verdict \in [SceneId \X EventId ->
                        {"matched", "temporal-non-match", "spatial-non-match"}]
ASSUME BoundsAssumption ==
    /\ SceneAttempts \in Nat \ {0} /\ SceneDeliveries \in Nat \ {0}
    /\ EventAttempts \in Nat \ {0} /\ EventDeliveries \in Nat \ {0}
    /\ SceneFaults \in Nat /\ EventFaults \in Nat
    /\ MaxFreezes \in Nat /\ MaxTimeouts \in Nat /\ MaxDamages \in Nat

VARIABLES
    frozen, freezes, timeouts,
    \* the imagery worker
    iStored, iDelivered, iHeld, iAcked, iPc, iCurrent, iAttempt, iAttempts, iDeadLetters, iDlq,
    step, copy, iJobs, status, objects, damages, iFaults,
    \* the correlation worker
    cStored, cDelivered, cHeld, cAcked, cPc, cCurrent, cAttempt, cAttempts, cDeadLetters, cDlq,
    cJobs, correlations, analysed, results, cFaults,
    \* the events
    posted,     \* events whose row is committed
    moments     \* history: the sets of accepted scenes there have been since

sharedVars == <<frozen, freezes, timeouts>>
imageryVars == <<iStored, iDelivered, iHeld, iAcked, iPc, iCurrent, iAttempt, iAttempts,
                 iDeadLetters, iDlq, step, copy, iJobs, status, objects, damages, iFaults>>
correlationVars == <<cStored, cDelivered, cHeld, cAcked, cPc, cCurrent, cAttempt, cAttempts,
                     cDeadLetters, cDlq, cJobs, correlations, analysed, results, cFaults>>
workVars == <<timeouts, cJobs, correlations, analysed, results>>
vars == <<sharedVars, imageryVars, correlationVars, posted, moments>>

\* The scenes that evaluate_event selects and the searches show.
Visible == {s \in SceneId : status[s] = "accepted"}

I == INSTANCE ImageryWorker WITH
        Msg <- SceneMsg, MessageId <- SceneId, IdOf <- SceneOf,
        stored <- iStored, delivered <- iDelivered, held <- iHeld, acked <- iAcked,
        pc <- iPc, current <- iCurrent, attempt <- iAttempt, attempts <- iAttempts,
        deadLetters <- iDeadLetters, dlq <- iDlq, completions <- iJobs, slowCalls <- timeouts,
        MaxSlowCalls <- MaxTimeouts,
        faults <- iFaults, MaxFaults <- SceneFaults,
        MaxAttempts <- SceneAttempts, MaxDeliveries <- SceneDeliveries

C == INSTANCE CorrelationWorker WITH
        Msg <- EventMsg, MessageId <- EventId, Scene <- SceneId, IdOf <- EventOf,
        stored <- cStored, delivered <- cDelivered, held <- cHeld, acked <- cAcked,
        pc <- cPc, current <- cCurrent, attempt <- cAttempt, attempts <- cAttempts,
        deadLetters <- cDeadLetters, dlq <- cDlq, evaluations <- cJobs, accepted <- Visible,
        faults <- cFaults, MaxFaults <- EventFaults,
        MaxAttempts <- EventAttempts, MaxDeliveries <- EventDeliveries

Init ==
    /\ I!ImageryInit /\ C!CorrelationInit
    /\ posted = {}
    /\ moments = [e \in EventId |-> {}]

------------------------------------------------------------------------------
\* What an event may still be judged by: the catalogue as this step leaves it.
Watch == moments' = [e \in EventId |-> IF e \in posted' THEN moments[e] \cup {Visible'} ELSE {}]

\* The event API commits an event and its outbox row.
Post(e) ==
    /\ e \notin posted /\ posted' = posted \cup {e}
    /\ UNCHANGED <<sharedVars, imageryVars, correlationVars>>
    /\ Watch

\* The outbox publishes only what has been committed.
Announced == \A m \in cStored' \ cStored : EventOf[m] \in posted

\* A step of the imagery worker or of its surroundings.
Imagery(action) ==
    /\ UNCHANGED <<correlationVars, posted>>
    /\ action
    /\ Watch

\* A step of the correlation worker or of its surroundings.
Correlation(action) ==
    /\ UNCHANGED <<imageryVars, posted>>
    /\ action
    /\ Announced
    /\ Watch

Next ==
    \/ \E e \in EventId : Post(e)
    \/ Imagery(I!ImageryNext)
    \/ Correlation(C!CorrelationNext)

\* As in CorrelationWorker; and the outbox publishes what is committed, as Outbox
\* shows.  Of the imagery worker nothing is asked.
Fairness ==
    /\ \A m \in EventMsg :
          /\ SF_vars(Correlation(C!BeginEvent(m)))
          /\ WF_vars(Correlation((C!Arrive(m) \/ C!AckWaitExpires(m)) /\ UNCHANGED workVars))
    /\ WF_vars(Correlation(C!Evaluate))
    /\ WF_vars(Correlation(frozen /\ C!GiveUpEvent))
    /\ WF_vars(Correlation((C!Settle \/ C!Bury) /\ UNCHANGED workVars))

Spec == Init /\ [][Next]_vars /\ Fairness

------------------------------------------------------------------------------
(* Properties *)

Result(e) == IF e \in analysed THEN {results[e]} ELSE {}

Promised == INSTANCE Catalog WITH
        Scene <- SceneId, Event <- EventId,
        visible <- Visible, refused <- iDlq, result <- [e \in EventId |-> Result(e)]

\* COR-001, RES-003: the analysis of an event is at first what follows from the scenes
\* accepted at one moment after the event was posted, and each column later follows from
\* those accepted at one such moment, whatever the two workers do in between, retry, or
\* commit late; and what clients could find is withdrawn only after a dead letter of its
\* scene.  (Nothing promises that the moment is a late one, since a scene accepted after
\* the evaluation is not looked at; nor, once a wait was given up, that the columns are
\* about the same moment, since a late update leaves some of them alone.)
ImplementsCatalog == Promised!CatalogSpec

\* If the database replies again for good, each event that was posted is analysed in
\* the end or published as a dead letter, unless the correlation worker's process has
\* ended: the outbox, the stream and the worker lose no event between them, and the
\* imagery worker cannot hold them up.
EveryEventServed ==
    <>[]~frozen =>
        \A e \in EventId : e \in posted ~> e \in analysed \cup cDlq \/ cPc = "dead"
==============================================================================
