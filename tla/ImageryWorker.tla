---------------------------- MODULE ImageryWorker ----------------------------
(***************************************************************************)
(* The imagery worker, src/terrawatch/imagery_worker.py: the loop of        *)
(* WorkerLoop whose work reads the scene's row, downloads its object,       *)
(* compares the digests, inspects the raster and completes the scene.       *)
(* Each call but the inspection is bounded; completing the scene is a       *)
(* transaction in a thread that goes on when the wait for it is given up.   *)
(* Burying a message also rejects its scene.                                *)
(*                                                                         *)
(* A scene has one outbox row, so a scene is its message_id.  The digest,   *)
(* the metadata and the raster never change once the row is there; only the *)
(* stored object may be lost (by the cleanup of a racing upload) or altered *)
(* (by something outside the system).                                       *)
(***************************************************************************)
EXTENDS WorkerLoop

CONSTANTS
    MaxSlowCalls,    \* bound: slow calls while the dependencies reply
    MaxDamages       \* bound: objects lost or altered

ASSUME WorkBoundsAssumption == MaxSlowCalls \in Nat /\ MaxDamages \in Nat

SceneKey == MessageId

VARIABLES
    step,         \* where the work on the message in hand stands
    copy,         \* what has been downloaded
    completions,  \* completions whose thread is still running
    status,       \* scenes.processing_status
    objects,      \* the state of each scene's object
    slowCalls, damages

completionVars == <<step, copy, completions, status, objects, slowCalls, damages>>
imageryVars == <<loopVars, completionVars>>

Statuses == {"pending", "accepted", "rejected"}
Contents == {"stored", "altered", "lost"}

Completion == [message: Msg, attempt: 1..MaxDeliveries, stage: {"started", "loaded"},
               loaded: Statuses]   \* processing_status as the transaction read it

ImageryTypeOK ==
    /\ LoopTypeOK
    /\ step \in {"describe", "download", "inspect", "complete"}
    /\ copy \in Contents
    /\ completions \subseteq Completion
    /\ status \in [SceneKey -> Statuses]
    /\ objects \in [SceneKey -> Contents]
    /\ slowCalls \in 0..MaxSlowCalls
    /\ damages \in 0..MaxDamages

ImageryInit ==
    /\ LoopInit
    /\ step = "describe" /\ copy = "lost" /\ completions = {}
    /\ status = [s \in SceneKey |-> "pending"]
    /\ objects = [s \in SceneKey |-> "stored"]
    /\ slowCalls = 0 /\ damages = 0

------------------------------------------------------------------------------
(* The coroutine. *)

AtWork(at) == pc = "working" /\ step = at

\* The work goes on within its message.
Onward(from, to) ==
    /\ AtWork(from) /\ step' = to
    /\ UNCHANGED <<pc, current, attempt, streamVars, tableVars, status, objects, slowCalls,
                   damages>>

\* The work raises.
Abort(at) ==
    /\ AtWork(at)
    /\ Goto("working", "recordFailed")
    /\ UNCHANGED <<streamVars, tableVars, step, copy, status, objects, damages>>

BeginScene(m) ==
    /\ Fetch(m)
    /\ step' = "describe" /\ copy' = "lost"
    /\ UNCHANGED <<completions, status, objects, slowCalls, damages>>

\* _scene_metadata
Describe == Onward("describe", "download") /\ DbReplies /\ UNCHANGED <<copy, completions>>

\* fget_object
Download ==
    /\ Onward("download", "inspect")
    /\ objects[InHand] # "lost"
    /\ copy' = objects[InHand]
    /\ UNCHANGED <<envVars, completions>>

ObjectMissing ==
    /\ Abort("download")
    /\ objects[InHand] = "lost"
    /\ UNCHANGED <<envVars, completions, slowCalls>>

DownloadRaises == Abort("download") /\ Fault /\ UNCHANGED <<completions, slowCalls>>

\* The digests agree and the raster passes again, as it did when it was uploaded;
\* the thread of _complete_scene is started.
Inspect ==
    /\ copy = "stored"
    /\ Onward("inspect", "complete")
    /\ completions' = completions \cup
           {[message |-> current, attempt |-> attempt, stage |-> "started", loaded |-> "pending"]}
    /\ UNCHANGED <<envVars, copy>>

\* The stored object's digest does not match the scene record.
DigestDiffers ==
    /\ copy = "altered"
    /\ Abort("inspect")
    /\ UNCHANGED <<envVars, completions, slowCalls>>

\* The lookup of the row raises.
DescribeRaises == Abort("describe") /\ DbRaises /\ UNCHANGED <<completions, slowCalls>>

\* bounded raises TimeoutError.  A thread that only reads ends without a trace.
GiveUpScene ==
    /\ \E at \in {"describe", "download", "complete"} : Abort(at)
    /\ \/ frozen /\ step # "download" /\ UNCHANGED slowCalls
       \/ slowCalls < MaxSlowCalls /\ slowCalls' = slowCalls + 1
    /\ UNCHANGED <<envVars, completions>>

(* _complete_scene, in its thread. *)

CompletionAwaited(j) == AtWork("complete") /\ j.message = current /\ j.attempt = attempt

\* The thread ends; the coroutine goes on if it still waits for it.
CompletionEnds(j, next) ==
    /\ completions' = completions \ {j}
    /\ pc' = IF CompletionAwaited(j) THEN next ELSE pc
    /\ UNCHANGED <<current, attempt, streamVars, tableVars, step, copy, objects, slowCalls,
                   damages>>

Load(j) ==
    /\ j.stage = "started" /\ DbReplies
    /\ completions' = (completions \ {j}) \cup
           {[j EXCEPT !.stage = "loaded", !.loaded = status[IdOf[j.message]]]}
    /\ UNCHANGED <<pc, current, attempt, streamVars, tableVars, step, copy, status, objects,
                   slowCalls, damages>>

\* The session writes the columns whose values differ from those it loaded.
Accept(j) ==
    status' = IF j.loaded = "accepted" THEN status
              ELSE [status EXCEPT ![IdOf[j.message]] = "accepted"]

CommitScene(j) ==
    /\ j.stage = "loaded" /\ DbReplies
    /\ Accept(j)
    /\ CompletionEnds(j, "recordPassed")

\* The database fails, or the commit's reply is lost.
CompletionRaises(j) ==
    /\ Fault \/ (frozen /\ j.stage = "started" /\ UNCHANGED envVars)
    /\ UNCHANGED status \/ (j.stage = "loaded" /\ Accept(j))
    /\ CompletionEnds(j, "recordFailed")

(* The end of the retries. *)

\* _record_dead_letter also rejects the scene, in the same transaction.
Reject ==
    /\ status' = [status EXCEPT ![InHand] = "rejected"]
    /\ UNCHANGED <<step, copy, completions, objects, slowCalls, damages>>

BuryScene == Bury /\ Reject
BurySceneReplyLost == BuryReplyLost /\ Reject

(* The surroundings. *)

\* The object of a scene is lost or altered.
Damage(s) ==
    /\ objects[s] = "stored" /\ damages < MaxDamages
    /\ damages' = damages + 1
    /\ \E c \in {"lost", "altered"} : objects' = [objects EXCEPT ![s] = c]
    /\ UNCHANGED <<loopVars, step, copy, completions, status, slowCalls>>

\* The threads of a process end with it.
CompletionsEnd == completions' = {} /\ UNCHANGED <<step, copy, status, objects, slowCalls, damages>>
KillImagery == Kill /\ CompletionsEnd
RestartImagery == Restart /\ CompletionsEnd

Work == Describe \/ Download \/ ObjectMissing \/ Inspect \/ DigestDiffers
Complete == \E j \in completions : Load(j) \/ CommitScene(j)

ImageryNext ==
    \/ \E m \in Msg : BeginScene(m)
    \/ Work \/ DescribeRaises \/ DownloadRaises \/ GiveUpScene
    \/ Complete
    \/ \E j \in completions : CompletionRaises(j)
    \/ BuryScene \/ BurySceneReplyLost
    \/ (Settle \/ SettleBadly \/ FetchRaises \/ Stop \/ Surroundings) /\ UNCHANGED completionVars
    \/ KillImagery \/ RestartImagery
    \/ \E s \in SceneKey : Damage(s)

\* As in CorrelationWorker: messages are delivered and released, the process makes
\* its next call, a call returns unless the database is frozen, and a bounded wait
\* on a frozen database ends.  Nothing restarts or thaws by itself.
ImageryFairness ==
    /\ \A m \in Msg : /\ SF_imageryVars(BeginScene(m))
                      /\ WF_imageryVars(AckWaitExpires(m) /\ UNCHANGED completionVars)
    /\ WF_imageryVars(Work) /\ WF_imageryVars(Complete)
    /\ WF_imageryVars(frozen /\ GiveUpScene)
    /\ WF_imageryVars((Settle /\ UNCHANGED completionVars) \/ BuryScene)

ImagerySpec == ImageryInit /\ [][ImageryNext]_imageryVars /\ ImageryFairness

------------------------------------------------------------------------------
(* Properties *)

\* RES-005: whatever calls fail and whenever a completion commits, an acknowledged
\* message has had its scene accepted or was published as a dead letter.
AckedSceneIsSettled ==
    \A m \in acked : status[IdOf[m]] = "accepted" \/ IdOf[m] \in dlq

\* A scene is rejected only together with its dead letter, in the table and in the
\* stream, although the three are written by two calls that can each fail.
RejectedIsDeadLettered ==
    \A s \in SceneKey : status[s] = "rejected" => s \in deadLetters \cap dlq

\* ING-006, RES-003: a message that is delivered again does not take back the
\* acceptance of a scene, unless it is its last attempt and something went wrong on
\* the way: a call failed, a wait was given up, or the object is gone.
AcceptanceStands ==
    [][\A s \in SceneKey :
           status[s] = "accepted" /\ status'[s] # "accepted" =>
               /\ InHand = s /\ attempt >= MaxAttempts
               /\ faults > 0 \/ slowCalls > 0 \/ freezes > 0 \/ objects[s] # "stored"]_imageryVars

\* If the database replies again for good, every scene is accepted or rejected in
\* the end, or at least known to operators as a dead letter, unless the worker's
\* process has ended.  (A dead letter whose burial failed is acknowledged: its scene
\* stays pending for ever.)
EverySceneDecided ==
    <>[]~frozen =>
        \A m \in Msg : m \in stored ~>
            status[IdOf[m]] # "pending" \/ IdOf[m] \in dlq \/ pc = "dead"
==============================================================================
