-------------------------- MODULE AcceptanceProofs --------------------------
(***************************************************************************)
(* Proofs about the two commands that show that the environment is fit to   *)
(* be accepted.  First the clean-room proof on a docker host that others    *)
(* use, for any containers, any number of failing calls and any number of   *)
(* changes by the others; then the evidence command, for any tests, files,  *)
(* requirements and commands, and any number of test runs, commits and      *)
(* kills.  No formula below speaks of both.                                 *)
(***************************************************************************)
EXTENDS CleanRoom, Evidence, TLAPS

------------------------------------------------------------------------------
(* The clean-room proof. *)

USE KindsAssumption, BoundsAssumption

\* Ids are never used again: what a survey, a memory or the teardown names has existed,
\* and what the teardown removed does not come back.
IdsAreFresh ==
    /\ pending \cup DOMAIN seen \cup initial \cup DOMAIN neighbors \cup torn \subseteq created
    /\ torn \cap (alive \cup pending) = {}

\* The containers that a survey's result is later compared with.
Watched == initial \cup DOMAIN neighbors \cup {Sentinel}

\* A survey misses none of those that are still there, and one before the teardown goes on
\* only over the project's own containers.
SurveysCover ==
    /\ pc \in Surveys /\ listed => alive \cap Scope \cap Watched \subseteq pending \cup DOMAIN seen
    /\ pc \notin Surveys \cup {"killed"} => ~listed /\ pending = {}
    /\ pc = "verify" /\ listed => DOMAIN seen \subseteq Project

\* What each step of the proof relies on.
Stages ==
    /\ pc \in {"green", "initial", "create"} => Sentinel \notin created
    /\ pc \in {"green", "initial", "create", "confirm", "before"} =>
           torn = {} /\ DOMAIN neighbors = {}
    /\ pc \in {"before", "verify", "teardown", "survivors", "after", "write"} => known
    /\ pc = "teardown" => alive \cap Labelled \cap DOMAIN neighbors = {}
    /\ pc \in {"mark", "rewrite", "print"} => Sentinel \notin alive

\* Where the proof may stand once its evidence was written.
Written == {"remove", "rm", "mark", "rewrite", "print", "ended", "killed"}

\* The evidence is good only if what it claims is so; it says that the sentinel was removed
\* only from the second write on, and a proof that has not failed has its file, or others
\* have deleted it.
Results ==
    /\ pc = "write" => alive \cap initial = {}
    /\ evidence # "none" => pc \in Written /\ alive \cap initial = {}
    /\ evidence = "removed" => pc \in {"print", "ended", "killed"} /\ Sentinel \notin alive
    /\ pc \in {"remove", "rm", "mark", "rewrite"} /\ outcome = "ok" =>
           evidence \in {"passed", "discarded"}
    /\ pc \in {"print", "ended"} /\ outcome = "ok" => evidence \in {"removed", "discarded"}
    /\ pc \in {"rewrite", "print"} => outcome = "ok"
    /\ pc = "ended" /\ outcome = "failed" /\ evidence = "removed" => faults > 0

Inv ==
    /\ TypeOK
    /\ IdsAreFresh
    /\ SurveysCover
    /\ Stages
    /\ Results
    /\ NeighborsOutliveTeardown
    /\ SentinelLeaksExplained

-----------------------------------------------------------------------------
(* Types. *)

\* The environment may run and nothing has been looked at.
LEMMA InitInv == Init => Inv
<1> SUFFICES ASSUME Init PROVE Inv
  OBVIOUS
<1>1. TypeOK
  <2>1. DOMAIN seen \subseteq Container /\ DOMAIN neighbors \subseteq Container \ Project
        /\ \A c \in DOMAIN seen : seen[c] \in Status
    BY DEF Init, Nothing
  <2>2. alive \subseteq created /\ created \subseteq Container
        /\ initial \subseteq Project /\ torn \subseteq Labelled
    BY DEF Init
  <2>3. pc \in Steps /\ evidence \in {"none", "passed", "removed", "broken", "discarded"}
        /\ outcome \in {"ok", "failed"} /\ listed \in BOOLEAN /\ known \in BOOLEAN
    BY DEF Init, Steps
  <2> QED
    BY <2>1, <2>2, <2>3 DEF Init, TypeOK
<1>2. IdsAreFresh /\ Stages
  BY DEF Init, IdsAreFresh, Stages, Nothing
<1>3. SurveysCover /\ Results
  BY DEF Init, SurveysCover, Surveys, Results
<1>4. NeighborsOutliveTeardown /\ SentinelLeaksExplained
  BY DEF Init, NeighborsOutliveTeardown, SentinelLeaksExplained
<1> QED
  BY <1>1, <1>2, <1>3, <1>4 DEF Inv

\* What a survey finds has the types of what is remembered of it.
LEMMA FoundTypes ==
    ASSUME TypeOK
    PROVE  /\ ProjectFound \subseteq Project
           /\ DOMAIN NeighborsFound = DOMAIN seen \ Project
BY DEF TypeOK, ProjectFound, NeighborsFound, Found

\* An exception leaves a survey that found nothing.
LEMMA RaiseTypes ==
    ASSUME TypeOK, NEW from, Raise(from) \/ RaiseAtEnd(from)
    PROVE  /\ pc' \in {"remove", "ended"} /\ pc' \in Steps /\ outcome' = "failed"
           /\ listed' = FALSE /\ pending' = {}
           /\ DOMAIN seen' = {}
<1>1. seen' = Nothing
  BY DEF Raise, RaiseAtEnd
<1> QED
  BY <1>1 DEF Raise, RaiseAtEnd, Steps, Surveys, Nothing

\* The steps of a survey keep the types.
LEMMA SurveyTypes ==
    ASSUME TypeOK, List \/ \E c \in Container : Inspect(c) \/ InspectRaises(c)
    PROVE  TypeOK'
<1> USE DEF TypeOK, host, memory, Steps
<1>1. CASE List
  BY <1>1 DEF List, Nothing
<1>2. ASSUME NEW c \in Container, Inspect(c) PROVE TypeOK'
  <2>1. DOMAIN seen' \subseteq Container /\ \A d \in DOMAIN seen' : seen'[d] \in Status
    BY <1>2 DEF Inspect
  <2> QED
    BY <1>2, <2>1 DEF Inspect
<1>3. ASSUME NEW c \in Container, InspectRaises(c) PROVE TypeOK'
  BY <1>3, RaiseTypes DEF InspectRaises
<1> QED
  BY <1>1, <1>2, <1>3

\* So do those that complete a survey.
LEMMA CompletionTypes ==
    ASSUME TypeOK,
           SurveyInitial \/ Confirm \/ SurveyBefore \/ Verified \/ SurveyAfter
           \/ SentinelGone \/ SentinelFound
    PROVE  TypeOK'
<1> USE DEF TypeOK, host, memory, Steps, Surveys, Complete
<1>1. CASE SurveyInitial
  BY <1>1, FoundTypes DEF SurveyInitial
<1>2. CASE Confirm
  BY <1>2 DEF Confirm
<1>3. CASE SurveyBefore
  <2>1. DOMAIN neighbors' \subseteq Container \ Project
    BY <1>3, FoundTypes DEF SurveyBefore
  <2> QED
    BY <1>3, <2>1 DEF SurveyBefore
<1>4. CASE Verified
  BY <1>4 DEF Verified
<1>5. CASE SurveyAfter \/ SentinelGone \/ SentinelFound
  BY <1>5 DEF SurveyAfter, SentinelGone, SentinelFound
<1> QED
  BY <1>1, <1>2, <1>3, <1>4, <1>5

\* So do the steps that go on, and those that fail.
LEMMA ProgressTypes ==
    ASSUME TypeOK,
           \/ Green \/ NotGreen \/ Create \/ CreateFails \/ NotConfirmed \/ SetupChanged
           \/ Teardown \/ TeardownFails \/ NoSurvivors \/ Survivors
           \/ Disturbed \/ Write \/ WriteFails
           \/ Remove \/ RemoveFails \/ Mark \/ Rewrite \/ RewriteFails
           \/ PrintPath \/ PrintFails
           \/ CallFails \/ Kill
    PROVE  TypeOK'
<1> USE DEF TypeOK, host, memory
<1>1. ASSUME NEW from, NEW to \in Steps, Proceed(from, to)
      PROVE  /\ pc' \in Steps /\ UNCHANGED <<outcome, listed, pending, seen>>
  BY <1>1 DEF Proceed, survey
<1>2. Fault => faults' \in 0..MaxFaults
  BY DEF Fault
<1>3. {"initial", "confirm", "survivors", "after", "remove", "mark", "rewrite", "print",
       "ended", "killed"} \subseteq Steps
  BY DEF Steps, Surveys
<1>4. CASE Green \/ NotGreen
  BY <1>1, <1>3, <1>4, RaiseTypes DEF Green, NotGreen
<1>5. CASE Create \/ CreateFails
  <2>1. RunSentinel => /\ alive' \subseteq created' /\ created' \subseteq Container
                       /\ UNCHANGED <<status, changes>>
    BY DEF RunSentinel, Container
  <2>2. CASE Create
    BY <1>1, <1>3, <2>1, <2>2 DEF Create
  <2>3. CASE CreateFails
    BY <1>2, <2>1, <2>3, RaiseTypes DEF CreateFails
  <2> QED
    BY <1>5, <2>2, <2>3
<1>6. CASE NotConfirmed \/ SetupChanged \/ Survivors \/ Disturbed
  BY <1>6, RaiseTypes DEF NotConfirmed, SetupChanged, Survivors, Disturbed
<1>7. CASE Teardown
  BY <1>1, <1>3, <1>7 DEF Teardown
<1>8. CASE TeardownFails
  BY <1>2, <1>8, RaiseTypes DEF TeardownFails
<1>9. CASE NoSurvivors
  BY <1>1, <1>3, <1>9 DEF NoSurvivors
<1>10. CASE Write
  BY <1>1, <1>3, <1>10 DEF Write
<1>11. CASE WriteFails
  BY <1>2, <1>11, RaiseTypes DEF WriteFails
<1>12. CASE Remove
  BY <1>1, <1>3, <1>12 DEF Remove
<1>13. CASE RemoveFails
  BY <1>2, <1>13, RaiseTypes DEF RemoveFails
<1>14. CASE Mark \/ Rewrite \/ PrintPath
  BY <1>1, <1>3, <1>14 DEF Mark, Rewrite, PrintPath
<1>15. CASE RewriteFails \/ PrintFails
  BY <1>2, <1>15, RaiseTypes DEF RewriteFails, PrintFails
<1>16. CASE CallFails
  BY <1>2, <1>16, RaiseTypes DEF CallFails
<1>17. CASE Kill
  BY <1>2, <1>3, <1>17 DEF Kill, survey
<1> QED
  BY <1>4, <1>5, <1>6, <1>7, <1>8, <1>9, <1>10, <1>11, <1>12, <1>13, <1>14, <1>15, <1>16, <1>17

\* What the other users of the host do.
OthersAct == Discard \/ \E c \in Container : Appear(c) \/ Switch(c) \/ Vanish(c)

\* So do the others.
LEMMA OthersTypes == ASSUME TypeOK, OthersAct PROVE TypeOK'
<1> USE DEF TypeOK, memory, survey, Change, Others
<1>1. ASSUME NEW c \in Container, Appear(c) \/ Vanish(c) PROVE TypeOK'
  BY <1>1 DEF Appear, Vanish
<1>2. ASSUME NEW c \in Container, Switch(c) PROVE TypeOK'
  BY <1>2 DEF Switch
<1>3. CASE Discard
  BY <1>3 DEF Discard
<1> QED
  BY <1>1, <1>2, <1>3 DEF OthersAct

\* Each step keeps the types.
LEMMA TypesStep == TypeOK /\ [Next]_vars => TypeOK'
<1> SUFFICES ASSUME TypeOK, [Next]_vars PROVE TypeOK'
  OBVIOUS
<1>1. CASE UNCHANGED vars
  BY <1>1 DEF vars, host, survey, memory, TypeOK
<1> QED
  BY <1>1, SurveyTypes, CompletionTypes, ProgressTypes, OthersTypes DEF Next, OthersAct
-----------------------------------------------------------------------------
(* The kinds of steps. *)

Failing ==
    \/ \E c \in Container : InspectRaises(c)
    \/ NotGreen \/ CreateFails \/ NotConfirmed \/ SetupChanged \/ TeardownFails \/ Survivors
    \/ Disturbed \/ WriteFails \/ RemoveFails \/ RewriteFails \/ PrintFails \/ CallFails

Completing ==
    \/ SurveyInitial \/ Confirm \/ SurveyBefore \/ Verified \/ SurveyAfter
    \/ SentinelGone \/ SentinelFound

Proceeding ==
    \/ Green \/ Create \/ Teardown \/ NoSurvivors \/ Write \/ Remove
    \/ Mark \/ Rewrite \/ PrintPath

\* A step of the proof, of the others, or none.
LEMMA KindsOfSteps ==
    [Next]_vars => \/ List \/ \E c \in Container : Inspect(c)
                   \/ Failing \/ Completing \/ Proceeding \/ Kill
                   \/ OthersAct \/ UNCHANGED vars
BY DEF Next, Failing, Completing, Proceeding, OthersAct

\* A step that fails ends the proof, at once or with the finally block, and claims nothing.
LEMMA FailingStep ==
    ASSUME TypeOK, Failing
    PROVE  /\ pc \notin {"ended", "killed"}
           /\ pc' \in {"remove", "ended"} /\ outcome' = "failed"
           /\ listed' = FALSE /\ pending' = {} /\ DOMAIN seen' = {}
           /\ UNCHANGED <<status, changes, memory>>
           /\ alive' \subseteq alive \cup {Sentinel}
           /\ evidence' # evidence => pc \in {"write", "rewrite"}
           /\ pc # "rewrite" /\ evidence' = "removed" => evidence = "removed"
           /\ pc \in {"rewrite", "print"} /\ evidence' = "removed" => faults' = faults + 1
           /\ pc \in {"rewrite", "print"} => UNCHANGED alive
           /\ pc' = "ended" => ~known \/ pc \in {"remove", "rm", "rewrite", "print"}
<1> DEFINE Goal ==
           /\ pc \notin {"ended", "killed"}
           /\ pc' \in {"remove", "ended"} /\ outcome' = "failed"
           /\ listed' = FALSE /\ pending' = {} /\ DOMAIN seen' = {}
           /\ UNCHANGED <<status, changes, memory>>
           /\ alive' \subseteq alive \cup {Sentinel}
           /\ evidence' # evidence => pc \in {"write", "rewrite"}
           /\ pc # "rewrite" /\ evidence' = "removed" => evidence = "removed"
           /\ pc \in {"rewrite", "print"} /\ evidence' = "removed" => faults' = faults + 1
           /\ pc \in {"rewrite", "print"} => UNCHANGED alive
           /\ pc' = "ended" => ~known \/ pc \in {"remove", "rm", "rewrite", "print"}
<1> USE DEF host
<1>1. ASSUME NEW from, Raise(from)
      PROVE  /\ pc' = IF known THEN "remove" ELSE "ended"
             /\ pc = from
             /\ outcome' = "failed" /\ listed' = FALSE /\ pending' = {} /\ DOMAIN seen' = {}
  BY <1>1, RaiseTypes DEF Raise
<1>2. ASSUME NEW from, RaiseAtEnd(from)
      PROVE  /\ pc' = "ended" /\ pc = from
             /\ outcome' = "failed" /\ listed' = FALSE /\ pending' = {} /\ DOMAIN seen' = {}
  BY <1>2, RaiseTypes DEF RaiseAtEnd
<1>3. ASSUME NEW c \in Container, InspectRaises(c) PROVE Goal
  BY <1>1, <1>2, <1>3 DEF InspectRaises, Surveys
<1>4. ASSUME NotGreen \/ CreateFails \/ NotConfirmed \/ SetupChanged PROVE Goal
  <2>1. PICK from \in {"green", "create", "confirm", "before"} : Raise(from)
    BY <1>4 DEF NotGreen, CreateFails, NotConfirmed, SetupChanged
  <2>2. UNCHANGED <<status, changes, memory, evidence>> /\ alive' \subseteq alive \cup {Sentinel}
    BY <1>4 DEF NotGreen, CreateFails, NotConfirmed, SetupChanged, RunSentinel
  <2> QED
    BY <1>1, <2>1, <2>2
<1>5. ASSUME TeardownFails \/ Survivors \/ Disturbed \/ WriteFails PROVE Goal
  <2>1. PICK from \in {"teardown", "survivors", "after", "write"} : Raise(from)
    BY <1>5 DEF TeardownFails, Survivors, Disturbed, WriteFails
  <2>2. UNCHANGED <<status, changes, memory>> /\ alive' \subseteq alive
    BY <1>5 DEF TeardownFails, Survivors, Disturbed, WriteFails
  <2>3. evidence' = evidence \/ (pc = "write" /\ evidence' # "removed")
    BY <1>5 DEF TeardownFails, Survivors, Disturbed, WriteFails, Raise
  <2> QED
    BY <1>1, <2>1, <2>2, <2>3
<1>6. ASSUME RemoveFails \/ RewriteFails \/ PrintFails PROVE Goal
  <2>1. PICK from \in {"rm", "rewrite", "print"} : RaiseAtEnd(from)
    BY <1>6 DEF RemoveFails, RewriteFails, PrintFails
  <2>2. /\ UNCHANGED <<status, changes, memory>> /\ alive' \subseteq alive
        /\ evidence' # evidence => pc = "rewrite"
        /\ pc \in {"rewrite", "print"} => UNCHANGED alive
        /\ pc \in {"rewrite", "print"} /\ evidence' = "removed" => faults' = faults + 1
    BY <1>6 DEF RemoveFails, RewriteFails, PrintFails, RaiseAtEnd, Fault
  <2> QED
    BY <1>2, <2>1, <2>2
<1>7. ASSUME CallFails PROVE Goal
  BY <1>1, <1>2, <1>7 DEF CallFails, Surveys
<1> HIDE DEF Goal
<1>8. Goal
  BY <1>3, <1>4, <1>5, <1>6, <1>7 DEF Failing
<1> QED
  BY <1>8 DEF Goal

-----------------------------------------------------------------------------
(* Ids and surveys. *)

\* Each step uses no id again.
LEMMA FreshStep ==
    ASSUME TypeOK, IdsAreFresh, SurveysCover, [Next]_vars
    PROVE  IdsAreFresh'
<1> USE DEF TypeOK, IdsAreFresh, host, memory, survey
<1>1. CASE List
  BY <1>1 DEF List, Nothing
<1>2. ASSUME NEW c \in Container, Inspect(c) PROVE IdsAreFresh'
  BY <1>2 DEF Inspect
<1>3. CASE Failing
  <2>1. pending' = {} /\ DOMAIN seen' = {} /\ UNCHANGED memory
    BY <1>3, FailingStep
  <2>2. ASSUME UNCHANGED <<alive, created, torn>> PROVE IdsAreFresh'
    BY <2>1, <2>2
  <2>3. CASE CreateFails
    BY <2>1, <2>2, <2>3 DEF CreateFails, RunSentinel
  <2>4. CASE TeardownFails
    BY <2>1, <2>4 DEF TeardownFails
  <2>5. CASE RemoveFails
    BY <2>1, <2>5 DEF RemoveFails
  <2> QED
    BY <1>3, <2>2, <2>3, <2>4, <2>5 DEF Failing, InspectRaises, NotGreen, NotConfirmed,
       SetupChanged, Survivors, Disturbed, WriteFails, RewriteFails, PrintFails, CallFails
<1>4. CASE Completing
  <2>1. UNCHANGED <<alive, created, torn, pending, seen>>
    BY <1>4 DEF Completing, Complete, SurveyInitial, Confirm, SurveyBefore, Verified, SurveyAfter,
       SentinelGone, SentinelFound
  <2>2. initial' \cup DOMAIN neighbors' \subseteq initial \cup DOMAIN neighbors \cup DOMAIN seen
    BY <1>4 DEF Completing, SurveyInitial, Confirm, SurveyBefore, Verified, SurveyAfter,
       SentinelGone, SentinelFound, ProjectFound, NeighborsFound, Found
  <2> QED
    BY <2>1, <2>2
<1>5. CASE Proceeding
  <2>1. UNCHANGED <<memory, pending, seen>>
    BY <1>5 DEF Proceeding, Proceed, Green, Create, Teardown, NoSurvivors, Write, Remove, Mark,
       Rewrite, PrintPath
  <2>2. CASE Create
    BY <2>1, <2>2 DEF Create, RunSentinel
  <2>3. CASE Teardown
    BY <2>1, <2>3 DEF Teardown, Proceed, SurveysCover, Surveys
  <2>4. CASE Green \/ NoSurvivors \/ Write \/ Remove \/ Mark \/ Rewrite \/ PrintPath
    BY <2>1, <2>4 DEF Green, NoSurvivors, Write, Remove, Mark, Rewrite,
       PrintPath
  <2> QED
    BY <1>5, <2>2, <2>3, <2>4 DEF Proceeding
<1>6. CASE Kill
  BY <1>6 DEF Kill
<1>7. CASE OthersAct
  BY <1>7 DEF OthersAct, Change, Others, Discard, Appear, Switch, Vanish
<1>8. CASE UNCHANGED vars
  BY <1>8 DEF vars
<1> QED
  BY <1>1, <1>2, <1>3, <1>4, <1>5, <1>6, <1>7, <1>8, KindsOfSteps

\* Each step keeps what the surveys cover.
LEMMA CoverStep ==
    ASSUME TypeOK, IdsAreFresh, SurveysCover, [Next]_vars
    PROVE  SurveysCover'
<1> USE DEF SurveysCover
<1>1. ASSUME listed' = FALSE, pending' = {} PROVE SurveysCover'
  BY <1>1
<1>2. CASE List
  <2>1. /\ pc \in Surveys /\ pc' = pc /\ pending' = alive \cap Scope /\ DOMAIN seen' = {}
        /\ Scope' = Scope /\ alive' = alive
    BY <1>2 DEF List, Nothing, Scope, host
  <2> QED
    BY <2>1
<1>3. ASSUME NEW c \in Container, Inspect(c) PROVE SurveysCover'
  <2>1. /\ pc \in Surveys /\ UNCHANGED <<pc, listed, alive, initial, neighbors>>
        /\ Scope' = Scope /\ Watched' = Watched
        /\ pending' \cup DOMAIN seen' = pending \cup DOMAIN seen
        /\ DOMAIN seen' = DOMAIN seen \cup {c}
        /\ pc = "verify" => c \in Project
    BY <1>3 DEF Inspect, Admitted, Scope, Watched, host, memory
  <2> QED
    BY <2>1
<1>4. CASE Failing
  BY <1>1, <1>4, FailingStep
<1>5. CASE Completing
  <2>1. listed' = FALSE /\ pending' = {}
    BY <1>5 DEF Completing, Complete, SurveyInitial, Confirm, SurveyBefore, Verified, SurveyAfter,
       SentinelGone, SentinelFound
  <2> QED
    BY <1>1, <2>1
<1>6. CASE Proceeding
  <2>1. pc \notin Surveys \cup {"killed"} /\ UNCHANGED <<listed, pending>>
    BY <1>6 DEF Proceeding, Proceed, Green, Create, Teardown, NoSurvivors, Write, Remove, Mark,
       Rewrite, PrintPath, survey, Surveys
  <2> QED
    BY <1>1, <2>1
<1>7. CASE Kill
  BY <1>7 DEF Kill, Surveys
<1>8. CASE OthersAct
  <2>1. /\ UNCHANGED <<pc, listed, pending, seen, initial, neighbors>>
        /\ alive' \cap (created \cup {Sentinel}) \subseteq alive
    BY <1>8 DEF OthersAct, Change, Others, Discard, Appear, Switch, Vanish, survey, memory
  <2>2. Watched' = Watched /\ Scope' = Scope /\ Watched \subseteq created \cup {Sentinel}
    BY <2>1 DEF Watched, Scope, IdsAreFresh
  <2>3. alive' \cap Watched \subseteq alive
    BY <2>1, <2>2
  <2> QED
    BY <2>1, <2>2, <2>3
<1>9. CASE UNCHANGED vars
  BY <1>9 DEF vars, host, survey, memory, Scope, Watched
<1> QED
  BY <1>2, <1>3, <1>4, <1>5, <1>6, <1>7, <1>8, <1>9, KindsOfSteps
-----------------------------------------------------------------------------
(* The stages of the proof. *)

\* Each step finds what it relies on.
LEMMA StagesStep ==
    ASSUME TypeOK, IdsAreFresh, SurveysCover, Stages, [Next]_vars
    PROVE  Stages'
<1> USE DEF Stages
<1>1. ASSUME UNCHANGED <<pc, alive, created, torn, neighbors, known>> PROVE Stages'
  BY <1>1
<1>2. CASE List
  BY <1>1, <1>2 DEF List, host, memory
<1>3. ASSUME NEW c \in Container, Inspect(c) PROVE Stages'
  BY <1>1, <1>3 DEF Inspect, host, memory
<1>4. CASE Failing
  BY <1>4, FailingStep
<1>5. CASE Completing
  <2> USE DEF Complete, host
  <2>1. CASE SurveyInitial
    BY <2>1 DEF SurveyInitial
  <2>2. CASE Confirm
    BY <2>2 DEF Confirm
  <2>3. CASE SurveyBefore
    BY <2>3 DEF SurveyBefore
  <2>4. CASE Verified
    <3>1. /\ pc = "verify" /\ listed /\ pending = {} /\ pc' \in {"after", "teardown"}
          /\ UNCHANGED <<alive, created, torn, neighbors, known>>
      BY <2>4 DEF Verified, memory
    <3>2. alive \cap Labelled \cap DOMAIN neighbors \subseteq Project
      BY <3>1 DEF SurveysCover, Surveys, Scope, Watched
    <3>3. alive \cap Labelled \cap DOMAIN neighbors = {}
      BY <3>2 DEF TypeOK
    <3> QED
      BY <3>1, <3>3
  <2>5. CASE SurveyAfter
    BY <2>5 DEF SurveyAfter, memory
  <2>6. CASE SentinelGone
    <3>1. /\ pc = "remove" /\ listed /\ pending = {} /\ pc' = "mark"
          /\ Sentinel \notin DOMAIN seen /\ alive' = alive
      BY <2>6 DEF SentinelGone, Found
    <3>2. Sentinel \notin alive
      BY <3>1 DEF SurveysCover, Surveys, Scope, Watched, Container
    <3> QED
      BY <3>1, <3>2
  <2>7. CASE SentinelFound
    BY <2>7 DEF SentinelFound
  <2> QED
    BY <1>5, <2>1, <2>2, <2>3, <2>4, <2>5, <2>6, <2>7 DEF Completing
<1>6. CASE Proceeding
  <2> USE DEF Proceed, host, memory
  <2>1. CASE Green
    BY <2>1 DEF Green
  <2>2. CASE Create
    BY <2>2 DEF Create
  <2>3. CASE Teardown
    BY <2>3 DEF Teardown
  <2>4. CASE NoSurvivors
    BY <2>4 DEF NoSurvivors
  <2>5. CASE Write \/ Mark \/ Rewrite \/ PrintPath
    BY <2>5 DEF Write, Mark, Rewrite, PrintPath
  <2>6. CASE Remove
    BY <2>6 DEF Remove
  <2> QED
    BY <1>6, <2>1, <2>2, <2>3, <2>4, <2>5, <2>6 DEF Proceeding
<1>7. CASE Kill
  BY <1>7 DEF Kill
<1>8. CASE OthersAct
  <2>1. /\ UNCHANGED <<pc, torn, neighbors, known>>
        /\ alive' \cap (created \cup {Sentinel}) \subseteq alive
        /\ Sentinel \in created' => Sentinel \in created
    BY <1>8 DEF OthersAct, Change, Others, Discard, Appear, Switch, Vanish, memory
  <2>2. alive' \cap DOMAIN neighbors \subseteq alive
    BY <2>1 DEF IdsAreFresh
  <2> QED
    BY <2>1, <2>2
<1>9. CASE UNCHANGED vars
  BY <1>1, <1>9 DEF vars, host, memory
<1> QED
  BY <1>2, <1>3, <1>4, <1>5, <1>6, <1>7, <1>8, <1>9, KindsOfSteps

\* The teardown removes no neighbour: of those with its label none was left.
LEMMA SparingStep ==
    ASSUME TypeOK, Stages, NeighborsOutliveTeardown, [Next]_vars
    PROVE  NeighborsOutliveTeardown'
<1> USE DEF NeighborsOutliveTeardown
<1>1. CASE Teardown \/ TeardownFails
  <2>1. pc = "teardown" /\ torn' \subseteq torn \cup (alive \cap Labelled) /\ neighbors' = neighbors
    BY <1>1 DEF Teardown, TeardownFails, Proceed, Raise, memory
  <2> QED
    BY <2>1 DEF Stages
<1>2. CASE SurveyBefore
  BY <1>2 DEF SurveyBefore, Complete, Stages
<1>3. ASSUME ~(Teardown \/ TeardownFails), ~SurveyBefore PROVE UNCHANGED <<torn, neighbors>>
  <2> DEFINE Goal == UNCHANGED <<torn, neighbors>>
  <2> USE DEF memory
  <2>1. ASSUME List \/ \E c \in Container : Inspect(c) PROVE Goal
    BY <2>1 DEF List, Inspect
  <2>2. ASSUME Failing PROVE Goal
    BY <1>3, <2>2 DEF Failing, InspectRaises, NotGreen, CreateFails, NotConfirmed, SetupChanged,
       Survivors, Disturbed, WriteFails, RemoveFails, RewriteFails, PrintFails, CallFails
  <2>3. ASSUME Completing PROVE Goal
    BY <1>3, <2>3 DEF Completing, Complete, SurveyInitial, Confirm, Verified, SurveyAfter,
       SentinelGone, SentinelFound
  <2>4. ASSUME Proceeding PROVE Goal
    BY <1>3, <2>4 DEF Proceeding, Green, Create, NoSurvivors, Write, Remove, Mark, Rewrite,
       PrintPath
  <2>5. ASSUME Kill \/ OthersAct \/ UNCHANGED vars PROVE Goal
    BY <2>5 DEF Kill, OthersAct, Change, Others, Discard, Appear, Switch, Vanish, vars
  <2> QED
    BY <2>1, <2>2, <2>3, <2>4, <2>5, KindsOfSteps
<1> QED
  BY <1>1, <1>2, <1>3

-----------------------------------------------------------------------------
(* The result. *)

\* Each step keeps the result true.
LEMMA ResultsStep ==
    ASSUME TypeOK, IdsAreFresh, SurveysCover, Stages, Results, [Next]_vars
    PROVE  Results'
<1> USE DEF Results, Written
<1>1. ASSUME UNCHANGED <<pc, alive, initial, evidence, outcome, faults>> PROVE Results'
  BY <1>1
<1>2. CASE List
  BY <1>1, <1>2 DEF List, host, memory
<1>3. ASSUME NEW c \in Container, Inspect(c) PROVE Results'
  BY <1>1, <1>3 DEF Inspect, host, memory
<1>4. CASE Failing
  <2>1. /\ pc \notin {"ended", "killed"}
        /\ pc' \in {"remove", "ended"} /\ outcome' = "failed"
        /\ initial' = initial /\ alive' \subseteq alive \cup {Sentinel}
        /\ evidence' # evidence => pc \in {"write", "rewrite"}
        /\ pc # "rewrite" /\ evidence' = "removed" => evidence = "removed"
        /\ pc \in {"rewrite", "print"} /\ evidence' = "removed" => faults' = faults + 1
        /\ pc \in {"rewrite", "print"} => UNCHANGED alive
        /\ pc' = "ended" => ~known \/ pc \in {"remove", "rm", "rewrite", "print"}
    BY <1>4, FailingStep DEF memory
  <2>2. alive' \cap initial' \subseteq alive \cap initial
    BY <2>1 DEF TypeOK, Labelled
  <2>3. evidence' # "none" => alive' \cap initial' = {}
    <3>1. pc = "rewrite" => evidence # "none"
      BY DEF TypeOK
    <3> QED
      BY <2>1, <2>2, <3>1
  <2>4. evidence' = "removed" =>
            pc \in {"rewrite", "print"} /\ pc' = "ended" /\ Sentinel \notin alive' /\ faults' > 0
    <3>1. evidence' = "removed" => pc \in {"rewrite", "print"}
      BY <2>1
    <3>2. pc \in {"rewrite", "print"} => pc' = "ended" /\ Sentinel \notin alive'
      BY <1>4, <2>1 DEF Stages, Failing, InspectRaises, NotGreen, CreateFails, NotConfirmed,
         SetupChanged, TeardownFails, Survivors, Disturbed, WriteFails, RemoveFails, RewriteFails,
         PrintFails, CallFails, Raise, RaiseAtEnd, Surveys
    <3>3. pc \in {"rewrite", "print"} /\ evidence' = "removed" => faults' > 0
      BY <2>1 DEF TypeOK
    <3> QED
      BY <3>1, <3>2, <3>3
  <2> QED
    BY <2>1, <2>3, <2>4
<1>5. CASE Completing
  <2> USE DEF Complete, host
  <2>1. CASE SurveyInitial \/ Confirm \/ SurveyBefore \/ Verified
    BY <2>1 DEF SurveyInitial, Confirm, SurveyBefore, Verified, memory
  <2>2. CASE SurveyAfter
    <3>1. /\ pc = "after" /\ listed /\ pending = {} /\ pc' = "write"
          /\ DOMAIN seen \cap Project = {}
          /\ UNCHANGED <<alive, initial, evidence, outcome>>
      BY <2>2 DEF SurveyAfter, Unchanged, ProjectFound, Found, memory
    <3>2. alive \cap initial = {}
      BY <3>1 DEF SurveysCover, Surveys, Scope, Watched, TypeOK, Container, Labelled
    <3> QED
      BY <3>1, <3>2
  <2>3. CASE SentinelGone \/ SentinelFound
    BY <2>3 DEF SentinelGone, SentinelFound, memory
  <2> QED
    BY <1>5, <2>1, <2>2, <2>3 DEF Completing
<1>6. CASE Proceeding
  <2> USE DEF Proceed, host, memory
  <2>1. CASE Green \/ NoSurvivors
    BY <2>1 DEF Green, NoSurvivors
  <2>2. CASE Create
    BY <2>2 DEF Create
  <2>3. CASE Teardown
    BY <2>3 DEF Teardown
  <2>4. CASE Write
    BY <2>4 DEF Write
  <2>5. CASE Remove
    BY <2>5 DEF Remove
  <2>6. CASE Mark
    BY <2>6 DEF Mark, TypeOK
  <2>7. CASE Rewrite \/ PrintPath
    BY <2>7 DEF Rewrite, PrintPath, Stages
  <2> QED
    BY <1>6, <2>1, <2>2, <2>3, <2>4, <2>5, <2>6, <2>7 DEF Proceeding
<1>7. CASE Kill
  BY <1>7 DEF Kill, host, memory
<1>8. CASE OthersAct
  <2>1. /\ UNCHANGED <<pc, outcome, initial, faults>>
        /\ alive' \cap (created \cup {Sentinel}) \subseteq alive
        /\ evidence' = evidence \/ (evidence # "none" /\ evidence' = "discarded")
    BY <1>8 DEF OthersAct, Change, Others, Discard, Appear, Switch, Vanish, memory
  <2>2. alive' \cap initial \subseteq alive
    BY <2>1 DEF IdsAreFresh
  <2> QED
    BY <2>1, <2>2
<1>9. CASE UNCHANGED vars
  BY <1>1, <1>9 DEF vars, host, memory
<1> QED
  BY <1>2, <1>3, <1>4, <1>5, <1>6, <1>7, <1>8, <1>9, KindsOfSteps
-----------------------------------------------------------------------------
(* The sentinel. *)

\* What SentinelLeaksExplained counts as an explanation.
Explained == faults > 0 \/ created \ (alive \cup torn) # {}

\* A failure has happened, and a container that vanished stays away, for ever.
LEMMA ExplanationStays ==
    ASSUME TypeOK, IdsAreFresh, Explained, [Next]_vars
    PROVE  Explained'
<1> DEFINE Goal == /\ faults' = faults \/ faults' = faults + 1
                   /\ created \subseteq created' /\ alive' \cap created \subseteq alive
                   /\ torn' \subseteq torn \cup alive
<1> USE DEF host, memory, Fault
<1>1. ASSUME List \/ (\E c \in Container : Inspect(c)) \/ Kill PROVE Goal
  BY <1>1 DEF List, Inspect, Kill
<1>2. ASSUME Failing PROVE Goal
  <2>1. ASSUME \/ \E c \in Container : InspectRaises(c)
               \/ NotGreen \/ NotConfirmed \/ SetupChanged \/ Survivors \/ Disturbed
        PROVE  Goal
    BY <2>1 DEF InspectRaises, NotGreen, NotConfirmed, SetupChanged, Survivors, Disturbed
  <2>2. ASSUME CreateFails PROVE Goal
    BY <2>2 DEF CreateFails, RunSentinel
  <2>3. ASSUME TeardownFails PROVE Goal
    BY <2>3 DEF TeardownFails
  <2>4. ASSUME RemoveFails PROVE Goal
    BY <2>4 DEF RemoveFails
  <2>5. ASSUME WriteFails \/ RewriteFails \/ PrintFails \/ CallFails PROVE Goal
    BY <2>5 DEF WriteFails, RewriteFails, PrintFails, CallFails
  <2> QED
    BY <1>2, <2>1, <2>2, <2>3, <2>4, <2>5 DEF Failing
<1>3. ASSUME Completing PROVE Goal
  BY <1>3 DEF Completing, Complete, SurveyInitial, Confirm, SurveyBefore, Verified, SurveyAfter,
     SentinelGone, SentinelFound
<1>4. ASSUME Proceeding PROVE Goal
  <2>1. ASSUME Create PROVE Goal
    BY <2>1 DEF Create, RunSentinel
  <2>2. ASSUME Teardown PROVE Goal
    BY <2>2 DEF Teardown
  <2>3. ASSUME Green \/ NoSurvivors \/ Write \/ Remove \/ Mark \/ Rewrite \/ PrintPath PROVE Goal
    BY <2>3 DEF Green, NoSurvivors, Write, Remove, Mark, Rewrite,
       PrintPath
  <2> QED
    BY <1>4, <2>1, <2>2, <2>3 DEF Proceeding
<1>5. ASSUME OthersAct PROVE Goal
  BY <1>5 DEF OthersAct, Change, Others, Discard, Appear, Switch, Vanish
<1>6. ASSUME UNCHANGED vars PROVE Goal
  BY <1>6 DEF vars
<1> HIDE DEF Goal
<1>7. Goal
  BY <1>1, <1>2, <1>3, <1>4, <1>5, <1>6, KindsOfSteps
<1> QED
  BY <1>7 DEF Goal, Explained, TypeOK

\* The proof ends while its sentinel is there only where the end of a survey, a kill or a
\* failing call explains it.
LEMMA LeaksStep ==
    ASSUME TypeOK, IdsAreFresh, SurveysCover, Stages, SentinelLeaksExplained, [Next]_vars
    PROVE  SentinelLeaksExplained'
<1> SUFFICES ASSUME pc' \in {"ended", "killed"}, Sentinel \in alive' PROVE Explained'
  BY DEF SentinelLeaksExplained, Explained
<1> USE DEF host, memory
<1>0. Fault => faults' > 0
  BY DEF Fault, TypeOK
<1>1. ASSUME pc \in {"ended", "killed"}, Sentinel \in alive PROVE Explained'
  BY <1>1, ExplanationStays DEF SentinelLeaksExplained, Explained
<1>2. CASE List \/ \E c \in Container : Inspect(c)
  BY <1>1, <1>2 DEF List, Inspect
<1>3. CASE Failing
  <2>1. pc' = "ended" /\ pc \notin {"before", "verify", "teardown", "survivors", "after", "write"}
    BY <1>3, FailingStep DEF Stages
  <2>2. ASSUME NEW c \in Container, InspectRaises(c) PROVE Explained'
    <3>1. c \in pending /\ c \notin alive /\ UNCHANGED <<alive, created, torn>>
      BY <2>1, <2>2 DEF InspectRaises, Admitted
    <3> QED
      BY <3>1 DEF IdsAreFresh, Explained
  <2>3. CASE NotGreen
    BY <2>3 DEF NotGreen, Raise, Stages, TypeOK
  <2>4. CASE NotConfirmed
    BY <2>4 DEF NotConfirmed, Raise, Found, SurveysCover, Surveys, Scope, Watched, Container
  <2>5. CASE SetupChanged \/ Survivors \/ Disturbed
    BY <2>1, <2>5 DEF SetupChanged, Survivors, Disturbed, Raise
  <2>6. CASE CreateFails \/ TeardownFails \/ WriteFails \/ PrintFails \/ CallFails
    BY <1>0, <2>6 DEF CreateFails, TeardownFails, WriteFails, PrintFails, CallFails, Explained
  <2>7. CASE RemoveFails
    BY <1>0, <2>7 DEF RemoveFails, Explained
  <2>8. CASE RewriteFails
    BY <2>8 DEF RewriteFails, RaiseAtEnd, Stages
  <2> QED
    BY <1>3, <2>2, <2>3, <2>4, <2>5, <2>6, <2>7, <2>8 DEF Failing
<1>4. CASE Completing
  BY <1>4 DEF Completing, Complete, SurveyInitial, Confirm, SurveyBefore, Verified, SurveyAfter,
     SentinelGone, SentinelFound
<1>5. CASE Proceeding
  <2>1. Mark \/ PrintPath
    BY <1>5 DEF Proceeding, Proceed, Green, Create, Teardown, NoSurvivors, Write, Remove,
       Rewrite
  <2> QED
    BY <2>1 DEF Mark, PrintPath, Proceed, Stages
<1>6. CASE Kill
  BY <1>0, <1>6 DEF Kill, Explained
<1>7. CASE OthersAct
  <2>1. pc' = pc /\ (Sentinel \in alive' => Sentinel \in alive)
    BY <1>7 DEF OthersAct, Change, Others, Discard, Appear, Switch, Vanish
  <2> QED
    BY <1>1, <2>1
<1>8. CASE UNCHANGED vars
  BY <1>1, <1>8 DEF vars
<1> QED
  BY <1>2, <1>3, <1>4, <1>5, <1>6, <1>7, <1>8, KindsOfSteps

-----------------------------------------------------------------------------
(* Theorems. *)

\* The types, the surveys, the stages of the proof and its result hold together.
THEOREM Invariance == Spec => []Inv
<1>1. Init => Inv
  BY InitInv
<1>2. Inv /\ [Next]_vars => Inv'
  BY TypesStep, FreshStep, CoverStep, StagesStep, ResultsStep, SparingStep, LeaksStep DEF Inv
<1> QED
  BY <1>1, <1>2, PTL DEF Spec

\* Each variable keeps its type.
THEOREM TypeCorrect == Spec => []TypeOK
<1>1. Inv => TypeOK
  BY DEF Inv
<1> QED
  BY <1>1, Invariance, PTL

\* docs/OPERATIONS.md:35: whatever the others start, stop and remove meanwhile, the
\* teardown of clean_room.py and lifecycle.py removes no container that was a neighbour
\* before it, even one with the label it removes by.
THEOREM NeighborsAreSpared == Spec => []NeighborsOutliveTeardown
<1>1. Inv => NeighborsOutliveTeardown
  BY DEF Inv
<1> QED
  BY <1>1, Invariance, PTL

\* clean_room.py: behind exit 0 is a file that records a removed sentinel, unless others
\* deleted it; what a file says of the sentinel and of the environment's containers is so;
\* and a command that fails although its file says so had a write or the print fail.
THEOREM ExitIsEarned == Spec => []ExitAgreesWithEvidence
<1>1. Inv => ExitAgreesWithEvidence
  BY DEF Inv, Results, ExitAgreesWithEvidence
<1> QED
  BY <1>1, Invariance, PTL

\* clean_room.py, the finally block: a sentinel outlives its command only after a failing
\* call or a kill, or when another container vanished.
THEOREM LeaksAreExplained == Spec => []SentinelLeaksExplained
<1>1. Inv => SentinelLeaksExplained
  BY DEF Inv
<1> QED
  BY <1>1, Invariance, PTL

------------------------------------------------------------------------------
(* The evidence command. *)

USE LabelAssumption, EvidenceBoundsAssumption, SelectsAssumption, RequiredAssumption

\* The steps of a command that has written a format and is not over.
Past(f) ==
    (CASE f = "json" -> {"md", "csv", "junit"} [] f = "md" -> {"csv", "junit"}
       [] f = "csv" -> {"junit"} [] OTHER -> {}) \cup {"manifest", "reconcile", "report"}

Working(e) == stands[e] \notin Over \cup {"idle"}
Summarised(e) == DOMAIN records[e] # {} /\ stands[e] \notin {"idle", "read"}

\* What a command has merged so far is what the files say that it has parsed: a failure
\* in one of them is not lost, and a pass was in one of them.
MergedIsRead ==
    \A e \in Command :
        /\ stands[e] = "idle" => DOMAIN read[e] = {}
        /\ DOMAIN merged[e] = Check
        /\ \A c \in Check :
               /\ Holds(e, c, "failed") => merged[e][c] = "failed"
               /\ merged[e][c] = "passed" => Holds(e, c, "passed")

\* The records of a summary are what was merged when the last file was parsed.
RecordsAreMerged ==
    \A e \in Command :
        /\ stands[e] \in {"idle", "read"} => DOMAIN records[e] = {}
        /\ stands[e] \in Format \cup {"manifest", "reconcile", "report"} => DOMAIN records[e] # {}
        /\ \A c \in DOMAIN records[e] : records[e][c] = merged[e][c]

\* A file that has been written stays, and test-summary.json shows the records of the
\* command that it names.
FilesAreRendered ==
    /\ \A e \in Command, f \in Format : stands[e] \in Past(f) => package[f] # NoFile
    /\ package["json"] # NoFile =>
           /\ package["json"].by \in Command /\ Summarised(package["json"].by)
           /\ package["json"].records = records[package["json"].by]

\* What a command that exits 0 has certified are the records of a summary, and they pass.
CertifiedPasses ==
    \A e \in Command : stands[e] = "ok" =>
        /\ certified[e].by \in Command /\ Summarised(certified[e].by)
        /\ certified[e].records = records[certified[e].by]
        /\ \A c \in DOMAIN certified[e].records :
               /\ certified[e].records[c] # "failed"
               /\ certified[e].records[c] = "not observed" => allow[e]

\* Without an overlap one command is at work, the files it has written are its own, and
\* so are those that the manifest names.
OneCommandWrites ==
    ~overlapped =>
        /\ \A d, e \in Command : Working(d) /\ Working(e) => d = e
        /\ \A e \in Command, f \in Format : stands[e] \in Past(f) => package[f] = Rendered(e, f)
        /\ manifest # NoManifest =>
               \E d \in Command :
                   Summarised(d) /\ \A f \in Format : manifest.files[f] = Rendered(d, f)

EvidenceInv ==
    /\ EvidenceTypeOK
    /\ MergedIsRead
    /\ RecordsAreMerged
    /\ FilesAreRendered
    /\ CertifiedPasses
    /\ OneCommandWrites

-----------------------------------------------------------------------------
(* Where things stand. *)

\* A step of the tests or of a commit, which no command takes part in.
Outside == Commit \/ \E l \in Label : StartTests(l) \/ EndTests(l) \/ KillTests(l)

\* A step of one command, and what it does to where the commands stand.
Step(e) ==
    \/ Collect(e) \/ Read(e) \/ Summarise(e) \/ WriteFile(e) \/ WriteManifest(e) \/ Reconcile(e)
    \/ Report(e) \/ Abandon(e)

\* The outside leaves everything that a command has alone.
LEMMA OutsideStays ==
    ASSUME Outside \/ UNCHANGED evidenceVars
    PROVE  UNCHANGED <<stands, gathered, package, manifest, overlapped>>
BY DEF Outside, Commit, StartTests, EndTests, KillTests, evidenceVars

\* A command goes from step to step, and never back.
LEMMA CommandGoesOn ==
    ASSUME EvidenceTypeOK, NEW e \in Command, Step(e)
    PROVE  /\ \A d \in Command \ {e} : stands'[d] = stands[d]
           /\ stands'[e] \in CommandSteps /\ stands[e] \notin Over /\ stands'[e] # "idle"
           /\ stands[e] \notin {"idle", "read"} => stands'[e] \notin {"idle", "read"}
<1> USE DEF EvidenceTypeOK, CommandSteps, Over, Format
<1>1. CASE Collect(e)
  BY <1>1 DEF Collect, Goto
<1>2. CASE Read(e)
  BY <1>2 DEF Read
<1>3. CASE Summarise(e) \/ WriteManifest(e) \/ Reconcile(e)
  BY <1>3 DEF Summarise, WriteManifest, Reconcile, Goto
<1>4. CASE WriteFile(e)
  BY <1>4 DEF WriteFile, Goto, After
<1>5. CASE Report(e)
  BY <1>5 DEF Report, Goto
<1>6. CASE Abandon(e)
  BY <1>6 DEF Abandon
<1> QED
  BY <1>1, <1>2, <1>3, <1>4, <1>5, <1>6 DEF Step

\* Parsing stops with the summary, and the summary is made once.
LEMMA SummariesStay ==
    ASSUME EvidenceTypeOK, [EvidenceNext]_evidenceVars, NEW d \in Command
    PROVE  /\ stands[d] \notin {"idle", "read"} =>
                 /\ stands'[d] \notin {"idle", "read"}
                 /\ UNCHANGED <<read[d], merged[d], records[d], allow[d]>>
           /\ Summarised(d) => Summarised(d)'
<1>1. CASE Outside \/ UNCHANGED evidenceVars
  BY <1>1, OutsideStays DEF gathered, Summarised
<1>2. ASSUME NEW e \in Command, Step(e), stands[d] \notin {"idle", "read"}
      PROVE  /\ stands'[d] \notin {"idle", "read"}
             /\ UNCHANGED <<read[d], merged[d], records[d], allow[d]>>
  <2>1. stands'[d] \notin {"idle", "read"}
    BY <1>2, CommandGoesOn
  <2>2. CASE Collect(e) \/ Read(e) \/ Summarise(e)
    BY <1>2, <2>2 DEF Collect, Read, Summarise, Goto, EvidenceTypeOK
  <2>3. CASE WriteFile(e) \/ WriteManifest(e) \/ Reconcile(e) \/ Report(e) \/ Abandon(e)
    BY <2>1, <2>3 DEF WriteFile, WriteManifest, Reconcile, Report, Abandon, gathered
  <2> QED
    BY <1>2, <2>1, <2>2, <2>3 DEF Step
<1> QED
  BY <1>1, <1>2 DEF EvidenceNext, Outside, Step, Summarised

\* Every step is one of the outside or of a command.
LEMMA WhoMoves ==
    ASSUME [EvidenceNext]_evidenceVars
    PROVE  (Outside \/ UNCHANGED evidenceVars) \/ \E e \in Command : Step(e)
BY DEF EvidenceNext, Outside, Step

-----------------------------------------------------------------------------
(* Types. *)

\* With a value more, and with one less.
LEMMA WithOne ==
    ASSUME NEW f, NEW x, NEW v
    PROVE  /\ DOMAIN With(f, x, v) = DOMAIN f \cup {x}
           /\ With(f, x, v)[x] = v
           /\ \A y \in DOMAIN f \ {x} : With(f, x, v)[y] = f[y]
           /\ DOMAIN Without(f, x) = DOMAIN f \ {x}
           /\ \A y \in DOMAIN f \ {x} : Without(f, x)[y] = f[y]
BY DEF With, Without

\* What a command does not touch.
LEMMA CommandLeaves ==
    ASSUME NEW e \in Command, Step(e)
    PROVE  UNCHANGED tests /\ kills' \in {kills, kills + 1}
BY DEF Step, Collect, Read, Summarise, WriteFile, WriteManifest, Reconcile, Report, Abandon,
    gathered

\* Revisions only come, and files of test results are about revisions that there are.
LEMMA TestsType ==
    ASSUME EvidenceTypeOK, [EvidenceNext]_evidenceVars
    PROVE  /\ head' \in 0..MaxCommits /\ head <= head'
           /\ DOMAIN testing' \subseteq Label
           /\ \A l \in DOMAIN testing' : testing'[l] \in 0..head'
           /\ IsJUnit(junit)' /\ DOMAIN junit \subseteq DOMAIN junit'
           /\ runs' \in 0..MaxRuns
<1> USE DEF EvidenceTypeOK, IsJUnit
<1>1. CASE UNCHANGED tests
  BY <1>1 DEF tests
<1>2. CASE Commit
  BY <1>2 DEF Commit
<1>3. ASSUME NEW l \in Label, StartTests(l) \/ KillTests(l)
      PROVE  /\ UNCHANGED <<head, junit>> /\ runs' \in 0..MaxRuns
             /\ DOMAIN testing' \subseteq Label
             /\ \A k \in DOMAIN testing' : testing'[k] \in 0..head
  BY <1>3 DEF StartTests, KillTests, With, Without
<1>4. ASSUME NEW l \in Label, EndTests(l)
      PROVE  /\ UNCHANGED <<head, runs>> /\ IsJUnit(junit')
             /\ DOMAIN junit \subseteq DOMAIN junit'
             /\ DOMAIN testing' \subseteq Label
             /\ \A k \in DOMAIN testing' : testing'[k] \in 0..head
  <2>1. PICK o \in Outcomes(l) : junit' = With(junit, l, [revision |-> testing[l], outcomes |-> o])
    BY <1>4 DEF EndTests
  <2>2. UNCHANGED <<head, runs>> /\ testing' = Without(testing, l) /\ testing[l] \in 0..head
    BY <1>4 DEF EndTests
  <2> QED
    BY <2>1, <2>2 DEF With, Without
<1> QED
  BY <1>1, <1>2, <1>3, <1>4, WhoMoves, CommandLeaves DEF Outside, tests, evidenceVars

\* Which of its own state a step of a command leaves to the other commands.
LEMMA OthersKeep ==
    ASSUME EvidenceTypeOK, NEW e \in Command, Step(e)
    PROVE  /\ DOMAIN unread' = Command /\ DOMAIN read' = Command /\ DOMAIN merged' = Command
           /\ DOMAIN records' = Command /\ DOMAIN certified' = Command
           /\ \A d \in Command \ {e} : UNCHANGED <<unread[d], read[d], merged[d], records[d],
                                                   certified[d], allow[d]>>
<1> USE DEF EvidenceTypeOK
<1>1. CASE Collect(e)
  BY <1>1 DEF Collect
<1>2. CASE Read(e)
  BY <1>2 DEF Read
<1>3. CASE Summarise(e)
  BY <1>3 DEF Summarise
<1>4. CASE Report(e)
  BY <1>4 DEF Report
<1>5. CASE UNCHANGED gathered
  BY <1>5 DEF gathered
<1> QED
  BY <1>1, <1>2, <1>3, <1>4, <1>5 DEF Step, WriteFile, WriteManifest, Reconcile, Abandon

\* The files on the list of a command and those it has parsed stay such.
LEMMA ReadsType ==
    ASSUME EvidenceTypeOK, MergedIsRead, NEW e \in Command, Step(e)
    PROVE  IsJUnit(read'[e]) /\ unread'[e] \subseteq DOMAIN junit \ DOMAIN read'[e]
<1> USE DEF EvidenceTypeOK
<1>1. CASE Collect(e)
  BY <1>1 DEF Collect, Goto, MergedIsRead
<1>2. CASE Read(e)
  <2>1. PICK l \in unread[e] : /\ unread' = [unread EXCEPT ![e] = @ \ {l}]
                               /\ read' = [read EXCEPT ![e] = With(@, l, junit[l])]
    BY <1>2 DEF Read
  <2>2. /\ unread'[e] = unread[e] \ {l} /\ read'[e] = With(read[e], l, junit[l])
        /\ l \in DOMAIN junit
    BY <2>1
  <2>3. IsJUnit(read[e]) /\ IsJUnit(junit) /\ unread[e] \subseteq DOMAIN junit \ DOMAIN read[e]
    OBVIOUS
  <2> QED
    BY <2>2, <2>3 DEF IsJUnit, With
<1>3. CASE Summarise(e) \/ Report(e)
  BY <1>3 DEF Summarise, Report
<1>4. CASE UNCHANGED gathered
  BY <1>4 DEF gathered
<1> QED
  BY <1>1, <1>2, <1>3, <1>4 DEF Step, WriteFile, WriteManifest, Reconcile, Abandon

\* Outcomes are merged into observations, and recorded for checks.
LEMMA RecordsType ==
    ASSUME EvidenceTypeOK, MergedIsRead, NEW e \in Command, Step(e)
    PROVE  /\ IsRecords(merged'[e]) /\ DOMAIN merged'[e] = Check
           /\ IsRecords(records'[e]) /\ IsFile(certified'[e])
<1> USE DEF EvidenceTypeOK, MergedIsRead
<1>1. CASE Collect(e)
  BY <1>1 DEF Collect
<1>2. CASE Read(e)
  <2>1. PICK l \in unread[e] : merged' = [merged EXCEPT ![e] = Merge(@, junit[l].outcomes)]
    BY <1>2 DEF Read
  <2>2. merged'[e] = Merge(merged[e], junit[l].outcomes) /\ junit[l].outcomes \in Outcomes(l)
    BY <2>1 DEF IsJUnit
  <2>3. UNCHANGED <<records, certified>>
    BY <1>2 DEF Read
  <2>4. IsRecords(merged[e]) /\ DOMAIN merged[e] = Check /\ junit[l].outcomes \in Outcomes(l)
    BY <2>2
  <2>5. DOMAIN merged'[e] = Check
    BY <2>2 DEF Merge
  <2>6. ASSUME NEW c \in Check PROVE merged'[e][c] \in Observation
    <3> DEFINE new == junit[l].outcomes
    <3>1. c \in DOMAIN new => new[c] \in {"passed", "failed"}
      BY <2>4 DEF Outcomes
    <3>2. merged[e][c] \in Observation
      BY <2>4 DEF IsRecords
    <3>3. merged'[e][c] =
              IF c \in DOMAIN new /\ (merged[e][c] = "not observed" \/ new[c] = "failed")
              THEN new[c] ELSE merged[e][c]
      BY <2>2 DEF Merge
    <3> HIDE DEF new
    <3> QED
      BY <3>1, <3>2, <3>3 DEF Observation
  <2> QED
    BY <2>3, <2>5, <2>6 DEF IsRecords
<1>3. CASE Summarise(e)
  <2>1. head \in 0..MaxCommits
    OBVIOUS
  <2>2. Required[head] \subseteq Check
    BY <2>1
  <2>3. records'[e] = [c \in Required[head] |-> merged[e][c]] /\ UNCHANGED <<merged, certified>>
    BY <1>3 DEF Summarise
  <2> QED
    BY <2>2, <2>3 DEF IsRecords
<1>4. CASE Report(e)
  BY <1>4 DEF Report, Format
<1>5. CASE UNCHANGED gathered
  BY <1>5 DEF gathered
<1> QED
  BY <1>1, <1>2, <1>3, <1>4, <1>5 DEF Step, WriteFile, WriteManifest, Reconcile, Abandon

\* What is written are files, and the manifest names only files that there are.
LEMMA PackageType ==
    ASSUME EvidenceTypeOK, FilesAreRendered, RecordsAreMerged, NEW e \in Command, Step(e)
    PROVE  /\ DOMAIN package' = Format /\ \A f \in Format : IsFile(package'[f])
           /\ \A f \in Format : package[f] # NoFile => package'[f] # NoFile
           /\ manifest' # NoManifest =>
                 /\ manifest'.revision \in 0..head
                 /\ \A f \in Format : IsFile(manifest'.files[f]) /\ manifest'.files[f] # NoFile
<1> USE DEF EvidenceTypeOK
<1>1. CASE WriteFile(e)
  <2>1. IsFile(Rendered(e, stands[e])) /\ Rendered(e, stands[e]) # NoFile
    <3>1. DOMAIN records[e] # {}
      BY <1>1 DEF WriteFile, RecordsAreMerged
    <3>2. DOMAIN None = {}
      BY DEF None
    <3> QED
      BY <3>1, <3>2 DEF Rendered, NoFile, IsFile
  <2>2. package' = [package EXCEPT ![stands[e]] = Rendered(e, stands[e])] /\ UNCHANGED manifest
    BY <1>1 DEF WriteFile
  <2> QED
    BY <2>1, <2>2
<1>2. CASE WriteManifest(e)
  <2>1. \A f \in Format : package[f] # NoFile
    BY <1>2 DEF WriteManifest, Goto, FilesAreRendered, Past
  <2>2. /\ manifest' = [revision |-> head, total |-> Cardinality(DOMAIN records[e]),
                        files |-> package]
        /\ UNCHANGED package
    BY <1>2 DEF WriteManifest
  <2> QED
    BY <2>1, <2>2
<1>3. CASE UNCHANGED <<package, manifest>>
  BY <1>3
<1> QED
  BY <1>1, <1>2, <1>3 DEF Step, Collect, Read, Summarise, Reconcile, Report, Abandon

\* Overlaps and kills are what they are counted as.
LEMMA CountersType ==
    ASSUME EvidenceTypeOK, [EvidenceNext]_evidenceVars
    PROVE  overlapped' \in BOOLEAN /\ kills' \in 0..MaxKills /\ allow' \in [Command -> BOOLEAN]
<1> USE DEF EvidenceTypeOK
<1>1. CASE Outside \/ UNCHANGED evidenceVars
  <2>1. kills' = kills \/ (kills < MaxKills /\ kills' = kills + 1)
    BY <1>1 DEF Outside, Commit, StartTests, EndTests, KillTests, evidenceVars
  <2> QED
    BY <1>1, <2>1, OutsideStays DEF gathered
<1>2. ASSUME NEW e \in Command, Step(e)
      PROVE  overlapped' \in BOOLEAN /\ kills' \in 0..MaxKills /\ allow' \in [Command -> BOOLEAN]
  <2>1. kills' = kills \/ (kills < MaxKills /\ kills' = kills + 1)
    BY <1>2 DEF Step, Collect, Read, Summarise, WriteFile, WriteManifest, Reconcile, Report,
         Abandon
  <2>2. overlapped' \in BOOLEAN
    <3>1. CASE Collect(e)
      <4>1. (\E d \in Command \ {e} : stands[d] \notin Over \cup {"idle"}) \in BOOLEAN
        OBVIOUS
      <4> QED
        BY <3>1, <4>1 DEF Collect
    <3>2. CASE ~Collect(e)
      BY <1>2, <3>2 DEF Step, Read, Summarise, WriteFile, WriteManifest, Reconcile, Report,
           Abandon
    <3> QED
      BY <3>1, <3>2
  <2>3. allow' = allow \/ \E waive \in BOOLEAN : allow' = [allow EXCEPT ![e] = waive]
    BY <1>2 DEF Step, Collect, Read, Summarise, WriteFile, WriteManifest, Reconcile, Report,
         Abandon, gathered
  <2> QED
    BY <2>1, <2>2, <2>3
<1> QED
  BY <1>1, <1>2, WhoMoves

\* The state keeps its types.
LEMMA EvidenceTypeStep ==
    ASSUME EvidenceInv, [EvidenceNext]_evidenceVars
    PROVE  EvidenceTypeOK'
<1> USE DEF EvidenceInv
<1>1. head \in Nat /\ head' \in Nat /\ head <= head'
  BY TestsType DEF EvidenceTypeOK
<1>2. CASE Outside \/ UNCHANGED evidenceVars
  <2>1. UNCHANGED <<stands, allow, unread, read, merged, records, certified, package, manifest>>
    BY <1>2, OutsideStays DEF gathered
  <2>2. \A e \in Command : IsJUnit(read[e])'
    BY <1>1, <2>1 DEF EvidenceTypeOK, IsJUnit
  <2>3. manifest # NoManifest => manifest.revision \in 0..head'
    BY <1>1 DEF EvidenceTypeOK
  <2> QED
    BY <2>1, <2>2, <2>3, TestsType, CountersType DEF EvidenceTypeOK, IsFile, IsRecords
<1>3. ASSUME NEW e \in Command, Step(e) PROVE EvidenceTypeOK'
  <2>1. UNCHANGED <<head, junit>>
    BY <1>3, CommandLeaves DEF tests
  <2>2. stands' \in [Command -> CommandSteps]
    <3>1. \E to : stands' = [stands EXCEPT ![e] = to]
      <4>1. CASE Collect(e) \/ Summarise(e) \/ WriteManifest(e) \/ Reconcile(e)
        BY <4>1 DEF Collect, Summarise, WriteManifest, Reconcile, Goto
      <4>2. CASE WriteFile(e) \/ Report(e) \/ Abandon(e)
        BY <4>2 DEF WriteFile, Report, Abandon, Goto
      <4>3. CASE Read(e)
        BY <4>3 DEF Read, EvidenceTypeOK
      <4> QED
        BY <1>3, <4>1, <4>2, <4>3 DEF Step
    <3>2. stands'[e] \in CommandSteps
      BY <1>3, CommandGoesOn
    <3> QED
      BY <3>1, <3>2 DEF EvidenceTypeOK
  <2>3. ASSUME NEW d \in Command
        PROVE  /\ IsJUnit(read[d])' /\ unread'[d] \subseteq DOMAIN junit' \ DOMAIN read'[d]
               /\ IsRecords(merged'[d]) /\ IsRecords(records'[d]) /\ IsFile(certified'[d])
    <3>1. CASE d = e
      BY <1>3, <2>1, <3>1, ReadsType, RecordsType DEF IsJUnit
    <3>2. CASE d # e
      <4>1. UNCHANGED <<unread[d], read[d], merged[d], records[d], certified[d]>>
        BY <1>3, <3>2, OthersKeep
      <4> QED
        BY <2>1, <4>1 DEF EvidenceTypeOK, IsJUnit
    <3> QED
      BY <3>1, <3>2
  <2>4. /\ DOMAIN package' = Format /\ \A f \in Format : IsFile(package[f])'
        /\ manifest' # NoManifest =>
              /\ manifest'.revision \in 0..head'
              /\ \A f \in Format : IsFile(manifest.files[f])' /\ manifest'.files[f] # NoFile
    BY <1>3, <2>1, PackageType DEF IsFile, IsRecords
  <2>5. /\ DOMAIN unread' = Command /\ DOMAIN read' = Command /\ DOMAIN merged' = Command
        /\ DOMAIN records' = Command /\ DOMAIN certified' = Command
    BY <1>3, OthersKeep
  <2>6. \A d \in Command : IsRecords(merged[d])' /\ IsRecords(records[d])' /\ IsFile(certified[d])'
    BY <2>3 DEF IsFile, IsRecords
  <2> QED
    BY <2>2, <2>3, <2>4, <2>5, <2>6, TestsType, CountersType DEF EvidenceTypeOK
<1> QED
  BY <1>2, <1>3, WhoMoves

-----------------------------------------------------------------------------
(* What the records say. *)

\* What has been merged is what the files say that have been parsed.
LEMMA MergedStep ==
    ASSUME EvidenceInv, [EvidenceNext]_evidenceVars
    PROVE  MergedIsRead'
<1> USE DEF EvidenceInv
<1> SUFFICES ASSUME NEW d \in Command
             PROVE  /\ stands'[d] = "idle" => DOMAIN read'[d] = {}
                    /\ DOMAIN merged'[d] = Check
                    /\ \A c \in Check :
                           /\ Holds(d, c, "failed")' => merged'[d][c] = "failed"
                           /\ merged'[d][c] = "passed" => Holds(d, c, "passed")'
  BY DEF MergedIsRead
<1>1. CASE /\ read'[d] = read[d] /\ merged'[d] = merged[d]
           /\ stands'[d] = "idle" => stands[d] = "idle"
  BY <1>1 DEF MergedIsRead, Holds
<1>2. CASE Read(d)
  <2>1. PICK l \in unread[d] : /\ read' = [read EXCEPT ![d] = With(@, l, junit[l])]
                               /\ merged' = [merged EXCEPT ![d] = Merge(@, junit[l].outcomes)]
    BY <1>2 DEF Read
  <2> DEFINE new == junit[l].outcomes
  <2>2. /\ read'[d] = With(read[d], l, junit[l]) /\ merged'[d] = Merge(merged[d], new)
        /\ l \in DOMAIN junit \ DOMAIN read[d] /\ new \in Outcomes(l)
    BY <2>1 DEF EvidenceTypeOK, IsJUnit
  <2>3. stands'[d] # "idle"
    BY <1>2 DEF Read
  <2>4. ASSUME NEW c \in Check
        PROVE  /\ Holds(d, c, "failed")' => merged'[d][c] = "failed"
               /\ merged'[d][c] = "passed" => Holds(d, c, "passed")'
    <3>1. merged'[d][c] =
              IF c \in DOMAIN new /\ (merged[d][c] = "not observed" \/ new[c] = "failed")
              THEN new[c] ELSE merged[d][c]
      BY <2>2 DEF Merge
    <3>2. c \in DOMAIN new <=> c \in Selects[l]
      BY <2>2 DEF Outcomes
    <3>3. \A r \in {"passed", "failed"} :
              Holds(d, c, r)' <=> Holds(d, c, r) \/ (c \in Selects[l] /\ new[c] = r)
      BY <2>2 DEF Holds, With
    <3>4. /\ Holds(d, c, "failed") => merged[d][c] = "failed"
          /\ merged[d][c] = "passed" => Holds(d, c, "passed")
      BY DEF MergedIsRead
    <3> HIDE DEF new
    <3> QED
      BY <3>1, <3>2, <3>3, <3>4
  <2>5. DOMAIN merged'[d] = Check
    BY <2>2 DEF Merge
  <2> QED
    BY <2>3, <2>4, <2>5
<1>3. ASSUME ~Read(d) PROVE /\ read'[d] = read[d] /\ merged'[d] = merged[d]
                            /\ stands'[d] = "idle" => stands[d] = "idle"
  <2>1. CASE Outside \/ UNCHANGED evidenceVars
    BY <2>1, OutsideStays DEF gathered
  <2>2. ASSUME NEW e \in Command, Step(e)
        PROVE  /\ read'[d] = read[d] /\ merged'[d] = merged[d]
               /\ stands'[d] = "idle" => stands[d] = "idle"
    <3>1. CASE d # e
      BY <2>2, <3>1, OthersKeep, CommandGoesOn
    <3>2. CASE d = e
      <4>1. UNCHANGED <<read, merged>>
        BY <1>3, <2>2, <3>2 DEF Step, Collect, Summarise, WriteFile, WriteManifest, Reconcile,
             Report, Abandon, gathered
      <4> QED
        BY <2>2, <3>2, <4>1, CommandGoesOn
    <3> QED
      BY <3>1, <3>2
  <2> QED
    BY <2>1, <2>2, WhoMoves
<1> QED
  BY <1>1, <1>2, <1>3

\* The records of a summary are what was merged for it.
LEMMA RecordsStep ==
    ASSUME EvidenceInv, [EvidenceNext]_evidenceVars
    PROVE  RecordsAreMerged'
<1> USE DEF EvidenceInv, RecordsAreMerged
<1> DEFINE Kept(d) ==
        /\ stands'[d] \in {"idle", "read"} => DOMAIN records'[d] = {}
        /\ stands'[d] \in Format \cup {"manifest", "reconcile", "report"} => DOMAIN records'[d] # {}
        /\ \A c \in DOMAIN records'[d] : records'[d][c] = merged'[d][c]
<1> SUFFICES ASSUME NEW d \in Command PROVE Kept(d)
  OBVIOUS
<1>1. CASE UNCHANGED <<stands[d], records[d], merged[d]>>
  BY <1>1
<1>2. CASE Collect(d)
  <2>1. UNCHANGED <<records, merged>> /\ stands[d] = "idle" /\ stands'[d] \in {"failed", "read"}
    BY <1>2 DEF Collect, Goto, EvidenceTypeOK
  <2> QED
    BY <2>1 DEF Format
<1>3. CASE Read(d)
  BY <1>3 DEF Read, Format
<1>4. CASE Summarise(d)
  <2>1. head \in 0..MaxCommits
    BY DEF EvidenceTypeOK
  <2>2. Required[head] # {}
    BY <2>1
  <2>3. /\ records'[d] = [c \in Required[head] |-> merged[d][c]] /\ UNCHANGED merged
        /\ stands'[d] = "json"
    BY <1>4 DEF Summarise, Goto, EvidenceTypeOK
  <2> QED
    BY <2>2, <2>3
<1>5. CASE WriteFile(d) \/ WriteManifest(d) \/ Reconcile(d) \/ Report(d) \/ Abandon(d)
  <2>1. /\ stands[d] \in Format \cup {"manifest", "reconcile", "report"} \/ Abandon(d)
        /\ stands'[d] \notin {"idle", "read"} /\ UNCHANGED <<records, merged>>
    BY <1>5 DEF WriteFile, WriteManifest, Reconcile, Report, Abandon, Goto, After, EvidenceTypeOK,
         gathered, Format
  <2>2. Abandon(d) => stands'[d] = "killed"
    BY DEF Abandon, EvidenceTypeOK
  <2> QED
    BY <2>1, <2>2 DEF Format
<1>6. CASE Outside \/ UNCHANGED evidenceVars
  BY <1>1, <1>6, OutsideStays DEF gathered
<1>7. ASSUME NEW e \in Command \ {d}, Step(e) PROVE Kept(d)
  BY <1>1, <1>7, OthersKeep, CommandGoesOn
<1> HIDE DEF Kept
<1> QED
  BY <1>2, <1>3, <1>4, <1>5, <1>6, <1>7, WhoMoves DEF Step

\* Writing a format: where a command stands before and after.
LEMMA WhatIsPast ==
    ASSUME EvidenceTypeOK, NEW e \in Command, NEW f \in Format, Step(e), stands'[e] \in Past(f)
    PROVE  \/ stands[e] \in Past(f) /\ (WriteFile(e) => stands[e] # f)
           \/ WriteFile(e) /\ stands[e] = f
<1> USE DEF EvidenceTypeOK, Past, Format
<1>1. CASE Collect(e)
  BY <1>1 DEF Collect, Goto
<1>2. CASE Read(e)
  BY <1>2 DEF Read
<1>3. CASE Summarise(e) \/ WriteManifest(e) \/ Reconcile(e)
  BY <1>3 DEF Summarise, WriteManifest, WriteFile, Reconcile, Goto
<1>4. CASE WriteFile(e)
  BY <1>4 DEF WriteFile, Goto, After
<1>5. CASE Report(e)
  BY <1>5 DEF Report, Goto
<1>6. CASE Abandon(e)
  BY <1>6 DEF Abandon
<1> QED
  BY <1>1, <1>2, <1>3, <1>4, <1>5, <1>6 DEF Step

\* A command writes the format at which it stands, from its own summary.
LEMMA WhatIsWritten ==
    ASSUME EvidenceTypeOK, RecordsAreMerged, NEW e \in Command, Step(e)
    PROVE  \/ UNCHANGED package /\ ~WriteFile(e)
           \/ /\ WriteFile(e) /\ stands[e] \in Format /\ Summarised(e)
              /\ package' = [package EXCEPT ![stands[e]] = Rendered(e, stands[e])]
              /\ package'[stands[e]] = Rendered(e, stands[e])
              /\ Rendered(e, stands[e]) # NoFile
              /\ UNCHANGED <<gathered, manifest, overlapped>>
<1>1. CASE WriteFile(e)
  <2>1. stands[e] \in Format /\ DOMAIN records[e] # {} /\ DOMAIN None = {}
    BY <1>1 DEF WriteFile, RecordsAreMerged, None
  <2>2. Rendered(e, stands[e]) # NoFile
    BY <2>1 DEF Rendered, NoFile
  <2> QED
    BY <1>1, <2>1, <2>2 DEF WriteFile, EvidenceTypeOK, Summarised, Format
<1>2. CASE ~WriteFile(e)
  BY <1>2 DEF Step, Collect, Read, Summarise, WriteManifest, Reconcile, Report, Abandon
<1> QED
  BY <1>1, <1>2

\* A file that has been written stays, and names the summary that it shows.
LEMMA FilesStep ==
    ASSUME EvidenceInv, [EvidenceNext]_evidenceVars
    PROVE  FilesAreRendered'
<1> USE DEF EvidenceInv, FilesAreRendered
<1>1. \A d \in Command : Summarised(d) => Summarised(d)' /\ records'[d] = records[d]
  BY SummariesStay DEF Summarised
<1>2. CASE Outside \/ UNCHANGED evidenceVars
  BY <1>1, <1>2, OutsideStays
<1>3. ASSUME NEW e \in Command, Step(e) PROVE FilesAreRendered'
  <2>1. \A f \in Format : package[f] # NoFile => package'[f] # NoFile
    BY <1>3, PackageType
  <2>2. ASSUME NEW d \in Command, NEW f \in Format, stands'[d] \in Past(f)
        PROVE  package'[f] # NoFile
    <3>1. CASE stands[d] \in Past(f)
      BY <2>1, <3>1
    <3>2. CASE stands[d] \notin Past(f)
      <4>1. d = e
        BY <1>3, <2>2, <3>2, CommandGoesOn
      <4>2. WriteFile(e) /\ stands[e] = f
        BY <1>3, <2>2, <3>2, <4>1, WhatIsPast
      <4> QED
        BY <1>3, <4>2, WhatIsWritten
    <3> QED
      BY <3>1, <3>2
  <2>3. ASSUME package'["json"] # NoFile
        PROVE  /\ package'["json"].by \in Command /\ Summarised(package["json"].by)'
               /\ package'["json"].records = records'[package'["json"].by]
    <3>1. CASE package'["json"] = package["json"]
      BY <1>1, <2>3, <3>1 DEF Summarised
    <3>2. CASE package'["json"] # package["json"]
      <4>1. stands[e] = "json" /\ package'["json"] = Rendered(e, "json") /\ Summarised(e)
        BY <1>3, <3>2, WhatIsWritten DEF EvidenceTypeOK, Format
      <4>2. package'["json"].by = e /\ package'["json"].records = records[e]
        BY <4>1 DEF Rendered
      <4> QED
        BY <1>1, <4>1, <4>2 DEF Summarised
    <3> QED
      BY <3>1, <3>2
  <2> QED
    BY <2>2, <2>3
<1> QED
  BY <1>2, <1>3, WhoMoves

\* A certificate is a summary without a failure.
LEMMA CertifiedStep ==
    ASSUME EvidenceInv, [EvidenceNext]_evidenceVars
    PROVE  CertifiedPasses'
<1> USE DEF EvidenceInv
<1> DEFINE Earned(e) ==
        /\ certified'[e].by \in Command /\ Summarised(certified[e].by)'
        /\ certified'[e].records = records'[certified'[e].by]
        /\ \A c \in DOMAIN certified'[e].records :
               /\ certified'[e].records[c] # "failed"
               /\ certified'[e].records[c] = "not observed" => allow'[e]
<1> SUFFICES ASSUME NEW e \in Command, stands'[e] = "ok" PROVE Earned(e)
  BY DEF CertifiedPasses
<1>1. \A d \in Command : Summarised(d) => Summarised(d)' /\ records'[d] = records[d]
  BY SummariesStay DEF Summarised
<1>2. CASE Report(e)
  <2> DEFINE d == package["json"]
  <2>1. stands[e] = "report" /\ certified'[e] = d /\ UNCHANGED <<records, allow>>
    BY <1>2 DEF Report, Goto, EvidenceTypeOK
  <2>2. d # NoFile
    BY <2>1 DEF FilesAreRendered, Past, Format
  <2>3. d.by \in Command /\ Summarised(d.by) /\ d.records = records[d.by]
    BY <2>2 DEF FilesAreRendered
  <2>4. \A c \in DOMAIN d.records :
            d.records[c] # "failed" /\ (d.records[c] = "not observed" => allow[e])
    BY <1>2 DEF Report, Goto, EvidenceTypeOK
  <2> HIDE DEF d
  <2> QED
    BY <1>1, <2>1, <2>3, <2>4 DEF Summarised
<1>3. ASSUME UNCHANGED <<stands[e], certified[e], allow[e]>> PROVE Earned(e)
  <2> DEFINE d == certified[e].by
  <2>1. stands[e] = "ok" /\ certified'[e] = certified[e] /\ allow'[e] = allow[e]
    BY <1>3
  <2>2. /\ d \in Command /\ Summarised(d) /\ certified[e].records = records[d]
        /\ \A c \in DOMAIN certified[e].records :
               /\ certified[e].records[c] # "failed"
               /\ certified[e].records[c] = "not observed" => allow[e]
    BY <2>1 DEF CertifiedPasses
  <2>3. certified'[e].by = d /\ Summarised(d)' /\ records'[d] = records[d]
    BY <1>1, <2>1, <2>2
  <2>4. certified'[e].by \in Command /\ Summarised(certified[e].by)'
    BY <2>2, <2>3 DEF Summarised
  <2>5. certified'[e].records = records'[certified'[e].by]
    BY <2>1, <2>2, <2>3
  <2>6. \A c \in DOMAIN certified'[e].records :
            /\ certified'[e].records[c] # "failed"
            /\ certified'[e].records[c] = "not observed" => allow'[e]
    BY <2>1, <2>2
  <2> QED
    BY <2>4, <2>5, <2>6
<1>4. CASE Outside \/ UNCHANGED evidenceVars
  BY <1>3, <1>4, OutsideStays DEF gathered
<1>5. ASSUME NEW d \in Command \ {e}, Step(d) PROVE Earned(e)
  BY <1>3, <1>5, OthersKeep, CommandGoesOn
<1>6. CASE Step(e) /\ ~Report(e)
  <2>1. stands'[e] # "ok"
    BY <1>6 DEF Step, Collect, Read, Summarise, WriteFile, WriteManifest, Reconcile, Abandon,
         Goto, After, EvidenceTypeOK
  <2> QED
    BY <2>1
<1> HIDE DEF Earned
<1> QED
  BY <1>2, <1>4, <1>5, <1>6, WhoMoves

\* Unless commands overlap, the one at work is the only one, and what it finds written
\* it has written itself.
LEMMA OneStep ==
    ASSUME EvidenceInv, [EvidenceNext]_evidenceVars
    PROVE  OneCommandWrites'
<1> USE DEF EvidenceInv
<1> SUFFICES ASSUME ~overlapped'
             PROVE  /\ \A d, e \in Command : Working(d)' /\ Working(e)' => d = e
                    /\ \A e \in Command, f \in Format :
                           stands'[e] \in Past(f) => package'[f] = Rendered(e, f)'
                    /\ manifest' # NoManifest =>
                           \E d \in Command :
                               /\ Summarised(d)'
                               /\ \A f \in Format : manifest'.files[f] = Rendered(d, f)'
  BY DEF OneCommandWrites
<1>1. \A d \in Command : Summarised(d) =>
          Summarised(d)' /\ \A f \in Format : Rendered(d, f)' = Rendered(d, f)
  BY SummariesStay DEF Summarised, Rendered
<1>2. \A d \in Command, f \in Format : stands[d] \in Past(f) => Summarised(d) /\ Working(d)
  BY DEF Past, Format, RecordsAreMerged, Summarised, Working, Over
<1>3. CASE Outside \/ UNCHANGED evidenceVars
  <2>1. UNCHANGED <<stands, package, manifest, overlapped>>
    BY <1>3, OutsideStays
  <2> QED
    BY <1>1, <1>2, <2>1 DEF OneCommandWrites, Working
<1>4. ASSUME NEW e \in Command, Step(e)
      PROVE  /\ \A c, d \in Command : Working(c)' /\ Working(d)' => c = d
             /\ \A d \in Command, f \in Format :
                    stands'[d] \in Past(f) => package'[f] = Rendered(d, f)'
             /\ manifest' # NoManifest =>
                    \E d \in Command :
                        /\ Summarised(d)'
                        /\ \A f \in Format : manifest'.files[f] = Rendered(d, f)'
  <2>1. ~overlapped
    BY <1>4 DEF Step, Collect, Read, Summarise, WriteFile, WriteManifest, Reconcile, Report,
         Abandon
  <2>2. ASSUME NEW d \in Command \ {e} PROVE ~Working(d) /\ stands'[d] = stands[d]
    <3>1. stands'[d] = stands[d]
      BY <1>4, CommandGoesOn
    <3>2. CASE Collect(e)
      BY <3>1, <3>2 DEF Collect, Working
    <3>3. CASE ~Collect(e)
      <4>1. Working(e)
        BY <1>4, <3>3 DEF Step, Read, Summarise, WriteFile, WriteManifest, Reconcile, Report,
             Abandon, Goto, Working, Over, Format
      <4> QED
        BY <2>1, <3>1, <4>1 DEF OneCommandWrites
    <3> QED
      BY <3>2, <3>3
  <2>3. \A c, d \in Command : Working(c)' /\ Working(d)' => c = d
    BY <2>2 DEF Working
  <2>4. ASSUME NEW d \in Command, NEW f \in Format, stands'[d] \in Past(f)
        PROVE  package'[f] = Rendered(d, f)'
    <3>1. d = e
      BY <1>2, <2>2, <2>4
    <3>2. CASE WriteFile(e) /\ stands[e] = f
      <4>1. package'[f] = Rendered(e, f) /\ Summarised(e)
        BY <1>4, <3>2, WhatIsWritten
      <4> QED
        BY <1>1, <3>1, <4>1
    <3>3. CASE stands[e] \in Past(f) /\ (WriteFile(e) => stands[e] # f)
      <4>1. package[f] = Rendered(e, f) /\ Summarised(e)
        BY <1>2, <2>1, <3>3 DEF OneCommandWrites
      <4>2. package'[f] = package[f]
        BY <1>4, <3>3, WhatIsWritten DEF EvidenceTypeOK
      <4> QED
        BY <1>1, <3>1, <4>1, <4>2
    <3> QED
      BY <1>4, <2>4, <3>1, <3>2, <3>3, WhatIsPast
  <2>5. ASSUME manifest' # NoManifest
        PROVE  \E d \in Command :
                   /\ Summarised(d)'
                   /\ \A f \in Format : manifest'.files[f] = Rendered(d, f)'
    <3>1. CASE WriteManifest(e)
      <4>1. stands[e] = "manifest" /\ manifest'.files = package
        BY <3>1 DEF WriteManifest, Goto
      <4>2. \A f \in Format : stands[e] \in Past(f)
        BY <4>1 DEF Past
      <4>3. Summarised(e) /\ \A f \in Format : package[f] = Rendered(e, f)
        BY <1>2, <2>1, <4>2 DEF OneCommandWrites, Format
      <4> QED
        BY <1>1, <4>1, <4>3
    <3>2. CASE UNCHANGED manifest
      BY <1>1, <2>1, <2>5, <3>2 DEF OneCommandWrites
    <3> QED
      BY <1>4, <3>1, <3>2 DEF Step, Collect, Read, Summarise, WriteFile, Reconcile, Report,
           Abandon
  <2> QED
    BY <2>3, <2>4, <2>5
<1> QED
  BY <1>3, <1>4, WhoMoves

-----------------------------------------------------------------------------
(* Theorems. *)

\* Every counter may be zero.
LEMMA NothingYet == 0 \in 0..MaxCommits /\ 0 \in 0..MaxRuns /\ 0 \in 0..MaxKills
BY EvidenceBoundsAssumption

\* At first nothing has been tested, read or written.
LEMMA EvidenceStart == EvidenceInit => EvidenceInv
<1> SUFFICES ASSUME EvidenceInit PROVE EvidenceInv
  OBVIOUS
<1> USE DEF EvidenceInit
<1>1. EvidenceTypeOK
  <2>1. /\ head \in 0..MaxCommits /\ runs \in 0..MaxRuns /\ kills \in 0..MaxKills
        /\ overlapped \in BOOLEAN
    <3>1. head = 0 /\ runs = 0 /\ kills = 0 /\ overlapped = FALSE
      OBVIOUS
    <3>2. overlapped \in BOOLEAN
      BY <3>1
    <3>3. head \in 0..MaxCommits /\ runs \in 0..MaxRuns /\ kills \in 0..MaxKills
      BY <3>1, NothingYet, ZenonT(20)
    <3> QED
      BY <3>2, <3>3
  <2>2. /\ DOMAIN testing = {} /\ IsJUnit(junit) /\ DOMAIN junit = {}
        /\ stands \in [Command -> CommandSteps] /\ allow \in [Command -> BOOLEAN]
    BY DEF IsJUnit, CommandSteps
  <2>3. IsRecords(None) /\ IsFile(NoFile)
    BY DEF IsRecords, IsFile, None, NoFile
  <2>4. ASSUME NEW e \in Command
        PROVE  /\ IsJUnit(read[e]) /\ unread[e] = {} /\ IsRecords(merged[e])
               /\ IsRecords(records[e]) /\ IsFile(certified[e])
    <3>1. IsJUnit(read[e]) /\ unread[e] = {}
      BY DEF IsJUnit
    <3>2. IsRecords(merged[e])
      BY DEF IsRecords, Observation
    <3> QED
      BY <2>3, <3>1, <3>2
  <2> QED
    BY <2>1, <2>2, <2>3, <2>4 DEF EvidenceTypeOK
<1>2. MergedIsRead
  BY DEF MergedIsRead, Holds
<1>3. RecordsAreMerged /\ CertifiedPasses
  BY DEF RecordsAreMerged, CertifiedPasses, None, Format
<1>4. FilesAreRendered /\ OneCommandWrites
  BY DEF FilesAreRendered, OneCommandWrites, Past, Working, Format
<1> QED
  BY <1>1, <1>2, <1>3, <1>4 DEF EvidenceInv

\* The invariant holds in every state that test runs, commits and commands reach.
THEOREM EvidenceInvariance == EvidenceSpec => []EvidenceInv
<1>1. EvidenceInv /\ [EvidenceNext]_evidenceVars => EvidenceInv'
  BY EvidenceTypeStep, MergedStep, RecordsStep, FilesStep, CertifiedStep, OneStep DEF EvidenceInv
<1> QED
  BY <1>1, EvidenceStart, PTL DEF EvidenceSpec

\* Every variable stays in its range; in particular a manifest names only files that exist.
THEOREM EvidenceTypeCorrect == EvidenceSpec => []EvidenceTypeOK
<1>1. EvidenceInv => EvidenceTypeOK
  BY DEF EvidenceInv
<1> QED
  BY <1>1, EvidenceInvariance, PTL

\* A command that exits 0 has certified only checks that passed in a file that was read and
\* failed in none, and with --allow-unobserved those that no file has, for any number of test
\* runs and commands that overlap in any way.
THEOREM ExitZeroIsEarned == EvidenceSpec => []EvidenceIsEarned
<1>1. EvidenceInv => EvidenceIsEarned
  <2> SUFFICES ASSUME EvidenceInv, NEW e \in Command, stands[e] = "ok",
                      NEW c \in DOMAIN certified[e].records
               PROVE  /\ certified[e].by \in Command
                      /\ ~Holds(certified[e].by, c, "failed")
                      /\ Holds(certified[e].by, c, "passed") \/ allow[e]
    <3>1. ASSUME EvidenceInv, NEW e \in Command, stands[e] = "ok"
          PROVE  certified[e].by \in Command
      BY <3>1 DEF EvidenceInv, CertifiedPasses
    <3> QED
      BY <3>1 DEF EvidenceIsEarned
  <2> DEFINE d == certified[e].by
  <2>1. /\ d \in Command /\ certified[e].records = records[d]
        /\ records[d][c] # "failed" /\ (records[d][c] = "not observed" => allow[e])
    BY DEF EvidenceInv, CertifiedPasses
  <2>2. records[d][c] = merged[d][c] /\ c \in Check /\ records[d][c] \in Observation
    BY <2>1 DEF EvidenceInv, RecordsAreMerged, EvidenceTypeOK, IsRecords
  <2>3. /\ Holds(d, c, "failed") => merged[d][c] = "failed"
        /\ merged[d][c] = "passed" => Holds(d, c, "passed")
    BY <2>1, <2>2 DEF EvidenceInv, MergedIsRead
  <2> QED
    BY <2>1, <2>2, <2>3 DEF Observation
<1> QED
  BY <1>1, EvidenceInvariance, PTL

\* A package that reconciles shows the records of one command in every format, as long as no
\* two commands worked on it at once, whatever dead commands had left there.
THEOREM PackageIsOneRun == EvidenceSpec => []ReconciledIsOneRun
<1>1. EvidenceInv => ReconciledIsOneRun
  <2> SUFFICES ASSUME EvidenceInv, Reconciles, ~overlapped, NEW f \in Format
               PROVE  package[f].records = records[package["json"].by]
    BY DEF ReconciledIsOneRun
  <2>1. manifest # NoManifest /\ manifest.files = package
    BY DEF Reconciles, DigestsMatch
  <2>2. PICK d \in Command : \A g \in Format : package[g] = Rendered(d, g)
    BY <2>1 DEF EvidenceInv, OneCommandWrites
  <2>3. package["json"].by = d /\ package[f].records = records[d]
    BY <2>2 DEF Rendered, Format
  <2> QED
    BY <2>3
<1> QED
  BY <1>1, EvidenceInvariance, PTL
==============================================================================
