------------------------------ MODULE CleanRoom ------------------------------
(***************************************************************************)
(* The clean-room proof, src/terractl/clean_room.py, on a docker host that  *)
(* others use at the same time: it surveys the containers, adds a sentinel, *)
(* takes the environment down, and shows that its neighbours are unchanged. *)
(*                                                                         *)
(* A survey is a listing and one inspection for each listed container; a    *)
(* container that is gone by then makes it raise.  The teardown verifies    *)
(* the containers with the Compose project's label one by one, and then     *)
(* removes whatever has that label.  Ids are never used again; a            *)
(* fingerprint is the container's status.  The evidence has a directory of  *)
(* its own, which a reset by others deletes.                                *)
(***************************************************************************)
EXTENDS Naturals

CONSTANTS
    Project,        \* containers with the project's and the Compose label
    Foreign,        \* containers with the Compose label only
    Neighbor,       \* containers with neither
    Sentinel,       \* the sentinel of this proof
    MaxFaults,      \* bound: docker calls or writes that fail, kills
    MaxChanges      \* bound: what others do on the host

Labelled == Project \cup Foreign
Container == Labelled \cup Neighbor \cup {Sentinel}

ASSUME KindsAssumption ==
    /\ Project \cap (Foreign \cup Neighbor) = {}
    /\ Foreign \cap Neighbor = {}
    /\ Sentinel \notin Labelled \cup Neighbor
ASSUME BoundsAssumption == MaxFaults \in Nat /\ MaxChanges \in Nat

VARIABLES
    alive, status,      \* docker: the containers and their statuses
    created,            \* ids that exist or have existed
    pc,                 \* where the proof stands
    listed, pending,    \* a survey has listed; what it has not inspected yet
    seen,               \* what it has inspected, with its status
    initial,            \* the project's containers at first
    neighbors,          \* the neighbours before the teardown
    known,              \* the sentinel's identity has been confirmed
    evidence,           \* clean-room.json
    outcome,            \* how the command will end
    torn,               \* containers the teardown has removed
    faults, changes

host == <<alive, status, created, changes>>
survey == <<listed, pending, seen>>
memory == <<initial, neighbors, known>>
vars == <<host, survey, memory, pc, evidence, outcome, torn, faults>>

Status == {"running", "exited"}
Surveys == {"initial", "confirm", "before", "verify", "after", "remove"}
Steps == Surveys \cup {"green", "create", "teardown", "survivors", "write", "rm", "mark",
                       "rewrite", "print", "ended", "killed"}

TypeOK ==
    /\ alive \subseteq created /\ created \subseteq Container
    /\ status \in [Container -> Status]
    /\ pc \in Steps
    /\ listed \in BOOLEAN
    /\ pending \subseteq Container
    /\ DOMAIN seen \subseteq Container /\ \A c \in DOMAIN seen : seen[c] \in Status
    /\ initial \subseteq Project
    /\ DOMAIN neighbors \subseteq Container \ Project
    /\ known \in BOOLEAN
    /\ evidence \in {"none", "passed", "removed", "broken", "discarded"}
    /\ outcome \in {"ok", "failed"}
    /\ torn \subseteq Labelled
    /\ faults \in 0..MaxFaults /\ changes \in 0..MaxChanges

Nothing == [c \in {} |-> "running"]

Init ==
    /\ alive \in SUBSET (Container \ {Sentinel}) /\ created = alive
    /\ status \in [Container -> Status]
    /\ \A c \in Container \ alive : status[c] = "running"
    /\ pc = "green"
    /\ listed = FALSE /\ pending = {} /\ seen = Nothing
    /\ initial = {} /\ neighbors = Nothing /\ known = FALSE
    /\ evidence = "none" /\ outcome = "ok"
    /\ torn = {} /\ faults = 0 /\ changes = 0

------------------------------------------------------------------------------
Fault == faults < MaxFaults /\ faults' = faults + 1

\* Faulty variant of Raise: nothing is cleaned up.
RaiseOut(from) ==
    /\ pc = from /\ pc' = "ended" /\ outcome' = "failed"
    /\ listed' = FALSE /\ pending' = {} /\ seen' = Nothing

\* An exception in the try block: `finally` removes a sentinel that is known.
Raise(from) ==
    /\ pc = from /\ pc' = IF known THEN "remove" ELSE "ended"
    /\ outcome' = "failed"
    /\ listed' = FALSE /\ pending' = {} /\ seen' = Nothing

\* An exception in the finally block.
RaiseAtEnd(from) ==
    /\ pc = from /\ pc' = "ended" /\ outcome' = "failed"
    /\ listed' = FALSE /\ pending' = {} /\ seen' = Nothing

Proceed(from, to) ==
    /\ pc = from /\ pc' = to
    /\ UNCHANGED <<outcome, survey>>

(* Surveys. *)

Scope == IF pc = "verify" THEN Labelled ELSE Container

\* docker ps -a -q; the teardown lists by the Compose label.
List ==
    /\ pc \in Surveys /\ ~listed
    /\ listed' = TRUE /\ pending' = alive \cap Scope /\ seen' = Nothing
    /\ UNCHANGED <<host, memory, pc, evidence, outcome, torn, faults>>

\* Faulty variant of Admitted: the labels are not compared.
AdmittedAny(c) == c \in alive

\* assert_project_identity: what is about to be torn down has the project's label.
Admitted(c) == c \in alive /\ (pc = "verify" => c \in Project)

\* docker inspect
Inspect(c) ==
    /\ pc \in Surveys /\ c \in pending /\ Admitted(c)
    /\ pending' = pending \ {c}
    /\ seen' = [d \in DOMAIN seen \cup {c} |-> IF d = c THEN status[c] ELSE seen[d]]
    /\ UNCHANGED <<host, memory, pc, listed, evidence, outcome, torn, faults>>

\* It is gone since it was listed, or carries the wrong labels.
InspectRaises(c) ==
    /\ pc \in Surveys /\ c \in pending /\ ~Admitted(c)
    /\ IF pc = "remove" THEN RaiseAtEnd(pc) ELSE Raise(pc)
    /\ UNCHANGED <<host, memory, evidence, torn, faults>>

\* The survey is complete; the proof goes on.
Complete(from, to) ==
    /\ pc = from /\ listed /\ pending = {}
    /\ pc' = to
    /\ listed' = FALSE
    /\ UNCHANGED <<pending, seen, outcome, host, evidence, torn, faults>>

Found == DOMAIN seen
ProjectFound == Found \cap Project

\* Faulty variant of NeighborsFound: the project's containers are not left out.
NeighborsFoundAll == seen

NeighborsFound == [c \in Found \ Project |-> seen[c]]

(* clean_room_proof *)

\* assert_environment_green: the required services are up.
Green ==
    /\ \E c \in Project \cap alive : status[c] = "running"
    /\ Proceed("green", "initial")
    /\ UNCHANGED <<host, memory, evidence, torn, faults>>

NotGreen ==
    /\ \A c \in Project \cap alive : status[c] # "running"
    /\ Raise("green")
    /\ UNCHANGED <<host, memory, evidence, torn, faults>>

SurveyInitial ==
    /\ Complete("initial", "create")
    /\ initial' = ProjectFound
    /\ UNCHANGED <<neighbors, known>>

RunSentinel ==
    /\ Sentinel \notin created
    /\ alive' = alive \cup {Sentinel} /\ created' = created \cup {Sentinel}
    /\ UNCHANGED <<status, changes>>

\* docker run
Create ==
    /\ Proceed("create", "confirm")
    /\ RunSentinel
    /\ UNCHANGED <<memory, evidence, torn, faults>>

\* It fails, before or after the container was created.
CreateFails ==
    /\ Raise("create") /\ Fault
    /\ RunSentinel \/ UNCHANGED host
    /\ UNCHANGED <<memory, evidence, torn>>

\* The sentinel is found, with its label.
Confirm ==
    /\ Sentinel \in Found
    /\ Complete("confirm", "before")
    /\ known' = TRUE
    /\ UNCHANGED <<initial, neighbors>>

NotConfirmed ==
    /\ listed /\ pending = {} /\ Sentinel \notin Found
    /\ Raise("confirm")
    /\ UNCHANGED <<host, memory, evidence, torn, faults>>

SurveyBefore ==
    /\ ProjectFound = initial /\ DOMAIN NeighborsFound # {}
    /\ Complete("before", "verify")
    /\ neighbors' = NeighborsFound
    /\ UNCHANGED <<initial, known>>

\* The project's containers have changed, or there is nothing to compare with.
SetupChanged ==
    /\ listed /\ pending = {} /\ ~(ProjectFound = initial /\ DOMAIN NeighborsFound # {})
    /\ Raise("before")
    /\ UNCHANGED <<host, memory, evidence, torn, faults>>

(* compose_down *)

\* Every labelled container has been verified; without one, nothing is removed.
Verified ==
    /\ Complete("verify", IF Found = {} THEN "after" ELSE "teardown")
    /\ UNCHANGED memory

\* docker compose down removes what carries the label now.
Teardown ==
    /\ Proceed("teardown", "survivors")
    /\ alive' = alive \ Labelled
    /\ torn' = torn \cup (alive \cap Labelled)
    /\ UNCHANGED <<status, created, changes, memory, evidence, faults>>

\* It fails or times out with some of them removed.
TeardownFails ==
    /\ Raise("teardown") /\ Fault
    /\ \E some \in SUBSET (alive \cap Labelled) :
           alive' = alive \ some /\ torn' = torn \cup some
    /\ UNCHANGED <<status, created, changes, memory, evidence>>

NoSurvivors ==
    /\ alive \cap Labelled = {}
    /\ Proceed("survivors", "after")
    /\ UNCHANGED <<host, memory, evidence, torn, faults>>

Survivors ==
    /\ alive \cap Labelled # {}
    /\ Raise("survivors")
    /\ UNCHANGED <<host, memory, evidence, torn, faults>>

(* The result. *)

\* No project container is left, and every neighbour is as it was.
Unchanged ==
    /\ ProjectFound = {}
    /\ \A c \in DOMAIN neighbors : c \in Found /\ seen[c] = neighbors[c]

SurveyAfter ==
    /\ Unchanged
    /\ Complete("after", "write")
    /\ UNCHANGED memory

Disturbed ==
    /\ listed /\ pending = {} /\ ~Unchanged
    /\ Raise("after")
    /\ UNCHANGED <<host, memory, evidence, torn, faults>>

Write ==
    /\ Proceed("write", "remove")
    /\ evidence' = "passed"
    /\ UNCHANGED <<host, memory, torn, faults>>

\* It raises, with the file truncated or already written.
WriteFails ==
    /\ Raise("write") /\ Fault
    /\ evidence' \in {"none", "broken", "passed"}
    /\ UNCHANGED <<host, memory, torn>>

(* The finally block: remove_sentinel, then the second write. *)

SentinelGone ==
    /\ Sentinel \notin Found
    /\ Complete("remove", "mark")
    /\ UNCHANGED memory

SentinelFound ==
    /\ Sentinel \in Found
    /\ Complete("remove", "rm")
    /\ UNCHANGED memory

\* docker rm --force
Remove ==
    /\ Proceed("rm", "mark")
    /\ alive' = alive \ {Sentinel}
    /\ UNCHANGED <<status, created, changes, memory, evidence, torn, faults>>

\* Faulty variant of RemoveFails: the result of docker rm is not looked at.
RemoveFailsQuietly ==
    /\ Proceed("rm", "mark") /\ Fault
    /\ UNCHANGED <<host, memory, evidence, torn>>

\* It fails, or docker no longer finds the container.
RemoveFails ==
    /\ RaiseAtEnd("rm")
    /\ (Fault /\ alive' \in {alive, alive \ {Sentinel}})
       \/ (Sentinel \notin alive /\ UNCHANGED <<alive, faults>>)
    /\ UNCHANGED <<status, created, changes, memory, evidence, torn>>

\* Only a proof that returned has a path to its evidence, and a file that is gone is
\* left alone.
Mark ==
    /\ Proceed("mark", IF outcome = "failed" THEN "ended"
                       ELSE IF evidence = "passed" THEN "rewrite" ELSE "print")
    /\ UNCHANGED <<host, memory, evidence, torn, faults>>

Rewrite ==
    /\ evidence = "passed"
    /\ Proceed("rewrite", "print")
    /\ evidence' = "removed"
    /\ UNCHANGED <<host, memory, torn, faults>>

\* It raises: the file is gone by now, or it fails, with the file as it was, truncated
\* or already written.
RewriteFails ==
    /\ RaiseAtEnd("rewrite")
    /\ \/ evidence = "discarded" /\ UNCHANGED <<evidence, faults>>
       \/ evidence = "passed" /\ Fault /\ evidence' \in {"passed", "broken", "removed"}
    /\ UNCHANGED <<host, memory, torn>>

\* The command prints the path and exits with 0.
PrintPath ==
    /\ Proceed("print", "ended")
    /\ UNCHANGED <<host, memory, evidence, torn, faults>>

\* The print is inside the command's try block.
PrintFails ==
    /\ RaiseAtEnd("print") /\ Fault
    /\ UNCHANGED <<host, memory, evidence, torn>>

\* A docker call of a survey fails or times out.
CallFails ==
    /\ pc \in Surveys \cup {"green", "survivors"} /\ Fault
    /\ IF pc = "remove" THEN RaiseAtEnd(pc) ELSE Raise(pc)
    /\ UNCHANGED <<host, memory, evidence, torn>>

\* The command is killed: no finally block runs.
Kill ==
    /\ pc \notin {"ended", "killed"} /\ Fault
    /\ pc' = "killed" /\ outcome' = "failed"
    /\ UNCHANGED <<host, survey, memory, evidence, torn>>

(* The other users of the host. *)

Change ==
    /\ changes < MaxChanges /\ changes' = changes + 1
    /\ UNCHANGED <<survey, memory, pc, outcome, torn, faults>>

Others == Change /\ UNCHANGED evidence

\* reset deletes the artifacts.
Discard ==
    /\ evidence \in {"passed", "removed", "broken"} /\ Change
    /\ evidence' = "discarded"
    /\ UNCHANGED <<alive, status, created>>

\* A container is started, or exits; the sentinel does so by itself after 300 s.
Appear(c) ==
    /\ c \notin created \cup {Sentinel} /\ Others
    /\ alive' = alive \cup {c} /\ created' = created \cup {c}
    /\ UNCHANGED status

Switch(c) ==
    /\ c \in alive /\ Others
    /\ \E s \in Status \ {status[c]} : status' = [status EXCEPT ![c] = s]
    /\ UNCHANGED <<alive, created>>

Vanish(c) ==
    /\ c \in alive /\ Others
    /\ alive' = alive \ {c}
    /\ UNCHANGED <<status, created>>

Next ==
    \/ List \/ \E c \in Container : Inspect(c) \/ InspectRaises(c)
    \/ Green \/ NotGreen
    \/ SurveyInitial \/ Create \/ CreateFails \/ Confirm \/ NotConfirmed
    \/ SurveyBefore \/ SetupChanged
    \/ Verified \/ Teardown \/ TeardownFails \/ NoSurvivors \/ Survivors
    \/ SurveyAfter \/ Disturbed \/ Write \/ WriteFails
    \/ SentinelGone \/ SentinelFound \/ Remove \/ RemoveFails
    \/ Mark \/ Rewrite \/ RewriteFails \/ PrintPath \/ PrintFails
    \/ CallFails \/ Kill \/ Discard
    \/ \E c \in Container : Appear(c) \/ Switch(c) \/ Vanish(c)

Spec == Init /\ [][Next]_vars

------------------------------------------------------------------------------
(* Properties *)

\* "Prove teardown touches nothing else" (docs/OPERATIONS.md:35): a container that
\* was a neighbour before the teardown is never removed by it, although the teardown
\* removes by a label and verifies the containers with that label earlier.
NeighborsOutliveTeardown == torn \cap DOMAIN neighbors = {}

\* The exit code and the evidence tell the truth.  A command that exits with 0 leaves no
\* other file behind than one that records a removed sentinel.  What a file claims is so:
\* the containers the environment had at first are gone, and the sentinel is if the file
\* says so.  A command that fails although its file says so had a write or the print fail.
ExitAgreesWithEvidence ==
    /\ pc = "ended" /\ outcome = "ok" => evidence \in {"removed", "discarded"}
    /\ evidence \in {"passed", "removed"} => alive \cap initial = {}
    /\ evidence = "removed" => Sentinel \notin alive
    /\ pc = "ended" /\ outcome = "failed" /\ evidence = "removed" => faults > 0

\* A sentinel outlives its command only if a docker call failed, the command was
\* killed, or another container has vanished since the start.
SentinelLeaksExplained ==
    pc \in {"ended", "killed"} /\ Sentinel \in alive =>
        faults > 0 \/ created \ (alive \cup torn) # {}
==============================================================================
