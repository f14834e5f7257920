---------------------------- MODULE FaultControl ----------------------------
(***************************************************************************)
(* Fault injection, src/terractl/faults.py, next to the commands that start,*)
(* remove and reset the environment, src/terractl/lifecycle.py and reset.py.*)
(* Operators run these commands from one checkout.  Nothing but the file    *)
(* active-fault.json keeps two injections apart, and it is read, written    *)
(* and unlinked in separate steps, between docker and database calls.       *)
(*                                                                         *)
(* Each of these commands also reads and rewrites .env.local, where the      *)
(* credentials are generated once; PostGIS keeps those its volume was       *)
(* created with.  Which command generates a missing file makes no           *)
(* difference, so `up` does.                                                *)
(*                                                                         *)
(* All containers of one `up` share a generation, which stands for their    *)
(* ids.  The faults that leave nothing to clear (worker-restart,            *)
(* duplicate-event) are steps of WorkerLoop and JetStream.  The width of    *)
(* the faulted scene is kept as its drift from the true one.  The field     *)
(* `active` of the file, which nothing reads, is left out.                  *)
(***************************************************************************)
EXTENDS Naturals

CONSTANTS
    Operator,
    Service,            \* services that a fault can pause
    Postgres, Minio,    \* those of them that other faults need
    Object,             \* names of malformed objects, fresh for each injection
    NoFault,            \* there is no file
    MaxFaults,          \* bound: commands that are killed, calls that raise
    MaxGenerations,     \* bound: times the environment is started
    MaxDrift            \* bound: width changes on top of each other

ASSUME ServiceAssumption == Postgres \in Service /\ Minio \in Service
ASSUME BoundsAssumption ==
    MaxFaults \in Nat /\ MaxGenerations \in Nat /\ MaxDrift \in Nat

VARIABLES
    file,       \* artifacts/state/active-fault.json
    pc,         \* where each operator's command stands
    mine,       \* the fault it injects or has read
    deployed,   \* the generation of the containers, 0 when there are none
    started,    \* generations so far
    config,     \* the credentials in .env.local, 0 when there is no file
    torn,       \* .env.local was truncated and not written
    given,      \* the credentials that the containers were given
    volumes,    \* those that the volumes were created with, 0 when there are none
    paused,     \* paused services
    planted,    \* malformed objects in the bucket
    scene,      \* an accepted scene exists
    drift,      \* its stored width minus its true width
    overlapped, \* an injection, a clearing or a reset began while another ran, or
                \* the environment was started during a reset
    cut,        \* a teardown of these volumes was cut short, or of volumes that the file or
                \* a command still refers to
    deleted,    \* .env.local was deleted by hand since they were created
    faults

checkout == <<config, torn, given, volumes, cut, deleted>>
environment == <<deployed, started, paused, planted, scene, drift, checkout>>
vars == <<file, pc, mine, environment, overlapped, faults>>

Generation == 0..MaxGenerations

Fault ==
    [action: {"pause"}, service: Service, container: Generation]
    \cup [action: {"object-create"}, object: Object]
    \cup [action: {"metadata-change"}, original: 0..MaxDrift]

\* No fault looks like a missing file.
ASSUME NoFaultAssumption == NoFault \notin Fault

Steps == {"idle", "resolve", "record", "apply", "confirm", "undo", "unlink", "wipe"}

TypeOK ==
    /\ file \in Fault \cup {NoFault}
    /\ pc \in [Operator -> Steps]
    /\ mine \in [Operator -> Fault \cup {NoFault}]
    /\ deployed \in Generation /\ started \in Generation
    /\ {config, given, volumes} \subseteq 0..(MaxGenerations + 1)
    /\ {torn, cut, deleted} \subseteq BOOLEAN
    /\ paused \subseteq Service
    /\ planted \subseteq Object
    /\ scene \in BOOLEAN
    /\ drift \in 0..MaxDrift
    /\ overlapped \in BOOLEAN
    /\ faults \in 0..MaxFaults

Init ==
    /\ file = NoFault
    /\ pc = [o \in Operator |-> "idle"] /\ mine = [o \in Operator |-> NoFault]
    /\ deployed = 0 /\ started = 0
    /\ paused = {} /\ planted = {} /\ scene = FALSE /\ drift = 0
    /\ config = 0 /\ torn = FALSE /\ given = 0 /\ volumes = 0
    /\ overlapped = FALSE /\ cut = FALSE /\ deleted = FALSE /\ faults = 0

------------------------------------------------------------------------------
Goto(o, from, to) == pc[o] = from /\ pc' = [pc EXCEPT ![o] = to]

Remember(o, what) == mine' = [mine EXCEPT ![o] = what]

\* The command returns or raises.
End(o, from) == Goto(o, from, "idle") /\ Remember(o, NoFault)

\* Bound: a command overlaps another at most once.
Start(o, step) ==
    LET overlaps == \E q \in Operator : pc[q] # "idle" IN
    /\ Goto(o, "idle", step)
    /\ ~(overlaps /\ overlapped)
    /\ overlapped' = (overlaps \/ overlapped)

\* PostGIS lets in who has the credentials of its volume; without that the migration
\* fails and the APIs do not start.
Started == deployed > 0 /\ given = volumes

Reachable(s) == deployed > 0 /\ s \notin paused /\ (s = Postgres => Started)

\* A call to s may raise; the second case is a command that began after the file changed.
Raises(s) == ~Reachable(s) \/ config # given

\* The command stands at a step and is about this kind of fault.
At(o, step, action) == pc[o] = step /\ mine[o].action = action

Fails == faults < MaxFaults /\ faults' = faults + 1

(* inject_fault *)

\* What an operator may ask for; uuid4 gives a name nobody uses.  The container and
\* the width are looked up later.
Choices ==
    [action: {"pause"}, service: Service, container: {0}]
    \cup {f \in [action: {"object-create"}, object: Object \ planted] :
            f # file /\ \A o \in Operator : f # mine[o]}
    \cup [action: {"metadata-change"}, original: {0}]

\* There is no active fault.
Inject(o) ==
    /\ file = NoFault
    /\ Start(o, "resolve")
    /\ \E f \in Choices : Remember(o, f)
    /\ UNCHANGED <<file, environment, faults>>

\* The environment is green or paused on purpose; the target is looked up.
Resolve(o) ==
    /\ Started /\ ~torn
    /\ Goto(o, "resolve", "record")
    /\ \/ At(o, "resolve", "pause") /\ Remember(o, [mine[o] EXCEPT !.container = deployed])
       \/ At(o, "resolve", "object-create") /\ UNCHANGED mine
       \/ /\ At(o, "resolve", "metadata-change") /\ Reachable(Postgres)
          /\ scene /\ drift < MaxDrift
          /\ Remember(o, [mine[o] EXCEPT !.original = drift])
    /\ UNCHANGED <<file, environment, overlapped, faults>>

ResolveRaises(o) ==
    /\ End(o, "resolve")
    /\ \/ ~Started \/ torn
       \/ At(o, "resolve", "metadata-change") /\ (Raises(Postgres) \/ ~scene)
    /\ UNCHANGED <<file, environment, overlapped, faults>>

\* Faulty variant of Record: the fault is recorded only when it is active.
RecordLater(o) ==
    /\ Goto(o, "record", "apply")
    /\ UNCHANGED <<file, mine, environment, overlapped, faults>>

\* The intent is written before the fault is applied.
Record(o) ==
    /\ Goto(o, "record", "apply")
    /\ file' = mine[o]
    /\ UNCHANGED <<mine, environment, overlapped, faults>>

\* docker pause
Pause(o) ==
    /\ At(o, "apply", "pause")
    /\ deployed = mine[o].container /\ mine[o].service \notin paused
    /\ Goto(o, "apply", "confirm")
    /\ paused' = paused \cup {mine[o].service}
    /\ UNCHANGED <<file, mine, deployed, started, planted, scene, drift, checkout, overlapped,
                   faults>>

\* docker refuses: the container is gone or paused already.  The file is unlinked.
PauseRefused(o) ==
    /\ At(o, "apply", "pause")
    /\ deployed # mine[o].container \/ mine[o].service \in paused
    /\ End(o, "apply")
    /\ file' = NoFault
    /\ UNCHANGED <<environment, overlapped, faults>>

\* put_object
Plant(o) ==
    /\ At(o, "apply", "object-create") /\ Reachable(Minio)
    /\ Goto(o, "apply", "confirm")
    /\ planted' = planted \cup {mine[o].object}
    /\ UNCHANGED <<file, mine, deployed, started, paused, scene, drift, checkout, overlapped,
                   faults>>

\* Faulty variant of Widen: the width found by the second transaction is changed.
WidenAgain(o) ==
    /\ At(o, "apply", "metadata-change") /\ Reachable(Postgres) /\ scene
    /\ Goto(o, "apply", "confirm")
    /\ drift' = drift + 1
    /\ UNCHANGED <<file, mine, deployed, started, paused, planted, scene, checkout, overlapped,
                   faults>>

\* The second transaction changes the width to the one the first found plus one.
Widen(o) ==
    /\ At(o, "apply", "metadata-change") /\ Reachable(Postgres) /\ scene
    /\ Goto(o, "apply", "confirm")
    /\ drift' = mine[o].original + 1
    /\ UNCHANGED <<file, mine, deployed, started, paused, planted, scene, checkout, overlapped,
                   faults>>

\* The scene has gone since the first one.  The file is unlinked.
WidenMisses(o) ==
    /\ At(o, "apply", "metadata-change") /\ Reachable(Postgres) /\ ~scene
    /\ End(o, "apply")
    /\ file' = NoFault
    /\ UNCHANGED <<environment, overlapped, faults>>

\* The store or the database cannot be reached.  The file stays.
ApplyRaises(o) ==
    /\ \/ At(o, "apply", "object-create") /\ Raises(Minio)
       \/ At(o, "apply", "metadata-change") /\ Raises(Postgres)
    /\ End(o, "apply")
    /\ UNCHANGED <<file, environment, overlapped, faults>>

\* The file is written again, now with the fault active.
Confirm(o) ==
    /\ End(o, "confirm")
    /\ file' = mine[o]
    /\ UNCHANGED <<environment, overlapped, faults>>

(* clear_faults *)

Clear(o) ==
    /\ file # NoFault /\ ~torn
    /\ Start(o, "undo")
    /\ Remember(o, file)
    /\ UNCHANGED <<file, environment, faults>>

\* Faulty variant of Identified: a paused container is not found.
IdentifiedRunning(f) ==
    /\ deployed > 0
    /\ f.action = "pause" => f.container = deployed /\ f.service \notin paused
    /\ f.action = "object-create" => Reachable(Minio)
    /\ f.action = "metadata-change" => Reachable(Postgres) /\ scene

\* The target of f is there, and is the one that was faulted.
Identified(f) ==
    /\ deployed > 0
    /\ f.action = "pause" => f.container = deployed
    /\ f.action = "object-create" => Reachable(Minio)
    /\ f.action = "metadata-change" => Reachable(Postgres) /\ scene

\* Only a container that is paused is unpaused.
Undo(o) ==
    /\ Goto(o, "undo", "unlink")
    /\ Identified(mine[o])
    /\ paused' = IF mine[o].action = "pause" THEN paused \ {mine[o].service} ELSE paused
    /\ planted' = IF mine[o].action = "object-create" THEN planted \ {mine[o].object} ELSE planted
    /\ drift' = IF mine[o].action = "metadata-change" THEN mine[o].original ELSE drift
    /\ UNCHANGED <<file, mine, deployed, started, scene, checkout, overlapped, faults>>

\* The container's identity changed, the scene is gone or a call raises.
UndoRaises(o) ==
    /\ End(o, "undo")
    /\ ~Identified(mine[o]) \/ (mine[o].action # "pause" /\ config # given)
    /\ UNCHANGED <<file, environment, overlapped, faults>>

\* Whatever the file names by now.
Unlink(o) ==
    /\ End(o, "unlink")
    /\ file' = NoFault
    /\ UNCHANGED <<environment, overlapped, faults>>

(* The environment *)

\* The credentials that initialize_environment writes: secrets that nobody has had,
\* unless there is a file.
Configured == IF config = 0 THEN started + 1 ELSE config

\* compose_up creates the containers, anew when their credentials changed, and volumes
\* if there are none; it leaves other containers as they are.
Up ==
    /\ ~torn /\ started < MaxGenerations
    /\ deployed = 0 \/ given # Configured
    /\ started' = started + 1 /\ deployed' = started + 1
    /\ config' = Configured /\ given' = Configured
    /\ volumes' = IF volumes = 0 THEN Configured ELSE volumes
    /\ paused' = {}
    /\ overlapped' = (overlapped \/ \E o \in Operator : pc[o] = "wipe")
    /\ UNCHANGED <<file, pc, mine, torn, planted, scene, drift, cut, deleted, faults>>

ContainersRemoved ==
    /\ deployed > 0 /\ ~torn
    /\ deployed' = 0 /\ given' = 0 /\ paused' = {}

\* Faulty variant of Teardown: down without --volumes.
TeardownKeepingVolumes ==
    /\ ContainersRemoved
    /\ UNCHANGED <<started, planted, scene, drift, config, torn, volumes, cut, deleted>>

\* The file, or a command that runs, may hold what it read from the present volumes.
Busy == file # NoFault \/ \E o \in Operator : pc[o] # "idle"

\* compose_down: down --volumes
Teardown ==
    /\ ContainersRemoved
    /\ volumes' = 0 /\ planted' = {} /\ scene' = FALSE /\ drift' = 0
    /\ cut' = (cut /\ Busy) /\ deleted' = FALSE
    /\ UNCHANGED <<started, config, torn>>

\* Without containers, compose_down finds nothing to remove.
Down ==
    /\ Teardown
    /\ UNCHANGED <<file, pc, mine, overlapped, faults>>

\* docker compose is killed, by its timeout or with the command, between the
\* containers and the volumes.
DownCutShort ==
    /\ Fails
    /\ ContainersRemoved /\ cut' = TRUE
    /\ UNCHANGED <<file, pc, mine, started, planted, scene, drift, config, torn, volumes,
                   deleted, overlapped>>

\* reset --apply tears down first, if there are containers.
Reset(o) ==
    /\ ~torn /\ Start(o, "wipe")
    /\ Teardown \/ (deployed = 0 /\ UNCHANGED environment)
    /\ UNCHANGED <<file, mine, faults>>

\* reset_project removes the artifacts, the file among them, then .env.local, unless it
\* dies in between.
Wipe(o) ==
    /\ End(o, "wipe")
    /\ file' = NoFault
    /\ \/ config' = 0 /\ torn' = FALSE /\ UNCHANGED faults
       \/ Fails /\ UNCHANGED <<config, torn>>
    /\ UNCHANGED <<deployed, started, paused, planted, scene, drift, given, volumes, cut, deleted,
                   overlapped>>

\* A command is killed while it rewrites .env.local: from then on each one that needs
\* it raises.
Tear ==
    /\ ~torn /\ Fails /\ torn' = TRUE
    /\ UNCHANGED <<file, pc, mine, deployed, started, paused, planted, scene, drift, config, given,
                   volumes, cut, deleted, overlapped>>

\* Somebody deletes .env.local by hand, because it is torn or for no reason.
Delete ==
    /\ config # 0 /\ config' = 0 /\ torn' = FALSE
    /\ \/ torn /\ UNCHANGED faults
       \/ ~torn /\ Fails
    /\ deleted' = (volumes # 0)
    /\ UNCHANGED <<file, pc, mine, deployed, started, paused, planted, scene, drift, given,
                   volumes, cut, overlapped>>

\* The imagery worker completes the scene, for the first time or again.
SceneCompleted ==
    /\ Reachable(Postgres)
    /\ scene' = TRUE /\ drift' = 0
    /\ UNCHANGED <<file, pc, mine, deployed, started, paused, planted, checkout, overlapped,
                   faults>>

\* A command is killed, or a call raises that could have worked.
Abandon(o) ==
    /\ Fails
    /\ pc[o] # "idle" /\ End(o, pc[o])
    /\ UNCHANGED <<file, environment, overlapped>>

Continue(o) ==
    \/ Resolve(o) \/ ResolveRaises(o) \/ Record(o)
    \/ Pause(o) \/ PauseRefused(o) \/ Plant(o) \/ Widen(o) \/ WidenMisses(o) \/ ApplyRaises(o)
    \/ Confirm(o) \/ Undo(o) \/ UndoRaises(o) \/ Unlink(o) \/ Wipe(o)

Next ==
    \/ \E o \in Operator : Inject(o) \/ Clear(o) \/ Reset(o) \/ Continue(o) \/ Abandon(o)
    \/ Up \/ Down \/ DownCutShort \/ SceneCompleted \/ Tear \/ Delete

\* A command that runs goes on; an operator who finds a fault clears it.
Fairness == \A o \in Operator : WF_vars(Continue(o)) /\ SF_vars(Clear(o))

Spec == Init /\ [][Next]_vars /\ Fairness

------------------------------------------------------------------------------
(* Properties *)

\* faults.py:158: whenever a command dies and whatever happens to the environment
\* meanwhile, the file names each fault that is there; so at most one is.  It takes
\* two commands that overlap to lose a record, or volumes that a teardown cut short left
\* to a reset.
EveryFaultRecorded ==
    ~overlapped /\ ~cut =>
        /\ \A s \in paused :
              file = [action |-> "pause", service |-> s, container |-> deployed]
        /\ \A x \in planted : file = [action |-> "object-create", object |-> x]
        /\ drift # 0 => file = [action |-> "metadata-change", original |-> 0]

\* The recorded target is gone or cannot be reached any more: the clearing refuses, and
\* only a reset forgets it.
Orphaned ==
    /\ file # NoFault
    /\ \/ ~Started \/ torn \/ config # given
       \/ file.action = "pause" /\ file.container # deployed
       \/ file.action = "metadata-change" /\ ~scene

\* An operator who clears until it works ends up without a fault, unless the
\* target has been removed or commands overlapped.
EveryFaultCleared ==
    file # NoFault ~> file = NoFault \/ Orphaned \/ overlapped

\* TROUBLESHOOTING.md:13-16: whatever is started, removed and reset, whichever command
\* dies, the environment that runs has the credentials its volumes were created with,
\* and the checkout knows them.  It takes a teardown cut short (no later one removes the
\* volumes once the containers are gone), a file deleted by hand, which ends with the next
\* complete teardown, or a start during a reset, to make them differ.
CredentialsFit ==
    deployed > 0 /\ ~overlapped /\ ~cut /\ ~deleted => config = given /\ given = volumes
==============================================================================
