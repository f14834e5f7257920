------------------------- MODULE FaultControlProofs -------------------------
(***************************************************************************)
(* Proofs about fault injection next to the environment's lifecycle, for    *)
(* any number of operators and services, any number of failures and any     *)
(* number of times the environment is started.                              *)
(***************************************************************************)
EXTENDS FaultControl, TLAPS

USE ServiceAssumption, BoundsAssumption, NoFaultAssumption

(* What the steps of a command rely on. *)

\* From its second step on a command has a fault, a width it is to change has room, and a
\* container it is to pause was there.
CommandsHaveFaults ==
    \A o \in Operator :
        /\ pc[o] \notin {"idle", "wipe"} => mine[o] \in Fault
        /\ pc[o] \in {"record", "apply", "confirm"} /\ mine[o].action = "metadata-change"
              => mine[o].original < MaxDrift
        /\ pc[o] \in {"record", "apply"} /\ mine[o].action = "pause" => mine[o].container # 0

Types == TypeOK /\ CommandsHaveFaults

\* Volumes are there as long as containers are; without containers they outlive only a
\* teardown that was cut short.
VolumesFollowContainers ==
    /\ deployed > 0 => volumes # 0
    /\ deployed = 0 => volumes = 0 \/ cut

\* A reset that nothing overlaps has no containers any more.
WipeIsLast == ~overlapped => \A o \in Operator : pc[o] = "wipe" => deployed = 0

\* The checkout knows the credentials of the volumes.
VolumesKnown == ~overlapped /\ ~cut /\ ~deleted /\ volumes # 0 => config = volumes

CredentialInv ==
    /\ VolumesFollowContainers
    /\ WipeIsLast
    /\ VolumesKnown
    /\ CredentialsFit

\* Without overlaps one command runs at a time, and between its steps the file is what
\* it has left there.
OneCommandRuns ==
    ~overlapped =>
        \A o, q \in Operator : pc[o] # "idle" /\ pc[q] # "idle" => o = q

FileIsOwn ==
    ~overlapped =>
        \A o \in Operator :
            /\ pc[o] \in {"resolve", "record"} => file = NoFault
            /\ pc[o] \in {"apply", "confirm", "undo", "unlink"} => file = mine[o]

\* There is no fault.
Clean == paused = {} /\ planted = {} /\ drift = 0

\* A fault is applied to an environment that has none, and undone before it is forgotten.
CleanAtApply ==
    ~overlapped /\ ~cut => \A o \in Operator : pc[o] \in {"apply", "unlink"} => Clean

\* Without containers there is no fault, unless the volumes were left.
CleanWithoutContainers ==
    deployed = 0 => paused = {} /\ (Clean \/ cut)

\* The width that is recorded is the true one.
TrueWidth(f) == f \in Fault /\ f.action = "metadata-change" => f.original = 0
WidthsAreTrue ==
    ~overlapped /\ ~cut =>
        /\ TrueWidth(file)
        /\ \A o \in Operator :
              pc[o] \in {"record", "apply", "confirm", "undo", "unlink"} => TrueWidth(mine[o])

RecordInv ==
    /\ OneCommandRuns
    /\ FileIsOwn
    /\ CleanAtApply
    /\ CleanWithoutContainers
    /\ WidthsAreTrue
    /\ EveryFaultRecorded

Inv == Types /\ CredentialInv /\ RecordInv

-----------------------------------------------------------------------------
(* Faults. *)

\* A fault is one of three kinds, each with its own fields.
LEMMA FaultKinds ==
    ASSUME NEW f \in Fault
    PROVE  /\ f.action \in {"pause", "object-create", "metadata-change"}
           /\ f.action = "pause" =>
                f \in [action: {"pause"}, service: Service, container: Generation]
           /\ f.action = "object-create" => f \in [action: {"object-create"}, object: Object]
           /\ f.action = "metadata-change" =>
                f \in [action: {"metadata-change"}, original: 0..MaxDrift]
BY DEF Fault

\* What resolve fills in makes a fault of the same kind.
LEMMA Resolved ==
    ASSUME NEW f \in Fault
    PROVE  /\ f.action = "pause" => \A g \in Generation :
                 /\ [f EXCEPT !.container = g] \in Fault
                 /\ [f EXCEPT !.container = g].action = "pause"
                 /\ [f EXCEPT !.container = g].container = g
           /\ f.action = "metadata-change" => \A w \in 0..MaxDrift :
                 /\ [f EXCEPT !.original = w] \in Fault
                 /\ [f EXCEPT !.original = w].action = "metadata-change"
                 /\ [f EXCEPT !.original = w].original = w
<1>1. ASSUME f.action = "pause", NEW g \in Generation
      PROVE  /\ [f EXCEPT !.container = g]
                   \in [action: {"pause"}, service: Service, container: Generation]
             /\ [f EXCEPT !.container = g].action = "pause"
             /\ [f EXCEPT !.container = g].container = g
  BY <1>1, FaultKinds
<1>2. ASSUME f.action = "metadata-change", NEW w \in 0..MaxDrift
      PROVE  /\ [f EXCEPT !.original = w] \in [action: {"metadata-change"}, original: 0..MaxDrift]
             /\ [f EXCEPT !.original = w].action = "metadata-change"
             /\ [f EXCEPT !.original = w].original = w
  BY <1>2, FaultKinds
<1> QED
  BY <1>1, <1>2 DEF Fault

\* An operator can only ask for a fault.
LEMMA ChoicesAreFaults == Choices \subseteq Fault
BY DEF Choices, Fault, Generation

-----------------------------------------------------------------------------
(* Types. *)

\* There is no environment and no command at first.
LEMMA InitInv == Init => Inv
<1> SUFFICES ASSUME Init PROVE Inv
  OBVIOUS
<1>1. Types
  <2>1. {config, given, volumes} \subseteq 0..(MaxGenerations + 1)
    BY DEF Init
  <2>2. /\ pc \in [Operator -> Steps] /\ mine \in [Operator -> Fault \cup {NoFault}]
        /\ deployed \in Generation /\ started \in Generation
        /\ drift \in 0..MaxDrift /\ faults \in 0..MaxFaults
    BY DEF Init, Steps, Generation
  <2>3. {torn, cut, deleted} \subseteq BOOLEAN
    BY DEF Init
  <2> QED
    BY <2>1, <2>2, <2>3 DEF Init, Types, TypeOK, CommandsHaveFaults
<1>2. CredentialInv
  BY DEF Init, CredentialInv, VolumesFollowContainers, WipeIsLast, VolumesKnown, CredentialsFit
<1>3. RecordInv
  BY DEF Init, RecordInv, OneCommandRuns, FileIsOwn, Clean, CleanAtApply, CleanWithoutContainers,
     WidthsAreTrue, TrueWidth, EveryFaultRecorded
<1> QED
  BY <1>1, <1>2, <1>3 DEF Inv

\* The steps of one operator's command change nothing of the others' commands.
LEMMA MoveTypes ==
    ASSUME Types, NEW o \in Operator, NEW from, NEW to \in Steps, NEW f \in Fault \cup {NoFault},
           Goto(o, from, to), mine' = [mine EXCEPT ![o] = f],
           to \notin {"idle", "wipe"} => f \in Fault,
           to \in {"record", "apply", "confirm"} /\ f.action = "metadata-change"
               => f.original < MaxDrift,
           to \in {"record", "apply"} /\ f.action = "pause" => f.container # 0
    PROVE  /\ pc' \in [Operator -> Steps]
           /\ mine' \in [Operator -> Fault \cup {NoFault}]
           /\ CommandsHaveFaults'
BY DEF Types, TypeOK, CommandsHaveFaults, Goto

\* The same for a step that keeps the command's fault.
LEMMA KeepTypes ==
    ASSUME Types, NEW o \in Operator, NEW from, NEW to \in Steps,
           Goto(o, from, to), UNCHANGED mine, from \notin {"idle", "wipe"},
           to \in {"record", "apply", "confirm"} =>
               from \in {"record", "apply", "confirm"} \/ mine[o].action # "metadata-change",
           to \in {"record", "apply"} => from \in {"record", "apply"} \/ mine[o].action # "pause"
    PROVE  /\ pc' \in [Operator -> Steps]
           /\ mine' \in [Operator -> Fault \cup {NoFault}]
           /\ CommandsHaveFaults'
BY DEF Types, TypeOK, CommandsHaveFaults, Goto

\* The same for a command that ends.
LEMMA EndTypes ==
    ASSUME Types, NEW o \in Operator, NEW from, End(o, from)
    PROVE  /\ pc' \in [Operator -> Steps]
           /\ mine' \in [Operator -> Fault \cup {NoFault}]
           /\ CommandsHaveFaults'
BY DEF Types, TypeOK, CommandsHaveFaults, Goto, End, Remember, Steps

\* The part of TypeOK about the environment.
EnvironmentTypes ==
    /\ deployed \in Generation /\ started \in Generation
    /\ {config, given, volumes} \subseteq 0..(MaxGenerations + 1)
    /\ {torn, cut, deleted} \subseteq BOOLEAN
    /\ paused \subseteq Service
    /\ planted \subseteq Object
    /\ scene \in BOOLEAN
    /\ drift \in 0..MaxDrift

\* A teardown keeps the types of the environment.
LEMMA TeardownTypes == ASSUME Types, Teardown PROVE EnvironmentTypes'
<1> USE DEF Types, TypeOK, Teardown, ContainersRemoved, EnvironmentTypes
<1>1. {config', given', volumes'} \subseteq 0..(MaxGenerations + 1)
  OBVIOUS
<1>2. {torn', cut', deleted'} \subseteq BOOLEAN
  OBVIOUS
<1>3. deployed' \in Generation /\ started' \in Generation /\ drift' \in 0..MaxDrift
  BY DEF Generation
<1>4. paused' \subseteq Service /\ planted' \subseteq Object /\ scene' \in BOOLEAN
  OBVIOUS
<1> QED
  BY <1>1, <1>2, <1>3, <1>4

\* Injection, clearing and a reset that begins keep the types.
LEMMA StartTypes ==
    ASSUME Types, NEW o \in Operator, Inject(o) \/ Clear(o) \/ Reset(o)
    PROVE  Types'
<1> USE DEF Types, TypeOK
<1>1. ASSUME NEW step, Start(o, step) PROVE Goto(o, "idle", step) /\ overlapped' \in BOOLEAN
  BY <1>1 DEF Start
<1>2. CASE Inject(o)
  <2> PICK f \in Choices : Remember(o, f)
    BY <1>2 DEF Inject
  <2>1. Goto(o, "idle", "resolve") /\ overlapped' \in BOOLEAN /\ f \in Fault
    BY <1>1, <1>2, ChoicesAreFaults DEF Inject
  <2>2. /\ pc' \in [Operator -> Steps] /\ mine' \in [Operator -> Fault \cup {NoFault}]
        /\ CommandsHaveFaults'
    BY <2>1, MoveTypes DEF Remember, Steps
  <2> QED
    BY <1>2, <2>1, <2>2 DEF Inject, environment, checkout
<1>3. CASE Clear(o)
  <2>1. Goto(o, "idle", "undo") /\ overlapped' \in BOOLEAN /\ file \in Fault
    BY <1>1, <1>3 DEF Clear
  <2>2. /\ pc' \in [Operator -> Steps] /\ mine' \in [Operator -> Fault \cup {NoFault}]
        /\ CommandsHaveFaults'
    BY <1>3, <2>1, MoveTypes DEF Clear, Remember, Steps
  <2> QED
    BY <1>3, <2>1, <2>2 DEF Clear, environment, checkout
<1>4. CASE Reset(o)
  <2>1. Goto(o, "idle", "wipe") /\ overlapped' \in BOOLEAN /\ UNCHANGED <<file, mine, faults>>
    BY <1>1, <1>4 DEF Reset
  <2>2. /\ pc' \in [Operator -> Steps] /\ mine' \in [Operator -> Fault \cup {NoFault}]
        /\ CommandsHaveFaults'
    BY <2>1 DEF CommandsHaveFaults, Goto, Steps
  <2>3. EnvironmentTypes'
    BY <1>4, TeardownTypes DEF Reset, environment, checkout, EnvironmentTypes
  <2> QED
    BY <2>1, <2>2, <2>3 DEF EnvironmentTypes
<1> QED
  BY <1>2, <1>3, <1>4

\* The steps of inject_fault keep the types.
LEMMA InjectTypes ==
    ASSUME Types, NEW o \in Operator,
           \/ Resolve(o) \/ ResolveRaises(o) \/ Record(o)
           \/ Pause(o) \/ PauseRefused(o) \/ Plant(o)
           \/ Widen(o) \/ WidenMisses(o) \/ ApplyRaises(o)
           \/ Confirm(o)
    PROVE  Types'
<1> USE DEF environment, checkout
<1>1. CASE Resolve(o)
  <2>1. /\ UNCHANGED <<file, environment, overlapped, faults>>
        /\ Goto(o, "resolve", "record") /\ mine[o] \in Fault /\ deployed > 0
    BY <1>1 DEF Resolve, Started, Goto, Types, CommandsHaveFaults
  <2>2. CASE At(o, "resolve", "pause") /\ Remember(o, [mine[o] EXCEPT !.container = deployed])
    <3> DEFINE f == [mine[o] EXCEPT !.container = deployed]
    <3>1. f \in Fault /\ f.action = "pause" /\ f.container = deployed
      BY <2>1, <2>2, Resolved DEF At, Types, TypeOK
    <3> HIDE DEF f
    <3>2. mine' = [mine EXCEPT ![o] = f]
      BY <2>2 DEF Remember, f
    <3>3. f.container # 0
      BY <2>1, <3>1 DEF Types, TypeOK, Generation
    <3> QED
      BY <2>1, <3>1, <3>2, <3>3, MoveTypes DEF Types, TypeOK, Steps
  <2>3. CASE At(o, "resolve", "object-create") /\ UNCHANGED mine
    BY <2>1, <2>3, KeepTypes DEF At, Types, TypeOK, Steps
  <2>4. CASE /\ At(o, "resolve", "metadata-change") /\ drift < MaxDrift
             /\ Remember(o, [mine[o] EXCEPT !.original = drift])
    <3> DEFINE f == [mine[o] EXCEPT !.original = drift]
    <3>1. f \in Fault /\ f.original = drift /\ f.action = "metadata-change"
      BY <2>1, <2>4, Resolved DEF At, Types, TypeOK
    <3> HIDE DEF f
    <3>2. mine' = [mine EXCEPT ![o] = f]
      BY <2>4 DEF Remember, f
    <3> QED
      BY <2>1, <2>4, <3>1, <3>2, MoveTypes DEF Types, TypeOK, Steps
  <2> QED
    BY <1>1, <2>2, <2>3, <2>4 DEF Resolve
<1>2. CASE ResolveRaises(o)
  BY <1>2, EndTypes DEF ResolveRaises, Types, TypeOK
<1>3. CASE Record(o)
  <2>1. mine[o] \in Fault /\ file' = mine[o]
    BY <1>3 DEF Record, Goto, Types, CommandsHaveFaults
  <2> QED
    BY <1>3, <2>1, KeepTypes DEF Record, Types, TypeOK, Steps
<1>4. ASSUME NEW action, At(o, "apply", action), Goto(o, "apply", "confirm"), UNCHANGED mine
      PROVE  /\ pc' \in [Operator -> Steps]
             /\ mine' \in [Operator -> Fault \cup {NoFault}]
             /\ CommandsHaveFaults'
             /\ mine[o] \in Fault /\ mine[o].action = action
             /\ action = "metadata-change" => mine[o].original < MaxDrift
  <2>1. mine[o] \in Fault /\ mine[o].action = action
        /\ (action = "metadata-change" => mine[o].original < MaxDrift)
    BY <1>4 DEF At, Goto, Types, CommandsHaveFaults
  <2> QED
    BY <1>4, <2>1, KeepTypes DEF Steps
<1>5. CASE Pause(o)
  <2>1. mine[o].service \in Service
    BY <1>4, <1>5, FaultKinds DEF Pause
  <2> QED
    BY <1>4, <1>5, <2>1 DEF Pause, Types, TypeOK
<1>6. CASE PauseRefused(o)
  BY <1>6, EndTypes DEF PauseRefused, Types, TypeOK
<1>7. CASE Plant(o)
  <2>1. mine[o].object \in Object
    BY <1>4, <1>7, FaultKinds DEF Plant
  <2> QED
    BY <1>4, <1>7, <2>1 DEF Plant, Types, TypeOK
<1>8. CASE Widen(o)
  <2>1. mine[o].original \in 0..MaxDrift /\ mine[o].original < MaxDrift
    BY <1>4, <1>8, FaultKinds DEF Widen
  <2>2. mine[o].original + 1 \in 0..MaxDrift
    BY <2>1
  <2> QED
    BY <1>4, <1>8, <2>2 DEF Widen, Types, TypeOK
<1>9. CASE WidenMisses(o) \/ ApplyRaises(o)
  BY <1>9, EndTypes DEF WidenMisses, ApplyRaises, Types, TypeOK
<1>10. CASE Confirm(o)
  <2>1. mine[o] \in Fault /\ file' = mine[o] /\ End(o, "confirm")
    BY <1>10 DEF Confirm, End, Goto, Types, CommandsHaveFaults
  <2> QED
    BY <1>10, <2>1, EndTypes DEF Confirm, Types, TypeOK
<1> QED
  BY <1>1, <1>2, <1>3, <1>5, <1>6, <1>7, <1>8, <1>9, <1>10

\* The steps of clear_faults keep the types.
LEMMA ClearTypes ==
    ASSUME Types, NEW o \in Operator, Undo(o) \/ UndoRaises(o) \/ Unlink(o)
    PROVE  Types'
<1> USE DEF environment, checkout
<1>1. CASE Undo(o)
  <2>1. mine[o] \in Fault /\ Goto(o, "undo", "unlink")
    BY <1>1 DEF Undo, Goto, Types, CommandsHaveFaults
  <2>2. /\ pc' \in [Operator -> Steps] /\ mine' \in [Operator -> Fault \cup {NoFault}]
        /\ CommandsHaveFaults'
    BY <1>1, <2>1, KeepTypes DEF Undo, Steps
  <2>3. drift' \in 0..MaxDrift
    BY <1>1, <2>1, FaultKinds DEF Undo, Types, TypeOK
  <2> QED
    BY <1>1, <2>2, <2>3 DEF Undo, Types, TypeOK
<1>2. CASE UndoRaises(o) \/ Unlink(o)
  BY <1>2, EndTypes DEF UndoRaises, Unlink, Types, TypeOK
<1> QED
  BY <1>1, <1>2

\* So do the steps of the environment and of a reset, a kill among them.
LEMMA EnvironmentStepTypes ==
    ASSUME Types,
           \/ Up \/ Down \/ DownCutShort \/ SceneCompleted \/ Tear \/ Delete
           \/ \E o \in Operator : Wipe(o) \/ Abandon(o)
    PROVE  Types'
<1> USE DEF environment, checkout
<1>0. ASSUME UNCHANGED <<pc, mine>>
      PROVE  pc' \in [Operator -> Steps] /\ mine' \in [Operator -> Fault \cup {NoFault}]
             /\ CommandsHaveFaults'
  BY <1>0 DEF Types, TypeOK, CommandsHaveFaults
<1>1. ASSUME EnvironmentTypes', file' \in Fault \cup {NoFault},
             pc' \in [Operator -> Steps], mine' \in [Operator -> Fault \cup {NoFault}],
             CommandsHaveFaults', overlapped' \in BOOLEAN, faults' \in 0..MaxFaults
      PROVE  Types'
  BY <1>1 DEF Types, TypeOK, EnvironmentTypes
<1>2. ASSUME Fails \/ UNCHANGED faults PROVE faults' \in 0..MaxFaults
  BY <1>2 DEF Fails, Types, TypeOK
<1>3. CASE Up
  <2>1. Configured \in 0..(MaxGenerations + 1)
    BY <1>3 DEF Configured, Types, TypeOK, Generation, Up
  <2>2. {config', given', volumes'} \subseteq 0..(MaxGenerations + 1)
    BY <1>3, <2>1 DEF Up, Types, TypeOK
  <2>3. deployed' \in Generation /\ started' \in Generation
    BY <1>3 DEF Up, Types, TypeOK, Generation
  <2>4. overlapped' \in BOOLEAN
    BY <1>3 DEF Up, Types, TypeOK
  <2>5. EnvironmentTypes'
    BY <1>3, <2>2, <2>3 DEF Up, Types, TypeOK, EnvironmentTypes
  <2> QED
    BY <1>0, <1>1, <1>2, <1>3, <2>4, <2>5 DEF Up, Types, TypeOK
<1>4. CASE Down
  BY <1>0, <1>1, <1>2, <1>4, TeardownTypes DEF Down, Types, TypeOK
<1>5. CASE DownCutShort
  <2>1. EnvironmentTypes'
    <3>1. {config', given', volumes'} \subseteq 0..(MaxGenerations + 1)
      BY <1>5 DEF DownCutShort, ContainersRemoved, Types, TypeOK
    <3>2. {torn', cut', deleted'} \subseteq BOOLEAN
      BY <1>5 DEF DownCutShort, Types, TypeOK
    <3>3. deployed' \in Generation
      BY <1>5 DEF DownCutShort, ContainersRemoved, Generation
    <3> QED
      BY <1>5, <3>1, <3>2, <3>3 DEF DownCutShort, ContainersRemoved, Types, TypeOK, EnvironmentTypes
  <2> QED
    BY <1>0, <1>1, <1>2, <1>5, <2>1 DEF DownCutShort, Types, TypeOK
<1>6. CASE SceneCompleted
  <2>1. EnvironmentTypes'
    BY <1>6 DEF SceneCompleted, Types, TypeOK, EnvironmentTypes
  <2> QED
    BY <1>0, <1>1, <1>2, <1>6, <2>1 DEF SceneCompleted, Types, TypeOK
<1>7. CASE Tear
  <2>1. {torn', cut', deleted'} \subseteq BOOLEAN
    BY <1>7 DEF Tear, Types, TypeOK
  <2>2. EnvironmentTypes'
    BY <1>7, <2>1 DEF Tear, Types, TypeOK, EnvironmentTypes
  <2> QED
    BY <1>0, <1>1, <1>2, <1>7, <2>2 DEF Tear, Types, TypeOK
<1>8. CASE Delete
  <2>1. {torn', cut', deleted'} \subseteq BOOLEAN
    BY <1>8 DEF Delete, Types, TypeOK
  <2>2. {config', given', volumes'} \subseteq 0..(MaxGenerations + 1)
    BY <1>8 DEF Delete, Types, TypeOK
  <2>3. EnvironmentTypes'
    BY <1>8, <2>1, <2>2 DEF Delete, Types, TypeOK, EnvironmentTypes
  <2>4. Fails \/ UNCHANGED faults
    BY <1>8 DEF Delete
  <2> QED
    BY <1>0, <1>1, <1>2, <1>8, <2>3, <2>4 DEF Delete, Types, TypeOK
<1>9. ASSUME NEW o \in Operator, Wipe(o) PROVE Types'
  <2>1. {torn', cut', deleted'} \subseteq BOOLEAN
    BY <1>9 DEF Wipe, Types, TypeOK
  <2>2. {config', given', volumes'} \subseteq 0..(MaxGenerations + 1)
    BY <1>9 DEF Wipe, Types, TypeOK
  <2>3. EnvironmentTypes'
    BY <1>9, <2>1, <2>2 DEF Wipe, Types, TypeOK, EnvironmentTypes
  <2>4. Fails \/ UNCHANGED faults
    BY <1>9 DEF Wipe
  <2> QED
    BY <1>1, <1>2, <1>9, <2>3, <2>4, EndTypes DEF Wipe, Types, TypeOK
<1>10. ASSUME NEW o \in Operator, Abandon(o) PROVE Types'
  <2>1. EnvironmentTypes'
    BY <1>10 DEF Abandon, Types, TypeOK, EnvironmentTypes
  <2> QED
    BY <1>1, <1>2, <1>10, <2>1, EndTypes DEF Abandon, Types, TypeOK
<1> QED
  BY <1>3, <1>4, <1>5, <1>6, <1>7, <1>8, <1>9, <1>10

\* Each step keeps the types.
LEMMA TypesStep == Types /\ [Next]_vars => Types'
<1> SUFFICES ASSUME Types, [Next]_vars PROVE Types'
  OBVIOUS
<1>1. CASE UNCHANGED vars
  BY <1>1 DEF vars, environment, checkout, Types, TypeOK, CommandsHaveFaults
<1> QED
  BY <1>1, StartTypes, InjectTypes, ClearTypes, EnvironmentStepTypes DEF Next, Continue

-----------------------------------------------------------------------------
(* Credentials. *)

credentials == <<deployed, config, given, volumes, cut, deleted>>

\* The commands that inject and clear faults, the worker and a torn file concern no
\* credentials and begin no reset.
LEMMA CredentialFrame ==
    ASSUME Types,
           \/ \E o \in Operator : \/ Inject(o) \/ Clear(o) \/ Abandon(o)
                                  \/ Resolve(o) \/ ResolveRaises(o) \/ Record(o)
                                  \/ Pause(o) \/ PauseRefused(o) \/ Plant(o) \/ Widen(o)
                                  \/ WidenMisses(o) \/ ApplyRaises(o) \/ Confirm(o)
                                  \/ Undo(o) \/ UndoRaises(o) \/ Unlink(o)
           \/ SceneCompleted \/ Tear \/ UNCHANGED vars
    PROVE  /\ UNCHANGED credentials
           /\ overlapped => overlapped'
           /\ \A q \in Operator : pc'[q] = "wipe" => pc[q] = "wipe"
<1> USE DEF credentials, environment, checkout, Goto, End
<1> DEFINE Goal == /\ UNCHANGED credentials
                   /\ overlapped => overlapped'
                   /\ \A q \in Operator : pc'[q] = "wipe" => pc[q] = "wipe"
<1>1. ASSUME NEW o \in Operator, Inject(o) \/ Clear(o) \/ Abandon(o) PROVE Goal
  BY <1>1 DEF Inject, Clear, Abandon, Start, Types, TypeOK
<1>2. ASSUME NEW o \in Operator, Resolve(o) \/ ResolveRaises(o) \/ Record(o) PROVE Goal
  BY <1>2 DEF Resolve, ResolveRaises, Record, Types, TypeOK
<1>3. ASSUME NEW o \in Operator, Pause(o) \/ PauseRefused(o) \/ Plant(o) \/ Widen(o) PROVE Goal
  BY <1>3 DEF Pause, PauseRefused, Plant, Widen, Types, TypeOK
<1>4. ASSUME NEW o \in Operator, WidenMisses(o) \/ ApplyRaises(o) \/ Confirm(o) PROVE Goal
  BY <1>4 DEF WidenMisses, ApplyRaises, Confirm, Types, TypeOK
<1>5. ASSUME NEW o \in Operator, Undo(o) \/ UndoRaises(o) \/ Unlink(o) PROVE Goal
  BY <1>5 DEF Undo, UndoRaises, Unlink, Types, TypeOK
<1>6. ASSUME SceneCompleted \/ Tear PROVE Goal
  BY <1>6 DEF SceneCompleted, Tear
<1>7. ASSUME UNCHANGED vars PROVE Goal
  BY <1>7 DEF vars
<1> HIDE DEF Goal
<1>8. Goal
  BY <1>1, <1>2, <1>3, <1>4, <1>5, <1>6, <1>7
<1> QED
  BY <1>8 DEF Goal

\* A teardown takes the volumes along, so that credentials can be anything.
LEMMA TeardownCredentials ==
    ASSUME Teardown
    PROVE  deployed' = 0 /\ volumes' = 0 /\ config' = config /\ given' = 0 /\ (cut' => cut)
BY DEF Teardown, ContainersRemoved

\* Whatever is started, removed and reset, the checkout, the containers and the volumes
\* go on agreeing.
LEMMA CredentialStep ==
    ASSUME Types, CredentialInv, [Next]_vars
    PROVE  CredentialInv'
<1> USE DEF CredentialInv, VolumesFollowContainers, WipeIsLast, VolumesKnown, CredentialsFit
<1>1. ASSUME UNCHANGED credentials, overlapped => overlapped',
             \A q \in Operator : pc'[q] = "wipe" => pc[q] = "wipe"
      PROVE  CredentialInv'
  BY <1>1 DEF credentials
<1>2. CASE Up
  <2>1. started + 1 > 0 /\ deployed' = started + 1
    BY <1>2 DEF Up, Types, TypeOK, Generation
  <2>2. Configured # 0 /\ (config # 0 => Configured = config)
    BY <2>1 DEF Configured, Types, TypeOK
  <2>3. overlapped' \/ (~overlapped /\ \A o \in Operator : pc[o] # "wipe")
    BY <1>2 DEF Up
  <2>4. /\ config' = Configured /\ given' = Configured
        /\ volumes' = IF volumes = 0 THEN Configured ELSE volumes
        /\ UNCHANGED <<pc, cut, deleted>>
    BY <1>2 DEF Up
  <2>5. deployed' > 0
    BY <2>1
  <2>6. VolumesFollowContainers'
    BY <2>2, <2>4, <2>5
  <2>7. WipeIsLast'
    BY <2>3, <2>4
  <2>8. ~overlapped' /\ ~cut' /\ ~deleted' => volumes' = Configured
    BY <2>2, <2>3, <2>4
  <2> QED
    BY <2>4, <2>6, <2>7, <2>8
<1>3. CASE Down
  BY <1>3, TeardownCredentials DEF Down
<1>4. CASE DownCutShort
  BY <1>4 DEF DownCutShort, ContainersRemoved
<1>5. CASE Delete
  BY <1>5 DEF Delete, Types, TypeOK, Generation
<1>6. ASSUME NEW o \in Operator, Reset(o) PROVE CredentialInv'
  <2>1. overlapped => overlapped'
    BY <1>6 DEF Reset, Start
  <2>2. CASE Teardown
    BY <2>1, <2>2, TeardownCredentials
  <2>3. CASE deployed = 0 /\ UNCHANGED environment
    BY <2>1, <2>3 DEF environment, checkout
  <2> QED
    BY <1>6, <2>2, <2>3 DEF Reset
<1>7. ASSUME NEW o \in Operator, Wipe(o) PROVE CredentialInv'
  <2>1. /\ UNCHANGED <<deployed, given, volumes, cut, deleted, overlapped>>
        /\ config' = 0 \/ config' = config
        /\ pc[o] = "wipe" /\ pc' = [pc EXCEPT ![o] = "idle"]
    BY <1>7 DEF Wipe, End, Goto
  <2>2. ~overlapped => deployed = 0
    BY <2>1
  <2> QED
    BY <2>1, <2>2 DEF Types, TypeOK
<1> QED
  BY <1>1, <1>2, <1>3, <1>4, <1>5, <1>6, <1>7, CredentialFrame DEF Next, Continue

-----------------------------------------------------------------------------
(* The record of the fault. *)

\* What EveryFaultRecorded says when nothing excuses a missing record.
Recorded ==
    /\ \A s \in paused :
          file = [action |-> "pause", service |-> s, container |-> deployed]
    /\ \A x \in planted : file = [action |-> "object-create", object |-> x]
    /\ drift # 0 => file = [action |-> "metadata-change", original |-> 0]

\* FileIsOwn, CleanAtApply and WidthsAreTrue for one command.
Own(o) ==
    /\ pc[o] \in {"resolve", "record"} => file = NoFault
    /\ pc[o] \in {"apply", "confirm", "undo", "unlink"} => file = mine[o]

OwnClean(o) == pc[o] \in {"apply", "unlink"} => Clean

OwnWidth(o) ==
    pc[o] \in {"record", "apply", "confirm", "undo", "unlink"}
    /\ mine[o] \in Fault /\ mine[o].action = "metadata-change" => mine[o].original = 0

FileWidth == file \in Fault /\ file.action = "metadata-change" => file.original = 0

\* Without a file there is no fault.
LEMMA NoRecordNoFault ==
    ASSUME Types, Recorded, file = NoFault
    PROVE  Clean
<1>1. ASSUME NEW s \in paused PROVE FALSE
  <2>1. [action |-> "pause", service |-> s, container |-> deployed] \in Fault
    BY DEF Fault, Types, TypeOK
  <2> QED
    BY <2>1 DEF Recorded
<1>2. ASSUME NEW x \in planted PROVE FALSE
  <2>1. [action |-> "object-create", object |-> x] \in Fault
    BY DEF Fault, Types, TypeOK
  <2> QED
    BY <2>1 DEF Recorded
<1>3. drift = 0
  <2>1. [action |-> "metadata-change", original |-> 0] \in Fault
    BY DEF Fault
  <2> QED
    BY <2>1 DEF Recorded
<1> QED
  BY <1>1, <1>2, <1>3 DEF Clean

\* A file that records one kind of fault excludes the other kinds.
LEMMA OneFault ==
    ASSUME Types, Recorded
    PROVE  /\ file.action # "pause" => paused = {}
           /\ file.action # "object-create" => planted = {}
           /\ file.action # "metadata-change" => drift = 0
           /\ \A s \in paused : file.service = s /\ file.container = deployed
           /\ \A x \in planted : file.object = x
BY DEF Types, TypeOK, Recorded

\* A step of the only command that runs has to keep its own part only.
LEMMA CommandStep ==
    ASSUME Types, RecordInv, NEW o \in Operator, pc[o] # "idle",
           UNCHANGED <<overlapped, cut>>, CleanWithoutContainers',
           \A q \in Operator : q # o => pc'[q] = pc[q],
           ~overlapped => Own(o)',
           ~overlapped /\ ~cut => OwnClean(o)' /\ OwnWidth(o)' /\ FileWidth' /\ Recorded'
    PROVE  RecordInv'
<1> USE DEF RecordInv
<1>1. ~overlapped => \A q \in Operator : q # o => pc'[q] = "idle"
  BY DEF OneCommandRuns
<1>2. OneCommandRuns'
  BY <1>1 DEF OneCommandRuns
<1>3. FileIsOwn'
  BY <1>1 DEF FileIsOwn, Own
<1>4. CleanAtApply'
  BY <1>1 DEF CleanAtApply, OwnClean
<1>5. WidthsAreTrue'
  BY <1>1 DEF WidthsAreTrue, TrueWidth, OwnWidth, FileWidth
<1>6. EveryFaultRecorded'
  BY DEF EveryFaultRecorded, Recorded
<1> QED
  BY <1>2, <1>3, <1>4, <1>5, <1>6

\* What the invariant says of a command that runs without overlap.
LEMMA OwnParts ==
    ASSUME RecordInv, NEW o \in Operator
    PROVE  /\ ~overlapped => Own(o)
           /\ ~overlapped /\ ~cut => OwnClean(o) /\ OwnWidth(o) /\ FileWidth /\ Recorded
BY DEF RecordInv, FileIsOwn, CleanAtApply, WidthsAreTrue, TrueWidth, EveryFaultRecorded,
       Own, OwnClean, OwnWidth, FileWidth, Recorded

\* A command that ends leaves its part behind.
LEMMA EndStep ==
    ASSUME Types, RecordInv, NEW o \in Operator, NEW from, End(o, from), from # "idle",
           UNCHANGED <<overlapped, cut>>, CleanWithoutContainers',
           ~overlapped /\ ~cut => FileWidth' /\ Recorded'
    PROVE  RecordInv'
<1>1. pc'[o] = "idle" /\ pc[o] # "idle" /\ \A q \in Operator : q # o => pc'[q] = pc[q]
  BY DEF End, Goto, Types, TypeOK
<1>2. Own(o)' /\ OwnClean(o)' /\ OwnWidth(o)'
  BY <1>1 DEF Own, OwnClean, OwnWidth
<1> QED
  BY <1>1, <1>2, CommandStep

\* Where a step leaves the environment and the file as they are, what they say of each
\* other stays.
LEMMA SameRecord ==
    ASSUME Types, RecordInv, UNCHANGED <<file, deployed, paused, planted, drift, cut>>
    PROVE  /\ CleanWithoutContainers'
           /\ FileWidth' = FileWidth /\ Recorded' = Recorded /\ Clean' = Clean
BY DEF RecordInv, CleanWithoutContainers, FileWidth, Recorded, Clean

\* inject_fault up to the record: the file is written while there is no fault.
LEMMA RecordingStep ==
    ASSUME Types, RecordInv, NEW o \in Operator,
           Resolve(o) \/ ResolveRaises(o) \/ Record(o) \/ Confirm(o)
    PROVE  RecordInv'
<1> USE DEF environment, checkout
<1>1. CASE Resolve(o)
  <2>1. /\ UNCHANGED <<file, environment, overlapped>>
        /\ pc[o] = "resolve" /\ pc'[o] = "record"
        /\ \A q \in Operator : q # o => pc'[q] = pc[q]
    BY <1>1 DEF Resolve, Goto, Types, TypeOK
  <2>2. ~overlapped => Own(o)'
    BY <2>1, OwnParts DEF Own
  <2>3. ~overlapped /\ ~cut => drift = 0
    BY <2>1, OwnParts, NoRecordNoFault DEF Own, Clean
  <2>4. mine'[o] \in Fault /\ mine'[o].action = "metadata-change" => mine'[o].original = drift
    <3>1. mine[o] \in Fault
      BY <2>1 DEF Types, CommandsHaveFaults
    <3>2. CASE At(o, "resolve", "pause") /\ Remember(o, [mine[o] EXCEPT !.container = deployed])
      <4> DEFINE f == [mine[o] EXCEPT !.container = deployed]
      <4>1. f.action = "pause"
        BY <3>1, <3>2, Resolved DEF At, Types, TypeOK
      <4>2. mine'[o] = f
        BY <3>2 DEF Remember, Types, TypeOK
      <4> QED
        BY <4>1, <4>2
    <3>3. CASE At(o, "resolve", "object-create") /\ UNCHANGED mine
      BY <3>3 DEF At
    <3>4. CASE /\ At(o, "resolve", "metadata-change")
               /\ Remember(o, [mine[o] EXCEPT !.original = drift])
      <4> DEFINE f == [mine[o] EXCEPT !.original = drift]
      <4>1. f.original = drift
        BY <3>1, <3>4, Resolved DEF At, Types, TypeOK
      <4>2. mine'[o] = f
        BY <3>4 DEF Remember, Types, TypeOK
      <4> QED
        BY <4>1, <4>2
    <3> QED
      BY <1>1, <3>2, <3>3, <3>4 DEF Resolve
  <2>5. ~overlapped /\ ~cut => OwnWidth(o)'
    BY <2>3, <2>4 DEF OwnWidth
  <2>6. OwnClean(o)'
    BY <2>1 DEF OwnClean
  <2> QED
    BY <2>1, <2>2, <2>5, <2>6, SameRecord, OwnParts, CommandStep
<1>2. CASE ResolveRaises(o)
  BY <1>2, SameRecord, OwnParts, EndStep DEF ResolveRaises
<1>3. CASE Record(o)
  <2>1. /\ UNCHANGED <<mine, environment, overlapped>> /\ file' = mine[o]
        /\ pc[o] = "record" /\ pc'[o] = "apply"
        /\ \A q \in Operator : q # o => pc'[q] = pc[q]
    BY <1>3 DEF Record, Goto, Types, TypeOK
  <2>2. Own(o)'
    BY <2>1 DEF Own
  <2>3. ~overlapped /\ ~cut => Clean
    BY <2>1, OwnParts, NoRecordNoFault DEF Own
  <2>4. Clean' = Clean /\ CleanWithoutContainers'
    BY <2>1 DEF Clean, RecordInv, CleanWithoutContainers
  <2>5. Clean' => Recorded'
    BY DEF Clean, Recorded
  <2>6. ~overlapped /\ ~cut => OwnWidth(o)' /\ FileWidth'
    BY <2>1, OwnParts DEF OwnWidth, FileWidth
  <2>7. ~overlapped /\ ~cut => OwnClean(o)'
    BY <2>3, <2>4 DEF OwnClean
  <2> QED
    BY <2>1, <2>2, <2>3, <2>4, <2>5, <2>6, <2>7, CommandStep
<1>4. CASE Confirm(o)
  <2>1. /\ UNCHANGED <<environment, overlapped>> /\ file' = mine[o]
        /\ pc[o] = "confirm" /\ End(o, "confirm")
    BY <1>4 DEF Confirm, End, Goto
  <2>2. ~overlapped => file' = file
    BY <2>1, OwnParts DEF Own
  <2>3. CleanWithoutContainers'
    BY <2>1 DEF Clean, RecordInv, CleanWithoutContainers
  <2>4. ~overlapped /\ ~cut => FileWidth' /\ Recorded'
    BY <2>1, <2>2, OwnParts, SameRecord
  <2> QED
    BY <2>1, <2>3, <2>4, EndStep
<1> QED
  BY <1>1, <1>2, <1>3, <1>4

\* A command may end and unlink the file when there is no fault any more.
LEMMA ForgottenStep ==
    ASSUME Types, RecordInv, NEW o \in Operator, NEW from, End(o, from), from # "idle",
           file' = NoFault, UNCHANGED <<environment, overlapped>>,
           ~overlapped /\ ~cut => Clean
    PROVE  RecordInv'
<1>1. UNCHANGED cut /\ CleanWithoutContainers' /\ Clean' = Clean
  BY DEF environment, checkout, RecordInv, CleanWithoutContainers, Clean
<1>2. Clean' => Recorded'
  BY DEF Clean, Recorded
<1>3. FileWidth'
  BY DEF FileWidth
<1> QED
  BY <1>1, <1>2, <1>3, EndStep

\* The fault is applied while the file names it and nothing else.
LEMMA ApplyingStep ==
    ASSUME Types, RecordInv, NEW o \in Operator,
           Pause(o) \/ PauseRefused(o) \/ Plant(o) \/ Widen(o) \/ WidenMisses(o) \/ ApplyRaises(o)
    PROVE  RecordInv'
<1> USE DEF environment, checkout
<1>1. ASSUME pc[o] = "apply"
      PROVE  /\ mine[o] \in Fault
             /\ ~overlapped => file = mine[o]
             /\ ~overlapped /\ ~cut => Clean /\ OwnWidth(o) /\ FileWidth
  BY <1>1, OwnParts DEF Own, OwnClean, Types, CommandsHaveFaults
<1>2. ASSUME Goto(o, "apply", "confirm"), UNCHANGED <<file, mine, overlapped, cut>>,
             CleanWithoutContainers', ~overlapped /\ ~cut => Recorded'
      PROVE  RecordInv'
  <2>1. /\ pc[o] = "apply" /\ pc'[o] = "confirm"
        /\ \A q \in Operator : q # o => pc'[q] = pc[q]
    BY <1>2 DEF Goto, Types, TypeOK
  <2>2. ~overlapped => Own(o)'
    BY <1>1, <1>2, <2>1 DEF Own
  <2>3. ~overlapped /\ ~cut => OwnClean(o)' /\ OwnWidth(o)' /\ FileWidth'
    BY <1>1, <1>2, <2>1 DEF OwnClean, OwnWidth, FileWidth
  <2> QED
    BY <1>2, <2>1, <2>2, <2>3, CommandStep
<1>3. CASE Pause(o)
  <2>1. /\ pc[o] = "apply" /\ mine[o].action = "pause" /\ deployed = mine[o].container
        /\ paused' = paused \cup {mine[o].service}
        /\ UNCHANGED <<file, mine, deployed, planted, drift, cut, overlapped>>
        /\ Goto(o, "apply", "confirm")
    BY <1>3 DEF Pause, At
  <2>2. mine[o] = [action |-> "pause", service |-> mine[o].service, container |-> mine[o].container]
    BY <1>1, <2>1, FaultKinds
  <2>3. ~overlapped /\ ~cut => Recorded'
    BY <1>1, <2>1, <2>2 DEF Clean, Recorded
  <2>4. mine[o].container # 0
    BY <2>1 DEF Types, CommandsHaveFaults
  <2>5. CleanWithoutContainers'
    BY <2>1, <2>4 DEF CleanWithoutContainers
  <2> QED
    BY <1>2, <2>1, <2>3, <2>5
<1>4. CASE PauseRefused(o)
  <2>1. /\ pc[o] = "apply" /\ End(o, "apply") /\ file' = NoFault
        /\ UNCHANGED <<environment, overlapped>>
    BY <1>4 DEF PauseRefused, At
  <2> QED
    BY <1>1, <2>1, ForgottenStep
<1>5. CASE Plant(o)
  <2>1. /\ pc[o] = "apply" /\ mine[o].action = "object-create" /\ deployed > 0
        /\ planted' = planted \cup {mine[o].object}
        /\ UNCHANGED <<file, mine, deployed, paused, drift, cut, overlapped>>
        /\ Goto(o, "apply", "confirm")
    BY <1>5 DEF Plant, At, Reachable
  <2>2. mine[o] = [action |-> "object-create", object |-> mine[o].object]
    BY <1>1, <2>1, FaultKinds
  <2>3. ~overlapped /\ ~cut => Recorded'
    BY <1>1, <2>1, <2>2 DEF Clean, Recorded
  <2>4. CleanWithoutContainers'
    BY <2>1 DEF CleanWithoutContainers
  <2> QED
    BY <1>2, <2>1, <2>3, <2>4
<1>6. CASE Widen(o)
  <2>1. /\ pc[o] = "apply" /\ mine[o].action = "metadata-change" /\ deployed > 0
        /\ drift' = mine[o].original + 1
        /\ UNCHANGED <<file, mine, deployed, paused, planted, cut, overlapped>>
        /\ Goto(o, "apply", "confirm")
    BY <1>6 DEF Widen, At, Reachable
  <2>2. mine[o] = [action |-> "metadata-change", original |-> mine[o].original]
    BY <1>1, <2>1, FaultKinds
  <2>3. ~overlapped /\ ~cut => mine[o].original = 0
    BY <1>1, <2>1 DEF OwnWidth
  <2>4. ~overlapped /\ ~cut => Recorded'
    BY <1>1, <2>1, <2>2, <2>3 DEF Clean, Recorded
  <2>5. CleanWithoutContainers'
    BY <2>1 DEF CleanWithoutContainers
  <2> QED
    BY <1>2, <2>1, <2>4, <2>5
<1>7. CASE WidenMisses(o)
  <2>1. /\ pc[o] = "apply" /\ End(o, "apply") /\ file' = NoFault
        /\ UNCHANGED <<environment, overlapped>>
    BY <1>7 DEF WidenMisses, At
  <2> QED
    BY <1>1, <2>1, ForgottenStep
<1>8. CASE ApplyRaises(o)
  BY <1>8, SameRecord, OwnParts, EndStep DEF ApplyRaises
<1> QED
  BY <1>3, <1>4, <1>5, <1>6, <1>7, <1>8

\* clear_faults: what the file names is undone before the file goes.
LEMMA ClearingStep ==
    ASSUME Types, RecordInv, NEW o \in Operator, Undo(o) \/ UndoRaises(o) \/ Unlink(o)
    PROVE  RecordInv'
<1> USE DEF environment, checkout
<1>1. CASE Undo(o)
  <2>1. /\ pc[o] = "undo" /\ pc'[o] = "unlink" /\ mine[o] \in Fault
        /\ \A q \in Operator : q # o => pc'[q] = pc[q]
        /\ UNCHANGED <<file, mine, deployed, cut, overlapped>>
        /\ deployed > 0
    BY <1>1 DEF Undo, Identified, Goto, Types, TypeOK, CommandsHaveFaults
  <2>2. ~overlapped => file = mine[o]
    BY <2>1, OwnParts DEF Own
  <2>3. ~overlapped => Own(o)'
    BY <2>1, <2>2 DEF Own
  <2>4. ~overlapped /\ ~cut => OwnWidth(o)' /\ FileWidth'
    BY <2>1, OwnParts DEF OwnWidth, FileWidth
  <2>5. CleanWithoutContainers'
    BY <2>1 DEF CleanWithoutContainers
  <2>6. ASSUME ~overlapped, ~cut PROVE Clean'
    <3>1. /\ file = mine[o] /\ Recorded
          /\ mine[o].action \in {"pause", "object-create", "metadata-change"}
          /\ mine[o].action = "metadata-change" => mine[o].original = 0
      BY <2>1, <2>2, <2>6, OwnParts, FaultKinds DEF OwnWidth
    <3>2. paused' = {}
      BY <1>1, <3>1, OneFault DEF Undo
    <3>3. planted' = {}
      BY <1>1, <3>1, OneFault DEF Undo
    <3>4. drift' = 0
      BY <1>1, <3>1, OneFault DEF Undo
    <3> QED
      BY <3>2, <3>3, <3>4 DEF Clean
  <2>7. Clean' => Recorded'
    BY DEF Clean, Recorded
  <2>8. ~overlapped /\ ~cut => OwnClean(o)'
    BY <2>6 DEF OwnClean
  <2> QED
    BY <2>1, <2>3, <2>4, <2>5, <2>6, <2>7, <2>8, CommandStep
<1>2. CASE UndoRaises(o)
  BY <1>2, SameRecord, OwnParts, EndStep DEF UndoRaises
<1>3. CASE Unlink(o)
  <2>1. /\ pc[o] = "unlink" /\ End(o, "unlink") /\ file' = NoFault
        /\ UNCHANGED <<environment, overlapped>>
    BY <1>3 DEF Unlink, End, Goto
  <2>2. ~overlapped /\ ~cut => Clean
    BY <2>1, OwnParts DEF OwnClean
  <2> QED
    BY <2>1, <2>2, ForgottenStep
<1> QED
  BY <1>1, <1>2, <1>3

\* A command that begins without overlap finds the others at rest.
LEMMA StartingStep ==
    ASSUME Types, NEW o \in Operator, NEW step, Start(o, step)
    PROVE  /\ pc[o] = "idle" /\ pc'[o] = step
           /\ \A q \in Operator : q # o => pc'[q] = pc[q]
           /\ ~overlapped' => ~overlapped /\ \A q \in Operator : pc[q] = "idle"
BY DEF Start, Goto, Types, TypeOK

\* Beginning an injection or a clearing.
LEMMA BeginStep ==
    ASSUME Types, RecordInv, NEW o \in Operator, Inject(o) \/ Clear(o)
    PROVE  RecordInv'
<1> USE DEF environment, checkout
<1>1. /\ UNCHANGED <<file, environment>>
      /\ pc[o] = "idle" /\ pc'[o] \in {"resolve", "undo"}
      /\ \A q \in Operator : q # o => pc'[q] = pc[q]
      /\ ~overlapped' => ~overlapped /\ \A q \in Operator : pc[q] = "idle"
  BY StartingStep DEF Inject, Clear
<1>2. ~overlapped' => \A q \in Operator : q # o => pc'[q] = "idle"
  BY <1>1
<1>3. /\ pc'[o] = "resolve" => file = NoFault
      /\ pc'[o] = "undo" => mine'[o] = file
  <2>1. CASE Inject(o)
    BY <1>1, <2>1, StartingStep DEF Inject
  <2>2. CASE Clear(o)
    BY <1>1, <2>2, StartingStep DEF Clear, Remember, Types, TypeOK
  <2> QED
    BY <2>1, <2>2
<1>4. OneCommandRuns'
  BY <1>2 DEF OneCommandRuns
<1>5. FileIsOwn'
  BY <1>1, <1>2, <1>3 DEF FileIsOwn
<1>6. CleanAtApply'
  BY <1>1, <1>2 DEF CleanAtApply
<1>7. ~overlapped' /\ ~cut' => FileWidth' /\ Recorded'
  BY <1>1, SameRecord, OwnParts
<1>8. WidthsAreTrue'
  BY <1>1, <1>2, <1>3, <1>7 DEF WidthsAreTrue, TrueWidth, FileWidth
<1>9. EveryFaultRecorded'
  BY <1>7 DEF EveryFaultRecorded, Recorded
<1> QED
  BY <1>1, <1>4, <1>5, <1>6, <1>8, <1>9, SameRecord DEF RecordInv

\* The environment is started, removed or worked in, while the commands stand still and the
\* file stays: a teardown that was cut short is forgotten only when nothing refers to it.
LEMMA EnvironmentMoves ==
    ASSUME Types, RecordInv, UNCHANGED <<file, pc, mine>>, overlapped => overlapped',
           CleanWithoutContainers',
           ~overlapped' /\ ~cut' => (cut => ~Busy) /\ (~cut /\ Clean => Clean') /\ Recorded'
    PROVE  RecordInv'
<1> USE DEF RecordInv
<1>1. OneCommandRuns' /\ FileIsOwn'
  BY DEF OneCommandRuns, FileIsOwn
<1>2. ASSUME ~overlapped', ~cut', cut
      PROVE  file = NoFault /\ \A o \in Operator : pc[o] = "idle"
  BY <1>2 DEF Busy
<1>3. CleanAtApply'
  BY <1>2 DEF CleanAtApply
<1>4. WidthsAreTrue'
  BY <1>2 DEF WidthsAreTrue, TrueWidth
<1>5. EveryFaultRecorded'
  BY DEF EveryFaultRecorded, Recorded
<1> QED
  BY <1>1, <1>3, <1>4, <1>5

\* A teardown takes every fault along.
LEMMA TeardownCleans ==
    ASSUME Teardown
    PROVE  Clean' /\ CleanWithoutContainers' /\ Recorded' /\ (~cut' => (cut => ~Busy))
<1>1. Clean' /\ (~cut' => (cut => ~Busy))
  BY DEF Teardown, ContainersRemoved, Clean
<1>2. Recorded' /\ CleanWithoutContainers'
  BY <1>1 DEF Clean, Recorded, CleanWithoutContainers
<1> QED
  BY <1>1, <1>2

\* The steps that belong to no command of the checkout's faults.
LEMMA LifecycleStep ==
    ASSUME Types, RecordInv,
           Up \/ Down \/ DownCutShort \/ SceneCompleted \/ Tear \/ Delete \/ UNCHANGED vars
    PROVE  RecordInv'
<1>1. CASE Up
  <2>1. /\ UNCHANGED <<file, pc, mine, planted, drift, cut>> /\ paused' = {}
        /\ overlapped => overlapped'
    BY <1>1 DEF Up
  <2>2. deployed' # 0
    BY <1>1 DEF Up, Types, TypeOK, Generation
  <2>3. ~overlapped' /\ ~cut' => Recorded
    BY <2>1 DEF RecordInv, EveryFaultRecorded, Recorded
  <2>4. Recorded => Recorded'
    BY <2>1 DEF Recorded
  <2>5. Clean => Clean'
    BY <2>1 DEF Clean
  <2>6. CleanWithoutContainers'
    BY <2>2 DEF CleanWithoutContainers
  <2> QED
    BY <2>1, <2>3, <2>4, <2>5, <2>6, EnvironmentMoves
<1>2. CASE Down
  BY <1>2, TeardownCleans, EnvironmentMoves DEF Down
<1>3. CASE DownCutShort
  <2>1. /\ UNCHANGED <<file, pc, mine, overlapped>> /\ paused' = {} /\ cut'
    BY <1>3 DEF DownCutShort, ContainersRemoved
  <2>2. CleanWithoutContainers'
    BY <2>1 DEF CleanWithoutContainers
  <2> QED
    BY <2>1, <2>2, EnvironmentMoves
<1>4. CASE SceneCompleted
  <2>1. /\ UNCHANGED <<file, pc, mine, deployed, paused, planted, cut, overlapped>>
        /\ drift' = 0 /\ deployed > 0
    BY <1>4 DEF SceneCompleted, Reachable, checkout
  <2>2. CleanWithoutContainers'
    BY <2>1 DEF CleanWithoutContainers, Types, TypeOK, Generation
  <2>3. ~overlapped /\ ~cut => Recorded
    BY DEF RecordInv, EveryFaultRecorded, Recorded
  <2>4. Recorded => Recorded'
    BY <2>1 DEF Recorded
  <2>5. Clean => Clean'
    BY <2>1 DEF Clean
  <2> QED
    BY <2>1, <2>2, <2>3, <2>4, <2>5, EnvironmentMoves
<1>5. CASE Tear \/ Delete \/ UNCHANGED vars
  <2>1. UNCHANGED <<file, pc, mine, deployed, paused, planted, drift, cut, overlapped>>
    BY <1>5 DEF Tear, Delete, vars, environment, checkout
  <2>2. ~overlapped /\ ~cut => Recorded
    BY DEF RecordInv, EveryFaultRecorded, Recorded
  <2> QED
    BY <2>1, <2>2, SameRecord, EnvironmentMoves
<1> QED
  BY <1>1, <1>2, <1>3, <1>4, <1>5

\* A reset that begins without overlap finds every command at rest, and removes the fault
\* before it forgets the file.
LEMMA ResetStep ==
    ASSUME Types, RecordInv, NEW o \in Operator, Reset(o)
    PROVE  RecordInv'
<1>1. /\ UNCHANGED <<file, mine>>
      /\ pc[o] = "idle" /\ pc'[o] = "wipe"
      /\ \A q \in Operator : q # o => pc'[q] = pc[q]
      /\ ~overlapped' => ~overlapped /\ \A q \in Operator : pc[q] = "idle"
  BY StartingStep DEF Reset
<1>2. ~overlapped' => \A q \in Operator : q # o => pc'[q] = "idle"
  BY <1>1
<1>3. /\ CleanWithoutContainers'
      /\ ~overlapped' /\ ~cut' => Recorded' /\ (cut => ~Busy)
  <2>1. CASE Teardown
    BY <2>1, TeardownCleans
  <2>2. CASE deployed = 0 /\ UNCHANGED environment
    <3>1. UNCHANGED <<file, deployed, paused, planted, drift, cut>>
      BY <1>1, <2>2 DEF environment, checkout
    <3>2. ~overlapped /\ ~cut => Recorded
      BY DEF RecordInv, EveryFaultRecorded, Recorded
    <3> QED
      BY <1>1, <3>1, <3>2, SameRecord
  <2> QED
    BY <2>1, <2>2 DEF Reset
<1>4. OneCommandRuns'
  BY <1>2 DEF OneCommandRuns
<1>5. FileIsOwn' /\ CleanAtApply'
  BY <1>1, <1>2 DEF FileIsOwn, CleanAtApply
<1>6. WidthsAreTrue'
  <2>1. ASSUME ~overlapped', ~cut' PROVE TrueWidth(file)
    BY <1>1, <1>3, <2>1 DEF Busy, RecordInv, WidthsAreTrue, TrueWidth
  <2> QED
    BY <1>1, <1>2, <2>1 DEF WidthsAreTrue, TrueWidth
<1>7. EveryFaultRecorded'
  BY <1>3 DEF EveryFaultRecorded, Recorded
<1> QED
  BY <1>3, <1>4, <1>5, <1>6, <1>7 DEF RecordInv

\* The file goes with a reset only after the environment went.
LEMMA WipeStep ==
    ASSUME Types, WipeIsLast, RecordInv, NEW o \in Operator, Wipe(o)
    PROVE  RecordInv'
<1>1. /\ pc[o] = "wipe" /\ End(o, "wipe") /\ file' = NoFault
      /\ UNCHANGED <<deployed, paused, planted, drift, cut, overlapped>>
  BY DEF Wipe, End, Goto
<1>2. CleanWithoutContainers' /\ Clean' = Clean
  BY <1>1 DEF RecordInv, CleanWithoutContainers, Clean
<1>3. ~overlapped /\ ~cut => Clean
  BY <1>1 DEF WipeIsLast, RecordInv, CleanWithoutContainers
<1>4. Clean' => Recorded'
  BY DEF Clean, Recorded
<1>5. FileWidth'
  BY <1>1 DEF FileWidth
<1> QED
  BY <1>1, <1>2, <1>3, <1>4, <1>5, EndStep

\* A command that is killed leaves the file, the environment and so the record.
LEMMA AbandonStep ==
    ASSUME Types, RecordInv, NEW o \in Operator, Abandon(o)
    PROVE  RecordInv'
<1>1. /\ End(o, pc[o]) /\ pc[o] # "idle"
      /\ UNCHANGED <<file, deployed, paused, planted, drift, cut, overlapped>>
  BY DEF Abandon, environment, checkout
<1> QED
  BY <1>1, SameRecord, OwnParts, EndStep

\* Each step keeps the record.
LEMMA RecordStep ==
    ASSUME Types, CredentialInv, RecordInv, [Next]_vars
    PROVE  RecordInv'
<1>1. ASSUME NEW o \in Operator,
             Inject(o) \/ Clear(o) \/ Reset(o) \/ Continue(o) \/ Abandon(o)
      PROVE  RecordInv'
  BY <1>1, BeginStep, ResetStep, AbandonStep, RecordingStep, ApplyingStep, ClearingStep, WipeStep
     DEF Continue, CredentialInv
<1> QED
  BY <1>1, LifecycleStep DEF Next

-----------------------------------------------------------------------------
(* Theorems. *)

\* The types, the agreement of the credentials and the record of the fault hold together.
THEOREM Invariance == Spec => []Inv
<1>1. Init => Inv
  BY InitInv
<1>2. Inv /\ [Next]_vars => Inv'
  BY TypesStep, CredentialStep, RecordStep DEF Inv
<1> QED
  BY <1>1, <1>2, PTL DEF Spec

\* Each variable keeps its type.
THEOREM TypeCorrect == Spec => []TypeOK
<1>1. Inv => TypeOK
  BY DEF Inv, Types
<1> QED
  BY <1>1, Invariance, PTL

\* faults.py:158: however many commands die or fail, and however often the environment is
\* started, removed, reset and worked in meanwhile, active-fault.json names each fault that
\* is there, unless commands overlapped or a teardown was cut short.
THEOREM FaultsAreRecorded == Spec => []EveryFaultRecorded
<1>1. Inv => EveryFaultRecorded
  BY DEF Inv, RecordInv
<1> QED
  BY <1>1, Invariance, PTL

\* lifecycle.py and reset.py: after any sequence of starts, teardowns and resets, the
\* environment that runs has the credentials its volumes were created with and the checkout
\* knows them, unless one of the three things CredentialsFit names has happened.
THEOREM CredentialsAlwaysFit == Spec => []CredentialsFit
<1>1. Inv => CredentialsFit
  BY DEF Inv, CredentialInv
<1> QED
  BY <1>1, Invariance, PTL
==============================================================================
