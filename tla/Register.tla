------------------------------ MODULE Register ------------------------------
(***************************************************************************)
(* What both ingest services promise their clients: a register into which   *)
(* each client's submission is entered atomically and at most once.  Two    *)
(* submissions that clash, i.e. share an identifier, are never both         *)
(* entered.  A client is told that its submission was accepted, that the    *)
(* same content had been entered before, that a clashing submission with    *)
(* other content had been, or that the attempt failed; only a failed        *)
(* client does not know whether its submission was entered.                 *)
(***************************************************************************)
CONSTANTS
    Client,
    Submission,
    Clash(_, _),    \* the submissions share an identifier
    Same(_, _)      \* the submissions have the same content

VARIABLES
    submitted,  \* each client's submission
    entered,    \* the clients whose submissions are in the register
    told        \* what each client was told

registerVars == <<submitted, entered, told>>

Replies == {"nothing", "accepted", "replayed", "conflict", "failed"}

RegisterTypeOK ==
    /\ submitted \in [Client -> Submission]
    /\ entered \subseteq Client
    /\ told \in [Client -> Replies]

RegisterInit ==
    /\ submitted \in [Client -> Submission]
    /\ entered = {}
    /\ told = [c \in Client |-> "nothing"]

Enter(c) ==
    /\ told[c] = "nothing" /\ c \notin entered
    /\ \A d \in entered : ~Clash(submitted[c], submitted[d])
    /\ entered' = entered \cup {c}
    /\ UNCHANGED <<submitted, told>>

Tell(c, reply) ==
    /\ told[c] = "nothing"
    /\ told' = [told EXCEPT ![c] = reply]
    /\ UNCHANGED <<submitted, entered>>

Accept(c) == c \in entered /\ Tell(c, "accepted")

Replay(c) ==
    /\ \E d \in entered : Same(submitted[c], submitted[d])
    /\ Tell(c, "replayed")

Refuse(c) ==
    /\ \E d \in entered : Clash(submitted[c], submitted[d]) /\ ~Same(submitted[c], submitted[d])
    /\ Tell(c, "conflict")

Fail(c) == Tell(c, "failed")

RegisterNext ==
    \E c \in Client : Enter(c) \/ Accept(c) \/ Replay(c) \/ Refuse(c) \/ Fail(c)

RegisterSpec == RegisterInit /\ [][RegisterNext]_registerVars
==============================================================================
