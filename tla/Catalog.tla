------------------------------- MODULE Catalog -------------------------------
(***************************************************************************)
(* What the two workers promise together to a client that uploads scenes,    *)
(* posts events and reads analyses: a catalogue of visible scenes, and for   *)
(* each event a result that was true at one moment after it was posted.  A   *)
(* scene is withdrawn from the catalogue only after it was refused.  The     *)
(* result of an event may be revised, each of the columns revised again to   *)
(* what was true at one such moment; of the other columns nothing is said,   *)
(* so that a revised result may be about several moments.                    *)
(***************************************************************************)
EXTENDS EventAnalysis

CONSTANTS Event

VARIABLES
    visible,    \* scenes clients can find
    refused,    \* scenes an operator has to look at
    moments,    \* the catalogues there have been since each event was posted
    result      \* for each event, nothing or the set of its row

NoResult == {}

CatalogInit ==
    /\ visible = {} /\ refused = {}
    /\ moments = [e \in Event |-> {}]
    /\ result = [e \in Event |-> NoResult]

Posted(e) == moments[e] # {}

\* The catalogue is as visible' says, from now on.
Record == moments' = [e \in Event |-> IF Posted(e) THEN moments[e] \cup {visible'} ELSE {}]

Post(e) ==
    /\ ~Posted(e)
    /\ moments' = [moments EXCEPT ![e] = {visible}]
    /\ UNCHANGED <<visible, refused, result>>

Show(s) ==
    /\ visible' = visible \cup {s} /\ Record
    /\ UNCHANGED <<refused, result>>

Refuse(s) ==
    /\ refused' = refused \cup {s}
    /\ UNCHANGED <<visible, moments, result>>

Withdraw(s) ==
    /\ s \in visible \cap refused
    /\ visible' = visible \ {s} /\ Record
    /\ UNCHANGED <<refused, result>>

Answer(e) ==
    /\ result[e] = NoResult
    /\ \E m \in moments[e] : result' = [result EXCEPT ![e] = {Analysis(e, m)}]
    /\ UNCHANGED <<visible, refused, moments>>

Revise(e) ==
    /\ \E m \in moments[e], row \in result[e], columns \in SUBSET Column :
           result' = [result EXCEPT ![e] = {Updated(row, Analysis(e, m), columns)}]
    /\ UNCHANGED <<visible, refused, moments>>

CatalogNext ==
    \/ \E s \in Scene : Show(s) \/ Refuse(s) \/ Withdraw(s)
    \/ \E e \in Event : Post(e) \/ Answer(e) \/ Revise(e)

CatalogSpec == CatalogInit /\ [][CatalogNext]_<<visible, refused, moments, result>>
==============================================================================
