----------------------------- MODULE AnalysisApi -----------------------------
(***************************************************************************)
(* The read-only routes of src/terrawatch/analysis.py in the process of      *)
(* ApiProcess: a client walks the pages of a scene search, others look up    *)
(* one scene, while the imagery worker accepts and rejects scenes.  A search *)
(* runs two statements, the count and the page, and each sees what is        *)
(* committed when it runs.                                                   *)
(*                                                                         *)
(* Scenes are numbered by scene_id, the order of the pages.  The other       *)
(* conditions of a search compare columns that never change, so Scene is the *)
(* set of scenes that meet them.  An event search is one whose rows only     *)
(* become more.                                                             *)
(***************************************************************************)
EXTENDS ApiProcess

CONSTANTS
    NumScenes,      \* scenes that meet the search's filters
    NumPages,       \* pages the client asks for, at most
    PageSize,       \* page_size
    Lookup,         \* requests for one row
    MaxChanges      \* bound: scenes accepted or rejected

ASSUME SearchAssumption ==
    NumScenes \in Nat /\ NumPages \in Nat \ {0} /\ PageSize \in Nat \ {0} /\ MaxChanges \in Nat

Scene == 1..NumScenes
Page == 1..NumPages

ASSUME QueryAssumption == Query = Page \cup Lookup /\ Page \cap Lookup = {}

VARIABLES
    accepted,       \* scenes with processing_status accepted
    changes,
    total,          \* the count each search read
    items,          \* the scenes on each page
    steady,         \* history: scenes accepted ever since the walk began,
    entered, left   \* those that became accepted, and that were rejected, since

searchVars == <<accepted, changes, total, items, steady, entered, left>>
vars == <<apiVars, seen, searchVars>>

TypeOK ==
    /\ ApiTypeOK
    /\ accepted \subseteq Scene
    /\ changes \in 0..MaxChanges
    /\ total \in [Page -> 0..NumScenes]
    /\ items \in [Page -> SUBSET Scene]
    /\ steady \subseteq accepted
    /\ entered \subseteq Scene /\ left \subseteq Scene

Init ==
    /\ ApiInit
    /\ accepted \in SUBSET Scene
    /\ changes = 0
    /\ total = [p \in Page |-> 0]
    /\ items = [p \in Page |-> {}]
    /\ steady = accepted /\ entered = {} /\ left = {}

------------------------------------------------------------------------------
(* The routes. *)

Rank(s, rows) == Cardinality({t \in rows : t <= s})

\* Faulty variant of Slice: pages are counted from zero.
SliceFromZero(rows, p) ==
    {s \in rows : p * PageSize < Rank(s, rows) /\ Rank(s, rows) <= (p + 1) * PageSize}

\* ORDER BY scene_id OFFSET (page - 1) * page_size LIMIT page_size
Slice(rows, p) ==
    {s \in rows : (p - 1) * PageSize < Rank(s, rows) /\ Rank(s, rows) <= p * PageSize}

Full(p) == answer[p] = 200 /\ Cardinality(items[p]) = PageSize

\* The client asks for the first page, and for the next one after a full page.
Ask(r) ==
    /\ r \in Page \ {1} => Full(r - 1)
    /\ Send(r)
    /\ UNCHANGED searchVars

\* parse_filters or parse_pagination refuses a query before any statement.
Refuse(j) ==
    /\ j.request \in Page /\ j.stage = "started"
    /\ JobEnds(j, 422)
    /\ UNCHANGED <<idle, searchVars>>

Count(j) ==
    /\ j.request \in Page /\ j.stage = "connected" /\ PostgisReplies
    /\ jobs' = Advanced(j, "counted")
    /\ total' = [total EXCEPT ![j.request] = Cardinality(accepted)]
    /\ Unasked /\ UNCHANGED <<idle, accepted, changes, items, steady, entered, left>>

ReadPage(j) ==
    /\ j.request \in Page /\ j.stage = "counted"
    /\ Replies(j, 200)
    /\ items' = [items EXCEPT ![j.request] = Slice(accepted, j.request)]
    /\ UNCHANGED <<accepted, changes, total, steady, entered, left>>

\* get_scene: a scene that is not accepted is not found.
LookUp(j) ==
    /\ j.request \in Lookup
    /\ \E s \in Scene : Replies(j, IF s \in accepted THEN 200 ELSE 404)
    /\ UNCHANGED searchVars

\* get_event, get_correlation, get_analysis_result and get_provenance: the row of the
\* key is there or not; a scene has a provenance whatever its status.
LookUpRow(j) ==
    /\ j.request \in Lookup
    /\ \E found \in BOOLEAN : Replies(j, IF found THEN 200 ELSE 404)
    /\ UNCHANGED searchVars

Read(j) == Count(j) \/ ReadPage(j) \/ LookUp(j) \/ LookUpRow(j)

\* The imagery worker accepts a scene, or rejects it with its dead letter.
Change(s) ==
    /\ service = "analysis-api" /\ changes < MaxChanges
    /\ changes' = changes + 1
    /\ accepted' = IF s \in accepted THEN accepted \ {s} ELSE accepted \cup {s}
    /\ IF at[1] = "new"
       THEN steady' = accepted' /\ UNCHANGED <<entered, left>>
       ELSE /\ steady' = steady \cap accepted'
            /\ entered' = entered \cup (accepted' \ accepted)
            /\ left' = left \cup (accepted \ accepted')
    /\ UNCHANGED <<apiVars, total, items>>

Progress == (Proceed /\ UNCHANGED searchVars) \/ (\E j \in jobs : Read(j))

Next ==
    /\ \/ \E r \in Request : Ask(r)
       \/ Progress
       \/ \E j \in jobs : Refuse(j)
       \/ Surroundings /\ UNCHANGED searchVars
       \/ \E s \in Scene : Change(s)
    /\ Watch

\* A thread that can go on does, and timeouts fire.  Nothing thaws by itself, and
\* no client has to send anything.
Fairness == WF_vars(Progress /\ Watch)

Spec == Init /\ [][Next]_vars /\ Fairness

------------------------------------------------------------------------------
(* Properties *)

\* api.py:40-46: silence never reads as ready.  A probe that is answered 200 was sent
\* to dependencies each of which replied at some time since.
ReadyIsTruthful == \A r \in Probe : answer[r] = 200 => Dependencies \subseteq seen[r]

\* A request is over when it is answered and none of its calls holds a thread.
Over(r) == at[r] = "answered" /\ \A j \in jobs : j.request # r

\* However long PostGIS stays frozen and however many threads and connections it
\* holds, /readyz answers (api.py:40-46), and so does /healthz, because fewer threads
\* can hang than the framework has.  If PostGIS replies again for good, each request is
\* answered, and the threads that were given up end and return their connections.  (Each
\* request is sent once, so what is answered in the end stays so.)
EveryRequestAnswered ==
    /\ <>[](\A r \in Probe \cup Health : ~Unanswered(r))
    /\ <>[]PostgisReplies => <>[](\A r \in Request : at[r] = "new" \/ Over(r))

WalkEnded(p) == answer[p] = 200 /\ ~Full(p)

\* Pages that scenes enter and leave while a client reads them: a scene that was
\* accepted all along is missed only if one before it was rejected meanwhile, and read
\* twice only if one before it was accepted; and the total is that of the pages unless
\* something changed.
WalkIsFaithful ==
    LET walk == {p \in Page : answer[p] = 200} IN
    /\ \A p \in walk : WalkEnded(p) =>
           \A s \in steady \ UNION {items[q] : q \in walk} : \E t \in left : t < s
    /\ \A p, q \in walk : p < q =>
           \A s \in items[p] \cap items[q] : \E t \in entered : t < s
    /\ entered \cup left = {} => \A p \in walk : total[p] = Cardinality(steady)
==============================================================================
