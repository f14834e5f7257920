----------------------------- MODULE ApiProcess -----------------------------
(***************************************************************************)
(* How one API process of src/terrawatch/api.py shares its threads and its  *)
(* database connections among requests.  /readyz and the routes that write   *)
(* are coroutines that hand their blocking calls to the executor behind          *)
(* asyncio.to_thread; /healthz and the queries of the analysis API are plain *)
(* functions, which the framework runs in a thread pool of its own.  Both    *)
(* kinds draw connections from the pool of database.py.                      *)
(*                                                                         *)
(* A dependency may be frozen: it accepts connections and does not reply.    *)
(* A call on a pooled connection then hangs; one that opens a connection to  *)
(* PostGIS, and every call to MinIO and NATS, ends by its own timeout.       *)
(* Calls that are not held up by a freeze return within their bounds.        *)
(*                                                                         *)
(* What a query does with its connection is left to the module that extends  *)
(* this one.                                                                 *)
(***************************************************************************)
EXTENDS Naturals, FiniteSets

CONSTANTS
    Probe, Write, Query, Health,   \* requests, by the kind of their handler
    Workers,        \* threads of the executor
    Tokens,         \* threads of the framework's pool
    PoolSize,       \* pool_size
    MaxOverflow,    \* max_overflow
    MaxFreezes      \* bound: times a dependency is frozen

Request == Probe \cup Write \cup Query \cup Health
Plain == Query \cup Health

ASSUME KindsAssumption ==
    /\ Probe \cap Write = {} /\ Probe \cap Plain = {} /\ Write \cap Plain = {}
    /\ Query \cap Health = {}
ASSUME SizesAssumption ==
    Workers \in Nat \ {0} /\ PoolSize \in Nat /\ MaxOverflow \in Nat /\ MaxFreezes \in Nat

\* The framework has 40 threads, the pool 5 + 5 connections.
ASSUME TokensAssumption == Tokens \in Nat /\ Tokens > PoolSize + MaxOverflow

Dependency == {"postgres", "minio", "nats"}
Service == {"ingest-api", "event-api", "analysis-api"}

VARIABLES
    service,    \* which API this process serves
    frozen,     \* dependencies that do not reply
    freezes,
    at,         \* where each request stands: a probe at the dependency it checks
    ready,      \* the dependencies a probe has found ready
    answer,     \* status code
    jobs,       \* calls handed to a thread that have not ended
    idle,       \* connections in the pool that nobody uses
    seen        \* history: dependencies that replied at some time since a probe was sent

apiVars == <<service, frozen, freezes, at, ready, answer, jobs, idle>>

Stages == {"queued", "started", "connected", "counted"}
Job == [request: Request, on: {"postgres", "minio", "nothing"}, stage: Stages]

ApiTypeOK ==
    /\ service \in Service
    /\ frozen \subseteq Dependency
    /\ freezes \in 0..MaxFreezes
    /\ at \in [Request -> {"new", "waiting", "answered"} \cup Dependency]
    /\ ready \in [Probe -> SUBSET Dependency]
    /\ answer \in [Request -> {0, 200, 404, 422, 500, 503}]
    /\ jobs \subseteq Job
    /\ idle \in 0..PoolSize
    /\ idle + Cardinality({j \in jobs : j.stage \in {"connected", "counted"}})
           <= PoolSize + MaxOverflow
    /\ seen \in [Probe -> SUBSET Dependency]

ApiInit ==
    /\ service \in Service
    /\ frozen = {} /\ freezes = 0
    /\ at = [r \in Request |-> "new"]
    /\ ready = [r \in Probe |-> {}]
    /\ answer = [r \in Request |-> 0]
    /\ jobs = {}
    /\ idle \in 0..PoolSize
    /\ seen = [r \in Probe |-> {}]

Dependencies ==
    CASE service = "ingest-api" -> Dependency
      [] service = "event-api" -> {"postgres", "nats"}
      [] service = "analysis-api" -> {"postgres"}
Served == Probe \cup Health \cup IF service = "analysis-api" THEN Query ELSE Write

Unanswered(r) == at[r] \notin {"new", "answered"}

------------------------------------------------------------------------------
(* Threads and connections. *)

Queued(r, d) == [request |-> r, on |-> d, stage |-> "queued"]
Advanced(j, stage) == (jobs \ {j}) \cup {[j EXCEPT !.stage = stage]}

Running == {j \in jobs : j.stage # "queued"}
ThreadFree(r) ==
    IF r \in Plain THEN Cardinality({j \in Running : j.request \in Plain}) < Tokens
                   ELSE Cardinality({j \in Running : j.request \notin Plain}) < Workers

Connected == {j \in jobs : j.stage \in {"connected", "counted"}}
PoolExhausted == idle + Cardinality(Connected) = PoolSize + MaxOverflow

PostgisReplies == "postgres" \notin frozen

\* The pool keeps a connection that comes back unless it is full.
Returned == IF idle < PoolSize THEN idle + 1 ELSE idle

Unasked == UNCHANGED <<service, frozen, freezes, at, ready, answer>>

Start(j) ==
    /\ j.stage = "queued" /\ ThreadFree(j.request)
    /\ jobs' = Advanced(j, "started")
    /\ Unasked /\ UNCHANGED idle

\* An idle connection is handed out, and pinged: if PostGIS is frozen, that hangs.
TakeIdle(j) ==
    /\ j.on = "postgres" /\ j.stage = "started" /\ idle > 0
    /\ jobs' = Advanced(j, "connected") /\ idle' = idle - 1
    /\ Unasked

\* Faulty variant of Connect: the pool has no limit.
ConnectBeyond(j) ==
    /\ j.on = "postgres" /\ j.stage = "started" /\ idle = 0
    /\ PostgisReplies
    /\ jobs' = Advanced(j, "connected")
    /\ Unasked /\ UNCHANGED idle

\* No connection is idle: one more is opened.
Connect(j) ==
    /\ j.on = "postgres" /\ j.stage = "started" /\ idle = 0
    /\ ~PoolExhausted /\ PostgisReplies
    /\ jobs' = Advanced(j, "connected")
    /\ Unasked /\ UNCHANGED idle

------------------------------------------------------------------------------
(* /readyz. *)

\* The check that comes after that of d.
After(d) ==
    IF d = "postgres" /\ "minio" \in Dependencies THEN "minio"
    ELSE IF d # "nats" /\ "nats" \in Dependencies THEN "nats"
    ELSE "answered"

\* Faulty variant of StatusOf: one dependency is enough.
StatusOfAny(found) == IF found # {} THEN 200 ELSE 503

StatusOf(found) == IF found = Dependencies THEN 200 ELSE 503

\* The check of d has its verdict, found being what is ready; the next check begins,
\* or the probe is answered.  others are the jobs that go on.
Verdict(r, d, found, others) ==
    LET next == After(d) IN
    /\ ready' = [ready EXCEPT ![r] = found]
    /\ at' = [at EXCEPT ![r] = next]
    /\ answer' = IF next = "answered" THEN [answer EXCEPT ![r] = StatusOf(found)] ELSE answer
    /\ jobs' = others \cup {Queued(r, n) : n \in {next} \cap {"minio"}}

\* _bounded_check: the wait for a thread that a frozen PostGIS holds up, or that the
\* executor cannot begin because such threads fill it, ends after five seconds.  A
\* call that has not begun is cancelled, a thread that has goes on.
GiveUp(j) ==
    LET r == j.request IN
    /\ r \in Probe /\ at[r] = j.on
    /\ ~PostgisReplies
    /\ j.on = "postgres" \/ (j.stage = "queued" /\ ~ThreadFree(r))
    /\ Verdict(r, j.on, ready[r], IF j.stage = "queued" THEN jobs \ {j} ELSE jobs)
    /\ UNCHANGED <<service, frozen, freezes, idle>>

\* storage_ready: MinIO's client has timeouts of its own.
CheckStorage(j) ==
    LET r == j.request IN
    /\ j.on = "minio" /\ j.stage = "started"
    /\ Verdict(r, "minio", ready[r] \cup ({"minio"} \ frozen), jobs \ {j})
    /\ UNCHANGED <<service, frozen, freezes, idle>>

\* messaging_ready, which runs in no thread.
CheckMessaging(r) ==
    /\ at[r] = "nats"
    /\ Verdict(r, "nats", ready[r] \cup ({"nats"} \ frozen), jobs)
    /\ UNCHANGED <<service, frozen, freezes, idle>>

------------------------------------------------------------------------------
(* The ends of the other calls. *)

\* A call ends with a status for its request: the verdict of a probe that still waits
\* for it, or the answer of another request; an exception becomes a 500.
JobEnds(j, status) ==
    LET r == j.request IN
    /\ IF r \in Probe
       THEN IF at[r] = "postgres"
            THEN Verdict(r, "postgres", IF status = 200 THEN {"postgres"} ELSE {}, jobs \ {j})
            ELSE jobs' = jobs \ {j} /\ UNCHANGED <<at, ready, answer>>
       ELSE /\ at' = [at EXCEPT ![r] = "answered"]
            /\ answer' = [answer EXCEPT ![r] = status]
            /\ jobs' = jobs \ {j} /\ UNCHANGED ready
    /\ UNCHANGED <<service, frozen, freezes>>

\* connect_timeout
ConnectTimesOut(j) ==
    /\ j.on = "postgres" /\ j.stage = "started" /\ idle = 0
    /\ ~PoolExhausted /\ ~PostgisReplies
    /\ JobEnds(j, 500) /\ UNCHANGED idle

\* Faulty variant of CheckoutTimesOut: the wait for a connection is not bounded.
CheckoutWaits(j) == FALSE

\* The pool's own timeout: no connection has come back in thirty seconds.
CheckoutTimesOut(j) ==
    /\ j.on = "postgres" /\ j.stage = "started"
    /\ PoolExhausted /\ idle = 0 /\ ~PostgisReplies
    /\ JobEnds(j, 500) /\ UNCHANGED idle

\* The last statement replies; the session is closed and its connection returned.
Replies(j, status) ==
    /\ j.stage \in {"connected", "counted"} /\ PostgisReplies
    /\ JobEnds(j, status) /\ idle' = Returned

\* database_ready, or a lookup or insert of a route that writes.
CheckDatabase(j) == j.request \in Probe \cup Write /\ Replies(j, 200)

SayHealthy(j) ==
    /\ j.on = "nothing" /\ j.stage = "started"
    /\ JobEnds(j, 200) /\ UNCHANGED idle

\* A new request; its first call is handed to a thread.
Send(r) ==
    /\ r \in Served /\ at[r] = "new"
    /\ at' = [at EXCEPT ![r] = IF r \in Probe THEN "postgres" ELSE "waiting"]
    /\ jobs' = jobs \cup {Queued(r, IF r \in Health THEN "nothing" ELSE "postgres")}
    /\ UNCHANGED <<service, frozen, freezes, ready, answer, idle>>

------------------------------------------------------------------------------
(* The surroundings, and what moves by itself. *)

Freeze(d) ==
    /\ d \in Dependencies \ frozen /\ freezes < MaxFreezes
    /\ frozen' = frozen \cup {d} /\ freezes' = freezes + 1
    /\ UNCHANGED <<service, at, ready, answer, jobs, idle>>

Thaw(d) ==
    /\ d \in frozen /\ frozen' = frozen \ {d}
    /\ UNCHANGED <<service, freezes, at, ready, answer, jobs, idle>>

Surroundings == \E d \in Dependency : Freeze(d) \/ Thaw(d)

Proceed ==
    \/ \E j \in jobs : \/ Start(j) \/ TakeIdle(j) \/ Connect(j) \/ GiveUp(j) \/ CheckStorage(j)
                       \/ ConnectTimesOut(j) \/ CheckoutTimesOut(j) \/ CheckDatabase(j)
                       \/ SayHealthy(j)
    \/ \E r \in Probe : CheckMessaging(r)

\* What replied since each probe was sent.
Watch == seen' = [r \in Probe |-> IF at'[r] = "new" THEN {}
                                  ELSE seen[r] \cup (Dependency \ frozen')]
==============================================================================
