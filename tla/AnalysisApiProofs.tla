-------------------------- MODULE AnalysisApiProofs --------------------------
(***************************************************************************)
(* That the analysis API's readiness is earned, that its connections stay   *)
(* within the pool, and that a walk over pages errs only where a scene that  *)
(* sorts earlier changed: for any sizes of the pools, pages and tables.      *)
(***************************************************************************)
EXTENDS AnalysisApi, FiniteSetTheorems, TLAPS

-----------------------------------------------------------------------------
(* The inductive invariant. *)

\* Only a probe asks MinIO, and only a health check asks nobody.
JobsFit ==
    \A j \in jobs : /\ j.on = "minio" => j.request \in Probe
                    /\ j.on = "nothing" => j.request \in Health

\* What a probe has found ready has replied since it was sent.
FoundHasReplied ==
    \A r \in Probe : /\ ready[r] \subseteq seen[r]
                     /\ at[r] = "new" => ready[r] = {} /\ answer[r] = 0

PageJobs == {j \in jobs : j.request \in Page}

\* A page that is waited for has one thread, and no other page has any.
PagesHaveOneThread ==
    /\ \A j \in PageJobs : at[j.request] = "waiting"
    /\ \A j, k \in PageJobs : j.request = k.request => j = k

Walk == {p \in Page : answer[p] = 200}

\* A page is asked for when all earlier ones came full, and the walk has begun by then.
PagesInOrder ==
    /\ \A p \in Walk : at[p] = "answered"
    /\ \A p \in Page : at[p] # "new" => at[1] # "new" /\ \A q \in Page : q < p => Full(q)
    /\ at[1] = "new" => entered \cup left = {}

Below(s) == Cardinality({t \in accepted : t < s})

\* A scene that was accepted all along and is on no page lies beyond the pages that were
\* read, which were full, unless one before it was rejected.
MissedLieBeyond ==
    \A s \in steady \ UNION {items[q] : q \in Walk} :
        \/ \E t \in left : t < s
        \/ \A p \in Walk : p * PageSize <= Below(s) /\ Full(p)

\* What was read does not lie beyond its page, unless one before it was accepted.
ReadLieWithin ==
    \A p \in Walk : \A s \in items[p] :
        \/ \E t \in entered : t < s
        \/ Below(s) < p * PageSize

OnTwoPages ==
    \A p, q \in Walk : p < q => \A s \in items[p] \cap items[q] : \E t \in entered : t < s

\* As long as nothing changed, each count that was read is that of the accepted scenes.
CountsStand ==
    entered \cup left = {} =>
        /\ steady = accepted
        /\ \A p \in Walk : total[p] = Cardinality(steady)
        /\ \A j \in PageJobs : j.stage = "counted" => total[j.request] = Cardinality(steady)

PoolInv == TypeOK /\ IsFiniteSet(jobs) /\ JobsFit
ProbeInv == FoundHasReplied /\ ReadyIsTruthful
WalkInv ==
    /\ PagesHaveOneThread
    /\ PagesInOrder
    /\ MissedLieBeyond
    /\ ReadLieWithin
    /\ OnTwoPages
    /\ CountsStand
AnalysisInv == PoolInv /\ ProbeInv /\ WalkInv

-----------------------------------------------------------------------------
(* Numbers: where a page begins, and how many scenes come before another. *)

\* Among subsets of a finite set there is one that contains no other.
LEMMA SmallestSubset ==
    ASSUME NEW T, IsFiniteSet(T), NEW V, V \subseteq SUBSET T, V # {}
    PROVE  \E m \in V : \A t \in V : ~(t \subseteq m /\ t # m)
<1>1. V \subseteq FiniteSubsetsOf(T)
  BY FS_FiniteSubsetsOfFinite
<1>2. \E m \in V : \A t \in V : ~(<<t, m>> \in StrictSubsetOrdering(T))
  BY <1>1, FS_StrictSubsetOrderingWellFounded, WFMin
<1> QED
  BY <1>2 DEF StrictSubsetOrdering

UpTo(T, n) == {t \in T : t <= n}

\* What lies below a number grows with the number,
LEMMA UpToGrows ==
    ASSUME NEW T, \A t \in T : t \in Nat, NEW a \in T, NEW b \in T, a < b
    PROVE  UpTo(T, a) \subseteq UpTo(T, b) /\ b \in UpTo(T, b) /\ b \notin UpTo(T, a)
<1>1. ASSUME NEW t \in UpTo(T, a) PROVE t \in UpTo(T, b)
  <2>1. t \in T /\ t \in Nat /\ a \in Nat /\ b \in Nat /\ t <= a
    BY DEF UpTo
  <2> QED
    BY <2>1 DEF UpTo
<1>2. a \in Nat /\ b \in Nat
  OBVIOUS
<1>3. UpTo(T, a) \subseteq UpTo(T, b)
  BY <1>1
<1>4. b \in UpTo(T, b) /\ b \notin UpTo(T, a)
  BY <1>2 DEF UpTo
<1> QED
  BY <1>3, <1>4

\* so a finite set of numbers has a least one.
LEMMA Least ==
    ASSUME NEW T, \A t \in T : t \in Nat, IsFiniteSet(T), T # {}
    PROVE  \E m \in T : \A t \in T : m <= t
<1>1. PICK V : V = {UpTo(T, m) : m \in T}
  OBVIOUS
<1>2. V \subseteq SUBSET T /\ V # {}
  BY <1>1 DEF UpTo
<1>3. PICK v \in V : \A w \in V : ~(w \subseteq v /\ w # v)
  BY <1>2, SmallestSubset
<1>4. PICK m \in T : \A n \in T : ~(UpTo(T, n) \subseteq UpTo(T, m) /\ UpTo(T, n) # UpTo(T, m))
  BY <1>1, <1>3
<1>5. ASSUME NEW t \in T, ~(m <= t) PROVE FALSE
  <2>1. t < m
    BY <1>5
  <2> QED
    BY <1>4, <2>1, UpToGrows
<1> QED
  BY <1>5

From(T, n) == {t \in T : n <= t}

\* What lies above a number shrinks as the number grows,
LEMMA FromShrinks ==
    ASSUME NEW T, \A t \in T : t \in Nat, NEW a \in T, NEW b \in T, a < b
    PROVE  From(T, b) \subseteq From(T, a) /\ a \in From(T, a) /\ a \notin From(T, b)
<1>1. ASSUME NEW t \in From(T, b) PROVE t \in From(T, a)
  <2>1. t \in T /\ t \in Nat /\ a \in Nat /\ b \in Nat /\ b <= t
    BY DEF From
  <2> QED
    BY <2>1 DEF From
<1>2. a \in Nat /\ b \in Nat
  OBVIOUS
<1>3. From(T, b) \subseteq From(T, a)
  BY <1>1
<1>4. a \in From(T, a) /\ a \notin From(T, b)
  BY <1>2 DEF From
<1> QED
  BY <1>3, <1>4

\* so a finite set of numbers has a greatest one.
LEMMA Greatest ==
    ASSUME NEW T, \A t \in T : t \in Nat, IsFiniteSet(T), T # {}
    PROVE  \E m \in T : \A t \in T : t <= m
<1>1. PICK V : V = {From(T, m) : m \in T}
  OBVIOUS
<1>2. V \subseteq SUBSET T /\ V # {}
  BY <1>1 DEF From
<1>3. PICK v \in V : \A w \in V : ~(w \subseteq v /\ w # v)
  BY <1>2, SmallestSubset
<1>4. PICK m \in T : \A n \in T : ~(From(T, n) \subseteq From(T, m) /\ From(T, n) # From(T, m))
  BY <1>1, <1>3
<1>5. ASSUME NEW t \in T, ~(t <= m) PROVE FALSE
  <2>1. m < t
    BY <1>5
  <2> QED
    BY <1>4, <2>1, FromShrinks
<1> QED
  BY <1>5

USE KindsAssumption, SizesAssumption, TokensAssumption, SearchAssumption, QueryAssumption

\* Pages are requests, and there is a first one.
LEMMA PagesAreTyped == Page \subseteq Request /\ 1 \in Page
BY DEF Page, Request, Plain

\* The last rank on a page is at most the one before the first rank on a later page.
LEMMA PageEnds ==
    ASSUME NEW p \in Page
    PROVE  /\ p * PageSize \in Nat /\ (p - 1) * PageSize \in Nat
           /\ (p - 1) * PageSize + PageSize = p * PageSize
           /\ \A q \in Page : q < p => q * PageSize <= (p - 1) * PageSize
<1>1. p \in Nat /\ p - 1 \in Nat /\ PageSize \in Nat
  BY DEF Page
<1>2. p * PageSize \in Nat /\ (p - 1) * PageSize \in Nat
  BY <1>1
<1>3. (p - 1) * PageSize + PageSize = p * PageSize
  BY <1>1
<1>4. ASSUME NEW q \in Page, q < p PROVE q * PageSize <= (p - 1) * PageSize
  <2>1. q \in Nat /\ q <= p - 1
    BY <1>1, <1>4 DEF Page
  <2>2. PICK d \in Nat : p - 1 = q + d
    BY <1>1, <2>1
  <2>3. (q + d) * PageSize = q * PageSize + d * PageSize
    BY <1>1, <2>1, <2>2
  <2>4. q * PageSize \in Nat /\ d * PageSize \in Nat
    BY <1>1, <2>1, <2>2
  <2> QED
    BY <2>2, <2>3, <2>4
<1> QED
  BY <1>2, <1>3, <1>4

\* There are at most NumScenes scenes in a table.
LEMMA SceneSets ==
    ASSUME NEW rows \in SUBSET Scene
    PROVE  IsFiniteSet(rows) /\ Cardinality(rows) \in 0..NumScenes
<1>1. IsFiniteSet(Scene) /\ Cardinality(Scene) = NumScenes
  BY FS_Interval DEF Scene
<1> QED
  BY <1>1, FS_Subset, FS_CardinalityType

\* The rank of a row counts it and the rows before it, and grows along the table.
LEMMA RankAndBefore ==
    ASSUME NEW rows \in SUBSET Scene, NEW s \in Scene
    PROVE  /\ Cardinality({t \in rows : t < s}) \in Nat /\ Rank(s, rows) \in Nat
           /\ s \in rows => Rank(s, rows) = Cardinality({t \in rows : t < s}) + 1
           /\ \A u \in Scene : u <= s => Rank(u, rows) <= Rank(s, rows)
<1> DEFINE before == {t \in rows : t < s}
           upto(u) == {t \in rows : t <= u}
<1>1. s \in Nat /\ \A t \in Scene : t \in Nat
  BY DEF Scene
<1>2. IsFiniteSet(before) /\ Cardinality(before) \in Nat
  BY SceneSets
<1>3. ASSUME NEW u \in Scene
      PROVE  IsFiniteSet(upto(u)) /\ Rank(u, rows) = Cardinality(upto(u)) /\ Rank(u, rows) \in Nat
  BY SceneSets DEF Rank
<1>4. ASSUME s \in rows PROVE Rank(s, rows) = Cardinality(before) + 1
  <2>1. ASSUME NEW t PROVE t \in upto(s) <=> t \in before \cup {s}
    <3>1. t \in rows => t \in Nat
      BY <1>1
    <3>2. t \in rows => (t <= s <=> t < s \/ t = s)
      BY <1>1, <3>1
    <3> QED
      BY <1>4, <3>2
  <2>2. upto(s) = before \cup {s}
    BY <2>1
  <2>3. s \notin before
    BY <1>1
  <2> HIDE DEF before, upto
  <2> QED
    BY <1>2, <1>3, <2>2, <2>3, FS_AddElement
<1>5. ASSUME NEW u \in Scene, u <= s PROVE Rank(u, rows) <= Rank(s, rows)
  <2>1. ASSUME NEW t \in upto(u) PROVE t \in upto(s)
    <3>1. t \in rows /\ t \in Nat /\ u \in Nat /\ t <= u
      BY <1>1
    <3> QED
      BY <1>1, <1>5, <3>1
  <2>2. upto(u) \subseteq upto(s)
    BY <2>1
  <2> HIDE DEF upto
  <2> QED
    BY <1>3, <2>2, FS_Subset
<1> QED
  BY <1>2, <1>3, <1>4, <1>5

\* If some scene has a rank beyond k, then k scenes have a rank up to k.
LEMMA FirstRows ==
    ASSUME NEW rows \in SUBSET Scene, NEW s \in rows, NEW k \in Nat, k < Rank(s, rows)
    PROVE  Cardinality({t \in rows : Rank(t, rows) <= k}) = k
<1> DEFINE first == {t \in rows : Rank(t, rows) <= k}
           beyond == {t \in rows : k < Rank(t, rows)}
<1>1. \A t \in rows : t \in Scene /\ t \in Nat /\ Rank(t, rows) \in Nat
  <2>1. \A t \in rows : t \in Scene /\ t \in Nat
    BY DEF Scene
  <2> QED
    BY <2>1, RankAndBefore
<1>2. IsFiniteSet(first) /\ IsFiniteSet(beyond)
  BY SceneSets
<1>3. PICK m \in beyond : \A t \in beyond : m <= t
  <2>1. (\A t \in beyond : t \in Nat) /\ beyond # {}
    BY <1>1
  <2> HIDE DEF beyond
  <2> QED
    BY <1>2, <2>1, Least
<1>4. ASSUME NEW t \in rows PROVE t \in first <=> t < m
  <2>1. t \in Nat /\ m \in Nat /\ Rank(t, rows) \in Nat /\ Rank(m, rows) \in Nat
    BY <1>1
  <2>2. ASSUME t < m PROVE Rank(t, rows) <= k
    BY <1>3, <2>1, <2>2
  <2>3. ASSUME ~(t < m) PROVE ~(Rank(t, rows) <= k)
    <3>1. m <= t /\ m \in Scene /\ t \in Scene
      BY <1>1, <2>1, <2>3
    <3>2. Rank(m, rows) <= Rank(t, rows)
      BY <3>1, RankAndBefore
    <3> QED
      BY <2>1, <3>2
  <2> QED
    BY <2>2, <2>3
<1>5. first = {t \in rows : t < m}
  <2>1. first \subseteq rows
    OBVIOUS
  <2> HIDE DEF first
  <2> QED
    BY <1>4, <2>1
<1>6. k < Cardinality(first) + 1 /\ Cardinality(first) \in Nat
  <2>1. m \in rows /\ m \in Scene /\ k < Rank(m, rows)
    BY <1>1
  <2> HIDE DEF first, beyond
  <2> QED
    BY <1>5, <2>1, RankAndBefore
<1>7. Cardinality(first) <= k
  <2>1. CASE first = {}
    BY <2>1, FS_EmptySet
  <2>2. CASE first # {}
    <3>1. PICK l \in first : \A t \in first : t <= l
      <4>1. \A t \in first : t \in Nat
        BY <1>1
      <4> HIDE DEF first
      <4> QED
        BY <1>2, <2>2, <4>1, Greatest
    <3>2. ASSUME NEW t \in rows PROVE t <= l <=> t \in first
      <4>1. l \in Scene /\ t \in Scene /\ Rank(t, rows) \in Nat /\ Rank(l, rows) \in Nat
            /\ Rank(l, rows) <= k
        BY <1>1
      <4>2. t <= l => Rank(t, rows) <= Rank(l, rows)
        BY <4>1, RankAndBefore
      <4>3. t <= l => t \in first
        BY <4>1, <4>2
      <4> QED
        BY <3>1, <4>3
    <3>3. {t \in rows : t <= l} = first
      <4>1. first \subseteq rows
        OBVIOUS
      <4> HIDE DEF first
      <4> QED
        BY <3>2, <4>1
    <3>4. Rank(l, rows) <= k
      OBVIOUS
    <3> QED
      BY <3>3, <3>4 DEF Rank
  <2> QED
    BY <2>1, <2>2
<1> QED
  BY <1>6, <1>7

\* A page is full when some scene lies beyond it.
LEMMA FullPage ==
    ASSUME NEW rows \in SUBSET Scene, NEW s \in rows, NEW p \in Page,
           p * PageSize < Rank(s, rows)
    PROVE  Cardinality(Slice(rows, p)) = PageSize
<1> DEFINE from == (p - 1) * PageSize  to == p * PageSize
           low == {t \in rows : Rank(t, rows) <= from}
           high == {t \in rows : Rank(t, rows) <= to}
<1>1. from \in Nat /\ to \in Nat /\ from + PageSize = to /\ PageSize \in Nat
  BY PageEnds
<1>2. \A t \in rows : t \in Scene /\ Rank(t, rows) \in Nat
  BY RankAndBefore
<1>3. Cardinality(low) = from /\ Cardinality(high) = to
  <2>1. to < Rank(s, rows) /\ from < Rank(s, rows)
    BY <1>1, <1>2
  <2> HIDE DEF from, to
  <2> QED
    BY <1>1, <2>1, FirstRows
<1>4. Slice(rows, p) = high \ low
  <2> HIDE DEF from, to
  <2>1. Slice(rows, p) = {t \in rows : from < Rank(t, rows) /\ Rank(t, rows) <= to}
    BY DEF Slice, from, to
  <2> QED
    BY <1>1, <1>2, <2>1
<1>5. IsFiniteSet(high) /\ IsFiniteSet(low) /\ low \subseteq high
  <2> HIDE DEF from, to
  <2>1. high \in SUBSET Scene /\ low \in SUBSET Scene
    OBVIOUS
  <2>2. low \subseteq high
    BY <1>1, <1>2
  <2> QED
    BY <2>1, <2>2, SceneSets
<1>6. Cardinality(high \ low) = Cardinality(high) - Cardinality(high \cap low)
  BY <1>5, FS_Difference
<1>7. high \cap low = low
  BY <1>5
<1>8. Cardinality(Slice(rows, p)) = to - from
  <2> HIDE DEF from, to, low, high
  <2> QED
    BY <1>3, <1>4, <1>6, <1>7
<1> HIDE DEF from, to
<1> QED
  BY <1>1, <1>8

-----------------------------------------------------------------------------
(* Threads and connections. *)

\* What a request and a probe may come to.
RequestsTyped ==
    /\ at \in [Request -> {"new", "waiting", "answered"} \cup Dependency]
    /\ ready \in [Probe -> SUBSET Dependency]
    /\ answer \in [Request -> {0, 200, 404, 422, 500, 503}]

PoolBound == idle \in 0..PoolSize /\ idle + Cardinality(Connected) <= PoolSize + MaxOverflow

\* What the invariant says of threads and connections.
LEMMA JobsTyped ==
    ASSUME PoolInv
    PROVE  /\ RequestsTyped /\ PoolBound
           /\ jobs \subseteq Job /\ IsFiniteSet(jobs) /\ IsFiniteSet(Connected)
           /\ Cardinality(Connected) \in Nat
           /\ \A j \in jobs : /\ j.request \in Request /\ j.stage \in Stages
                              /\ j.on \in {"postgres", "minio", "nothing"}
                              /\ j.on = "minio" => j.request \in Probe
                              /\ j.on = "nothing" => j.request \in Health
<1>1. /\ jobs \subseteq Job /\ IsFiniteSet(jobs) /\ RequestsTyped /\ JobsFit
      /\ idle \in 0..PoolSize
  BY DEF PoolInv, TypeOK, ApiTypeOK, RequestsTyped
<1>2. IsFiniteSet(Connected) /\ Cardinality(Connected) \in Nat
  BY <1>1, FS_Subset, FS_CardinalityType DEF Connected
<1>3. idle + Cardinality(Connected) <= PoolSize + MaxOverflow
  BY DEF PoolInv, TypeOK, ApiTypeOK, Connected
<1>4. \A j \in jobs : /\ j.request \in Request /\ j.stage \in Stages
                      /\ j.on \in {"postgres", "minio", "nothing"}
  BY <1>1 DEF Job
<1> QED
  BY <1>1, <1>2, <1>3, <1>4 DEF JobsFit, PoolBound

\* The kinds of requests do not overlap.
LEMMA KindsOfRequests ==
    /\ Probe \subseteq Request /\ Write \subseteq Request /\ Health \subseteq Request
    /\ Page \subseteq Request /\ Lookup \subseteq Request
    /\ \A r \in Probe : r \notin Page /\ r \notin Lookup /\ r \notin Health /\ r \notin Write
    /\ \A r \in Page : r \notin Health /\ r \notin Write /\ r \notin Lookup
BY DEF Request, Plain

\* A service depends on some of the three.
LEMMA DependenciesTyped == service \in Service => Dependencies \subseteq Dependency
BY DEF Service, Dependencies, Dependency

\* A verdict moves a probe on and may queue its call to MinIO.
LEMMA Verdicts ==
    ASSUME PoolInv, NEW r \in Probe, NEW d \in Dependency, NEW found \in SUBSET Dependency,
           NEW others \in SUBSET jobs, Verdict(r, d, found, others)
    PROVE  /\ RequestsTyped'
           /\ jobs' \subseteq others \cup {Queued(r, "minio")}
           /\ \A p \in Page : at'[p] = at[p] /\ answer'[p] = answer[p]
           /\ \A p \in Probe \ {r} : /\ at'[p] = at[p] /\ answer'[p] = answer[p]
                                     /\ ready'[p] = ready[p]
           /\ at'[r] # "new" /\ ready'[r] = found
           /\ answer'[r] = answer[r] \/ (answer'[r] = 200 => found = Dependencies)
<1> DEFINE next == After(d)
<1>1. next \in {"minio", "nats", "answered"} /\ next # "new"
  BY DEF After
<1>2. /\ at' = [at EXCEPT ![r] = next] /\ ready' = [ready EXCEPT ![r] = found]
      /\ answer' = IF next = "answered" THEN [answer EXCEPT ![r] = StatusOf(found)] ELSE answer
      /\ jobs' = others \cup {Queued(r, n) : n \in {next} \cap {"minio"}}
  BY DEF Verdict
<1>3. StatusOf(found) \in {200, 503} /\ (StatusOf(found) = 200 => found = Dependencies)
  BY DEF StatusOf
<1>4. RequestsTyped /\ r \in Request /\ \A p \in Page : p # r
  BY JobsTyped, KindsOfRequests
<1> HIDE DEF next
<1>5. /\ at' \in [Request -> {"new", "waiting", "answered"} \cup Dependency]
      /\ ready' \in [Probe -> SUBSET Dependency]
  BY <1>1, <1>2, <1>4 DEF RequestsTyped, Dependency
<1>6. answer' \in [Request -> {0, 200, 404, 422, 500, 503}]
  BY <1>2, <1>3, <1>4 DEF RequestsTyped
<1>7. jobs' \subseteq others \cup {Queued(r, "minio")}
  BY <1>2
<1>8. \A p \in Page : at'[p] = at[p] /\ answer'[p] = answer[p]
  BY <1>2, <1>4, KindsOfRequests DEF RequestsTyped
<1>9. \A p \in Probe \ {r} : at'[p] = at[p] /\ answer'[p] = answer[p] /\ ready'[p] = ready[p]
  BY <1>2, <1>4, KindsOfRequests DEF RequestsTyped
<1>10. at'[r] # "new" /\ ready'[r] = found
  BY <1>1, <1>2, <1>4 DEF RequestsTyped
<1>11. answer'[r] = answer[r] \/ (answer'[r] = 200 => found = Dependencies)
  BY <1>2, <1>3, <1>4 DEF RequestsTyped
<1> QED
  BY <1>5, <1>6, <1>7, <1>8, <1>9, <1>10, <1>11 DEF RequestsTyped

\* What the call of a probe on PostGIS that ended says.
PostgresFound(code) == IF code = 200 THEN {"postgres"} ELSE {}

\* A call that ends is gone: the probe goes on if it still waits for it, and another
\* request is answered.
LEMMA EndOfProbe ==
    ASSUME NEW j \in jobs, NEW code, JobEnds(j, code), j.request \in Probe
    PROVE  \/ jobs' = jobs \ {j} /\ UNCHANGED <<at, ready, answer>>
           \/ Verdict(j.request, "postgres", PostgresFound(code), jobs \ {j})
BY DEF JobEnds, PostgresFound

\* Any other request is answered.
LEMMA EndOfOther ==
    ASSUME NEW j \in jobs, NEW code, JobEnds(j, code), j.request \notin Probe
    PROVE  /\ jobs' = jobs \ {j} /\ ready' = ready
           /\ at' = [at EXCEPT ![j.request] = "answered"]
           /\ answer' = [answer EXCEPT ![j.request] = code]
BY DEF JobEnds

\* In either case requests stay typed, and no thread but that of a check of MinIO comes in.
LEMMA Ends ==
    ASSUME PoolInv, NEW j \in jobs, NEW code \in {200, 404, 422, 500}, JobEnds(j, code)
    PROVE  /\ RequestsTyped'
           /\ service' = service /\ frozen' = frozen /\ freezes' = freezes
           /\ jobs' \subseteq (jobs \ {j}) \cup {Queued(j.request, "minio")}
<1>1. RequestsTyped /\ j.request \in Request
  BY JobsTyped
<1>2. service' = service /\ frozen' = frozen /\ freezes' = freezes
  BY DEF JobEnds
<1>3. RequestsTyped' /\ jobs' \subseteq (jobs \ {j}) \cup {Queued(j.request, "minio")}
  <2>1. CASE j.request \in Probe
    <3>1. CASE jobs' = jobs \ {j} /\ UNCHANGED <<at, ready, answer>>
      BY <1>1, <3>1 DEF RequestsTyped
    <3>2. CASE Verdict(j.request, "postgres", PostgresFound(code), jobs \ {j})
      <4>1. PostgresFound(code) \in SUBSET Dependency /\ "postgres" \in Dependency
        BY DEF PostgresFound, Dependency
      <4>2. PICK others \in SUBSET jobs : others = jobs \ {j}
        OBVIOUS
      <4>3. Verdict(j.request, "postgres", PostgresFound(code), others)
        BY <3>2, <4>2
      <4>4. RequestsTyped' /\ jobs' \subseteq others \cup {Queued(j.request, "minio")}
        BY <2>1, <4>1, <4>3, Verdicts
      <4> QED
        BY <4>2, <4>4
    <3> QED
      BY <2>1, <3>1, <3>2, EndOfProbe
  <2>2. CASE j.request \notin Probe
    BY <1>1, <2>2, EndOfOther DEF RequestsTyped
  <2> QED
    BY <2>1, <2>2
<1> QED
  BY <1>2, <1>3

\* How a change by one element bounds the number of elements.
LEMMA Counts ==
    ASSUME NEW S, IsFiniteSet(S), NEW T, NEW j \in S, NEW k
    PROVE  /\ Cardinality(S) \in Nat
           /\ T \subseteq S =>
                 /\ Cardinality(T) <= Cardinality(S)
                 /\ Cardinality(T) \in Nat
           /\ T \subseteq (S \ {j}) \cup {k} =>
                 /\ Cardinality(T) <= Cardinality(S)
                 /\ Cardinality(T) \in Nat
           /\ T \subseteq S \ {j} =>
                 /\ Cardinality(T) <= Cardinality(S) - 1
                 /\ Cardinality(T) \in Nat
<1>1. /\ IsFiniteSet(S \ {j}) /\ Cardinality(S \ {j}) = Cardinality(S) - 1
      /\ Cardinality(S) \in Nat /\ Cardinality(S \ {j}) \in Nat
  BY FS_RemoveElement, FS_CardinalityType
<1>2. /\ IsFiniteSet((S \ {j}) \cup {k}) /\ Cardinality((S \ {j}) \cup {k}) \in Nat
      /\ Cardinality((S \ {j}) \cup {k}) <= Cardinality(S)
  <2> DEFINE rest == S \ {j}
  <2>1. IsFiniteSet(rest) /\ Cardinality(rest) = Cardinality(S) - 1 /\ Cardinality(rest) \in Nat
    BY <1>1
  <2> HIDE DEF rest
  <2>2. /\ IsFiniteSet(rest \cup {k})
        /\ Cardinality(rest \cup {k}) = Cardinality(rest)
           \/ Cardinality(rest \cup {k}) = Cardinality(rest) + 1
    BY <2>1, FS_AddElement
  <2>3. IsFiniteSet(rest \cup {k}) /\ Cardinality(rest \cup {k}) \in Nat
        /\ Cardinality(rest \cup {k}) <= Cardinality(S)
    BY <1>1, <2>1, <2>2
  <2> QED
    BY <2>3 DEF rest
<1>3. ASSUME NEW R, IsFiniteSet(R), T \subseteq R
      PROVE  Cardinality(T) <= Cardinality(R) /\ Cardinality(T) \in Nat
  BY <1>3, FS_Subset, FS_CardinalityType
<1>4. T \subseteq S => Cardinality(T) <= Cardinality(S) /\ Cardinality(T) \in Nat
  BY <1>3
<1>5. T \subseteq (S \ {j}) \cup {k} => Cardinality(T) <= Cardinality(S) /\ Cardinality(T) \in Nat
  <2> SUFFICES ASSUME T \subseteq (S \ {j}) \cup {k}
               PROVE  Cardinality(T) <= Cardinality(S) /\ Cardinality(T) \in Nat
    OBVIOUS
  <2>1. Cardinality(T) <= Cardinality((S \ {j}) \cup {k}) /\ Cardinality(T) \in Nat
    BY <1>2, <1>3
  <2> QED
    BY <1>1, <1>2, <2>1
<1>6. T \subseteq S \ {j} => Cardinality(T) <= Cardinality(S) - 1 /\ Cardinality(T) \in Nat
  BY <1>1, <1>3
<1> QED
  BY <1>1, <1>4, <1>5, <1>6

\* One element more makes a set larger by at most one.
LEMMA MoreByOne ==
    ASSUME NEW S, IsFiniteSet(S), NEW k, NEW T \in SUBSET (S \cup {k})
    PROVE  Cardinality(T) <= Cardinality(S) + 1 /\ Cardinality(T) \in Nat
<1>1. /\ IsFiniteSet(S \cup {k}) /\ Cardinality(S) \in Nat /\ Cardinality(S \cup {k}) \in Nat
      /\ Cardinality(S \cup {k}) <= Cardinality(S) + 1
  <2>1. IsFiniteSet(S \cup {k}) /\ Cardinality(S) \in Nat
    BY FS_AddElement, FS_CardinalityType
  <2>2. \/ Cardinality(S \cup {k}) = Cardinality(S)
        \/ Cardinality(S \cup {k}) = Cardinality(S) + 1
    BY FS_AddElement
  <2> QED
    BY <2>1, <2>2
<1>2. Cardinality(T) <= Cardinality(S \cup {k}) /\ Cardinality(T) \in Nat
  BY <1>1, FS_Subset, FS_CardinalityType
<1> QED
  BY <1>1, <1>2

\* One typed thread more leaves the threads typed and finitely many.
LEMMA JobsChange ==
    ASSUME PoolInv, NEW k \in Job, jobs' \subseteq jobs \cup {k},
           k.on = "minio" => k.request \in Probe, k.on = "nothing" => k.request \in Health
    PROVE  jobs' \subseteq Job /\ IsFiniteSet(jobs') /\ JobsFit'
<1>1. jobs \subseteq Job /\ IsFiniteSet(jobs) /\ JobsFit
  BY JobsTyped DEF PoolInv
<1>2. IsFiniteSet(jobs \cup {k})
  BY <1>1, FS_AddElement
<1>3. IsFiniteSet(jobs')
  BY <1>2, FS_Subset
<1> QED
  BY <1>1, <1>3 DEF JobsFit

\* So does any number less.
LEMMA JobsLeave ==
    ASSUME PoolInv, jobs' \subseteq jobs
    PROVE  jobs' \subseteq Job /\ IsFiniteSet(jobs') /\ JobsFit'
BY JobsTyped, FS_Subset DEF PoolInv, JobsFit

\* No connection was handed out, and none came back.
LEMMA PoolRests ==
    ASSUME PoolInv, Connected' \subseteq Connected, idle' = idle PROVE PoolBound'
<1>1. Cardinality(Connected') <= Cardinality(Connected) /\ Cardinality(Connected') \in Nat
  BY JobsTyped, FS_Subset, FS_CardinalityType
<1> QED
  BY <1>1, JobsTyped DEF PoolBound

\* A job with a new stage.
LEMMA Advances ==
    ASSUME PoolInv, NEW j \in jobs, NEW stage \in Stages, jobs' = Advanced(j, stage)
    PROVE  LET k == [j EXCEPT !.stage = stage] IN
           /\ jobs' = (jobs \ {j}) \cup {k}
           /\ k \in Job /\ k.request = j.request /\ k.on = j.on /\ k.stage = stage
           /\ jobs' \subseteq Job /\ IsFiniteSet(jobs') /\ JobsFit'
<1>1. PICK k : k = [j EXCEPT !.stage = stage]
  OBVIOUS
<1>2. j \in Job
  BY JobsTyped
<1>3. k \in Job /\ k.request = j.request /\ k.on = j.on /\ k.stage = stage
  BY <1>1, <1>2 DEF Job
<1>4. jobs' = (jobs \ {j}) \cup {k}
  BY <1>1 DEF Advanced
<1>5. jobs' \subseteq Job /\ IsFiniteSet(jobs') /\ JobsFit'
  BY <1>3, <1>4, JobsChange, JobsTyped
<1> QED
  BY <1>1, <1>3, <1>4, <1>5

\* A call that is handed to a thread is typed and waits.
LEMMA QueuedTyped ==
    ASSUME NEW r \in Request, NEW d \in {"postgres", "minio", "nothing"}
    PROVE  /\ Queued(r, d) \in Job
           /\ Queued(r, d).request = r /\ Queued(r, d).on = d /\ Queued(r, d).stage = "queued"
BY DEF Queued, Job, Stages

ApiFacts ==
    /\ service \in Service /\ frozen \subseteq Dependency /\ freezes \in 0..MaxFreezes
    /\ RequestsTyped /\ PoolBound /\ jobs \subseteq Job /\ IsFiniteSet(jobs) /\ JobsFit

\* The invariant implies the part of it that steps are shown to keep.
LEMMA KnownFacts == ASSUME PoolInv PROVE ApiFacts
BY JobsTyped DEF ApiFacts, PoolInv, TypeOK, ApiTypeOK

\* Threads that start, and connections that are handed out.
LEMMA StartStep == ASSUME PoolInv, NEW j \in jobs, Start(j) PROVE ApiFacts'
<1>1. /\ jobs' = Advanced(j, "started") /\ j.stage = "queued" /\ idle' = idle
      /\ UNCHANGED <<service, frozen, freezes, at, ready, answer>>
  BY DEF Start, Unasked
<1>2. PICK k : /\ jobs' = (jobs \ {j}) \cup {k} /\ k.stage = "started"
               /\ jobs' \subseteq Job /\ IsFiniteSet(jobs') /\ JobsFit'
  BY <1>1, Advances DEF Stages
<1>3. Connected' \subseteq Connected
  BY <1>2 DEF Connected
<1> QED
  BY <1>1, <1>2, <1>3, PoolRests, KnownFacts DEF ApiFacts, RequestsTyped

\* A connection that was idle is counted as connected instead.
LEMMA TakeIdleStep == ASSUME PoolInv, NEW j \in jobs, TakeIdle(j) PROVE ApiFacts'
<1>1. /\ jobs' = Advanced(j, "connected") /\ idle > 0 /\ idle' = idle - 1
      /\ UNCHANGED <<service, frozen, freezes, at, ready, answer>>
  BY DEF TakeIdle, Unasked
<1>2. PICK k : /\ jobs' = (jobs \ {j}) \cup {k}
               /\ jobs' \subseteq Job /\ IsFiniteSet(jobs') /\ JobsFit'
  BY <1>1, Advances DEF Stages
<1>3. Connected' \subseteq Connected \cup {k}
  BY <1>2 DEF Connected
<1>4. Cardinality(Connected') <= Cardinality(Connected) + 1 /\ Cardinality(Connected') \in Nat
  BY <1>3, JobsTyped, MoreByOne
<1>5. PoolBound'
  BY <1>1, <1>4, JobsTyped DEF PoolBound
<1> QED
  BY <1>1, <1>2, <1>5, KnownFacts DEF ApiFacts, RequestsTyped

\* A connection is opened only while there are fewer than the pool allows.
LEMMA ConnectStep == ASSUME PoolInv, NEW j \in jobs, Connect(j) PROVE ApiFacts'
<1>1. /\ jobs' = Advanced(j, "connected") /\ idle' = idle /\ ~PoolExhausted
      /\ UNCHANGED <<service, frozen, freezes, at, ready, answer>>
  BY DEF Connect, Unasked
<1>2. PICK k : /\ jobs' = (jobs \ {j}) \cup {k}
               /\ jobs' \subseteq Job /\ IsFiniteSet(jobs') /\ JobsFit'
  BY <1>1, Advances DEF Stages
<1>3. Connected' \subseteq Connected \cup {k}
  BY <1>2 DEF Connected
<1>4. Cardinality(Connected') <= Cardinality(Connected) + 1 /\ Cardinality(Connected') \in Nat
  BY <1>3, JobsTyped, MoreByOne
<1>5. PoolBound'
  <2>1. idle + Cardinality(Connected) # PoolSize + MaxOverflow
    BY <1>1 DEF PoolExhausted
  <2> QED
    BY <1>1, <1>4, <2>1, JobsTyped DEF PoolBound
<1> QED
  BY <1>1, <1>2, <1>5, KnownFacts DEF ApiFacts, RequestsTyped

\* A search's second statement runs on the same connection.
LEMMA CountPool == ASSUME PoolInv, NEW j \in jobs, Count(j) PROVE ApiFacts'
<1>1. /\ jobs' = Advanced(j, "counted") /\ idle' = idle /\ j.stage = "connected"
      /\ UNCHANGED <<service, frozen, freezes, at, ready, answer>>
  BY DEF Count, Unasked
<1>2. PICK k : /\ jobs' = (jobs \ {j}) \cup {k}
               /\ jobs' \subseteq Job /\ IsFiniteSet(jobs') /\ JobsFit'
  BY <1>1, Advances DEF Stages
<1>3. Connected' \subseteq (Connected \ {j}) \cup {k} /\ j \in Connected
  BY <1>1, <1>2 DEF Connected
<1>4. Cardinality(Connected') <= Cardinality(Connected) /\ Cardinality(Connected') \in Nat
  BY <1>3, JobsTyped, Counts
<1>5. PoolBound'
  BY <1>1, <1>4, JobsTyped DEF PoolBound
<1> QED
  BY <1>1, <1>2, <1>5, KnownFacts DEF ApiFacts, RequestsTyped

\* Calls that end, and probes that go on.
LEMMA EndStep ==
    ASSUME PoolInv, NEW j \in jobs, NEW code \in {200, 404, 422, 500}, JobEnds(j, code),
           idle' = idle \/ (j.stage \in {"connected", "counted"} /\ idle' = Returned)
    PROVE  ApiFacts'
<1>1. /\ RequestsTyped' /\ UNCHANGED <<service, frozen, freezes>>
      /\ jobs' \subseteq (jobs \ {j}) \cup {Queued(j.request, "minio")}
      /\ j.request \notin Probe => jobs' = jobs \ {j}
  BY Ends, EndOfOther
<1>2. /\ Queued(j.request, "minio") \in Job
      /\ Queued(j.request, "minio").request = j.request
      /\ Queued(j.request, "minio").on = "minio" /\ Queued(j.request, "minio").stage = "queued"
  BY QueuedTyped, JobsTyped
<1>3. jobs' \subseteq Job /\ IsFiniteSet(jobs') /\ JobsFit'
  <2>1. CASE j.request \in Probe
    <3>1. jobs' \subseteq jobs \cup {Queued(j.request, "minio")}
      BY <1>1
    <3>2. PICK k \in Job : k = Queued(j.request, "minio")
      BY <1>2
    <3> QED
      BY <2>1, <1>2, <3>1, <3>2, JobsChange
  <2>2. CASE j.request \notin Probe
    <3>1. jobs' \subseteq jobs
      BY <1>1, <2>2
    <3> QED
      BY <3>1, JobsLeave
  <2> QED
    BY <2>1, <2>2
<1>4. Connected' \subseteq Connected \ {j}
  BY <1>1, <1>2 DEF Connected
<1>5. PoolBound'
  <2>1. CASE idle' = idle
    BY <1>4, <2>1, PoolRests
  <2>2. CASE j.stage \in {"connected", "counted"} /\ idle' = Returned
    <3>1. j \in Connected
      BY <2>2 DEF Connected
    <3>2. /\ Cardinality(Connected') <= Cardinality(Connected) - 1
          /\ Cardinality(Connected') \in Nat /\ Cardinality(Connected) \in Nat
      <4>1. IsFiniteSet(Connected)
        BY JobsTyped
      <4> QED
        BY <1>4, <3>1, <4>1, Counts, Zenon
    <3>3. idle \in 0..PoolSize /\ idle + Cardinality(Connected) <= PoolSize + MaxOverflow
      BY JobsTyped DEF PoolBound
    <3>4. idle' \in 0..PoolSize /\ idle' <= idle + 1
      BY <2>2, <3>3 DEF Returned
    <3>5. idle' + Cardinality(Connected') <= PoolSize + MaxOverflow
      BY <3>2, <3>3, <3>4
    <3> QED
      BY <3>4, <3>5 DEF PoolBound
  <2> QED
    BY <2>1, <2>2
<1> QED
  BY <1>1, <1>3, <1>5, KnownFacts DEF ApiFacts

\* A verdict on a probe holds no connection.
LEMMA VerdictStep ==
    ASSUME PoolInv, NEW r \in Probe, NEW d \in Dependency, NEW found \in SUBSET Dependency,
           NEW others \in SUBSET jobs, Verdict(r, d, found, others),
           UNCHANGED <<service, frozen, freezes, idle>>
    PROVE  ApiFacts'
<1>1. RequestsTyped' /\ jobs' \subseteq others \cup {Queued(r, "minio")}
  BY Verdicts
<1>2. PICK k \in Job : k = Queued(r, "minio") /\ k.request = r /\ k.stage = "queued"
  BY QueuedTyped, KindsOfRequests
<1>3. jobs' \subseteq Job /\ IsFiniteSet(jobs') /\ JobsFit'
  <2>1. jobs' \subseteq jobs \cup {k}
    BY <1>1, <1>2
  <2>2. k.on = "minio"
    BY <1>2, QueuedTyped, KindsOfRequests
  <2> QED
    BY <1>2, <2>1, <2>2, JobsChange
<1>4. Connected' \subseteq Connected
  BY <1>1, <1>2 DEF Connected
<1>5. PoolBound'
  BY <1>4, PoolRests
<1> QED
  BY <1>1, <1>3, <1>5, KnownFacts DEF ApiFacts

-----------------------------------------------------------------------------
(* The kinds of steps. *)

ThreadMoves(j) == (Start(j) \/ TakeIdle(j) \/ Connect(j)) /\ UNCHANGED searchVars

\* A probe has the verdict of one check: it finds ready what it did, or what replies.
ProbeMoves(r, found) ==
    /\ \E d \in Dependency, others \in SUBSET jobs : Verdict(r, d, found, others)
    /\ found \subseteq ready[r] \cup (Dependency \ frozen)
    /\ UNCHANGED <<service, frozen, freezes, idle>> /\ UNCHANGED searchVars

\* A call ends that read no page.
CallEnds(j, code) ==
    /\ JobEnds(j, code)
    /\ idle' = idle \/ (j.stage \in {"connected", "counted"} /\ idle' = Returned)
    /\ j.request \in Probe /\ code = 200 => PostgisReplies
    /\ j.request \in Page => code # 200
    /\ UNCHANGED searchVars

DependencyMoves ==
    /\ frozen' \subseteq Dependency /\ freezes' \in 0..MaxFreezes
    /\ UNCHANGED <<service, at, ready, answer, jobs, idle>> /\ UNCHANGED searchVars

\* A check that is given up, or of MinIO or NATS, finds ready only what replies.
LEMMA ProbeKinds ==
    ASSUME PoolInv, UNCHANGED searchVars,
           \/ \E j \in jobs : GiveUp(j) \/ CheckStorage(j)
           \/ \E r \in Probe : CheckMessaging(r)
    PROVE  \E r \in Probe, found \in SUBSET Dependency : ProbeMoves(r, found)
<1>1. ASSUME NEW r \in Probe, NEW d \in Dependency, NEW found, NEW others \in SUBSET jobs,
             Verdict(r, d, found, others), found \subseteq ready[r] \cup (Dependency \ frozen),
             UNCHANGED <<service, frozen, freezes, idle>>
      PROVE  \E q \in Probe, ok \in SUBSET Dependency : ProbeMoves(q, ok)
  <2>1. ready[r] \subseteq Dependency
    BY JobsTyped DEF RequestsTyped
  <2>2. found \in SUBSET Dependency
    BY <1>1, <2>1
  <2>3. ProbeMoves(r, found)
    BY <1>1 DEF ProbeMoves
  <2> QED
    BY <2>2, <2>3
<1>2. ASSUME NEW j \in jobs, GiveUp(j)
      PROVE  \E r \in Probe, ok \in SUBSET Dependency : ProbeMoves(r, ok)
  <2>1. j.request \in Probe /\ UNCHANGED <<service, frozen, freezes, idle>>
    BY <1>2 DEF GiveUp
  <2>2. j.on \in Dependency
    <3>1. j.on = "postgres" \/ j.on = "minio" \/ j.on = "nothing"
      BY JobsTyped
    <3>2. j.on # "nothing"
      BY <2>1, JobsTyped, KindsOfRequests
    <3> QED
      BY <3>1, <3>2 DEF Dependency
  <2>3. PICK others \in SUBSET jobs : others = IF j.stage = "queued" THEN jobs \ {j} ELSE jobs
    OBVIOUS
  <2>4. Verdict(j.request, j.on, ready[j.request], others)
    BY <1>2, <2>3 DEF GiveUp
  <2> QED
    BY <2>1, <2>2, <2>4, <1>1
<1>3. ASSUME NEW j \in jobs, CheckStorage(j)
      PROVE  \E r \in Probe, ok \in SUBSET Dependency : ProbeMoves(r, ok)
  <2>1. j.request \in Probe
    BY <1>3, JobsTyped DEF CheckStorage
  <2>2. PICK found : found = ready[j.request] \cup ({"minio"} \ frozen)
    OBVIOUS
  <2>3. PICK others \in SUBSET jobs : others = jobs \ {j}
    OBVIOUS
  <2>4. Verdict(j.request, "minio", found, others) /\ UNCHANGED <<service, frozen, freezes, idle>>
    BY <1>3, <2>2, <2>3 DEF CheckStorage
  <2>5. "minio" \in Dependency
    BY DEF Dependency
  <2>6. found \subseteq ready[j.request] \cup (Dependency \ frozen)
    BY <2>2, <2>5
  <2> QED
    BY <2>1, <2>4, <2>5, <2>6, <1>1
<1>4. ASSUME NEW r \in Probe, CheckMessaging(r)
      PROVE  \E q \in Probe, ok \in SUBSET Dependency : ProbeMoves(q, ok)
  <2>1. PICK found : found = ready[r] \cup ({"nats"} \ frozen)
    OBVIOUS
  <2>2. Verdict(r, "nats", found, jobs) /\ UNCHANGED <<service, frozen, freezes, idle>>
    BY <1>4, <2>1 DEF CheckMessaging
  <2>3. "nats" \in Dependency /\ jobs \in SUBSET jobs
    BY DEF Dependency
  <2>4. found \subseteq ready[r] \cup (Dependency \ frozen)
    BY <2>1, <2>3
  <2> QED
    BY <2>2, <2>3, <2>4, <1>1
<1> QED
  BY <1>2, <1>3, <1>4

\* A call that ends without reading a page answers no page with 200.
LEMMA EndKinds ==
    ASSUME PoolInv, NEW j \in jobs,
           \/ /\ ConnectTimesOut(j) \/ CheckoutTimesOut(j) \/ CheckDatabase(j) \/ SayHealthy(j)
              /\ UNCHANGED searchVars
           \/ Refuse(j) \/ LookUp(j) \/ LookUpRow(j)
    PROVE  \E code \in {200, 404, 422, 500} : CallEnds(j, code)
<1>1. CASE ConnectTimesOut(j) /\ UNCHANGED searchVars
  BY <1>1 DEF ConnectTimesOut, CallEnds
<1>2. CASE CheckoutTimesOut(j) /\ UNCHANGED searchVars
  BY <1>2 DEF CheckoutTimesOut, CallEnds
<1>3. CASE CheckDatabase(j) /\ UNCHANGED searchVars
  BY <1>3, KindsOfRequests DEF CheckDatabase, Replies, CallEnds
<1>4. CASE SayHealthy(j) /\ UNCHANGED searchVars
  <2>1. j.request \in Health /\ j.request \notin Probe /\ j.request \notin Page
    BY <1>4, JobsTyped, KindsOfRequests DEF SayHealthy
  <2> QED
    BY <1>4, <2>1 DEF SayHealthy, CallEnds
<1>5. CASE Refuse(j)
  BY <1>5 DEF Refuse, CallEnds, searchVars
<1>6. CASE LookUp(j) \/ LookUpRow(j)
  <2>1. j.request \notin Page /\ UNCHANGED searchVars
    BY <1>6, KindsOfRequests DEF LookUp, LookUpRow
  <2>2. PICK code \in {200, 404} : Replies(j, code)
    BY <1>6 DEF LookUp, LookUpRow
  <2> QED
    BY <2>1, <2>2 DEF Replies, CallEnds
<1> QED
  BY <1>1, <1>2, <1>3, <1>4, <1>5, <1>6

\* Every step is of one of these kinds.
LEMMA Kinds ==
    ASSUME PoolInv, Next
    PROVE  \/ \E r \in Request : Ask(r)
           \/ \E j \in jobs : ThreadMoves(j)
           \/ \E r \in Probe, found \in SUBSET Dependency : ProbeMoves(r, found)
           \/ \E j \in jobs, code \in {200, 404, 422, 500} : CallEnds(j, code)
           \/ \E j \in jobs : Count(j) \/ ReadPage(j)
           \/ DependencyMoves
           \/ \E s \in Scene : Change(s)
<1>1. CASE Progress
  <2>1. CASE Proceed /\ UNCHANGED searchVars
    <3>1. CASE \E j \in jobs : Start(j) \/ TakeIdle(j) \/ Connect(j)
      BY <2>1, <3>1 DEF ThreadMoves
    <3>2. CASE \/ \E j \in jobs : GiveUp(j) \/ CheckStorage(j)
               \/ \E r \in Probe : CheckMessaging(r)
      BY <2>1, <3>2, ProbeKinds
    <3>3. CASE \E j \in jobs : \/ ConnectTimesOut(j) \/ CheckoutTimesOut(j)
                               \/ CheckDatabase(j) \/ SayHealthy(j)
      BY <2>1, <3>3, EndKinds
    <3> QED
      BY <2>1, <3>1, <3>2, <3>3 DEF Proceed
  <2>2. CASE \E j \in jobs : Read(j)
    BY <2>2, EndKinds DEF Read
  <2> QED
    BY <1>1, <2>1, <2>2 DEF Progress
<1>2. CASE \E j \in jobs : Refuse(j)
  BY <1>2, EndKinds
<1>3. CASE Surroundings /\ UNCHANGED searchVars
  <2>1. PICK d \in Dependency : Freeze(d) \/ Thaw(d)
    BY <1>3 DEF Surroundings
  <2>2. frozen \subseteq Dependency /\ freezes \in 0..MaxFreezes
    BY KnownFacts DEF ApiFacts
  <2> QED
    BY <1>3, <2>1, <2>2 DEF Freeze, Thaw, DependencyMoves
<1> QED
  BY <1>1, <1>2, <1>3 DEF Next

-----------------------------------------------------------------------------
(* Each kind of step keeps the types and the pool. *)

\* A request that is sent holds no connection yet.
LEMMA AskPool == ASSUME PoolInv, NEW r \in Request, Ask(r) PROVE ApiFacts'
<1>1. /\ at' = [at EXCEPT ![r] = IF r \in Probe THEN "postgres" ELSE "waiting"]
      /\ jobs' = jobs \cup {Queued(r, IF r \in Health THEN "nothing" ELSE "postgres")}
      /\ UNCHANGED <<service, frozen, freezes, ready, answer, idle>>
  BY DEF Ask, Send
<1>2. RequestsTyped'
  BY <1>1, JobsTyped DEF RequestsTyped, Dependency
<1>3. PICK k \in Job : /\ jobs' = jobs \cup {k} /\ k.stage = "queued" /\ k.on # "minio"
                       /\ k.on = "nothing" => k.request \in Health
  <2>1. CASE r \in Health
    <3>1. jobs' = jobs \cup {Queued(r, "nothing")}
      BY <1>1, <2>1
    <3> QED
      BY <2>1, <3>1, QueuedTyped
  <2>2. CASE r \notin Health
    <3>1. jobs' = jobs \cup {Queued(r, "postgres")}
      BY <1>1, <2>2
    <3> QED
      BY <3>1, QueuedTyped
  <2> QED
    BY <2>1, <2>2
<1>4. jobs' \subseteq Job /\ IsFiniteSet(jobs') /\ JobsFit'
  BY <1>3, JobsChange
<1>5. PoolBound'
  <2>1. Connected' \subseteq Connected
    BY <1>3 DEF Connected
  <2> QED
    BY <1>1, <2>1, PoolRests
<1> QED
  BY <1>1, <1>2, <1>4, <1>5, KnownFacts DEF ApiFacts

\* Every step keeps requests and threads typed and the pool within its bound,
LEMMA ApiStep == ASSUME PoolInv, Next PROVE ApiFacts'
<1>1. ASSUME NEW j \in jobs, ThreadMoves(j) PROVE ApiFacts'
  BY <1>1, StartStep, TakeIdleStep, ConnectStep DEF ThreadMoves
<1>2. ASSUME NEW r \in Probe, NEW found \in SUBSET Dependency, ProbeMoves(r, found)
      PROVE  ApiFacts'
  BY <1>2, VerdictStep DEF ProbeMoves
<1>3. ASSUME NEW j \in jobs, NEW code \in {200, 404, 422, 500}, CallEnds(j, code) PROVE ApiFacts'
  BY <1>3, EndStep DEF CallEnds
<1>4. ASSUME NEW j \in jobs, ReadPage(j) PROVE ApiFacts'
  <2>1. /\ JobEnds(j, 200) /\ j.stage \in {"connected", "counted"} /\ idle' = Returned
    BY <1>4 DEF ReadPage, Replies
  <2> QED
    BY <2>1, EndStep
<1>5. CASE DependencyMoves
  <2>1. JobsFit' /\ RequestsTyped' /\ PoolBound'
    BY <1>5, KnownFacts DEF DependencyMoves, ApiFacts, JobsFit, RequestsTyped, PoolBound,
         Connected
  <2> QED
    BY <1>5, <2>1, KnownFacts DEF DependencyMoves, ApiFacts
<1>6. ASSUME NEW s \in Scene, Change(s) PROVE ApiFacts'
  <2>1. JobsFit' /\ RequestsTyped' /\ PoolBound'
    BY <1>6, KnownFacts
       DEF Change, apiVars, ApiFacts, JobsFit, RequestsTyped, PoolBound, Connected
  <2> QED
    BY <1>6, <2>1, KnownFacts DEF Change, apiVars, ApiFacts
<1> QED
  BY <1>1, <1>2, <1>3, <1>4, <1>5, <1>6, AskPool, CountPool, Kinds

SearchTyped ==
    /\ accepted \subseteq Scene /\ changes \in 0..MaxChanges
    /\ total \in [Page -> 0..NumScenes] /\ items \in [Page -> SUBSET Scene]
    /\ steady \subseteq accepted /\ entered \subseteq Scene /\ left \subseteq Scene

\* the scenes and pages typed,
LEMMA SearchStep == ASSUME PoolInv, Next PROVE SearchTyped'
<1>1. SearchTyped
  BY DEF PoolInv, TypeOK, SearchTyped
<1>2. CASE UNCHANGED searchVars
  BY <1>1, <1>2 DEF SearchTyped, searchVars
<1>3. ASSUME NEW j \in jobs, Count(j) PROVE SearchTyped'
  <2>1. Cardinality(accepted) \in 0..NumScenes
    BY <1>1, SceneSets DEF SearchTyped
  <2> QED
    BY <1>1, <1>3, <2>1 DEF SearchTyped, Count
<1>4. ASSUME NEW j \in jobs, ReadPage(j) PROVE SearchTyped'
  <2>1. Slice(accepted, j.request) \in SUBSET Scene
    BY <1>1 DEF SearchTyped, Slice
  <2> QED
    BY <1>1, <1>4, <2>1 DEF SearchTyped, ReadPage
<1>5. ASSUME NEW s \in Scene, Change(s) PROVE SearchTyped'
  <2>1. /\ changes' = changes + 1 /\ changes < MaxChanges /\ UNCHANGED <<total, items>>
        /\ accepted' = IF s \in accepted THEN accepted \ {s} ELSE accepted \cup {s}
    BY <1>5 DEF Change
  <2>2. accepted' \subseteq Scene /\ changes' \in 0..MaxChanges
    BY <1>1, <2>1 DEF SearchTyped
  <2>3. steady' \subseteq accepted' /\ entered' \subseteq Scene /\ left' \subseteq Scene
    BY <1>1, <1>5, <2>2 DEF SearchTyped, Change
  <2> QED
    BY <1>1, <2>1, <2>2, <2>3 DEF SearchTyped
<1> QED
  BY <1>2, <1>3, <1>4, <1>5, Kinds DEF Ask, ThreadMoves, ProbeMoves, CallEnds, DependencyMoves

\* and what has been seen.
LEMMA SeenStep ==
    ASSUME Watch, frozen' \subseteq Dependency, seen \in [Probe -> SUBSET Dependency]
    PROVE  seen' \in [Probe -> SUBSET Dependency]
BY DEF Watch

\* Types and the bound of the pool are inductive.
LEMMA PoolStep == PoolInv /\ [Next]_vars => PoolInv'
<1> SUFFICES ASSUME PoolInv, [Next]_vars PROVE PoolInv'
  OBVIOUS
<1>1. CASE Next
  <2>1. ApiFacts' /\ SearchTyped'
    BY <1>1, ApiStep, SearchStep
  <2>2. seen' \in [Probe -> SUBSET Dependency]
    <3>1. Watch /\ frozen' \subseteq Dependency /\ seen \in [Probe -> SUBSET Dependency]
      BY <1>1, <2>1 DEF Next, ApiFacts, PoolInv, TypeOK, ApiTypeOK
    <3> QED
      BY <3>1, SeenStep
  <2>3. ApiTypeOK'
    BY <2>1, <2>2 DEF ApiFacts, ApiTypeOK, RequestsTyped, PoolBound, Connected
  <2> QED
    BY <2>1, <2>3 DEF PoolInv, TypeOK, ApiFacts, SearchTyped
<1>2. CASE UNCHANGED vars
  BY <1>2 DEF vars, apiVars, searchVars, PoolInv, TypeOK, ApiTypeOK, JobsFit
<1> QED
  BY <1>1, <1>2

-----------------------------------------------------------------------------
(* Readiness. *)

\* Every step leaves the service alone, and what has been seen since a probe was sent grows.
LEMMA SeenGrows ==
    ASSUME PoolInv, Next, NEW r \in Probe, at'[r] # "new"
    PROVE  /\ service' = service /\ Dependencies' = Dependencies
           /\ seen'[r] = seen[r] \cup (Dependency \ frozen')
<1>1. seen'[r] = seen[r] \cup (Dependency \ frozen')
  BY DEF Next, Watch
<1>2. service' = service
  <2>1. ASSUME NEW j \in jobs, ThreadMoves(j) PROVE service' = service
    BY <2>1 DEF ThreadMoves, Start, TakeIdle, Connect, Unasked
  <2>2. ASSUME NEW j \in jobs, Count(j) \/ ReadPage(j) PROVE service' = service
    BY <2>2 DEF Count, ReadPage, Unasked, Replies, JobEnds
  <2>3. ASSUME NEW s \in Scene, Change(s) PROVE service' = service
    BY <2>3 DEF Change, apiVars
  <2>4. ASSUME NEW q \in Request, Ask(q) PROVE service' = service
    BY <2>4 DEF Ask, Send
  <2>5. ASSUME NEW j \in jobs, NEW code \in {200, 404, 422, 500}, CallEnds(j, code)
        PROVE  service' = service
    BY <2>5, Ends DEF CallEnds
  <2> QED
    BY <2>1, <2>2, <2>3, <2>4, <2>5, Kinds DEF ProbeMoves, DependencyMoves
<1> QED
  BY <1>1, <1>2 DEF Dependencies

ProbeFits(r) ==
    /\ ready[r] \subseteq seen[r]
    /\ at[r] = "new" => ready[r] = {} /\ answer[r] = 0
    /\ answer[r] = 200 => Dependencies \subseteq seen[r]

\* The invariant of readiness speaks of each probe on its own.
LEMMA ProbesFit == ProbeInv <=> \A r \in Probe : ProbeFits(r)
BY DEF ProbeInv, FoundHasReplied, ReadyIsTruthful, ProbeFits

\* A probe that learns nothing keeps it,
LEMMA ProbeRests ==
    ASSUME PoolInv, Next, NEW r \in Probe, ProbeFits(r), ready'[r] = ready[r],
           answer'[r] = answer[r], at'[r] = "new" => at[r] = "new"
    PROVE  ProbeFits(r)'
<1>1. CASE at'[r] = "new"
  BY <1>1 DEF ProbeFits
<1>2. CASE at'[r] # "new"
  <2>1. Dependencies' = Dependencies /\ seen[r] \subseteq seen'[r]
    BY <1>2, SeenGrows
  <2> QED
    BY <1>2, <2>1 DEF ProbeFits
<1> QED
  BY <1>1, <1>2

\* and so does one that has a verdict,
LEMMA ProbeLearns ==
    ASSUME PoolInv, Next, NEW r \in Probe, ProbeFits(r), frozen' = frozen,
           NEW d \in Dependency, NEW found \in SUBSET Dependency, NEW others \in SUBSET jobs,
           Verdict(r, d, found, others), found \subseteq ready[r] \cup (Dependency \ frozen)
    PROVE  ProbeFits(r)'
<1>1. /\ at'[r] # "new" /\ ready'[r] = found
      /\ answer'[r] = answer[r] \/ (answer'[r] = 200 => found = Dependencies)
  <2>1. at'[r] # "new" /\ ready'[r] = found
    BY Verdicts
  <2>2. answer'[r] = answer[r] \/ (answer'[r] = 200 => found = Dependencies)
    BY Verdicts
  <2> QED
    BY <2>1, <2>2
<1>2. Dependencies' = Dependencies /\ seen'[r] = seen[r] \cup (Dependency \ frozen)
  BY <1>1, SeenGrows
<1>3. found \subseteq seen'[r] /\ seen[r] \subseteq seen'[r]
  BY <1>2 DEF ProbeFits
<1> QED
  BY <1>1, <1>2, <1>3 DEF ProbeFits

\* so that a verdict keeps it for all.
LEMMA VerdictFits ==
    ASSUME PoolInv, Next, ProbeInv, NEW q \in Probe, frozen' = frozen,
           NEW d \in Dependency, NEW found \in SUBSET Dependency, NEW others \in SUBSET jobs,
           Verdict(q, d, found, others), found \subseteq ready[q] \cup (Dependency \ frozen)
    PROVE  ProbeInv'
<1>1. ASSUME NEW r \in Probe PROVE ProbeFits(r)'
  <2>1. ProbeFits(r)
    BY ProbesFit
  <2>2. CASE r = q
    BY <2>1, <2>2, ProbeLearns
  <2>3. CASE r # q
    <3>1. at'[r] = at[r] /\ answer'[r] = answer[r] /\ ready'[r] = ready[r]
      BY <2>3, Verdicts
    <3> QED
      BY <2>1, <3>1, ProbeRests
  <2> QED
    BY <2>2, <2>3
<1> QED
  BY <1>1 DEF ProbeInv, FoundHasReplied, ReadyIsTruthful, ProbeFits

\* No probe learns anything, though one may be sent.
LEMMA NoVerdict ==
    ASSUME PoolInv, Next, ProbeInv,
           \A r \in Probe : /\ ready'[r] = ready[r] /\ answer'[r] = answer[r]
                            /\ at'[r] = "new" => at[r] = "new"
    PROVE  ProbeInv'
<1>1. ASSUME NEW r \in Probe PROVE ProbeFits(r)'
  <2>1. ProbeFits(r)
    BY ProbesFit
  <2> QED
    BY <2>1, ProbeRests
<1> QED
  BY <1>1 DEF ProbeInv, FoundHasReplied, ReadyIsTruthful, ProbeFits

\* So does the end of a call: PostGIS is found ready only if it replies.
LEMMA EndFits ==
    ASSUME PoolInv, Next, ProbeInv, NEW j \in jobs, NEW code \in {200, 404, 422, 500},
           JobEnds(j, code), j.request \in Probe /\ code = 200 => PostgisReplies
    PROVE  ProbeInv'
<1>1. CASE j.request \in Probe
  <2>1. CASE jobs' = jobs \ {j} /\ UNCHANGED <<at, ready, answer>>
    BY <2>1, NoVerdict
  <2>2. CASE Verdict(j.request, "postgres", PostgresFound(code), jobs \ {j})
    <3>1. /\ PostgresFound(code) \in SUBSET Dependency /\ "postgres" \in Dependency
          /\ PostgresFound(code) \subseteq Dependency \ frozen
      BY <1>1 DEF PostgresFound, Dependency, PostgisReplies
    <3>2. PICK others \in SUBSET jobs : others = jobs \ {j}
      OBVIOUS
    <3>3. Verdict(j.request, "postgres", PostgresFound(code), others)
      BY <2>2, <3>2
    <3>4. PostgresFound(code) \subseteq ready[j.request] \cup (Dependency \ frozen)
      BY <3>1
    <3>5. frozen' = frozen
      BY Ends
    <3> QED
      BY <1>1, <3>1, <3>3, <3>4, <3>5, VerdictFits
  <2> QED
    BY <1>1, <2>1, <2>2, EndOfProbe
<1>2. CASE j.request \notin Probe
  <2>1. /\ ready' = ready /\ at' = [at EXCEPT ![j.request] = "answered"]
        /\ answer' = [answer EXCEPT ![j.request] = code]
    BY <1>2, EndOfOther
  <2>2. \A r \in Probe : r \in Request /\ r # j.request
    BY <1>2, KindsOfRequests
  <2>3. \A r \in Probe : at'[r] = at[r] /\ answer'[r] = answer[r]
    BY <2>1, <2>2, JobsTyped DEF RequestsTyped
  <2> QED
    BY <2>1, <2>3, NoVerdict
<1> QED
  BY <1>1, <1>2

\* Readiness is inductive on top of types.
LEMMA ProbeStep == PoolInv /\ ProbeInv /\ [Next]_vars => ProbeInv'
<1> SUFFICES ASSUME PoolInv, ProbeInv, [Next]_vars PROVE ProbeInv'
  OBVIOUS
<1>1. CASE Next
  <2>1. ASSUME NEW r \in Request, Ask(r) PROVE ProbeInv'
    <3>1. /\ UNCHANGED <<ready, answer>>
          /\ at' = [at EXCEPT ![r] = IF r \in Probe THEN "postgres" ELSE "waiting"]
      BY <2>1 DEF Ask, Send
    <3>2. \A q \in Probe : at'[q] = "new" => at[q] = "new"
      BY <3>1, JobsTyped, KindsOfRequests DEF RequestsTyped
    <3> QED
      BY <1>1, <3>1, <3>2, NoVerdict
  <2>2. ASSUME NEW j \in jobs, ThreadMoves(j) PROVE ProbeInv'
    BY <1>1, <2>2, NoVerdict DEF ThreadMoves, Start, TakeIdle, Connect, Unasked
  <2>3. ASSUME NEW r \in Probe, NEW found \in SUBSET Dependency, ProbeMoves(r, found)
        PROVE  ProbeInv'
    BY <1>1, <2>3, VerdictFits DEF ProbeMoves
  <2>4. ASSUME NEW j \in jobs, NEW code \in {200, 404, 422, 500}, CallEnds(j, code)
        PROVE  ProbeInv'
    BY <1>1, <2>4, EndFits DEF CallEnds
  <2>5. ASSUME NEW j \in jobs, Count(j) PROVE ProbeInv'
    BY <1>1, <2>5, NoVerdict DEF Count, Unasked
  <2>6. ASSUME NEW j \in jobs, ReadPage(j) PROVE ProbeInv'
    <3>1. JobEnds(j, 200) /\ j.request \notin Probe
      BY <2>6, KindsOfRequests DEF ReadPage, Replies
    <3> QED
      BY <1>1, <3>1, EndFits
  <2>7. CASE DependencyMoves
    BY <1>1, <2>7, NoVerdict DEF DependencyMoves
  <2>8. ASSUME NEW s \in Scene, Change(s) PROVE ProbeInv'
    BY <1>1, <2>8, NoVerdict DEF Change, apiVars
  <2> QED
    BY <1>1, <2>1, <2>2, <2>3, <2>4, <2>5, <2>6, <2>7, <2>8, Kinds
<1>2. CASE UNCHANGED vars
  BY <1>2 DEF vars, apiVars, ProbeInv, FoundHasReplied, ReadyIsTruthful, Dependencies
<1> QED
  BY <1>1, <1>2

-----------------------------------------------------------------------------
(* The walk: what a step does to the pages. *)

PagesStay == \A p \in Page : at'[p] = at[p] /\ answer'[p] = answer[p]

\* No page moves, though a thread may.
WalkRests ==
    /\ PagesStay /\ UNCHANGED searchVars
    /\ \/ PageJobs' \subseteq PageJobs
       \/ \E j \in PageJobs : \E k :
                                 /\ PageJobs' = (PageJobs \ {j}) \cup {k}
                                 /\ k.request = j.request /\ k.stage # "counted"

\* A page is answered without having been read.
PageFails(j) ==
    /\ PageJobs' \subseteq PageJobs \ {j} /\ UNCHANGED searchVars
    /\ at' = [at EXCEPT ![j.request] = "answered"]
    /\ answer'[j.request] # 200
    /\ \A p \in Page \ {j.request} : answer'[p] = answer[p]

\* A thread that goes on moves no page,
LEMMA ThreadRests == ASSUME PoolInv, NEW j \in jobs, ThreadMoves(j) PROVE WalkRests
<1>1. PICK stage \in {"started", "connected"} :
          jobs' = Advanced(j, stage) /\ UNCHANGED <<at, answer>> /\ UNCHANGED searchVars
  BY DEF ThreadMoves, Start, TakeIdle, Connect, Unasked
<1>3. PICK k : /\ jobs' = (jobs \ {j}) \cup {k}
               /\ k.request = j.request /\ k.stage = stage
  <2>1. PICK k : k = [j EXCEPT !.stage = stage]
    OBVIOUS
  <2>2. jobs' = (jobs \ {j}) \cup {k}
    BY <1>1, <2>1 DEF Advanced
  <2>3. k.request = j.request /\ k.stage = stage
    BY <2>1, JobsTyped DEF Job
  <2> QED
    BY <2>2, <2>3
<1>4. CASE j.request \in Page
  <2>1. PageJobs' = (PageJobs \ {j}) \cup {k} /\ j \in PageJobs
    BY <1>3, <1>4 DEF PageJobs
  <2>2. k.stage # "counted"
    BY <1>3
  <2> QED
    BY <1>1, <1>3, <2>1, <2>2 DEF WalkRests, PagesStay
<1>5. CASE j.request \notin Page
  <2>1. PageJobs' \subseteq PageJobs
    BY <1>3, <1>5 DEF PageJobs
  <2> QED
    BY <1>1, <2>1 DEF WalkRests, PagesStay
<1> QED
  BY <1>4, <1>5

\* and no verdict does.
LEMMA ProbeLeavesPages ==
    ASSUME PoolInv, UNCHANGED searchVars, NEW r \in Probe, NEW d \in Dependency,
           NEW found \in SUBSET Dependency, NEW others \in SUBSET jobs,
           Verdict(r, d, found, others)
    PROVE  WalkRests
<1>1. jobs' \subseteq others \cup {Queued(r, "minio")}
  BY Verdicts
<1>2. PagesStay
  BY Verdicts DEF PagesStay
<1>3. Queued(r, "minio").request = r /\ r \notin Page
  BY KindsOfRequests DEF Queued
<1>4. PageJobs' \subseteq PageJobs
  BY <1>1, <1>3 DEF PageJobs
<1> QED
  BY <1>2, <1>4 DEF WalkRests

\* A call that ends without having read a page fails its page, if it had one.
LEMMA EndOfCall ==
    ASSUME PoolInv, NEW j \in jobs, NEW code \in {200, 404, 422, 500}, CallEnds(j, code)
    PROVE  WalkRests \/ (j \in PageJobs /\ PageFails(j))
<1>0. JobEnds(j, code) /\ UNCHANGED searchVars /\ (j.request \in Page => code # 200)
  BY DEF CallEnds
<1>1. CASE j.request \in Probe
  <2>1. CASE jobs' = jobs \ {j} /\ UNCHANGED <<at, ready, answer>>
    BY <1>0, <2>1 DEF WalkRests, PagesStay, PageJobs
  <2>2. CASE Verdict(j.request, "postgres", PostgresFound(code), jobs \ {j})
    <3>1. PostgresFound(code) \in SUBSET Dependency /\ "postgres" \in Dependency
      BY DEF PostgresFound, Dependency
    <3>2. PICK others \in SUBSET jobs : others = jobs \ {j}
      OBVIOUS
    <3>3. Verdict(j.request, "postgres", PostgresFound(code), others)
      BY <2>2, <3>2
    <3> QED
      BY <1>0, <1>1, <3>1, <3>3, ProbeLeavesPages
  <2>3. \/ jobs' = jobs \ {j} /\ UNCHANGED <<at, ready, answer>>
        \/ Verdict(j.request, "postgres", PostgresFound(code), jobs \ {j})
    <3>1. JobEnds(j, code)
      BY <1>0
    <3> QED
      BY <1>1, <3>1, EndOfProbe
  <2> QED
    BY <2>1, <2>2, <2>3
<1>2. CASE j.request \notin Probe
  <2>1. /\ jobs' = jobs \ {j} /\ at' = [at EXCEPT ![j.request] = "answered"]
        /\ answer' = [answer EXCEPT ![j.request] = code]
    BY <1>0, <1>2, EndOfOther
  <2>2. PageJobs' \subseteq PageJobs \ {j}
    BY <2>1 DEF PageJobs
  <2>3. \A p \in Page \ {j.request} : at'[p] = at[p] /\ answer'[p] = answer[p]
    BY <2>1, JobsTyped, KindsOfRequests DEF RequestsTyped
  <2>4. CASE j.request \in Page
    <3>1. answer'[j.request] # 200
      BY <1>0, <2>1, <2>4, JobsTyped DEF RequestsTyped
    <3> QED
      BY <1>0, <2>1, <2>2, <2>3, <2>4, <3>1 DEF PageFails, PageJobs
  <2>5. CASE j.request \notin Page
    BY <1>0, <2>2, <2>3, <2>5 DEF WalkRests, PagesStay
  <2> QED
    BY <2>4, <2>5
<1> QED
  BY <1>1, <1>2

-----------------------------------------------------------------------------
(* The walk: what it has read. *)

\* What was read stays read as long as no page is read and no scene changes.
LEMMA WhatWasRead ==
    ASSUME WalkInv, UNCHANGED <<accepted, items, steady, entered, left>>,
           \A p \in Page : answer'[p] = 200 <=> answer[p] = 200
    PROVE  /\ Walk' = Walk /\ \A p \in Page : Full(p)' = Full(p)
           /\ MissedLieBeyond' /\ ReadLieWithin' /\ OnTwoPages'
<1>1. Walk' = Walk
  BY DEF Walk
<1>2. \A p \in Page : Full(p)' = Full(p)
  BY DEF Full
<1>3. \A p \in Walk : p \in Page
  BY DEF Walk
<1>4. MissedLieBeyond'
  BY <1>1, <1>2, <1>3 DEF WalkInv, MissedLieBeyond, Below
<1>5. ReadLieWithin' /\ OnTwoPages'
  BY <1>1 DEF WalkInv, ReadLieWithin, OnTwoPages, Below
<1> QED
  BY <1>1, <1>2, <1>4, <1>5

\* A step that moves no page keeps the invariant of the walk.
LEMMA RestStep == ASSUME PoolInv, WalkInv, WalkRests PROVE WalkInv'
<1>1. PagesStay /\ UNCHANGED <<accepted, total, items, steady, entered, left>>
  BY DEF WalkRests, searchVars
<1>2. \A p \in Page : at'[p] = at[p] /\ answer'[p] = answer[p]
  BY <1>1 DEF PagesStay
<1>3. /\ Walk' = Walk /\ \A p \in Page : Full(p)' = Full(p)
      /\ MissedLieBeyond' /\ ReadLieWithin' /\ OnTwoPages'
  BY <1>1, <1>2, WhatWasRead
<1>4. PagesInOrder'
  BY <1>1, <1>2, <1>3, PagesAreTyped DEF WalkInv, PagesInOrder, Walk
<1>5. PagesHaveOneThread' /\ CountsStand'
  <2>1. CASE PageJobs' \subseteq PageJobs
    <3>1. PagesHaveOneThread'
      BY <1>2, <2>1 DEF WalkInv, PagesHaveOneThread, PageJobs
    <3>2. CountsStand'
      BY <1>1, <1>3, <2>1 DEF WalkInv, CountsStand
    <3> QED
      BY <3>1, <3>2
  <2>2. ASSUME NEW j \in PageJobs, NEW k, PageJobs' = (PageJobs \ {j}) \cup {k},
               k.request = j.request, k.stage # "counted"
        PROVE  PagesHaveOneThread' /\ CountsStand'
    <3>1. PagesHaveOneThread'
      BY <1>2, <2>2 DEF WalkInv, PagesHaveOneThread, PageJobs
    <3>2. CountsStand'
      BY <1>1, <1>3, <2>2 DEF WalkInv, CountsStand
    <3> QED
      BY <3>1, <3>2
  <2> QED
    BY <2>1, <2>2 DEF WalkRests
<1> QED
  BY <1>3, <1>4, <1>5 DEF WalkInv

\* So does a page that fails: it is not read.
LEMMA FailStep == ASSUME PoolInv, WalkInv, NEW j \in PageJobs, PageFails(j) PROVE WalkInv'
<1> DEFINE p == j.request
<1>1. /\ UNCHANGED <<accepted, total, items, steady, entered, left>>
      /\ PageJobs' \subseteq PageJobs \ {j} /\ at' = [at EXCEPT ![p] = "answered"]
      /\ answer'[p] # 200 /\ \A q \in Page \ {p} : answer'[q] = answer[q]
  BY DEF PageFails, searchVars
<1>2. p \in Page /\ at[p] = "waiting"
  BY DEF WalkInv, PagesHaveOneThread, PageJobs
<1>3. answer[p] # 200
  BY <1>2 DEF WalkInv, PagesInOrder, Walk
<1> HIDE DEF p
<1>4. \A q \in Page : answer'[q] = 200 <=> answer[q] = 200
  BY <1>1, <1>2, <1>3
<1>5. /\ Walk' = Walk /\ \A q \in Page : Full(q)' = Full(q)
      /\ MissedLieBeyond' /\ ReadLieWithin' /\ OnTwoPages'
  BY <1>1, <1>4, WhatWasRead
<1>6. \A q \in Page : at'[q] = IF q = p THEN "answered" ELSE at[q]
  BY <1>1, JobsTyped, KindsOfRequests DEF RequestsTyped
<1>7. PagesInOrder'
  BY <1>1, <1>2, <1>5, <1>6, PagesAreTyped DEF WalkInv, PagesInOrder, Walk
<1>8. PagesHaveOneThread'
  <2>1. ASSUME NEW k \in PageJobs' PROVE at'[k.request] = "waiting"
    <3>1. k \in PageJobs /\ k # j /\ k.request \in Page
      BY <1>1 DEF PageJobs
    <3>2. k.request # p /\ at[k.request] = "waiting"
      BY <3>1 DEF WalkInv, PagesHaveOneThread, p
    <3> QED
      BY <1>6, <3>1, <3>2
  <2>2. \A i, k \in PageJobs' : i.request = k.request => i = k
    BY <1>1 DEF WalkInv, PagesHaveOneThread
  <2> QED
    BY <2>1, <2>2 DEF PagesHaveOneThread
<1>9. CountsStand'
  BY <1>1, <1>5 DEF WalkInv, CountsStand
<1> QED
  BY <1>5, <1>7, <1>8, <1>9 DEF WalkInv

\* So does asking for a page: all earlier ones were full.
LEMMA AskStep == ASSUME PoolInv, WalkInv, NEW r \in Request, Ask(r) PROVE WalkInv'
<1>1. /\ r \in Page \ {1} => Full(r - 1)
      /\ at[r] = "new" /\ at' = [at EXCEPT ![r] = IF r \in Probe THEN "postgres" ELSE "waiting"]
      /\ jobs' = jobs \cup {Queued(r, IF r \in Health THEN "nothing" ELSE "postgres")}
      /\ answer' = answer /\ UNCHANGED searchVars
  BY DEF Ask, Send
<1>2. PICK k : jobs' = jobs \cup {k} /\ k.request = r /\ k.stage = "queued"
  <2>1. PICK d : d = IF r \in Health THEN "nothing" ELSE "postgres"
    OBVIOUS
  <2>2. jobs' = jobs \cup {Queued(r, d)}
    BY <1>1, <2>1
  <2>3. PICK k : k = Queued(r, d)
    OBVIOUS
  <2>4. k.request = r /\ k.stage = "queued"
    BY <2>3 DEF Queued
  <2> QED
    BY <2>2, <2>3, <2>4
<1>3. CASE r \notin Page
  <2>1. PageJobs' \subseteq PageJobs
    BY <1>2, <1>3 DEF PageJobs
  <2>2. PagesStay
    BY <1>1, <1>3, JobsTyped, KindsOfRequests DEF RequestsTyped, PagesStay
  <2> QED
    BY <1>1, <2>1, <2>2, RestStep DEF WalkRests
<1>4. CASE r \in Page
  <2>1. UNCHANGED <<accepted, total, items, steady, entered, left>>
    BY <1>1 DEF searchVars
  <2>2. /\ Walk' = Walk /\ \A q \in Page : Full(q)' = Full(q)
        /\ MissedLieBeyond' /\ ReadLieWithin' /\ OnTwoPages'
    BY <1>1, <2>1, WhatWasRead
  <2>3. \A q \in Page : at'[q] = IF q = r THEN "waiting" ELSE at[q]
    BY <1>1, <1>4, JobsTyped, KindsOfRequests DEF RequestsTyped
  <2>4. r # 1 => r - 1 \in Page /\ Full(r - 1) /\ at[r - 1] # "new"
    <3> SUFFICES ASSUME r # 1 PROVE r - 1 \in Page /\ Full(r - 1) /\ at[r - 1] # "new"
      OBVIOUS
    <3>1. r - 1 \in Page /\ Full(r - 1)
      BY <1>1, <1>4 DEF Page
    <3>2. at[r - 1] = "answered"
      BY <3>1 DEF WalkInv, PagesInOrder, Walk, Full
    <3> QED
      BY <3>1, <3>2
  <2>5. PagesInOrder'
    <3>1. \A p \in Walk' : at'[p] = "answered"
      <4>1. \A p \in Walk : p \in Page /\ p # r /\ at[p] = "answered"
        BY <1>1 DEF WalkInv, PagesInOrder, Walk
      <4> QED
        BY <2>2, <2>3, <4>1
    <3>2. ASSUME NEW p \in Page, at'[p] # "new"
          PROVE  at'[1] # "new" /\ \A q \in Page : q < p => Full(q)
      <4>1. CASE p = r
        <5>1. CASE r = 1
          <6>1. \A q \in Page : ~(q < p)
            BY <4>1, <5>1 DEF Page
          <6> QED
            BY <2>3, <4>1, <5>1, <6>1, PagesAreTyped
        <5>2. CASE r # 1
          <6>1. at[1] # "new" /\ \A q \in Page : q < r - 1 => Full(q)
            BY <2>4, <5>2 DEF WalkInv, PagesInOrder
          <6>2. \A q \in Page : q < r => q < r - 1 \/ q = r - 1
            BY <1>4 DEF Page
          <6> QED
            BY <2>3, <2>4, <4>1, <5>2, <6>1, <6>2, PagesAreTyped
        <5> QED
          BY <5>1, <5>2
      <4>2. CASE p # r
        BY <2>3, <3>2, <4>2, PagesAreTyped DEF WalkInv, PagesInOrder
      <4> QED
        BY <4>1, <4>2
    <3>3. at'[1] = "new" => entered \cup left = {}
      BY <2>3, PagesAreTyped DEF WalkInv, PagesInOrder
    <3>4. at'[1] = "new" => (entered \cup left)' = {}
      BY <2>1, <3>3
    <3>5. \A p \in Page :
              at'[p] # "new" => at'[1] # "new" /\ \A q \in Page : q < p => Full(q)'
      BY <2>2, <3>2
    <3> QED
      BY <3>1, <3>4, <3>5 DEF PagesInOrder
  <2>6. PageJobs' = PageJobs \cup {k} /\ \A j \in PageJobs : j.request # r /\ j.request \in Page
    <3>1. \A j \in PageJobs : at[j.request] = "waiting"
      BY DEF WalkInv, PagesHaveOneThread
    <3> QED
      BY <1>1, <1>2, <1>4, <3>1 DEF PageJobs
  <2>7. PagesHaveOneThread'
    BY <1>2, <1>4, <2>3, <2>6 DEF WalkInv, PagesHaveOneThread
  <2>8. CountsStand'
    BY <1>2, <2>1, <2>2, <2>6 DEF WalkInv, CountsStand
  <2> QED
    BY <2>2, <2>5, <2>7, <2>8 DEF WalkInv
<1> QED
  BY <1>3, <1>4

\* So does counting: if nothing changed, the count is that of the accepted scenes.
LEMMA CountStep == ASSUME PoolInv, WalkInv, NEW j \in jobs, Count(j) PROVE WalkInv'
<1>1. /\ j \in PageJobs /\ j.request \in Page
      /\ total' = [total EXCEPT ![j.request] = Cardinality(accepted)]
      /\ UNCHANGED <<at, answer>> /\ UNCHANGED <<accepted, items, steady, entered, left>>
  BY DEF Count, Unasked, PageJobs
<1>2. PICK k : /\ jobs' = (jobs \ {j}) \cup {k} /\ k.request = j.request
  <2>1. PICK k : k = [j EXCEPT !.stage = "counted"]
    OBVIOUS
  <2>2. jobs' = (jobs \ {j}) \cup {k}
    BY <2>1 DEF Count, Advanced
  <2>3. k.request = j.request
    BY <2>1, JobsTyped DEF Job
  <2> QED
    BY <2>2, <2>3
<1>3. PageJobs' = (PageJobs \ {j}) \cup {k}
  BY <1>1, <1>2 DEF PageJobs
<1>4. /\ Walk' = Walk /\ \A q \in Page : Full(q)' = Full(q)
      /\ MissedLieBeyond' /\ ReadLieWithin' /\ OnTwoPages'
  BY <1>1, WhatWasRead
<1>5. PagesInOrder'
  BY <1>1, <1>4, PagesAreTyped DEF WalkInv, PagesInOrder, Walk
<1>6. PagesHaveOneThread'
  BY <1>1, <1>2, <1>3 DEF WalkInv, PagesHaveOneThread, PageJobs
<1>7. CountsStand'
  <2> SUFFICES ASSUME entered \cup left = {}
               PROVE  /\ steady = accepted
                      /\ \A p \in Walk : total'[p] = Cardinality(steady)
                      /\ \A i \in PageJobs' : i.stage = "counted" =>
                             total'[i.request] = Cardinality(steady)
    BY <1>1, <1>4 DEF CountsStand
  <2>1. /\ steady = accepted /\ \A p \in Walk : total[p] = Cardinality(steady)
        /\ \A i \in PageJobs : i.stage = "counted" => total[i.request] = Cardinality(steady)
    BY DEF WalkInv, CountsStand
  <2>2. \A p \in Page : total'[p] = IF p = j.request THEN Cardinality(steady) ELSE total[p]
    BY <1>1, <2>1 DEF PoolInv, TypeOK
  <2>3. \A i \in PageJobs' : i.request \in Page /\ (i \in PageJobs \/ i.request = j.request)
    BY <1>1, <1>2, <1>3 DEF PageJobs
  <2> QED
    BY <2>1, <2>2, <2>3 DEF Walk
<1> QED
  BY <1>4, <1>5, <1>6, <1>7 DEF WalkInv

\* Reading a page: the one that is asked for last, and all earlier ones are full.
LEMMA ReadPageStep == ASSUME PoolInv, WalkInv, NEW j \in jobs, ReadPage(j) PROVE WalkInv'
<1>1. PICK p \in Page : p = j.request
  BY DEF ReadPage
<1>2. /\ j \in PageJobs /\ j.stage = "counted"
      /\ jobs' = jobs \ {j} /\ at' = [at EXCEPT ![p] = "answered"]
      /\ answer' = [answer EXCEPT ![p] = 200]
      /\ items' = [items EXCEPT ![p] = Slice(accepted, p)]
      /\ UNCHANGED <<accepted, total, steady, entered, left>>
  <2>1. JobEnds(j, 200) /\ j.request \notin Probe
    BY <1>1, KindsOfRequests DEF ReadPage, Replies
  <2>2. /\ jobs' = jobs \ {j} /\ at' = [at EXCEPT ![p] = "answered"]
        /\ answer' = [answer EXCEPT ![p] = 200]
    BY <1>1, <2>1, EndOfOther
  <2> QED
    BY <1>1, <2>2 DEF ReadPage, PageJobs
<1>3. at[p] = "waiting" /\ p \notin Walk
  BY <1>1, <1>2 DEF WalkInv, PagesHaveOneThread, PagesInOrder
<1>4. /\ \A q \in Page : at'[q] = IF q = p THEN "answered" ELSE at[q]
      /\ \A q \in Page : answer'[q] = IF q = p THEN 200 ELSE answer[q]
      /\ \A q \in Page : items'[q] = IF q = p THEN Slice(accepted, p) ELSE items[q]
  <2>1. items \in [Page -> SUBSET Scene] /\ p \in Request
    BY KindsOfRequests DEF PoolInv, TypeOK
  <2> QED
    BY <1>2, <2>1, JobsTyped, KindsOfRequests DEF RequestsTyped
<1>5. Walk' = Walk \cup {p}
  BY <1>4 DEF Walk
<1>6. \A q \in Page : q < p => q \in Walk /\ Full(q)
  BY <1>3 DEF WalkInv, PagesInOrder, Walk, Full
<1>7. \A q \in Walk : q \in Page /\ q # p /\ q < p
  <2>1. ASSUME NEW q \in Walk PROVE q \in Page /\ q # p /\ q < p
    <3>1. q \in Page /\ q # p /\ at[q] # "new"
      BY <1>3 DEF WalkInv, PagesInOrder, Walk
    <3>2. ~(p < q)
      BY <1>3, <3>1 DEF WalkInv, PagesInOrder, Walk, Full
    <3> QED
      BY <3>1, <3>2 DEF Page
  <2> QED
    BY <2>1
<1>8. \A q \in Page \ {p} : Full(q)' = Full(q)
  BY <1>4 DEF Full
<1>9. accepted \in SUBSET Scene /\ steady \subseteq accepted
  BY DEF PoolInv, TypeOK
<1>10. PagesInOrder'
  <2>1. \A q \in Walk' : at'[q] = "answered"
    BY <1>4, <1>5, <1>7 DEF WalkInv, PagesInOrder
  <2>2. ASSUME NEW q \in Page, at'[q] # "new"
        PROVE  at'[1] # "new" /\ \A o \in Page : o < q => Full(o)'
    <3>1. at[q] # "new"
      BY <1>3, <1>4, <2>2
    <3>2. at[1] # "new" /\ \A o \in Page : o < q => Full(o)
      BY <3>1 DEF WalkInv, PagesInOrder
    <3>3. at'[1] # "new"
      BY <1>4, <3>2, PagesAreTyped
    <3>4. ~Full(p)
      BY <1>3 DEF Walk, Full
    <3> QED
      BY <1>8, <3>2, <3>3, <3>4
  <2>3. at'[1] = "new" => (entered \cup left)' = {}
    BY <1>2, <1>4, PagesAreTyped DEF WalkInv, PagesInOrder
  <2> QED
    BY <2>1, <2>2, <2>3 DEF PagesInOrder
<1>11. PagesHaveOneThread'
  <2>1. \A k \in PageJobs' : k \in PageJobs /\ k # j /\ k.request \in Page
    BY <1>2 DEF PageJobs
  <2>2. \A k \in PageJobs' : at'[k.request] = "waiting"
    BY <1>1, <1>2, <1>4, <2>1 DEF WalkInv, PagesHaveOneThread
  <2>3. \A i, k \in PageJobs' : i.request = k.request => i = k
    BY <2>1 DEF WalkInv, PagesHaveOneThread
  <2> QED
    BY <2>2, <2>3 DEF PagesHaveOneThread
<1>12. ASSUME NEW s \in accepted
       PROVE  /\ Below(s) \in Nat /\ Rank(s, accepted) = Below(s) + 1
              /\ s \in Slice(accepted, p) <=>
                     (p - 1) * PageSize <= Below(s) /\ Below(s) < p * PageSize
  <2>1. Below(s) \in Nat /\ Rank(s, accepted) = Below(s) + 1
    BY <1>9, RankAndBefore DEF Below
  <2>2. p * PageSize \in Nat /\ (p - 1) * PageSize \in Nat
    BY PageEnds
  <2>3. s \in Slice(accepted, p) <=>
            (p - 1) * PageSize < Rank(s, accepted) /\ Rank(s, accepted) <= p * PageSize
    BY DEF Slice
  <2> QED
    BY <2>1, <2>2, <2>3
<1>13. MissedLieBeyond'
  <2>1. ASSUME NEW s \in steady, s \notin UNION {items'[q] : q \in Walk'},
               \A t \in left : ~(t < s), NEW q \in Walk'
        PROVE  q * PageSize <= Below(s) /\ Full(q)'
    <3>1. /\ \A o \in Walk : items'[o] = items[o] /\ o \in Walk'
          /\ items'[p] = Slice(accepted, p) /\ p \in Walk'
      BY <1>4, <1>5, <1>7
    <3>2. s \notin UNION {items[o] : o \in Walk} /\ s \notin Slice(accepted, p)
      BY <2>1, <3>1
    <3>3. \A o \in Walk : o * PageSize <= Below(s) /\ Full(o)
      BY <2>1, <3>2 DEF WalkInv, MissedLieBeyond
    <3>4. CASE q \in Walk
      BY <1>7, <1>8, <3>3, <3>4
    <3>5. CASE q = p
      <4>1. (p - 1) * PageSize <= Below(s)
        <5>1. CASE p = 1
          BY <1>9, <1>12, <5>1
        <5>2. CASE p # 1
          <6>1. p - 1 \in Page /\ p - 1 < p
            BY <5>2 DEF Page
          <6>2. p - 1 \in Walk
            BY <1>6, <6>1
          <6> QED
            BY <3>3, <6>2
        <5> QED
          BY <5>1, <5>2
      <4>2. p * PageSize <= Below(s) /\ p * PageSize < Rank(s, accepted)
        BY <1>9, <1>12, <3>2, <4>1, PageEnds
      <4>3. Cardinality(Slice(accepted, p)) = PageSize
        BY <1>9, <4>2, FullPage
      <4>4. Full(p)'
        BY <1>4, <4>3 DEF Full
      <4> QED
        BY <3>5, <4>2, <4>4
    <3> QED
      BY <1>5, <3>4, <3>5
  <2>2. Below(1)' = Below(1) /\ \A s : Below(s)' = Below(s)
    BY <1>2 DEF Below
  <2> QED
    BY <1>2, <2>1, <2>2 DEF MissedLieBeyond
<1>14. ReadLieWithin'
  <2>1. ASSUME NEW q \in Walk', NEW s \in items'[q], \A t \in entered : ~(t < s)
        PROVE  Below(s) < q * PageSize
    <3>1. CASE q \in Walk
      BY <1>4, <1>7, <2>1, <3>1 DEF WalkInv, ReadLieWithin
    <3>2. CASE q = p
      <4>1. s \in Slice(accepted, p)
        BY <1>4, <3>2
      <4>2. s \in accepted
        BY <4>1 DEF Slice
      <4> QED
        BY <1>12, <3>2, <4>1, <4>2
    <3> QED
      BY <1>5, <3>1, <3>2
  <2>2. \A s : Below(s)' = Below(s)
    BY <1>2 DEF Below
  <2> QED
    BY <1>2, <2>1, <2>2 DEF ReadLieWithin
<1>15. OnTwoPages'
  <2>1. ASSUME NEW a \in Walk', NEW b \in Walk', a < b, NEW s \in items'[a] \cap items'[b]
        PROVE  \E t \in entered : t < s
    <3>1. CASE b \in Walk
      <4>1. a \in Walk
        BY <1>5, <1>7, <2>1, <3>1 DEF Page
      <4> QED
        BY <1>4, <1>7, <2>1, <3>1, <4>1 DEF WalkInv, OnTwoPages
    <3>2. CASE b = p
      <4>1. a \in Walk /\ a \in Page /\ a # p
        <5>1. ~(p < p)
          BY DEF Page
        <5>2. a # p
          BY <2>1, <3>2, <5>1
        <5> QED
          BY <1>5, <1>7, <5>2
      <4>2. s \in items[a] /\ s \in Slice(accepted, p) /\ s \in accepted
        <5>1. s \in items[a] /\ s \in Slice(accepted, p)
          BY <1>4, <3>2, <4>1
        <5> QED
          BY <5>1 DEF Slice
      <4>3. /\ a * PageSize <= (p - 1) * PageSize /\ a * PageSize \in Nat
            /\ (p - 1) * PageSize \in Nat
        BY <2>1, <3>2, <4>1, PageEnds
      <4>4. ~(Below(s) < a * PageSize)
        BY <1>12, <4>2, <4>3
      <4> QED
        BY <4>1, <4>2, <4>4 DEF WalkInv, ReadLieWithin
    <3> QED
      BY <1>5, <3>1, <3>2
  <2> QED
    BY <1>2, <2>1 DEF OnTwoPages
<1>16. CountsStand'
  <2>1. PageJobs' \subseteq PageJobs
    BY <1>2 DEF PageJobs
  <2> QED
    BY <1>1, <1>2, <1>5, <2>1 DEF WalkInv, CountsStand
<1> QED
  BY <1>10, <1>11, <1>13, <1>14, <1>15, <1>16 DEF WalkInv

\* A scene comes or goes.
LEMMA ChangeStep == ASSUME PoolInv, WalkInv, NEW o \in Scene, Change(o) PROVE WalkInv'
<1>1. /\ accepted' = IF o \in accepted THEN accepted \ {o} ELSE accepted \cup {o}
      /\ UNCHANGED <<at, answer, jobs, total, items>>
  BY DEF Change, apiVars
<1>2. /\ Walk' = Walk /\ PageJobs' = PageJobs /\ \A q \in Page : Full(q)' = Full(q)
  BY <1>1 DEF Walk, PageJobs, Full
<1>3. PagesHaveOneThread'
  BY <1>1, <1>2 DEF WalkInv, PagesHaveOneThread
<1>4. accepted \in SUBSET Scene /\ accepted' \in SUBSET Scene /\ steady \subseteq accepted
  BY <1>1 DEF PoolInv, TypeOK
<1>5. CASE at[1] = "new"
  <2>1. steady' = accepted' /\ UNCHANGED <<entered, left>>
    BY <1>5 DEF Change
  <2>2. Walk = {} /\ PageJobs = {}
    <3>1. \A p \in Page : at[p] = "new"
      BY <1>5 DEF WalkInv, PagesInOrder
    <3> QED
      BY <3>1 DEF WalkInv, PagesInOrder, PagesHaveOneThread, Walk, PageJobs
  <2>3. MissedLieBeyond' /\ ReadLieWithin' /\ OnTwoPages' /\ CountsStand'
    BY <1>2, <2>1, <2>2 DEF MissedLieBeyond, ReadLieWithin, OnTwoPages, CountsStand
  <2>4. PagesInOrder'
    BY <1>1, <1>2, <2>1 DEF WalkInv, PagesInOrder
  <2> QED
    BY <1>3, <2>3, <2>4 DEF WalkInv
<1>6. CASE at[1] # "new"
  <2>1. /\ steady' = steady \cap accepted'
        /\ entered' = entered \cup (accepted' \ accepted)
        /\ left' = left \cup (accepted \ accepted')
    BY <1>6 DEF Change
  <2>2. PagesInOrder'
    BY <1>1, <1>2, <1>6 DEF WalkInv, PagesInOrder
  <2>3. ASSUME NEW s
        PROVE  /\ (\A t \in left' : ~(t < s)) => Below(s) <= Below(s)'
               /\ (\A t \in entered' : ~(t < s)) => Below(s)' <= Below(s)
               /\ Below(s) \in Nat /\ Below(s)' \in Nat
    <3> DEFINE before == {t \in accepted : t < s}
               after == {t \in accepted' : t < s}
    <3>1. /\ IsFiniteSet(before) /\ Cardinality(before) \in Nat /\ Cardinality(before) = Below(s)
          /\ IsFiniteSet(after) /\ Cardinality(after) \in Nat /\ Cardinality(after) = Below(s)'
      BY <1>4, SceneSets DEF Below
    <3>2. (\A t \in left' : ~(t < s)) => before \subseteq after
      BY <2>1
    <3>3. (\A t \in entered' : ~(t < s)) => after \subseteq before
      BY <2>1
    <3> HIDE DEF before, after
    <3>4. before \subseteq after => Cardinality(before) <= Cardinality(after)
      BY <3>1, FS_Subset
    <3>5. after \subseteq before => Cardinality(after) <= Cardinality(before)
      BY <3>1, FS_Subset
    <3> QED
      BY <3>1, <3>2, <3>3, <3>4, <3>5
  <2>4. MissedLieBeyond'
    <3>1. ASSUME NEW s \in steady', s \notin UNION {items'[q] : q \in Walk},
                 \A t \in left' : ~(t < s), NEW p \in Walk
          PROVE  p * PageSize <= Below(s)' /\ Full(p)
      <4>1. s \in steady /\ s \notin UNION {items[q] : q \in Walk} /\ \A t \in left : ~(t < s)
        BY <1>1, <2>1, <3>1
      <4>2. p * PageSize <= Below(s) /\ Full(p)
        BY <4>1 DEF WalkInv, MissedLieBeyond
      <4>3. p * PageSize \in Nat
        BY PageEnds DEF Walk
      <4>4. Below(s) <= Below(s)' /\ Below(s) \in Nat /\ Below(s)' \in Nat
        BY <2>3, <3>1
      <4> HIDE DEF Below
      <4> QED
        BY <4>2, <4>3, <4>4
    <3>2. \A p \in Walk : Full(p)' = Full(p)
      BY <1>2 DEF Walk
    <3> QED
      BY <1>2, <3>1, <3>2 DEF MissedLieBeyond
  <2>5. ReadLieWithin'
    <3>1. ASSUME NEW p \in Walk, NEW s \in items'[p], \A t \in entered' : ~(t < s)
          PROVE  Below(s)' < p * PageSize
      <4>1. s \in items[p] /\ \A t \in entered : ~(t < s)
        BY <1>1, <2>1, <3>1
      <4>2. Below(s) < p * PageSize
        BY <4>1 DEF WalkInv, ReadLieWithin
      <4>3. p * PageSize \in Nat
        BY PageEnds DEF Walk
      <4>4. Below(s)' <= Below(s) /\ Below(s) \in Nat /\ Below(s)' \in Nat
        BY <2>3, <3>1
      <4> QED
        BY <4>2, <4>3, <4>4
    <3> QED
      BY <1>2, <3>1 DEF ReadLieWithin
  <2>6. OnTwoPages'
    BY <1>1, <1>2, <2>1 DEF WalkInv, OnTwoPages
  <2>7. CountsStand'
    <3>1. o \in entered' \cup left'
      BY <1>1, <2>1
    <3> QED
      BY <3>1 DEF CountsStand
  <2> QED
    BY <1>3, <2>2, <2>4, <2>5, <2>6, <2>7 DEF WalkInv
<1> QED
  BY <1>5, <1>6

\* The invariant of the walk is inductive on top of types.
LEMMA WalkStep == PoolInv /\ WalkInv /\ [Next]_vars => WalkInv'
<1> SUFFICES ASSUME PoolInv, WalkInv, [Next]_vars PROVE WalkInv'
  OBVIOUS
<1>1. CASE Next
  <2>1. ASSUME NEW j \in jobs, ThreadMoves(j) PROVE WalkInv'
    BY <2>1, ThreadRests, RestStep
  <2>2. ASSUME NEW r \in Probe, NEW found \in SUBSET Dependency, ProbeMoves(r, found)
        PROVE  WalkInv'
    BY <2>2, ProbeLeavesPages, RestStep DEF ProbeMoves
  <2>3. ASSUME NEW j \in jobs, NEW code \in {200, 404, 422, 500}, CallEnds(j, code)
        PROVE  WalkInv'
    BY <2>3, EndOfCall, RestStep, FailStep
  <2>4. CASE DependencyMoves
    <3>1. WalkRests
      BY <2>4 DEF DependencyMoves, WalkRests, PagesStay, PageJobs
    <3> QED
      BY <3>1, RestStep
  <2> QED
    BY <1>1, <2>1, <2>2, <2>3, <2>4, AskStep, CountStep, ReadPageStep, ChangeStep, Kinds
<1>2. CASE UNCHANGED vars
  <2>1. WalkRests
    BY <1>2 DEF vars, apiVars, WalkRests, PagesStay, PageJobs
  <2> QED
    BY <2>1, RestStep
<1> QED
  BY <1>1, <1>2

-----------------------------------------------------------------------------
(* Theorems. *)

\* At first nothing was asked for, and every accepted scene was so all along.
LEMMA AnalysisStart == Init => AnalysisInv
<1> SUFFICES ASSUME Init PROVE AnalysisInv
  OBVIOUS
<1>1. /\ service \in Service /\ frozen = {} /\ freezes = 0 /\ jobs = {} /\ idle \in 0..PoolSize
      /\ at = [r \in Request |-> "new"] /\ ready = [r \in Probe |-> {}]
      /\ answer = [r \in Request |-> 0] /\ seen = [r \in Probe |-> {}]
      /\ accepted \in SUBSET Scene /\ changes = 0 /\ total = [p \in Page |-> 0]
      /\ items = [p \in Page |-> {}] /\ steady = accepted /\ entered = {} /\ left = {}
  BY DEF Init, ApiInit
<1>2. PoolInv
  <2>1. Cardinality({j \in jobs : j.stage \in {"connected", "counted"}}) = 0
    <3>1. {j \in jobs : j.stage \in {"connected", "counted"}} = {}
      BY <1>1
    <3> QED
      BY <3>1, FS_EmptySet
  <2>2. IsFiniteSet(jobs)
    BY <1>1, FS_EmptySet
  <2>3. idle + 0 <= PoolSize + MaxOverflow
    BY <1>1
  <2>4. freezes \in 0..MaxFreezes /\ changes \in 0..MaxChanges
    BY <1>1
  <2>5. /\ at \in [Request -> {"new", "waiting", "answered"} \cup Dependency]
        /\ ready \in [Probe -> SUBSET Dependency]
        /\ answer \in [Request -> {0, 200, 404, 422, 500, 503}]
        /\ seen \in [Probe -> SUBSET Dependency]
    BY <1>1
  <2>6. total \in [Page -> 0..NumScenes] /\ items \in [Page -> SUBSET Scene]
    BY <1>1
  <2> QED
    BY <1>1, <2>1, <2>2, <2>3, <2>4, <2>5, <2>6 DEF PoolInv, TypeOK, ApiTypeOK, JobsFit
<1>3. ProbeInv
  <2>1. \A r \in Probe : ready[r] = {} /\ at[r] = "new" /\ answer[r] = 0
    BY <1>1, KindsOfRequests
  <2> QED
    BY <2>1 DEF ProbeInv, FoundHasReplied, ReadyIsTruthful
<1>4. WalkInv
  <2>1. Walk = {} /\ PageJobs = {} /\ \A p \in Page : at[p] = "new"
    BY <1>1, KindsOfRequests DEF Walk, PageJobs
  <2> QED
    BY <1>1, <2>1 DEF WalkInv, PagesHaveOneThread, PagesInOrder, MissedLieBeyond, ReadLieWithin,
                      OnTwoPages, CountsStand
<1> QED
  BY <1>2, <1>3, <1>4 DEF AnalysisInv

\* The invariant holds in every state that requests, dependencies and scenes reach.
THEOREM AnalysisInvariance == Spec => []AnalysisInv
<1>1. AnalysisInv /\ [Next]_vars => AnalysisInv'
  BY PoolStep, ProbeStep, WalkStep DEF AnalysisInv
<1> QED
  BY <1>1, AnalysisStart, PTL DEF Spec

\* Every variable stays in its range; in particular no more connections are open than the
\* pool allows, whatever hangs.
THEOREM PoolStaysBounded == Spec => []TypeOK
<1>1. AnalysisInv => TypeOK
  BY DEF AnalysisInv, PoolInv
<1> QED
  BY <1>1, AnalysisInvariance, PTL

\* A probe that is answered 200 was sent to dependencies each of which replied since.
THEOREM ReadinessIsEarned == Spec => []ReadyIsTruthful
<1>1. AnalysisInv => ReadyIsTruthful
  BY DEF AnalysisInv, ProbeInv
<1> QED
  BY <1>1, AnalysisInvariance, PTL

\* A client that reads one page after the other misses a scene that was accepted all along
\* only if one before it was rejected meanwhile, sees one twice only if one before it was
\* accepted, and is told the right total unless something changed.
THEOREM WalkErrsOnlyByChange == Spec => []WalkIsFaithful
<1>1. AnalysisInv => WalkIsFaithful
  <2> SUFFICES ASSUME AnalysisInv PROVE WalkIsFaithful
    OBVIOUS
  <2>1. MissedLieBeyond /\ OnTwoPages /\ CountsStand
    BY DEF AnalysisInv, WalkInv
  <2>2. ASSUME NEW p \in Walk, WalkEnded(p), NEW s \in steady \ UNION {items[q] : q \in Walk}
        PROVE  \E t \in left : t < s
    BY <2>1, <2>2 DEF MissedLieBeyond, WalkEnded
  <2> QED
    BY <2>1, <2>2 DEF WalkIsFaithful, Walk, OnTwoPages, CountsStand
<1> QED
  BY <1>1, AnalysisInvariance, PTL
=============================================================================
