# TerraWatch in TLA+

TerraWatch is an earth-observation pipeline with its own verification laboratory. Clients
upload raster scenes and post telemetry events; two workers validate the scenes and
correlate the events with them; an API serves the results; `terractl` starts the
environment, injects faults into it, collects evidence and proves that it runs from a clean
checkout. This directory holds a TLA+ development of it: models of the components, TLC
configurations that check them on small instances, and theorems checked by TLAPS.

## 1. Inventory

### The parts, their state and their operations

| Part | State | Operations | Interacts with |
|---|---|---|---|
| scene ingest API, `terrawatch/ingest.py` | a temporary file per upload; rows in `scenes` and `outbox_events`; objects in the bucket | `POST /v1/scenes`: stage, inspect, look up, put object, persist, clean up, publish, answer | PostGIS, MinIO, NATS through the outbox |
| event ingest API, `terrawatch/events.py` | rows in `telemetry_events` and `outbox_events` | `POST /v1/events`: validate, look up by id and key, persist, publish, answer | PostGIS, NATS through the outbox |
| outbox, `terrawatch/outbox.py` | `published_at`, `attempts`, `last_error` of each row | `pending_outbox`, `publish_pending`, `mark_published`, `mark_failed`, `outbox_loop` | both APIs run it; NATS |
| messaging, `terrawatch/messaging.py` | streams with a duplicate window | `connect`, `ensure_streams`, `jetstream_ready` | everything that uses NATS |
| worker runtime, `terrawatch/worker_runtime.py`, `retry.py` | stop event | start, signals, loop, `bounded`, `retry_exhausted`, `backoff_seconds` | JetStream consumers |
| imagery worker, `terrawatch/imagery_worker.py` | `scenes.processing_status`, attempts, dead letters, a temporary file | fetch object, compare digests, inspect, complete or reject the scene, ack, nak, dead-letter | PostGIS, MinIO, NATS |
| correlation worker, `terrawatch/correlation.py` | `correlations`, `analysis_results`, attempts, dead letters | `evaluate_event`, ack, nak, dead-letter | PostGIS, NATS |
| analysis API, `terrawatch/analysis.py` | threads and pooled connections | searches with a count and a page, lookups | PostGIS |
| readiness and envelope, `terrawatch/api.py` | threads of the executor | bounded probes of the three dependencies, error documents | PostGIS, MinIO, NATS |
| schema and sessions, `terrawatch/database.py` | constraints; one transaction per `session_scope` | commit, roll back | all of the above |
| environment lifecycle, `terractl/lifecycle.py`, `environment.py`, `reset.py`, `safety.py`, `locking.py` | containers, volumes, the environment file, a lock | up, down, reset, identity checks | docker |
| fault injection, `terractl/faults.py` | the file with the active fault | inject, clear, status | docker |
| evidence and reports, `terractl/evidence.py`, `reporting.py`, `traceability.py` | JUnit files, the package with its manifest | run tests, collect, merge, render, reconcile, exit code | pytest, git |
| clean-room proof, `terractl/clean_room.py` | a sentinel container, `clean-room.json` | survey, add a sentinel, tear down, compare, record, remove the sentinel | docker, lifecycle |
| scanners and gates, rest of `terractl/` | none | pure functions over files and command output | CI |

### What makes it hard

- **Interleaving.** The API handlers are coroutines with blocking calls in threads: what a
  handler read before an `await` may be stale when it is used after it. Several publishers
  work on one outbox table without locking rows. A correlation that was given up on keeps
  running in its thread.
- **Partial failure.** An upload touches an object store, a database and a stream, with no
  transaction across them. A commit may succeed and its reply be lost.
- **Crashes.** Compose restarts nothing (`restart: "no"`): a worker that leaves its loop with
  an exception stays dead until an operator starts it.
- **Delivery.** JetStream redelivers after a nak, after the acknowledgement wait and after a
  lost acknowledgement; `num_delivered` drives the retry limit.
- **Timeouts.** `bounded` ends the wait for the work, not the work; the records of the
  attempt and of the dead letter are awaited without a bound. A probe that is given up leaves
  its thread and its connection behind.
- **Shared limits.** One process has one executor, one thread pool of the framework and one
  pool of connections; whatever PostGIS holds up takes some of each.

### What makes each part correct

- *ingest APIs*: identities are unique whatever races; a record and its message are committed
  together; answers stay true; objects and temporary files are not lost or leaked without a fault;
  every request is answered.
- *outbox*: marked rows are in the stream, messages in the stream are committed rows, duplicates
  appear only across duplicate windows, every row is published in the end.
- *workers*: an acknowledged message was worked off or dead-lettered; a dead letter is the last
  resort; retries are bounded; each message is settled; a frozen dependency does not hold the
  worker.
- *correlation*: each evaluated or matched scene has its correlation; unless a wait was given up, a
  repeated evaluation never loses a scene and the columns of an analysis belong together.
- *the two workers together*: the first analysis of an event follows from the scenes accepted at one
  moment since it was posted, each column set later from those of one such moment, and a scene is
  withdrawn only after its dead letter.
- *analysis API and readiness*: 200 from `/readyz` is earned; whatever is frozen, `/readyz` and
  `/healthz` answer; a client that walks the pages misses or repeats a scene only when one before
  it changed.
- *fault injection, evidence, clean room*: a fault is recorded when it is active and can be
  cleared; the environment that runs has the credentials of its volumes; exit 0 is earned by test
  results and a package shows one run; a teardown leaves neighbours alone and no sentinel behind.

## 2. Modules

| Module | Models | Uses |
|---|---|---|
| `SceneIngest` | the upload handler of `ingest.py` against tables and bucket | `Register` |
| `EventIngest` | the handler of `events.py` | `Register` |
| `Register` | abstract: an idempotent register of submissions with an answer to each client | |
| `Outbox` | `outbox.py` with racing publishers and the stream's duplicate window | |
| `JetStream` | external: a durable pull consumer as the workers rely on it | |
| `WorkerLoop` | what `_process_message` and `run_*_worker` have in common in both workers | `JetStream` |
| `EventAnalysis` | the row of `analysis_results` that `evaluate_event` derives from the scenes it evaluated | |
| `CorrelationWorker` | `evaluate_event` in its thread on top of the loop | `WorkerLoop`, `EventAnalysis` |
| `ImageryWorker` | the work of `imagery_worker.py` on top of the loop | `WorkerLoop` |
| `Pipeline` | both workers on one database, with the events that are posted and announced | `ImageryWorker`, `CorrelationWorker`, `Catalog` |
| `Catalog` | abstract: visible scenes, and for each event a result whose columns were each true at one moment | `EventAnalysis` |
| `ApiProcess` | `/readyz`, `/healthz`, and how one API process shares threads and connections | |
| `AnalysisApi` | the searches and lookups of `analysis.py` in such a process | `ApiProcess` |
| `FaultControl` | `faults.py` with the commands of `lifecycle.py` and `reset.py`, and the credentials of `environment.py` | |
| `CleanRoom` | `clean_room.py` with the guarded teardown of `lifecycle.py`, on a shared docker host | |
| `Evidence` | `reporting.py`, `evidence.py` and the evidence command, with the test runs that feed it | |
| `SceneIngestProofs` | theorems about `SceneIngest` | `SceneIngest`, `TLAPS` |
| `WorkerProofs` | lemmas about the loop that both workers share, and theorems about each of them | `CorrelationWorker`, `ImageryWorker`, `FiniteSetTheorems`, `TLAPS` |
| `PipelineProofs` | theorems about `Pipeline` | `Pipeline`, `WorkerProofs` (twice, by `INSTANCE`), `TLAPS` |
| `EventIngestProofs` | theorems about `EventIngest` | `EventIngest`, `TLAPS` |
| `OutboxProofs` | theorems about `Outbox` | `Outbox`, `TLAPS` |
| `FaultControlProofs` | theorems about `FaultControl` | `FaultControl`, `TLAPS` |
| `AcceptanceProofs` | theorems about `CleanRoom`, and theorems about `Evidence` | `CleanRoom`, `Evidence`, `TLAPS` |
| `AnalysisApiProofs` | theorems about `AnalysisApi` | `AnalysisApi`, `FiniteSetTheorems`, `TLAPS` |
| `MC*` | instances for TLC | |

A definition whose comment starts with "Faulty variant of" is not part of a model: it is the
named definition with a plausible bug in it, kept beside it to show that a property tells
the two apart.

### SceneIngest

A request is a program counter. `Stage` to `AnswerAccepted` are the stretches of
`ingest_scene` between two awaits: `Stage` (`_stage_upload`), `Lookup` (`_existing_scenes`, a
transaction in a thread, whose rows are kept in `found`), `AnswerConflict`, `AnswerReplay`,
`RejectTags` and `PutObject` (everything up to the next await; `fput_object` is called on the
event loop), `Persist` (`_persist_scene`), `Cleanup` (the exception handler) and
`AnswerAccepted` (`publish_pending`, then 202). `Finish` is a `return` with the `finally`
clause that unlinks the temporary file. `PutObjectFails` and `PersistFails` have both
outcomes of a call whose effect happened although its reply was lost. `Crash` kills the
process: no `except` or `finally` clause runs. A content is its digest; `Admits` says which
scene ids the tags in a raster agree with. Publishing is one step that marks some pending
rows; `Outbox` has it in detail.

### EventIngest

The same shape for `ingest_event`. The payload hash covers the event id, so a replay needs
the same id, key and body. The lookup is outside the `try` block: its failure ends in the
framework's 500.

### Register

What both services promise: a submission is entered atomically, at most once, never when it
clashes with one that was entered, and every client is told something that is true when it
is told. `SceneIngest` and `EventIngest` implement it: the entered clients are those with an
outbox row, the reply is read off the HTTP status. For scenes, `Same` compares contents only,
because a content that is registered under another id is replayed with that id.

### Outbox

Rows are numbered by `created_at`. `Insert` commits a row, in any order. A publisher is a
loop of an API process (`Loop`) or the single call a request makes (`Once`). `Fetch` reads a
page of pending rows, `Connect` connects, `Publish` sends the row the loop has reached,
`Mark` and `RecordFailure` are the two transactions after it. `Receive` is the stream with
its duplicate window, `Expire` the end of the window of one message. `Refused` rows are
refused each time; the others fail at most `MaxFaults` times in all.

### JetStream, WorkerLoop, EventAnalysis, CorrelationWorker, ImageryWorker

`JetStream` has the messages that are stored, held by a consumer and acknowledged, and
`num_delivered`. `WorkerLoop` adds the coroutine: `Fetch`, then the work (left to the module
that extends it), then `RecordPassed` and `Ack`, or `RecordFailed` and `Nak`, or
`PublishDead`, `Bury` and `Close`. Each call has its failing form; `AckLost` and `CloseLost`
are acknowledgements that never reach the server, which the code does not wait for. `Die` is
an exception that leaves `_process_message`. A frozen PostGIS neither returns nor raises on
an open connection, and raises on a new one. The two workers differ in what `Bury` does, so
it is part of their own next-state relations.

`CorrelationWorker` runs `evaluate_event` as an evaluation with three statements: it selects the
accepted scenes, looks up the correlations and the analysis, and commits. `GiveUpEvent` is the
timeout of `bounded`: the evaluation stays and may commit while the message is retried or
dead-lettered, so two evaluations of one event can overlap.

`EventAnalysis` has the five columns of an analysis. `Verdict` is the `correlation_status` of a scene
and an event, which their rows fix; `Analysis` is what `evaluate_event` says of the event, given the
scenes. A new row gets all of it. An existing row is a loaded ORM object, and its update sets the
columns in which the conclusion differs from what the evaluation had loaded (`Changed`): `Write`
leaves the others as another evaluation has set them meanwhile. Two columns hold lists in the order
in which the rows were selected, which may differ although the scenes are the same, so such a column
may be set or not (`Orderable`, `ColumnsSet`).

`ImageryWorker` has the bounded steps of `_process_message` in `step`: `Describe`
(`_scene_metadata`), `Download`, `Inspect` (digest and raster) and the wait for
`_complete_scene`, whose thread is a completion with two statements, `Load` and `CommitScene`: the
session writes back only the columns that differ from what it loaded. `BuryScene` is
`_record_dead_letter`, which also rejects the scene. The object may be lost (see the first
finding) or altered by something outside.

### Pipeline, Catalog

`Pipeline` takes the two workers as they are, by `INSTANCE`, each with variables of its own. They
meet where the program has them meet: `accepted` of the correlation worker is `Visible`, the scenes
whose `status` in the imagery worker is accepted, and `frozen` is one variable. A step is one
worker's step with the other's variables unchanged. An event has a row first (`Post`) and a
message in the stream later (`Announced`), as `Outbox` has it.

`Catalog` is what clients see of the two: scenes are shown, refused and withdrawn, and an event is
answered (`Answer`) with the analysis of the scenes that were visible at one and the same moment
since it was posted. Later some columns of the answer may be set to what another such moment says
(`Revise`), and the others stay as they are. `moments` is a history variable of `Pipeline` that keeps
those sets of scenes. It is not promised that a moment is a recent one: a retry or a late commit may
replace a result by an older one's, and a scene that arrives after the evaluation is not looked at.
Nor is it promised that all columns of a revised answer are about one moment (section 4). That they
are as long as no wait was given up is `AnalysisGrows` of `CorrelationWorker`.

The counts of failing calls, the limit on attempts and the bound on deliveries are each worker's own;
freezes and the waits that are given up are counted together.

### ApiProcess, AnalysisApi

`ApiProcess` is one process of one of the three services. A request whose handler is a coroutine
(`Probe`, `Write`) hands its calls to the executor, one whose handler is a plain function
(`Query`, `Health`) runs in the framework's thread pool; such a call is a job, which is queued,
started, and connected when it has a connection. Connections come from the pool: an idle one
(`TakeIdle`, which hangs on a frozen PostGIS), a new one (`Connect`, `ConnectTimesOut`), or none
(`CheckoutTimesOut`). A probe goes through the checks of its service: each ends by the job
(`CheckDatabase`, `CheckStorage`), in the coroutine (`CheckMessaging`), or by `_bounded_check`
(`GiveUp`), after which the job goes on. `seen` is a history variable: the dependencies that replied
at some time since the probe was sent.

`AnalysisApi` adds the queries. A search counts (`Count`) and reads its page (`ReadPage`) in two
statements, each of which sees what is committed when it runs; a lookup is one statement. `Ask` is
a client that reads a page and, if it was full, the next. `Change` is the imagery worker accepting
or rejecting a scene.

### FaultControl

Operators run `fault inject`, `fault clear`, `up`, `down` and `reset`. An injection looks at
the file (`Inject`), looks up its target (`Resolve`), writes its intent (`Record`), applies the
fault (`Pause`, `Plant`, `Widen` or one of their failures) and writes the file again
(`Confirm`). A clearing reads the file (`Clear`), undoes the fault if its target is still the
same (`Undo`) and unlinks the file (`Unlink`). `Abandon` ends a command between any two steps.
Container ids are generations: all containers of one `up` have the same. `overlapped`
remembers that two of these commands ran at once, against which the code takes no lock.

`.env.local` is `config`: the identity of the credentials that `initialize_environment` generated
when there was no file, which every later command keeps. `Up` gives them to the containers
(`given`), and PostGIS keeps those its volume was created with (`volumes`). `Teardown` is
`compose_down` with containers; without any it does nothing, volumes or not. `DownCutShort` is a
teardown killed after the containers, `Tear` a command killed while it rewrites the file, and
`Delete` a file deleted by hand; `cut` and `deleted` remember a cut teardown and a deletion until
a complete teardown. That one forgets a cut teardown only when the file is empty and no command is
running (`Busy`): a fault that was read from volumes left behind can outlive them in the file. The
proof of `EveryFaultRecorded` needs this. A width is changed and a teardown cut short; a reset
removes the file with the fault and dies before `.env.local`; the environment is started on the
old volumes and the next injection reads the changed width as the original one; a complete `down`
and `up` while that injection runs give it a scene with the true width, and its record is wrong.

### CleanRoom

A proof is a program counter over `clean_room_proof` and `compose_down`. A survey is `List`, one
`Inspect` per container, and the step that uses what was seen (`SurveyInitial`, `Confirm`,
`SurveyBefore`, `Verified`, `SurveyAfter`, `SentinelGone`, `SentinelFound`); `InspectRaises` is a
container that is gone by then or has the wrong labels. `Teardown` removes what carries the Compose
label at that moment. `Raise` is an exception in the `try` block, after which the `finally` block
removes the sentinel if the proof knows it; an exception in the `finally` block (`RaiseAtEnd`) or a
kill ends the command. `Mark` is the test that the evidence file is there and leads to the second
write (`Rewrite`) or past it; the file may be gone before the test, or between the test and the
write, since a `reset --apply` of another shell empties the evidence directory (`Discard`). Each
write may raise with the file as it was, truncated or written, and the print of the path is inside
the command's `try` block (`PrintFails`). Containers are of three kinds (with both labels, with the
Compose label only, with neither); others start (`Appear`), stop (`Switch`) and remove (`Vanish`)
them at any time.

### Evidence

A test run keeps the revision at which it started and writes its JUnit file at its end, or
never (`KillTests`). A command lists the files (`Collect`), merges them one by one (`Read`),
makes a record for each check that the requirements name now (`Summarise`), writes the four
formats and the manifest (`WriteFile`, `WriteManifest`), reads them back (`Reconcile`) and derives its
exit code from `test-summary.json` (`Report`). What `reconcile_evidence` reads is one step. Each
command has the same run id, so all work on one package; packages of other ids do not meet.

## 3. Runs

| Run | Question | Bounds |
|---|---|---|
| `scene_ingest` | do rows, messages, objects, files and answers agree, and is the service a register? | 3 requests over 2 ids and 2 contents (one with tags), 1 failing call, 1 crash |
| `scene_ingest_race` | finding: is the object of each scene in the store? | 2 requests, no failure |
| `event_ingest` | do identities, rows and messages agree, is a 500 explained, and is the service a register? | 3 requests over 2 ids, 2 keys, 2 bodies, 1 failing call, 1 crash |
| `outbox` | do marks, rows and stream agree, and is each row published? | 3 rows in pages of 2, the oldest always refused, a loop and a request, 2 failures or deaths, each duplicate window ends once |
| `correlation` | do acknowledgements, dead letters, attempts and results agree, is each message settled, and does the bounded work end? | 1 message, 2 scenes (one covers the event), 2 attempts, 1 failing call, 1 freeze |
| `correlation_unburied` | finding: is each acknowledged dead letter persisted? | as above, and 1 slow evaluation |
| `imagery` | do acknowledgements, dead letters, acceptance and rejection agree, and is each scene decided? | 1 scene, 2 attempts, 1 failing call, 1 freeze, 1 slow call, 1 damaged object |
| `pipeline` | do both workers keep what a client sees of scenes and events, and is every posted event served? | 2 scenes (one covers the event) with 1 delivery each, 1 event with 2 attempts and 3 deliveries, 1 failing call of the correlation worker, 1 slow call of either, no freeze |
| `analysis_api` | is readiness earned, is everything answered, and what does a client see of pages that change? | 1 probe, 1 write, 1 health check, 1 lookup, 3 pages of 1 over 2 scenes, 1 connection, 1 executor thread, 2 framework threads, 1 freeze, 1 change |
| `fault_control` | does the file name every fault, does clearing end it, and does the environment fit its volumes? | 2 operators, 2 services, 1 object, 3 starts of the environment, widths at most 2 from the true one, 2 failing calls or killed commands, one overlap of commands |
| `clean_room` | what does a teardown remove, is the exit code earned, and when does a sentinel stay? | 1 container of each kind, 1 failing call, write, print or kill, 2 changes by others |
| `evidence` | is exit 0 earned, and does a package that reconciles show one command's records? | 2 checks, 2 files, 2 test runs, 2 commands on one package, 1 commit, 1 kill |

Why the bounds are enough to be interesting: three requests are two racers and one that
comes after them; two contents and two ids are what a conflict, a replay under another id
and a lost race need; with two attempts there is a retry and a last attempt; a page of two
with three rows has a row that does not fit. Faults are few because each of them can hit any
call: one is enough to lose a reply, to leave a transaction undone or to fail a cleanup. The
scenes that an evaluation selects only ever become more in `correlation`; with two of them, of which
only one covers the event, there is a row with no scene, one without a match and one with a match,
and an evaluation that lies between two others. That is what a mixed row takes, and both
`correlation` and `pipeline` reach one. In `correlation` it is the freeze that ends a wait while the
thread stays, and the thread goes on after the thaw, so a slow call besides would add nothing but
states. In `evidence` the two commands are interchangeable, so the run declares them symmetric. In
`pipeline` each evaluation can run before a scene is accepted, between its acceptance and its
rejection, or after, and once late, which gives results of every moment: a wait for a completion that
is given up on the only attempt has its scene rejected, before or after its thread accepts it. Freezes
and the retries of a scene are left to the runs of the single workers, because what they change is the
calls of one worker. In `analysis_api` one
query holds the only connection, one call fills the executor, and the framework has one thread
more than the pool has connections, as it has in the program (40 threads, 5 + 5 connections:
`TokensAssumption`); a page holds one scene, so that one change moves every later scene to
another page.
`CHECK_DEADLOCK FALSE` is in every configuration because all requests may have been answered,
all rows published, all messages settled, and all commands ended.

**Fairness.** The API handlers need none: what they promise is safety. A publisher's loop swallows
every error and starts over (weak fairness of `Proceed`). The worker's next call is made (weak
fairness of `Settle` and of the work); a message that is deliverable again and again is delivered
(strong fairness, per message, since the worker takes one at a time) and the server's
acknowledgement wait runs out. `bounded` ends a wait on a frozen database (weak fairness of
`GiveUpEvent` and `GiveUpScene` while it is frozen). Failures, kills, freezes, restarts and thaws
have no fairness: `EveryMessageSettled` and `EverySceneDecided` assume that the database is not
frozen for ever, and except a process that has ended. `EveryMessageSettled` also says, without that
assumption, that the evaluation holds the worker up for a bounded time only. In `Pipeline` the
correlation worker has its fairness, the outbox announces what is posted, and nothing is asked of
the imagery worker. In `ApiProcess` a thread that can go on does and timeouts fire (weak fairness of
`Progress`: the calls that are neither held up nor timed out return). In `FaultControl` a command
that runs goes on, and an operator who finds a fault clears it, as `docs/OPERATIONS.md` demands.

## 4. Findings

- **A lost race removes the winner's object** (`scene_ingest_race`). Two uploads of one
  content pass the lookup together and put the same object; the loser's insert is refused and
  its exception handler removes the object that the winner's row refers to. The replay path
  does not restore it. CAT-003 says that store and records contain matching digests.
  `MissingObjectExplained`, a part of `LeftoversExplained`, shows that a failed persist of the same
  content is the only way to lose an object.
- **A message is acknowledged without its dead letter** (`correlation_unburied`). When the
  insert of the dead letter raises, the `finally` clause still acknowledges. The message is in
  the dead-letter stream (`AckedEventIsSettled` holds), but not in the table.

The same `finally` clause in `imagery_worker.py` leaves a scene pending for ever: its message is
acknowledged and nothing else looks at it. `EverySceneDecided` therefore counts a scene whose
message is in the dead-letter stream as decided.

**Mixed analyses.** An update of `analysis_results` sets the columns that differ from what its own
evaluation had loaded. When a wait was given up and the late thread overlaps with the evaluation of a
retry, the row can end as the analysis of no one moment. For example, the late evaluation selects
{s1, s2} and loads the row of {s1}, without a match in either; the other one commits {s1, s2, s3} with a
match; then the late one sets `evaluated_scenes`, `details` and `provenance` to those of {s1, s2}, and
`status` and `matched_correlation_ids` stay as they were set for s3. A late evaluation that selected
no scene and loaded a row without a match even leaves `no-scenes` beside a matched id. No statement of
the repository speaks of this, so it is not a finding. The properties say what is left:
`AnalysisGrows`, that it takes a wait that was given up; `AnalysisHasItsCorrelations`, that the scenes
named in either column have their correlations; `ImplementsCatalog`, that each column follows from
one moment since the event was posted.

**Exit code and evidence of the clean-room proof.** They may tell different stories, in ways that
`ExitAgreesWithEvidence` spells out. A proof exits with 0 and leaves no evidence when others removed
the file. One that fails leaves a file that says passed without a removed sentinel when removing it
or the second write fails, and a file that says all when that write raises after it was done or the
print does. What holds is that exit 0 never leaves a file that says less than all, and that what a
file says of the host is so.

Further behaviour that the properties have to except, most of it without a statement of the
repository that it contradicts, and none of it a run of its own: a slow evaluation that commits late
overwrites columns of a newer one (`AnalysisGrows` needs the absence of slow and of frozen
evaluations); a late completion accepts a scene that a dead letter has rejected, and the scene then
is visible and dead-lettered; an event can be both processed and dead-lettered, and a scene accepted
and then rejected, when a call after the work fails on the last attempt (`AcceptanceStands` says
that nothing less does it); two injections that overlap lose the record of one (`EveryFaultRecorded`
excludes them); a teardown that is killed between the containers and the volumes leaves volumes that
no `down` and no `reset` removes, against what `docs/TROUBLESHOOTING.md` advises and `reset.py`
says, with the old password and with what a fault planted in them (`CredentialsFit` and
`EveryFaultRecorded` exclude it); and after `down` and `up` a recorded fault can only be forgotten
by `reset` (`Orphaned`). A clean-room proof leaves its sentinel behind when another container
vanishes while the `finally` block surveys (`SentinelLeaksExplained`, which excepts every container
that vanished since the start). Two evidence commands with one run id can leave a mixed package that
reconciles, because the digests are taken of the files as they are found (`ReconciledIsOneRun`
excludes it); and a skipped test counts as one that ran and failed. Only the evaluation is bounded,
not the record of the attempt after it: a database that freezes in between holds the worker up until
it replies again, whatever `retry.py` says of bounded work (`EveryMessageSettled` assumes a thaw).
Whatever JUnit files exist are merged, and the manifest names the revision that is checked out when
it is written, so that a pass of an earlier revision can stand for a test that did not run at this
one (`EvidenceIsEarned` speaks of the files that were read). An analysis may go on naming a scene
that was rejected since, and miss one that was accepted since (`ImplementsCatalog` allows both).
Probes that were given up fill the executor, so that MinIO reads as not ready while only PostGIS is
frozen (`ReadyIsTruthful` is about 200, not about 503).

## 5. Proofs

Each theorem holds for every value of the constants, where the run of the module covers one small
instance. Every inductive invariant was checked by TLC on the instance of its module's run before
it was proved.

**Scene ingest.** `SceneIngestProofs` proves, for any sets of requests, ids and contents and any
bounds on faults and crashes, that the specification keeps `TypeOK`, `OneRowPerIdentity`,
`EverySceneAnnouncedOnce` and `AnswersAreTruthful`. From the assumptions on the constants only
those that type `Admits` and the bounds are used.

None of these is inductive: an answer 409 or 200 is given from rows that were read before
other handlers ran. The inductive invariant adds that what `found` holds is still in
`scenes` (no step deletes a row), that by-id and by-digest rows do match the upload that
looked them up, that a request whose persist has committed has its row and message, and that
only requests which reached the persist have a message, so that a persist inserts a message
that was not there before. `TableStep` shows that every step either leaves rows and messages
alone, publishes some, or inserts one new row with one new message after the uniqueness
check; everything else follows from that.

All but `OneRowPerIdentity` are also invariants of the run `scene_ingest`. The run `imagery` leaves
its type invariant to the theorem.

A second invariant, `LeftoversInv`, is inductive on top of the first and gives `LeftoversExplained`:
whoever is past its put has put its object and was given no answer (`PutsPrecedeRows`,
`AnswersComeLast`), and an object that was put is there until a request that had put the same
content too has answered 500 (`PutsExplained`): the first finding is the only way to lose an object.

**The refinement of `Register`.** `IngestImplementsRegister` and `EventsImplementRegister` show that
both services implement it for any numbers of racing requests: an initial state maps to an initial
one, the insertion of a row with its message is the abstract entry (the checks of the database make
it one without a clash), an answer is the abstract answer, and everything else stutters. What
makes the answers right is again that a lookup stays true.

**Event ingest.** `EventIngestProofs` also proves `TypeOK` and `FailureExplained`: a 500 without a
failing call needs another row with the id or the key of the request, by the time the handler is on
its way to the answer (`FailuresExplained`).

**Outbox.** `OutboxProofs` proves `TypeOK`, `StreamAgreesWithTable` and the action property
`MarkedRowsRest`, for any number of rows and publishers and any page size. A publisher's batch holds
committed rows only (`BatchesAreCommitted`), it is about to mark a row only once the stream has it
(`MarkIsEarned`), and a message outside its duplicate window was stored at most as often as its
windows have ended (`WindowsPaid`): racing publishers duplicate nothing within a window.

**The workers.** `WorkerProofs` proves `CorrelationTypeOK`, `AckedEventIsSettled`,
`DeadLetterIsLastResort`, `RetriesAreBounded` and `AnalysisHasItsCorrelations` of the correlation
worker, and `ImageryTypeOK`, `AckedSceneIsSettled`, `RejectedIsDeadLettered` and the action property
`AcceptanceStands` of the imagery worker, for any sets of messages, scenes or events and any bounds
on attempts, faults, freezes and slow calls. From the assumptions only the types of the constants
and bounds are used.

Both rest on the lemmas about the loop. `LoopInv` says that the attempt in hand is the last delivery
of its message (`AttemptIsCurrent`), that the worker is on the way to a dead letter only past the
limit and acknowledges the message on that way only once it is in the dead-letter stream
(`GivingUp`, `LastResort`), and that each delivery beyond the limit is owed to a call that failed
(`WithinBudget`). The loop's own actions are shown to keep it once, for both workers. Each worker
adds what its own work establishes: for the correlation worker, that a success about to be
recorded has its analysis in the database (`SuccessIsAnalysed`); for the imagery worker, that it
has an accepted scene (`SuccessIsAccepted`), that a completion thread belongs to a delivery that
has begun and the one in hand is the latest (`CompletionsAreOfThePast`), that a thread which found its
scene accepted and is still waited for is right (`LoadedHolds`), and that a failed delivery has a
failed or slow call, a freeze or a damaged object behind it (`FailureHasReason`).

`AnalysesGrow` proves the action property `AnalysisGrows`. While no wait was given up, there is at
most one evaluation and the coroutine waits for it; once it has selected its scenes, they contain
those of every earlier one, because scenes stay accepted; and the row it has loaded is the row that
is there, so that it sets every column that is not right already (`EvaluationsFollow`, `WholeWrite`).
That a row stays one, with counts that are numbers, needs finitely many scenes (`ScenesAssumption`).

**The workers together.** `PipelineProofs` proves `ImplementsCatalog`, for any scenes, events,
messages and bounds, from three assumptions that type the constants of `Pipeline`. `WorkerProofs` is
instantiated once for each worker, and `SameStart`, `SameImagery` and `SameCorrelation` show that
the workers of `Pipeline` are the ones it speaks of. What is known of one worker survives the
other's steps because these leave its own variables alone and only add to the counts of faults,
freezes and slow calls (`ImageryRests`, `CorrelationRests`); the correlation worker's invariant does
not depend on scenes staying accepted, which here they do not. The invariant adds that the
catalogues of a posted event include the present one (`MomentsKept`), that messages and evaluations
are of posted events (`StoredArePosted`), and that an evaluation has selected one of its event's
catalogues and is right to believe that an analysis exists (`EvaluationsAreTrue`): an evaluation
that finds a row revises it, and one that inserts a row sets all of its columns (`WriteRefines`). A
step of the imagery worker accepts a scene, publishes its dead letter or rejects it (`WhatIsSeen`),
and the last only once the dead letter is out, so it maps to `Show`, `Refuse` or `Withdraw`; the
commit of an evaluation maps to `Answer` or `Revise`; the rest stutters. `WorkersKeepTheirPromises`
states what the workers promise separately once more, of the two together.

**Fault control.** `FaultControlProofs` proves `TypeOK`, `EveryFaultRecorded` and `CredentialsFit` for
any operators, services, objects, failures and starts. `NoFaultAssumption` says that the value for
an empty file is not a fault. The credentials need that containers have volumes and volumes without
containers come from a cut teardown (`VolumesFollowContainers`), that a reset which nothing overlaps
is past its teardown when it wipes (`WipeIsLast`), and that the checkout knows what the volumes were
created with (`VolumesKnown`). The record needs that one command runs at a time and the file is what
it wrote (`OneCommandRuns`, `FileIsOwn`), that a fault is applied where there is none and gone before
it is forgotten (`CleanAtApply`), and that a recorded width is the true one (`WidthsAreTrue`), which
is what failed without `Busy`.

**Clean room.** `AcceptanceProofs` proves `TypeOK`, `NeighborsOutliveTeardown`,
`ExitAgreesWithEvidence` and `SentinelLeaksExplained`, for any containers and any changes by
others. Ids are never used again, so what the teardown removed and what a survey remembers are
known to have existed (`IdsAreFresh`). A survey that is under way has looked at, or has still to
look at, each watched container that is there (`SurveysCover`); a container that others start in
between is none of these. From that follows what each step relies on (`Stages`), in particular
that nothing with the Compose label is a neighbour when the teardown runs, and what a good outcome
and a file on disk claim (`Results`).

**Evidence.** `AcceptanceProofs` also proves `EvidenceTypeOK`, `EvidenceIsEarned` and
`ReconciledIsOneRun`, for any checks, files, requirements, test runs and commands. What a command
merged of a check is what some file it read says, and a failure if any of them says so
(`MergedIsRead`): `Merge` keeps this whichever order the files are read in. Its records are the
merged ones for the checks that are required (`RecordsAreMerged`), and what it wrote is a rendering
of some command's records (`FilesAreRendered`), so a command that ends well certified what some
command merged (`CertifiedPasses`): this holds although two commands may write over each other. As
long as they do not, at most one command works, and the files it has passed are its own
(`OneCommandWrites`).

**Analysis API.** `AnalysisApiProofs` proves `TypeOK` (with the bound on connections),
`ReadyIsTruthful` and `WalkIsFaithful`, for any sizes of the pools, pages and tables, from the
assumptions that type them. A step is one of seven kinds (`Kinds`), which keeps the argument about
threads apart from that about pages. Readiness needs that what a probe has found so far has replied
since it was sent (`FoundHasReplied`). The walk needs that a page is asked for when all earlier ones
came full (`PagesInOrder`), and then counts: a scene that was accepted all along and is on no page
has at least as many scenes before it as the pages read so far hold (`MissedLieBeyond`), and one that
was read has fewer before it than its page ends with (`ReadLieWithin`), unless a scene before it left
or came. That a page is full when a row lies beyond it (`FullPage`) rests on a least and a greatest
element of finite sets of numbers, obtained from the well-foundedness of the subset order, since the
induction theorems of the library are out of reach.

**Only model-checked.** Liveness under fairness, which is outside the prover's reach.

## 6. Not modelled

Parsing, formatting, logging, metrics and error wording; the geometry of footprints and the
temporal window (whether a scene matches an event is fixed by the two rows); stream retention and
storage limits; how long a backoff lasts; requests to an API process that is being stopped;
two commands that find no `.env.local` at the same moment and each write their own credentials;
migrations, data generators, load tests and compose files. Of `terractl`: the scanners and gates
(`security.py`, `documentation.py`, `contract.py`, `doctor.py`, `diagnostics.py`, `performance.py`),
which are functions of files and of command output without state or interleaving, and the lock
that `terractl test` takes around system and resilience tests.

## 7. Plan

1. The lock around system and resilience tests, in `Evidence`.
