---------------------------- MODULE SceneIngest ----------------------------
(***************************************************************************)
(* The scene upload service, src/terrawatch/ingest.py: concurrent requests *)
(* POST /v1/scenes against an object store (MinIO) and the tables scenes    *)
(* and outbox_events (PostGIS).  The handler is a coroutine, so its         *)
(* interleaving points are its awaits: reading the upload, the lookup       *)
(* transaction and the persist transaction (both run in a thread), and the  *)
(* publication of the outbox.  Everything between two awaits, the object    *)
(* upload and the object removal included, is one step.                     *)
(*                                                                         *)
(* Scene content is its digest.  Names, sizes, metadata fields, error texts *)
(* and the raster format are abstracted; what decides the control flow of   *)
(* the handler is kept.                                                     *)
(***************************************************************************)
EXTENDS Naturals, FiniteSets

CONSTANTS
    Request,    \* the uploads
    SceneId,    \* declared scene ids
    Digest,     \* SHA-256 digests, i.e. distinct raster contents
    Admits,     \* Admits[d]: the scene ids the tags inside content d agree with
    MaxFaults,  \* bound: how many calls to PostGIS or MinIO may fail
    MaxCrashes  \* bound: how many times the service process is killed

ASSUME AdmitsAssumption == Admits \in [Digest -> SUBSET SceneId]
ASSUME BoundsAssumption == MaxFaults \in Nat /\ MaxCrashes \in Nat

VARIABLES
    pc,         \* where each request's handler stands
    upload,     \* what each request uploads: declared scene id and content
    found,      \* the rows by_id and by_digest that the lookup returned
    created,    \* requests whose flag object_created is set
    staged,     \* requests whose temporary file exists
    answer,     \* the HTTP answers given
    scenes,     \* table scenes
    outbox,     \* table outbox_events: [request, published_at is set]
    objects,    \* digests whose object is in the bucket
    faults, crashes

vars == <<pc, upload, found, created, staged, answer, scenes, outbox, objects,
          faults, crashes>>

Row == [scene_id: SceneId, sha256: Digest]
NoAnswer == [status |-> 0]
Plain == [status: {413, 415, 422, 409, 500}]
Described == [status: {200, 202}, row: Row]

Steps == {"idle", "received", "looked", "persisting", "committed", "failed",
          "answered", "lost"}

TypeOK ==
    /\ pc \in [Request -> Steps]
    /\ upload \in [Request -> Row]
    /\ found \in [Request -> [by_id: SUBSET Row, by_digest: SUBSET Row]]
    /\ created \subseteq Request
    /\ staged \subseteq Request
    /\ answer \in [Request -> {NoAnswer} \cup Plain \cup Described]
    /\ scenes \subseteq Row
    /\ outbox \subseteq [request: Request, published: BOOLEAN]
    /\ objects \subseteq Digest
    /\ faults \in 0..MaxFaults
    /\ crashes \in 0..MaxCrashes

Init ==
    /\ pc = [r \in Request |-> "idle"]
    /\ upload \in [Request -> Row]
    /\ found = [r \in Request |-> [by_id |-> {}, by_digest |-> {}]]
    /\ created = {} /\ staged = {}
    /\ answer = [r \in Request |-> NoAnswer]
    /\ scenes = {} /\ outbox = {} /\ objects = {}
    /\ faults = 0 /\ crashes = 0

------------------------------------------------------------------------------
Goto(r, from, to) == pc[r] = from /\ pc' = [pc EXCEPT ![r] = to]

\* One more call to a dependency fails.
Fault == faults < MaxFaults /\ faults' = faults + 1

\* Return a response; the finally clause unlinks the staged file.
Finish(r, from, response) ==
    /\ Goto(r, from, "answered")
    /\ answer' = [answer EXCEPT ![r] = response]
    /\ staged' = staged \ {r}

\* Metadata that does not validate (422), or an upload with a wrong suffix
\* (415), too large (413) or empty (422): nothing stays staged.
RejectUpload(r) ==
    /\ \E status \in {413, 415, 422} : Finish(r, "idle", [status |-> status])
    /\ UNCHANGED <<upload, found, created, scenes, outbox, objects, faults, crashes>>

\* The upload has been read into a temporary file.
Stage(r) ==
    /\ Goto(r, "idle", "received")
    /\ staged' = staged \cup {r}
    /\ UNCHANGED <<upload, found, created, answer, scenes, outbox, objects, faults, crashes>>

\* The raster is unreadable or invalid, or the declared checksum differs.
RejectContent(r) ==
    /\ Finish(r, "received", [status |-> 422])
    /\ UNCHANGED <<upload, found, created, scenes, outbox, objects, faults, crashes>>

ById(r) == {s \in scenes : s.scene_id = upload[r].scene_id}
ByDigest(r) == {s \in scenes : s.sha256 = upload[r].sha256}

\* _existing_scenes: one transaction reads the rows with this id or digest.
Lookup(r) ==
    /\ Goto(r, "received", "looked")
    /\ found' = [found EXCEPT ![r] = [by_id |-> ById(r), by_digest |-> ByDigest(r)]]
    /\ UNCHANGED <<upload, created, staged, answer, scenes, outbox, objects, faults, crashes>>

LookupFails(r) ==
    /\ Fault
    /\ Finish(r, "received", [status |-> 500])
    /\ UNCHANGED <<upload, found, created, scenes, outbox, objects, crashes>>

\* Faulty variant of Conflicting: the digest of by_id is not compared.
ConflictIgnored(r) == FALSE

Conflicting(r) == \E s \in found[r].by_id : s.sha256 # upload[r].sha256

\* The scene id identifies other content.
AnswerConflict(r) ==
    /\ Conflicting(r)
    /\ Finish(r, "looked", [status |-> 409])
    /\ UNCHANGED <<upload, found, created, scenes, outbox, objects, faults, crashes>>

\* by_id or by_digest
Existing(r) == IF found[r].by_id # {} THEN found[r].by_id ELSE found[r].by_digest

\* The content is already registered: replay the row that holds it.
AnswerReplay(r) ==
    /\ ~Conflicting(r)
    /\ \E s \in Existing(r) : Finish(r, "looked", [status |-> 200, row |-> s])
    /\ UNCHANGED <<upload, found, created, scenes, outbox, objects, faults, crashes>>

New(r) == found[r].by_id = {} /\ found[r].by_digest = {}
TagsAgree(r) == upload[r].scene_id \in Admits[upload[r].sha256]

\* Faulty variant of RejectTags: the tags are checked after the upload.
RejectTagsAfterPut(r) ==
    /\ New(r)
    /\ Finish(r, "looked", [status |-> 422])
    /\ objects' = objects \cup {upload[r].sha256}
    /\ UNCHANGED <<upload, found, created, scenes, outbox, faults, crashes>>

\* inspect_raster with the declared metadata raises RasterValidationError: the
\* scene id or the capture time is not the raster's.  Nothing else depends on the
\* declared capture time, so any upload may turn out to have a wrong one.
RejectTags(r) ==
    /\ New(r)
    /\ Finish(r, "looked", [status |-> 422])
    /\ UNCHANGED <<upload, found, created, scenes, outbox, objects, faults, crashes>>

\* Faulty variant of PutObject: the object is named after the scene id.
PutObjectUnderSceneId(r) ==
    /\ New(r) /\ TagsAgree(r)
    /\ Goto(r, "looked", "persisting")
    /\ objects' = objects \cup {upload[r].scene_id}
    /\ created' = created \cup {r}
    /\ UNCHANGED <<upload, found, staged, answer, scenes, outbox, faults, crashes>>

\* fput_object stores the content under its digest.
PutObject(r) ==
    /\ New(r) /\ TagsAgree(r)
    /\ Goto(r, "looked", "persisting")
    /\ objects' = objects \cup {upload[r].sha256}
    /\ created' = created \cup {r}
    /\ UNCHANGED <<upload, found, staged, answer, scenes, outbox, faults, crashes>>

\* fput_object raises, before or after the store took the object; the flag is
\* not set, so nothing is removed.
PutObjectFails(r) ==
    /\ New(r) /\ TagsAgree(r)
    /\ Fault
    /\ objects' \in {objects, objects \cup {upload[r].sha256}}
    /\ Finish(r, "looked", [status |-> 500])
    /\ UNCHANGED <<upload, found, created, scenes, outbox, crashes>>

\* Faulty variant of Unique: the column sha256 is not unique.
UniqueIdOnly(r) == ById(r) = {}

\* The primary key scene_id and the unique column sha256.
Unique(r) == ById(r) = {} /\ ByDigest(r) = {}

Insert(r) ==
    /\ scenes' = scenes \cup {upload[r]}
    /\ outbox' = outbox \cup {[request |-> r, published |-> FALSE]}

\* _persist_scene commits the scene and its outbox row in one transaction.
Persist(r) ==
    /\ Unique(r)
    /\ Goto(r, "persisting", "committed")
    /\ Insert(r)
    /\ UNCHANGED <<upload, found, created, staged, answer, objects, faults, crashes>>

\* The transaction violates a uniqueness constraint and rolls back.
PersistRefused(r) ==
    /\ ~Unique(r)
    /\ Goto(r, "persisting", "failed")
    /\ UNCHANGED <<upload, found, created, staged, answer, scenes, outbox, objects, faults, crashes>>

\* Faulty variant of PersistFails: scene and message in two transactions.
PersistFailsHalfway(r) ==
    /\ Fault
    /\ Goto(r, "persisting", "failed")
    /\ Unique(r) /\ scenes' = scenes \cup {upload[r]}
    /\ UNCHANGED <<upload, found, created, staged, answer, outbox, objects, crashes>>

\* The database fails before the commit, or after it but before its
\* acknowledgement reached the service.
PersistFails(r) ==
    /\ Fault
    /\ Goto(r, "persisting", "failed")
    /\ \/ UNCHANGED <<scenes, outbox>>
       \/ Unique(r) /\ Insert(r)
    /\ UNCHANGED <<upload, found, created, staged, answer, objects, crashes>>

\* The exception handler removes the object this request had put; a failing
\* removal is suppressed.
Cleanup(r) ==
    /\ Finish(r, "failed", [status |-> 500])
    /\ \/ /\ objects' = IF r \in created THEN objects \ {upload[r].sha256} ELSE objects
          /\ UNCHANGED faults
       \/ r \in created /\ Fault /\ UNCHANGED objects
    /\ UNCHANGED <<upload, found, created, scenes, outbox, crashes>>

Publish(rows) ==
    outbox' = {[o EXCEPT !.published = o.published \/ o \in rows] : o \in outbox}

Pending == {o \in outbox : ~o.published}

\* publish_pending gets some of the pending rows out, its errors are
\* suppressed, and the request is answered.
AnswerAccepted(r) ==
    /\ \E rows \in SUBSET Pending : Publish(rows)
    /\ Finish(r, "committed", [status |-> 202, row |-> upload[r]])
    /\ UNCHANGED <<upload, found, created, scenes, objects, faults, crashes>>

\* A round of the background task outbox_loop.
OutboxRound ==
    /\ \E rows \in SUBSET Pending : rows # {} /\ Publish(rows)
    /\ UNCHANGED <<pc, upload, found, created, staged, answer, scenes, objects, faults, crashes>>

InFlight(r) == pc[r] \notin {"idle", "answered", "lost"}

\* The service process dies: handlers vanish without running their except and
\* finally clauses.  Temporary files, objects and rows stay.
Crash ==
    /\ crashes < MaxCrashes
    /\ crashes' = crashes + 1
    /\ \E r \in Request : InFlight(r)
    /\ pc' = [r \in Request |-> IF InFlight(r) THEN "lost" ELSE pc[r]]
    /\ UNCHANGED <<upload, found, created, staged, answer, scenes, outbox, objects, faults>>

Handle(r) ==
    \/ RejectContent(r) \/ Lookup(r) \/ LookupFails(r)
    \/ AnswerConflict(r) \/ AnswerReplay(r) \/ RejectTags(r)
    \/ PutObject(r) \/ PutObjectFails(r)
    \/ Persist(r) \/ PersistRefused(r) \/ PersistFails(r) \/ Cleanup(r)
    \/ AnswerAccepted(r)

Next ==
    \/ \E r \in Request : Stage(r) \/ RejectUpload(r) \/ Handle(r)
    \/ OutboxRound
    \/ Crash

Spec == Init /\ [][Next]_vars

------------------------------------------------------------------------------
(* Properties *)

\* ING-006, ING-007: whatever requests race, a scene id names one content and a
\* content is registered under one scene id.
OneRowPerIdentity ==
    \A s, t \in scenes : s.scene_id = t.scene_id \/ s.sha256 = t.sha256 => s = t

\* The transactional outbox: a registered scene has exactly one message that
\* announces it, and no message announces a scene that is not registered, at
\* every moment between the awaits of concurrent and failing handlers.
EverySceneAnnouncedOnce ==
    /\ \A s \in scenes :
         \E o \in outbox : upload[o.request] = s
                           /\ \A q \in outbox : upload[q.request] = s => q = o
    /\ \A o \in outbox : upload[o.request] \in scenes

\* What a client was told stays true: after 202 its own scene and message are
\* in the database, after 200 the row it was shown is there and holds the
\* uploaded content, after 409 its scene id holds other content.
AnswersAreTruthful ==
    \A r \in Request :
        /\ answer[r].status = 202 =>
               /\ answer[r].row = upload[r] /\ upload[r] \in scenes
               /\ \E o \in outbox : o.request = r
        /\ answer[r].status = 200 =>
               /\ answer[r].row \in scenes
               /\ answer[r].row.sha256 = upload[r].sha256
        /\ answer[r].status = 409 =>
               \E s \in scenes : /\ s.scene_id = upload[r].scene_id
                                 /\ s.sha256 # upload[r].sha256

\* A scene is inserted only by a request that had put the object, so the object
\* of a registered scene can be missing only because a request that uploaded the
\* same content ran the cleanup of a failed persist and was answered 500.
MissingObjectExplained ==
    \A s \in scenes : s.sha256 \notin objects =>
        \E r \in created : upload[r].sha256 = s.sha256 /\ answer[r].status = 500

\* An object that no row refers to is in use by a handler, or was left behind
\* by a crash, a failed removal or a put that raised.  Rejections, conflicts and
\* replays never leave an object behind.
OrphanObjectExplained ==
    \A d \in objects : (\A s \in scenes : s.sha256 # d) =>
        \E r \in Request :
            /\ upload[r].sha256 = d
            /\ \/ pc[r] \in {"persisting", "failed", "lost"}
               \/ answer[r].status = 500 /\ faults > 0

\* The temporary file of an upload is gone once the client has an answer; only a
\* killed process leaves one behind.
StagedFilesReleased ==
    \A r \in staged : InFlight(r) \/ pc[r] = "lost"

\* The table, the object store and the disk agree, except where a cleanup, a failed
\* call or a crash explains it.
LeftoversExplained == MissingObjectExplained /\ OrphanObjectExplained /\ StagedFilesReleased

Reply(r) ==
    CASE answer[r].status = 202 -> "accepted"
      [] answer[r].status = 200 -> "replayed"
      [] answer[r].status = 409 -> "conflict"
      [] answer[r].status \in {413, 415, 422, 500} -> "failed"
      [] OTHER -> "nothing"

Clash(s, t) == s.scene_id = t.scene_id \/ s.sha256 = t.sha256
Same(s, t) == s.sha256 = t.sha256

Entered == {o.request : o \in outbox}

R == INSTANCE Register WITH
        Client <- Request, Submission <- Row,
        submitted <- upload, entered <- Entered,
        told <- [r \in Request |-> Reply(r)]

\* ING-006 and ING-007 together: the service is a register of scenes.  Content
\* that is registered, under whatever id, is replayed; an id that names other
\* content is refused; and a lookup that is stale when it is used never shows.
ImplementsRegister == R!RegisterSpec

\* CAT-003: the object of every registered scene is in the store.
EverySceneHasItsObject == \A s \in scenes : s.sha256 \in objects
==============================================================================
