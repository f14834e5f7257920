------------------------------ MODULE Evidence ------------------------------
(***************************************************************************)
(* `terra.sh evidence`, src/terractl/reporting.py and evidence.py: the      *)
(* JUnit files that test runs have left are merged into one record per      *)
(* required check, rendered into a package, read back and reconciled, and   *)
(* the exit code is derived from the package.                               *)
(*                                                                         *)
(* All commands here were given the same run id: packages of other ids are  *)
(* other directories.  "failed" is a test case with a failure, an error or  *)
(* a skip; the parametrised cases of a test are one outcome.  A revision is *)
(* what repository_revision prints.                                         *)
(***************************************************************************)
EXTENDS Naturals, FiniteSets

CONSTANTS
    Check,          \* tests that requirements name
    Label,          \* JUnit files, numbered in the order of their names
    Selects,        \* the checks that a test run with this label executes
    Required,       \* the checks named by the requirements of a revision
    Command,        \* invocations of the evidence command
    MaxCommits,     \* bound: commits
    MaxRuns,        \* bound: test runs
    MaxKills        \* bound: test runs and commands that are killed or raise

ASSUME LabelAssumption == Label \subseteq Nat /\ IsFiniteSet(Check)
ASSUME EvidenceBoundsAssumption == MaxCommits \in Nat /\ MaxRuns \in Nat /\ MaxKills \in Nat
ASSUME SelectsAssumption == Selects \in [Label -> SUBSET Check]
ASSUME RequiredAssumption == Required \in [0..MaxCommits -> (SUBSET Check) \ {{}}]

VARIABLES
    head,           \* the revision that is checked out
    testing,        \* runs in progress: the revision that they test
    junit,          \* artifacts/junit: the files that exist
    stands, allow,  \* where a command stands; --allow-unobserved
    unread, read,   \* files a command has yet to parse; what the others held
    merged,         \* the outcomes it has merged so far
    records,        \* the records of its summary
    package,        \* the rendered files
    manifest,       \* manifest.json
    certified,      \* test-summary.json as the command last read it
    overlapped,     \* two commands were at work on the package at once
    runs, kills

tests == <<head, testing, junit, runs>>
gathered == <<allow, unread, read, merged, records, certified>>
evidenceVars == <<tests, stands, gathered, package, manifest, overlapped, kills>>

Format == {"json", "md", "csv", "junit"}
Observation == {"passed", "failed", "not observed"}
Over == {"ok", "failed", "killed"}
CommandSteps == Format \cup Over \cup {"idle", "read", "manifest", "reconcile", "report"}

None == [c \in {} |-> "not observed"]
NoFile == [by |-> "nobody", records |-> None]
NoManifest == [revision |-> 0, total |-> 0, files |-> [f \in Format |-> NoFile]]

Outcomes(l) == [Selects[l] -> {"passed", "failed"}]
IsRecords(r) == DOMAIN r \subseteq Check /\ \A c \in DOMAIN r : r[c] \in Observation
IsFile(d) == d.by \in Command \cup {"nobody"} /\ IsRecords(d.records)
IsJUnit(files) ==
    /\ DOMAIN files \subseteq Label
    /\ \A l \in DOMAIN files : files[l].revision \in 0..head /\ files[l].outcomes \in Outcomes(l)

EvidenceTypeOK ==
    /\ head \in 0..MaxCommits
    /\ DOMAIN testing \subseteq Label /\ \A l \in DOMAIN testing : testing[l] \in 0..head
    /\ IsJUnit(junit)
    /\ stands \in [Command -> CommandSteps] /\ allow \in [Command -> BOOLEAN]
    /\ DOMAIN unread = Command /\ DOMAIN read = Command /\ DOMAIN merged = Command
    /\ DOMAIN records = Command /\ DOMAIN certified = Command /\ DOMAIN package = Format
    /\ \A e \in Command :
           /\ IsJUnit(read[e])
           /\ unread[e] \subseteq DOMAIN junit \ DOMAIN read[e]
           /\ IsRecords(merged[e]) /\ IsRecords(records[e])
           /\ IsFile(certified[e])
    /\ \A f \in Format : IsFile(package[f])
    /\ manifest # NoManifest =>
           /\ manifest.revision \in 0..head
           /\ \A f \in Format : IsFile(manifest.files[f]) /\ manifest.files[f] # NoFile
    /\ overlapped \in BOOLEAN /\ runs \in 0..MaxRuns /\ kills \in 0..MaxKills

EvidenceInit ==
    /\ head = 0
    /\ testing = [l \in {} |-> 0] /\ junit = [l \in {} |-> NoFile]
    /\ stands = [e \in Command |-> "idle"] /\ allow = [e \in Command |-> FALSE]
    /\ unread = [e \in Command |-> {}] /\ read = [e \in Command |-> [l \in {} |-> NoFile]]
    /\ merged = [e \in Command |-> [c \in Check |-> "not observed"]]
    /\ records = [e \in Command |-> None]
    /\ package = [f \in Format |-> NoFile] /\ manifest = NoManifest
    /\ certified = [e \in Command |-> NoFile]
    /\ overlapped = FALSE /\ runs = 0 /\ kills = 0

------------------------------------------------------------------------------
(* Test runs and commits. *)

With(f, x, v) == [y \in DOMAIN f \cup {x} |-> IF y = x THEN v ELSE f[y]]
Without(f, x) == [y \in DOMAIN f \ {x} |-> f[y]]

Commit ==
    /\ head < MaxCommits /\ head' = head + 1
    /\ UNCHANGED <<testing, junit, runs, stands, gathered, package, manifest, overlapped, kills>>

\* pytest imports the tests at its start.
StartTests(l) ==
    /\ l \notin DOMAIN testing
    /\ runs < MaxRuns /\ runs' = runs + 1
    /\ testing' = With(testing, l, head)
    /\ UNCHANGED <<head, junit, stands, gathered, package, manifest, overlapped, kills>>

\* It writes the file at its end, over the one of an earlier run.
EndTests(l) ==
    /\ l \in DOMAIN testing
    /\ testing' = Without(testing, l)
    /\ \E o \in Outcomes(l) :
           junit' = With(junit, l, [revision |-> testing[l], outcomes |-> o])
    /\ UNCHANGED <<head, runs, stands, gathered, package, manifest, overlapped, kills>>

\* Killed, it leaves the file of an earlier run.
KillTests(l) ==
    /\ l \in DOMAIN testing
    /\ kills < MaxKills /\ kills' = kills + 1
    /\ testing' = Without(testing, l)
    /\ UNCHANGED <<head, junit, runs, stands, gathered, package, manifest, overlapped>>

------------------------------------------------------------------------------
(* The summary: reporting.py *)

Goto(e, from, to) == stands[e] = from /\ stands' = [stands EXCEPT ![e] = to]

\* collect_outcomes lists the files; without one, the command fails.
Collect(e) ==
    /\ Goto(e, "idle", IF DOMAIN junit = {} THEN "failed" ELSE "read")
    /\ unread' = [unread EXCEPT ![e] = DOMAIN junit]
    /\ \E waive \in BOOLEAN : allow' = [allow EXCEPT ![e] = waive]
    /\ overlapped' = (overlapped \/ \E d \in Command \ {e} : stands[d] \notin Over \cup {"idle"})
    /\ UNCHANGED <<tests, read, merged, records, certified, package, manifest, kills>>

\* Faulty variant of Merge: the last file decides.
MergeLast(old, new) == [c \in Check |-> IF c \in DOMAIN new THEN new[c] ELSE old[c]]

\* A failure in one file outweighs a pass in another.
Merge(old, new) ==
    [c \in Check |-> IF c \in DOMAIN new /\ (old[c] = "not observed" \/ new[c] = "failed")
                     THEN new[c] ELSE old[c]]

\* parse_junit of the next file
Read(e) ==
    /\ stands[e] = "read"
    /\ \E l \in unread[e] :
           /\ \A k \in unread[e] : l <= k
           /\ unread' = [unread EXCEPT ![e] = @ \ {l}]
           /\ read' = [read EXCEPT ![e] = With(@, l, junit[l])]
           /\ merged' = [merged EXCEPT ![e] = Merge(@, junit[l].outcomes)]
    /\ UNCHANGED <<tests, stands, allow, records, certified, package, manifest, overlapped, kills>>

\* build_summary: a record for each check that the requirements name now.
Summarise(e) ==
    /\ unread[e] = {} /\ Goto(e, "read", "json")
    /\ records' = [records EXCEPT ![e] = [c \in Required[head] |-> merged[e][c]]]
    /\ UNCHANGED <<tests, allow, unread, read, merged, certified, package, manifest, overlapped,
                   kills>>

------------------------------------------------------------------------------
(* The package: evidence.py *)

\* Faulty variant of After: the manifest is written before the JUnit file.
AfterEarly(f) == CASE f = "json" -> "md" [] f = "md" -> "csv" [] f = "csv" -> "manifest"
                   [] OTHER -> "manifest"

After(f) == CASE f = "json" -> "md" [] f = "md" -> "csv" [] f = "csv" -> "junit"
              [] OTHER -> "manifest"

\* Only test-summary.json tells when it was generated, and so by which command.
Rendered(e, f) == [by |-> IF f = "json" THEN e ELSE "nobody", records |-> records[e]]

WriteFile(e) ==
    /\ stands[e] \in Format
    /\ package' = [package EXCEPT ![stands[e]] = Rendered(e, stands[e])]
    /\ Goto(e, stands[e], After(stands[e]))
    /\ UNCHANGED <<tests, gathered, manifest, overlapped, kills>>

\* The digests are those of the files as they are found.
WriteManifest(e) ==
    /\ Goto(e, "manifest", "reconcile")
    /\ manifest' = [revision |-> head, total |-> Cardinality(DOMAIN records[e]), files |-> package]
    /\ UNCHANGED <<tests, gathered, package, overlapped, kills>>

Total(f) == Cardinality(DOMAIN package[f].records)
Failures(f) == Cardinality({c \in DOMAIN package[f].records : package[f].records[c] # "passed"})

\* Faulty variant of DigestsMatch: the digests are not compared.
DigestsUnseen == manifest # NoManifest

DigestsMatch == manifest # NoManifest /\ manifest.files = package

\* reconcile_evidence
Reconciles ==
    /\ \A f \in Format : package[f] # NoFile
    /\ Total("json") > 0
    /\ Total("json") = Total("csv") /\ Total("json") = Total("junit")
    /\ Failures("json") = Failures("junit")
    /\ DigestsMatch
    /\ manifest.total = Total("json")

Reconcile(e) ==
    /\ Goto(e, "reconcile", IF Reconciles THEN "report" ELSE "failed")
    /\ UNCHANGED <<tests, gathered, package, manifest, overlapped, kills>>

\* classify_failures of the records in test-summary.json
Report(e) ==
    LET Those(result) ==
            \E c \in DOMAIN package["json"].records : package["json"].records[c] = result
        Refused == Those("failed") \/ (Those("not observed") /\ ~allow[e])
    IN  /\ Goto(e, "report", IF Refused THEN "failed" ELSE "ok")
        /\ certified' = [certified EXCEPT ![e] = package["json"]]
        /\ UNCHANGED <<tests, allow, unread, read, merged, records, package, manifest, overlapped,
                       kills>>

\* The command is killed, or a file that it reads or writes makes it raise.
Abandon(e) ==
    /\ stands[e] \notin Over \cup {"idle"}
    /\ kills < MaxKills /\ kills' = kills + 1
    /\ stands' = [stands EXCEPT ![e] = "killed"]
    /\ UNCHANGED <<tests, gathered, package, manifest, overlapped>>

EvidenceNext ==
    \/ Commit
    \/ \E l \in Label : StartTests(l) \/ EndTests(l) \/ KillTests(l)
    \/ \E e \in Command :
           \/ Collect(e) \/ Read(e) \/ Summarise(e) \/ WriteFile(e) \/ WriteManifest(e)
           \/ Reconcile(e) \/ Report(e) \/ Abandon(e)

EvidenceSpec == EvidenceInit /\ [][EvidenceNext]_evidenceVars

------------------------------------------------------------------------------
(* Properties *)

Holds(e, c, result) ==
    \E l \in DOMAIN read[e] : c \in Selects[l] /\ read[e][l].outcomes[c] = result

\* A command that exits 0 has certified only checks that passed in a file and failed in
\* none, and with --allow-unobserved those that no file has: whatever test runs and
\* other commands did while it worked (docs/DECISIONS.md, 5 and 11).
EvidenceIsEarned ==
    \A e \in Command : stands[e] = "ok" =>
        LET d == certified[e] IN
        /\ d.by \in Command
        /\ \A c \in DOMAIN d.records :
               /\ ~Holds(d.by, c, "failed")
               /\ Holds(d.by, c, "passed") \/ allow[e]

\* A package that reconciles shows the records of one command in every format, although
\* totals alone do not tell them apart, commands die half-way and the next one writes
\* over what they left: as long as no two commands worked on the package at once.
ReconciledIsOneRun ==
    Reconciles /\ ~overlapped =>
        \A f \in Format : package[f].records = records[package["json"].by]
==============================================================================
