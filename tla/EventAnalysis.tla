---------------------------- MODULE EventAnalysis ----------------------------
(***************************************************************************)
(* What evaluate_event in src/terrawatch/correlation.py says about an event  *)
(* in its row of analysis_results, given the accepted scenes it evaluated.   *)
(* Whether a scene covers an event in space and in time is fixed by the two  *)
(* rows.  A correlation of an event is represented by its scene; a list by   *)
(* what is in it, its order being that of the rows the database returned.    *)
(***************************************************************************)
EXTENDS Naturals, FiniteSets

CONSTANTS
    Scene,      \* scenes that become accepted
    Verdict     \* the correlation_status of a scene and an event

ASSUME ScenesAssumption == IsFiniteSet(Scene)

CorrelationStatus == {"matched", "temporal-non-match", "spatial-non-match"}

\* Those of the scenes with this verdict.
Judged(e, scenes, verdict) == {s \in scenes : Verdict[<<s, e>>] = verdict}

\* _event_analysis_status: the best verdict there is.
AnalysisStatus(e, scenes) ==
    IF Judged(e, scenes, "matched") # {} THEN "matched"
    ELSE IF Judged(e, scenes, "temporal-non-match") # {} THEN "temporal-non-match"
    ELSE IF scenes # {} THEN "spatial-non-match"
    ELSE "no-scenes"

\* A row of analysis_results.
AnalysisResult == [status: CorrelationStatus \cup {"no-scenes"},
                   evaluated_scenes: Nat,
                   matched_correlation_ids: SUBSET Scene,
                   details: [CorrelationStatus -> Nat],
                   provenance: SUBSET Scene]

Column == {"status", "evaluated_scenes", "matched_correlation_ids", "details", "provenance"}

Analysis(e, scenes) ==
    [status |-> AnalysisStatus(e, scenes),
     evaluated_scenes |-> Cardinality(scenes),
     matched_correlation_ids |-> Judged(e, scenes, "matched"),
     details |-> [v \in CorrelationStatus |-> Cardinality(Judged(e, scenes, v))],
     provenance |-> scenes]

\* The columns with a list that another order of the same rows changes.
Orderable(e, scenes) ==
    {c \in {"matched_correlation_ids"} : Cardinality(Judged(e, scenes, "matched")) > 1}
    \cup {c \in {"details"} :
              Cardinality({v \in CorrelationStatus : Judged(e, scenes, v) # {}}) > 1}

\* The row after some of its columns were set to what the analysis says.
Updated(row, analysis, columns) ==
    [c \in Column |-> IF c \in columns THEN analysis[c] ELSE row[c]]
==============================================================================
