----------------------------- MODULE MCEvidence -----------------------------
\* Instance of Evidence for TLC: the first file has one check of the second's two,
\* and the second requirement comes with the first commit.
EXTENDS Evidence, TLC

CONSTANTS c1, c2, e1, e2

MCSelects == [l \in {1, 2} |-> IF l = 1 THEN {c1} ELSE {c1, c2}]
MCRequired == [r \in 0..MaxCommits |-> IF r = 0 THEN {c1} ELSE {c1, c2}]
Commands == Permutations(Command)
==============================================================================
