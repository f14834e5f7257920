SPECIFICATION EvidenceSpec
CONSTANTS
    c1 = c1
    c2 = c2
    e1 = e1
    e2 = e2
    Check = {c1, c2}
    Label = {1, 2}
    Selects <- MCSelects
    Required <- MCRequired
    Command = {e1, e2}
    MaxCommits = 1
    MaxRuns = 2
    MaxKills = 1
SYMMETRY Commands
INVARIANTS
    EvidenceTypeOK
    EvidenceIsEarned
    ReconciledIsOneRun
CHECK_DEADLOCK FALSE
