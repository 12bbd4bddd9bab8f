\* DELETE between the claim and its registration.
SPECIFICATION Spec
CONSTANTS
    Requests = {q1, q2}
    MaxProposals = 2
    MaxCommits = 3
    MaxPrs = 2
    MaxClaims = 2
    MaxCrashes = 0
    MaxEdits = 1
    MaxErrors = 1
    People = FALSE
SYMMETRY Symmetry
PROPERTIES
    DeleteRefusedWhileClaimed
\* Callers stop: all claims of the bound are used.
CHECK_DEADLOCK FALSE
