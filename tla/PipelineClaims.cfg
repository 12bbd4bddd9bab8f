\* One report, two coroutines, two commits, every operation; users do not move a
\* report out of a stage claim.
SPECIFICATION Spec
CONSTANTS
    Reports = {r1}
    NoReport = NoReport
    Slots = {s1, s2}
    AutoFix = TRUE
    MaxConcurrent = 1
    MaxTriageRetries = 1
    MaxLocRetries = 1
    MaxFixRetries = 2
    Modes = {"auto"}
    HandEdits = {"enter"}
    MaxSha = 2
    MaxEdits = 1
    MaxCrashes = 1
SYMMETRY Symmetry
INVARIANTS
    TypeOK
    NoDoubleProcessing
    OneProposalPerLocalization
    RunningRowsOwned
    PaidCallBudget
PROPERTIES
    FollowsWorkflow
