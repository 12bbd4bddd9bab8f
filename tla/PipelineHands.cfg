\* Users may move a report into a stage claim and out of it; the worker runs two
\* jobs at a time.
SPECIFICATION Spec
CONSTANTS
    Reports = {r1}
    NoReport = NoReport
    Slots = {s1, s2}
    AutoFix = TRUE
    MaxConcurrent = 2
    MaxTriageRetries = 1
    MaxLocRetries = 1
    MaxFixRetries = 1
    Modes = {"auto"}
    HandEdits = {"enter", "leave"}
    MaxSha = 1
    MaxEdits = 2
    MaxCrashes = 1
SYMMETRY Symmetry
INVARIANTS
    RunningRowsOwned
    OneJobPerStage
