\* Three reports on hold: validation and its duplicate links, edits and a crash.
SPECIFICATION Spec
CONSTANTS
    Reports = {r1, r2, r3}
    NoReport = NoReport
    Slots = {s1}
    AutoFix = TRUE
    MaxConcurrent = 1
    MaxTriageRetries = 1
    MaxLocRetries = 1
    MaxFixRetries = 1
    Modes = {"hold"}
    HandEdits = {"enter", "leave"}
    MaxSha = 1
    MaxEdits = 2
    MaxCrashes = 1
SYMMETRY Symmetry
INVARIANTS
    DuplicatesAcyclic
