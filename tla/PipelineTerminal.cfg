\* DELETE and PATCH of a report while a stage runs on it.
SPECIFICATION Spec
CONSTANTS
    Reports = {r1}
    NoReport = NoReport
    Slots = {s1, s2}
    AutoFix = TRUE
    MaxConcurrent = 1
    MaxTriageRetries = 1
    MaxLocRetries = 1
    MaxFixRetries = 1
    Modes = {"auto"}
    HandEdits = {"leave"}
    MaxSha = 1
    MaxEdits = 1
    MaxCrashes = 1
SYMMETRY Symmetry
PROPERTIES
    TerminalIsFinal
