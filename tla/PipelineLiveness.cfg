\* Every claim is released and every poll cycle ends.
SPECIFICATION FairSpec
CONSTANTS
    Reports = {r1}
    NoReport = NoReport
    Slots = {s1, s2}
    AutoFix = TRUE
    MaxConcurrent = 1
    MaxTriageRetries = 1
    MaxLocRetries = 1
    MaxFixRetries = 1
    Modes = {"auto", "hold"}
    HandEdits = {}
    MaxSha = 1
    MaxEdits = 1
    MaxCrashes = 1
PROPERTIES
    ClaimsReleased
    CyclesEnd
