\* A sampled fix job waits for the semaphore while a manual run fails for good.
SPECIFICATION EagerSpec
CONSTANTS
    Reports = {r1, r2}
    NoReport = NoReport
    Slots = {s1, s2}
    AutoFix = TRUE
    MaxConcurrent = 1
    MaxTriageRetries = 1
    MaxLocRetries = 1
    MaxFixRetries = 1
    Modes = {"auto"}
    HandEdits = {}
    MaxSha = 1
    MaxEdits = 1
    MaxCrashes = 0
SYMMETRY Symmetry
INVARIANTS
    NeverRedispatchedAfterPermanent
