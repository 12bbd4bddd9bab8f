\* Analyze (local) on a report without a triage row.
SPECIFICATION Spec
CONSTANTS
    Actions = {a1}
    Reports = {r1}
    Asks <- LocalAsks
    Busy = {r1}
    Slots = 1
    PrAttempts = 2
    MaxErrors = 0
    MaxCrashes = 0
    MaxEdits = 0
    Idle = Idle
    None = None
INVARIANTS
    RefusedDidNotRun
