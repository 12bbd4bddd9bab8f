\* Two actions on one or two reports compete for slots across a crash.
SPECIFICATION Spec
CONSTANTS
    Actions = {a1, a2}
    Reports = {r1, r2}
    Asks <- RivalAsks
    Busy = {}
    Slots = 1
    PrAttempts = 2
    MaxErrors = 0
    MaxCrashes = 1
    MaxEdits = 0
    Idle = Idle
    None = None
SYMMETRY Symmetry
INVARIANTS
    SlotsRespected
