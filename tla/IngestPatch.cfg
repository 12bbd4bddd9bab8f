\* Two PATCH requests at once while a poll is in flight.
SPECIFICATION Spec
CONSTANTS
    Configs = {c1, c2}
    NoConfig = NoConfig
    NoRow = NoRow
    NoState = NoState
    Tick = Tick
    Manual = {}
    Patchers = {x1, x2}
    N = 1
    Unmappable = {}
    PageLimit = 1
    MaxPages = 1
    RewalkPages = 2
    MaxBackoff = 2
    Analysable = {}
    MaxChanges = 0
    MaxErrors = 0
    MaxPatches = 2
    MaxDeletes = 0
    MaxCrashes = 0
SYMMETRY Symmetry
PROPERTIES
    OldSourceNeverImported
\* A project that is deleted, or has no source any more, is not polled.
CHECK_DEADLOCK FALSE
