\* DELETE of a project whose deleted reports were analysed.
SPECIFICATION Spec
CONSTANTS
    Configs = {c1, c2}
    NoConfig = NoConfig
    NoRow = NoRow
    NoState = NoState
    Tick = Tick
    Manual = {}
    Patchers = {}
    N = 1
    Unmappable = {}
    PageLimit = 1
    MaxPages = 1
    RewalkPages = 2
    MaxBackoff = 2
    Analysable = {1}
    MaxChanges = 0
    MaxErrors = 0
    MaxPatches = 0
    MaxDeletes = 2
    MaxCrashes = 0
SYMMETRY Symmetry
INVARIANTS
    ForeignKeyAnswered
\* A project that is deleted, or has no source any more, is not polled.
CHECK_DEADLOCK FALSE
