\* Forward walk and re-walk over a changing source; two errors, a crash.
SPECIFICATION FairSpec
CONSTANTS
    Configs = {c1}
    NoConfig = NoConfig
    NoRow = NoRow
    NoState = NoState
    Tick = Tick
    Manual = {}
    Patchers = {}
    N = 3
    Unmappable = {2}
    PageLimit = 2
    MaxPages = 1
    RewalkPages = 1
    MaxBackoff = 2
    Analysable = {}
    MaxChanges = 2
    MaxErrors = 2
    MaxPatches = 0
    MaxDeletes = 0
    MaxCrashes = 1
INVARIANTS
    TypeOK
    ForwardNeverSkips
PROPERTIES
    RewalkCovers
    ReportsArrive
