\* Configuration changes and deletions during polls.
SPECIFICATION Spec
CONSTANTS
    Configs = {c1, c2}
    NoConfig = NoConfig
    NoRow = NoRow
    NoState = NoState
    Tick = Tick
    Manual = {m1}
    Patchers = {x1}
    N = 1
    Unmappable = {}
    PageLimit = 1
    MaxPages = 1
    RewalkPages = 2
    MaxBackoff = 2
    Analysable = {1}
    MaxChanges = 1
    MaxErrors = 0
    MaxPatches = 2
    MaxDeletes = 2
    MaxCrashes = 0
SYMMETRY Symmetry
INVARIANTS
    CheckpointIsCurrent
PROPERTIES
    OldSourceNeverImported
\* A project that is deleted, or has no source any more, is not polled.
CHECK_DEADLOCK FALSE
