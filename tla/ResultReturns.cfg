\* projects.head_sha takes an earlier value again while a PUT is lost.
SPECIFICATION Spec
CONSTANTS
    Reports = {r1}
    PerTick = 1
    Clocks = {1, 3}
    MaxChanges = 1
    MaxHeads = 2
    HeadReturns = TRUE
    MaxErrors = 2
    MaxCrashes = 0
INVARIANTS
    AckedIsShown
\* Every picture has been pushed.
CHECK_DEADLOCK FALSE
