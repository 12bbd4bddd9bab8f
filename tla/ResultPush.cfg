\* Two reports, one PUT per tick; a lost, late or refused PUT, a crash, a clock
\* that steps back.
SPECIFICATION FairSpec
CONSTANTS
    Reports = {r1, r2}
    PerTick = 1
    Clocks = {1, 3}
    MaxChanges = 2
    MaxHeads = 1
    HeadReturns = FALSE
    MaxErrors = 1
    MaxCrashes = 1
INVARIANTS
    TypeOK
    OneRevisionOnePayload
    AckedIsShown
PROPERTIES
    ShownNeverGoesBack
    LastPictureArrives
\* Every picture has been pushed.
CHECK_DEADLOCK FALSE
