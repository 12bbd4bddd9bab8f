\* One action of every kind: two crashes, a lost request or odd answer, a withdrawal or a
\* closing, the time bound at any moment, the gate switched by a restart.
SPECIFICATION FairSpec
CONSTANTS
    Actions = {a1}
    Reports = {r1}
    Asks <- AllAsks
    Busy = {r1}
    Slots = 1
    PrAttempts = 2
    MaxErrors = 1
    MaxCrashes = 2
    MaxEdits = 1
    Idle = Idle
    None = None
INVARIANTS
    TypeOK
    PaidOnce
    LateOnlyAfterTimeout
    ReopenedOnce
    AckMatchesSource
PROPERTIES
    KeyOfPaidCall
    NoPrAfterOutcome
    ImplementsOutcome
    ClaimedIsSettled
    SlotsFreed
