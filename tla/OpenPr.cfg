\* Two requests and two proposals, crashes, adoption, lost and late pushes and
\* POSTs, people at work on the branch; the pull request settled over failed reads.
SPECIFICATION FairSpec
CONSTANTS
    Requests = {q1, q2}
    MaxProposals = 2
    MaxCommits = 2
    MaxPrs = 2
    MaxClaims = 2
    MaxCrashes = 1
    MaxEdits = 1
    MaxErrors = 1
    People = TRUE
INVARIANTS
    TypeOK
    OneRecordedPr
    RecordedOwnerMadeIt
    OneHolder
    PushedHasIntent
PROPERTIES
    RequestsEnd
    MergedIsNoticed
    OnlyMergeCloses
    RejectedStays
\* Callers stop: all claims of the bound are used.
CHECK_DEADLOCK FALSE
