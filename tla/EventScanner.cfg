SPECIFICATION FairSpec
CONSTANTS
    MaxEvent = 2
    Headroom = 2
    FieldName = 1
    MaxBreaks = 2
    Sent <- UpToTwoEvents
INVARIANTS
    DeliversWholeEvents
    NothingRefused
    OutcomeIsTruthful
PROPERTIES
    GetsThrough
CHECK_DEADLOCK FALSE
