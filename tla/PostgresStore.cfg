SPECIFICATION FairSpec
CONSTANTS
    Cause = {1, 2}
    Writer = {w1, w2}
    Stream = {s1}
    SettleWindow = 1
    MaxInsert = 1
    MaxTime = 3
INVARIANTS
    YieldsAtMostOnce
    NothingSkipped
    SeenIsBounded
    IInv
PROPERTIES
    KeepsFirstRecord
    ImplementsFeed
    FeedsFairly
