SPECIFICATION FairSpec
CONSTANTS
    Cause = {1, 2, 3}
    Delegation = {1, 2}
    Revoked <- OneAlone
    Writer = {w1, w2}
    Stream = {s1}
    MaxBatch = 2
    MaxSeq = 2
    MaxTime = 1
INVARIANTS
    IInv
    NoLostWakeup
PROPERTIES
    FeedsFairly
    CurrentIsStreamed
