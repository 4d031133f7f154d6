SPECIFICATION Spec
CONSTANTS
    Cause = {1, 2}
    Delegation = {1, 2}
    Revoked <- SameDelegation
    Writer = {w1, w2}
    Stream = {s1}
    MaxBatch = 1
    MaxSeq = 3
    MaxTime = 1
INVARIANTS
    RetryNotStreamedAgain
