SPECIFICATION LookupSpec
CONSTANTS
    Cause = {1, 2}
    Writer = {w1, w2}
    Stream = {}
    SettleWindow = 1
    MaxInsert = 1
    MaxTime = 2
    Delegation = {d1}
    Revoked <- SameDelegation
    Reader = {direct, cached1, cached2}
    Cached = {cached1, cached2}
SYMMETRY Interchangeable
INVARIANTS
    ToldIsStored
    DirectAnswerIsMostRecent
PROPERTIES
    NeverGoesBack
