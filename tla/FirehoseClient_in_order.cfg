SPECIFICATION ClientFairSpec
CONSTANTS
    Cause = {1, 2}
    Writer = {w1, w2}
    Stream = {s1}
    Conn = s1
    SettleWindow = 1
    MaxInsert = 0
    MaxTime = 2
    MaxDrops = 2
INVARIANTS
    ClientYieldsOnce
    ReconnectMissesNothing
PROPERTIES
    EventuallyDelivered
    CallIsOneStream
