SPECIFICATION ClientSpec
CONSTANTS
    Cause = {1, 2}
    Writer = {w1, w2}
    Stream = {s1}
    Conn = s1
    SettleWindow = 1
    MaxInsert = 1
    MaxTime = 2
    MaxDrops = 1
SYMMETRY WriterSymmetry
INVARIANTS
    ClientYieldsOnce
