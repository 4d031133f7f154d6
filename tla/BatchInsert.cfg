SPECIFICATION FairSpec
CONSTANTS
    Cause = {1, 2, 3}
    Witness = {"root", "middle"}
    Path <- UnevenPaths
    Writer = {w1, w2, w3}
    MaxTime = 1
INVARIANTS
    IInv
    RowsKeepTheirPath
PROPERTIES
    ImplementsStore
    EveryBatchEnds
