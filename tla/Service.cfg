SPECIFICATION FairSpec
CONSTANTS
    Instance = {i1, i2}
    Request = {r1}
    Firehose = {f1, f2}
    Home <- AllAtOne
    MaxConns = 2
INVARIANTS
    IInv
    HandlersHaveAStore
    NoConnectionLeaks
PROPERTIES
    OnlySlowConsumersStarve
    ShutsDown
