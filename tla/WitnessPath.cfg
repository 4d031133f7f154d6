SPECIFICATION FairSpec
CONSTANTS
    Principal = {alice, bob, carol}
    Undef = undef
    MaxWitnesses = 3
CHECK_DEADLOCK FALSE
INVARIANTS
    PublishesWhatIsAccepted
    AcceptedFromUpstream
PROPERTIES
    ClimbEnds
