SPECIFICATION FairSpec
CONSTANTS
    Cause = {c1, c2, bad}
    Authorised = {c1, c2}
    Request = {r1, r2}
    MaxValidations = 2
INVARIANTS
    IInv
    SuccessIsStored
    StoredIsAuthorised
    OwnReceipt
    PublishedIsStored
PROPERTIES
    AlwaysAnswered
