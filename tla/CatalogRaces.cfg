CONSTANTS
    Users = {alice}
    Providers = {1}
    Keys = {k1, k2}
    Requests = {r1, r2, r3}
    NoUser = nobody
    NoKey = none
    NoEntry = empty
    TTL = 0
    FetchLimit = 1
    Overlap = TRUE
    Unconfirmed = TRUE
SYMMETRY Symmetry
SPECIFICATION Spec
INVARIANTS
    TypeOK
    SealedUnused
PROPERTIES
    BoundedStaleness
    OnlyRegisteredProviders
    RefreshIsRegular
    JanitorInvisible
