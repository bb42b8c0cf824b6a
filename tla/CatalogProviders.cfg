CONSTANTS
    Users = {alice}
    Providers = {1, 2}
    Keys = {k1}
    Requests = {r1, r2}
    NoUser = nobody
    NoKey = none
    NoEntry = empty
    TTL = 0
    FetchLimit = 1
    Overlap = TRUE
    Unconfirmed = FALSE
SPECIFICATION FairSpec
PROPERTIES
    ImplementsKeyRegister
    ListsEnd
