CONSTANTS
    Users = {alice}
    Providers = {1}
    Keys = {k1, k2}
    Requests = {r1, r2}
    NoUser = nobody
    NoKey = none
    NoEntry = empty
    TTL = 1
    FetchLimit = 1
    Overlap = TRUE
    Unconfirmed = FALSE
SYMMETRY Symmetry
SPECIFICATION Spec
PROPERTIES
    Regular
