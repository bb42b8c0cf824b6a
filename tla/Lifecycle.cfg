\* Two requests of up to two database calls, and a limit of two ticks: one
\* request may end inside the limit and the other outlast it.
SPECIFICATION FairSpec
CONSTANTS
    Requests = {r1, r2}
    DrainLimit = 2
    MaxCalls = 2
    KeyLens <- MCKeyLens
    KeyPads <- MCKeyPads
INVARIANTS
    TypeOK
    FailFast
    PoolOutlivesHandlers
    CutOnlyAfterLimit
    OrderlyExit
PROPERTIES
    SignalEnds
CHECK_DEADLOCK FALSE
