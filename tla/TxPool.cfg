\* Three calls, two chats, two connections: both the pool and a row are
\* contended, and a call can wait for either while another is inside.
SPECIFICATION FairSpec
CONSTANTS
    Requests = {r1, r2, r3}
    Detached = {r2, r3}
    Chats = {c1, c2}
    MaxConns = 2
    Never = Never
    Absent = Absent
INVARIANTS
    TypeOK
    NoLeak
    SomeoneCanMove
    LatestFirst
PROPERTIES
    EveryCallEnds
    ImplementsChatLog
CHECK_DEADLOCK FALSE
