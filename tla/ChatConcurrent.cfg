CONSTANTS
    Users = {alice, bob}
    Chats = {c1, c2}
    Requests = {r1, r2}
    SystemPrompts = {none}
    NoUser = nobody
    NoPrompt = none
    MaxChunks = 2
SYMMETRY Symmetry
SPECIFICATION Spec
INVARIANTS
    TypeOK
    IInv
    Isolation
    StoredOnce
    OnlyCompleteReplies
    ResponseIsTruthful
    CompletedStreamSurvivesDisconnect
PROPERTIES
    ImplementsConversation
