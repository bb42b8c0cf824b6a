CONSTANTS
    Users = {alice}
    Chats = {c1}
    Requests = {r1, r2, r3}
    SystemPrompts = {none}
    NoUser = nobody
    NoPrompt = none
    MaxChunks = 0
SYMMETRY Symmetry
SPECIFICATION Spec
INVARIANTS
    ContextInOrder
    ReplyFollowsPrompt
    AckedVisible
