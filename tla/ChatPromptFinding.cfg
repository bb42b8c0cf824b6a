CONSTANTS
    Users = {alice}
    Chats = {c1}
    Requests = {r1}
    SystemPrompts = {none, pirate}
    NoUser = nobody
    NoPrompt = none
    MaxChunks = 1
SPECIFICATION FairSpec
PROPERTIES
    PromptApplied
