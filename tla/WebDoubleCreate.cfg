\* Two messages sent before the first chat exists, and no selection.
SPECIFICATION Spec
CONSTANTS
    Sends = {s1, s2}
    Picks = {}
    Chats = {c1, c2}
    NoChat = NoChat
PROPERTIES
    CreatedOnlyIfMissing
CHECK_DEADLOCK FALSE
