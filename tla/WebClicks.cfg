\* Two messages and a selection among two chats, any of which may be there
\* from the start: a send can overlap a send, the selection or both.
SPECIFICATION Spec
CONSTANTS
    Sends = {s1, s2}
    Picks = {p1}
    Chats = {c1, c2}
    NoChat = NoChat
SYMMETRY Symmetry
INVARIANTS
    TypeOK
    ExecutedOnce
    SentWhereMeant
    PageAgrees
PROPERTIES
    ReplyShown
CHECK_DEADLOCK FALSE
