----------------------------- MODULE WebClient -----------------------------
(***************************************************************************)
(* The page (web/index.html) with the server behind it, seen by one user.  *)
(* The callbacks of the page share currentChatId and the message pane and  *)
(* give up control at every await, so the user's next click may fall in    *)
(* between, and answers may come back in any order or not at all.  The     *)
(* server is its authentication gate and the effect of a handler; what     *)
(* happens inside a handler is the business of the other modules.          *)
(***************************************************************************)
EXTENDS Integers, FiniteSets

CONSTANTS
    Sends,      \* calls of sendChatMessage, one element each
    Picks,      \* calls of selectChat with a chat
    Chats,      \* ids of chats
    NoChat      \* null

ASSUME NoChatAssumption == NoChat \notin Chats
ASSUME TasksAssumption == Sends \cap Picks = {}

Tasks == Sends \cup Picks

VARIABLES
    current,    \* currentChatId
    pane,       \* the message pane
    badge,      \* the chat named above it
    task,       \* task[t]: the callback, its pending fetch included
    rows,       \* server: chats of the user
    stored,     \* server: per chat the sends whose prompt is stored
    runs        \* history: how often the handlers ran for each send

vars == <<current, pane, badge, task, rows, stored, runs>>

-----------------------------------------------------------------------------
ChatOrNone == Chats \cup {NoChat}

\* of: whose conversation is shown.  bubbles: the prompts in it.  live: sends
\* whose aiBubble is still part of the page.  shown: replies in it.
Pane == [of : ChatOrNone, bubbles : SUBSET Sends, live : SUBSET Sends,
         shown : SUBSET Sends, error : BOOLEAN]

Empty(c) == [of |-> c, bubbles |-> {}, live |-> {}, shown |-> {}, error |-> FALSE]

Task == [
    pc    : {"idle", "create", "list", "post", "load", "done", "failed"},
    net   : {"none", "out", "back"},            \* its fetch
    tries : 0..2,                               \* of authFetch
    ans   : {"none", "ok", "401", "error"},
    from  : ChatOrNone,     \* currentChatId when it was called
    made  : ChatOrNone,     \* the chat it created
    to    : ChatOrNone,     \* the chat in the path of its request
    snap  : SUBSET Sends,   \* messages of the answer to GET /chats/:id
    calm  : BOOLEAN ]       \* history: no other user action came in between

TypeOK ==
    /\ current \in ChatOrNone
    /\ pane \in Pane
    /\ badge \in ChatOrNone
    /\ task \in [Tasks -> Task]
    /\ rows \subseteq Chats
    /\ stored \in [Chats -> SUBSET Sends]
    /\ runs \in [Sends -> [create : Nat, post : Nat]]

Rest(pc, calm) ==
    [pc |-> pc, net |-> "none", tries |-> 0, ans |-> "none", from |-> NoChat,
     made |-> NoChat, to |-> NoChat, snap |-> {}, calm |-> calm]

Init ==
    /\ current = NoChat
    /\ pane = Empty(NoChat)
    /\ badge = NoChat
    /\ task = [t \in Tasks |-> Rest("idle", TRUE)]
    /\ rows \in SUBSET Chats
    /\ stored = [c \in Chats |-> {}]
    /\ runs = [s \in Sends |-> [create |-> 0, post |-> 0]]

-----------------------------------------------------------------------------
(* authFetch and the authentication gate.                                  *)

Started(t) == task[t].pc # "idle"
InFlight(t) == task[t].pc \in {"create", "list", "post", "load"}

\* ClerkAuthMiddleware: only claims with a subject reach a handler, and
\* SetUserID has run before it; anything else ends the chain with a status.
Gate(token) ==
    CASE token = "valid" -> "pass"
      [] token = "missing" -> "403"
      [] token \in {"expired", "no subject"} -> "401"

\* The page sends the token Clerk has; it may expire on the way.  Without one
\* authFetch throws.
PageTokens == {"valid", "expired"}

Fetching(x, pc, c) ==
    [x EXCEPT !.pc = pc, !.net = "out", !.tries = 1, !.ans = "none", !.to = c]

Out(t, pc) == task[t].net = "out" /\ task[t].pc = pc
Answer(x, ans) == [x EXCEPT !.net = "back", !.ans = ans]

\* The gate refuses, or the request does not get there.
Refused(t) ==
    /\ task[t].net = "out"
    /\ \E ans \in ({Gate(token) : token \in PageTokens} \ {"pass"}) \cup {"error"} :
          task' = [task EXCEPT ![t] = Answer(@, ans)]
    /\ UNCHANGED <<current, pane, badge, rows, stored, runs>>

\* Mutant: authFetch repeats whatever failed.
MutRepeats(x) == x.ans # "ok" /\ x.tries = 1

\* Mutant: and goes on repeating.
MutRepeatsAgain(x) == x.ans = "401"

Repeats(x) == x.ans = "401" /\ x.tries = 1

\* A 401 is repeated once, if Clerk has a token by then.
Retry(t) ==
    /\ task[t].net = "back"
    /\ Repeats(task[t])
    /\ task' = [task EXCEPT ![t] =
                   [task[t] EXCEPT !.net = "out", !.tries = @ + 1, !.ans = "none"]]
    /\ UNCHANGED <<current, pane, badge, rows, stored, runs>>

\* What authFetch hands to the callback: its answer, or nothing that is ok.
Ok(t) == task[t].net = "back" /\ task[t].ans = "ok"
NotOk(t) == task[t].net = "back" /\ task[t].ans # "ok"

-----------------------------------------------------------------------------
(* The handlers.  The caller may learn of an error, or of nothing, although *)
(* the handler had its effect.                                             *)

\* POST /chats
CreateChat(s) ==
    /\ Out(s, "create")
    /\ \E c \in Chats \ rows :
          /\ rows' = rows \cup {c}
          /\ \/ task' = [task EXCEPT ![s] = [Answer(@, "ok") EXCEPT !.made = c]]
             \/ task' = [task EXCEPT ![s] = Answer(@, "error")]
    /\ runs' = [runs EXCEPT ![s].create = @ + 1]
    /\ UNCHANGED <<current, pane, badge, stored>>

\* POST /chats/:id/messages, /messages/stream.  "null" is no id.
SendMessage(s) ==
    /\ Out(s, "post")
    /\ task[s].to \in rows
    /\ stored' = [stored EXCEPT ![task[s].to] = @ \cup {s}]
    /\ \E ans \in {"ok", "error"} : task' = [task EXCEPT ![s] = Answer(@, ans)]
    /\ runs' = [runs EXCEPT ![s].post = @ + 1]
    /\ UNCHANGED <<current, pane, badge, rows>>

\* GET /chats
ListChats(s) ==
    /\ Out(s, "list")
    /\ task' = [task EXCEPT ![s] = Answer(@, "ok")]
    /\ UNCHANGED <<current, pane, badge, rows, stored, runs>>

\* GET /chats/:id
GetChat(p) ==
    /\ Out(p, "load")
    /\ task' = [task EXCEPT ![p] =
                   [Answer(@, "ok") EXCEPT !.snap = stored[task[p].to]]]
    /\ UNCHANGED <<current, pane, badge, rows, stored, runs>>

-----------------------------------------------------------------------------
(* sendChatMessage.                                                        *)

\* A user action in between unsettles the callbacks that are in flight, and
\* one that starts among them is not calm itself.
Disturbed == [t \in Tasks |-> IF InFlight(t) THEN [task[t] EXCEPT !.calm = FALSE]
                              ELSE task[t]]
Quiet == \A t \in Tasks : ~ InFlight(t)

\* messagesDiv.innerHTML += parses the pane anew: the nodes that other
\* callbacks hold are no longer part of the page.
\* Mutant: the AI bubble is looked up before the pane is parsed anew.
MutWithBubble(q, s) == [q EXCEPT !.live = {}]

WithBubble(q, s) == [q EXCEPT !.live = {s}]

WithPrompt(q, s) == [q EXCEPT !.bubbles = @ \cup {s}, !.live = {}]

\* Up to the first await: with a chat the message is on its way to it,
\* without one a chat is being created first.
ClickSend(s) ==
    /\ task[s].pc = "idle"
    /\ LET x == [task[s] EXCEPT !.from = current, !.calm = Quiet] IN
          IF current = NoChat
          THEN /\ task' = [Disturbed EXCEPT ![s] = Fetching(x, "create", NoChat)]
               /\ pane' = WithPrompt(pane, s)
          ELSE /\ task' = [Disturbed EXCEPT ![s] = Fetching(x, "post", current)]
               /\ pane' = WithBubble(WithPrompt(pane, s), s)
    /\ UNCHANGED <<current, badge, rows, stored, runs>>

\* Mutant: currentChatId keeps its value.
MutCurrentAfterCreate(s) == current

CurrentAfterCreate(s) == task[s].made

\* The conversation that was being started is the new chat's from here on.
Created(s) ==
    /\ task[s].pc = "create"
    /\ Ok(s)
    /\ current' = CurrentAfterCreate(s)
    /\ pane' = [pane EXCEPT !.of = IF @ = NoChat /\ s \in pane.bubbles
                                   THEN task[s].made ELSE @]
    /\ task' = [task EXCEPT ![s] = Fetching(@, "list", NoChat)]
    /\ UNCHANGED <<badge, rows, stored, runs>>

\* loadChatList swallows its errors.  Then currentChatId is read once more.
Listed(s) ==
    /\ task[s].pc = "list"
    /\ task[s].net = "back"
    /\ badge' = task[s].made
    /\ pane' = WithBubble(pane, s)
    /\ task' = [task EXCEPT ![s] = Fetching(@, "post", current)]
    /\ UNCHANGED <<current, rows, stored, runs>>

\* The callback is over and its locals are gone.
Ended(x, pc) == Rest(pc, x.calm)

\* The alert "チャット作成失敗".
CreateFailed(s) ==
    /\ task[s].pc = "create"
    /\ NotOk(s)
    /\ task' = [task EXCEPT ![s] = Ended(@, "failed")]
    /\ UNCHANGED <<current, pane, badge, rows, stored, runs>>

\* The reply, or the error, goes into the node the callback holds.
Replied(s) ==
    /\ task[s].pc = "post"
    /\ task[s].net = "back"
    /\ task' = [task EXCEPT ![s] = Ended(@, IF Ok(s) THEN "done" ELSE "failed")]
    /\ pane' = [pane EXCEPT !.shown = IF Ok(s) THEN @ \cup (pane.live \cap {s}) ELSE @]
    /\ UNCHANGED <<current, badge, rows, stored, runs>>

-----------------------------------------------------------------------------
(* selectChat.                                                             *)

\* Mutant: currentChatId is left alone.
MutCurrentAfterNew == current

CurrentAfterNew == NoChat

\* The button, or the first entry of the list.
NewChat ==
    /\ current' = CurrentAfterNew
    /\ pane' = Empty(NoChat)
    /\ badge' = NoChat
    /\ task' = Disturbed
    /\ UNCHANGED <<rows, stored, runs>>

Pick(p, c) ==
    /\ task[p].pc = "idle"
    /\ c \in rows
    /\ current' = c
    /\ pane' = Empty(c)
    /\ task' = [Disturbed EXCEPT ![p] =
                   [Fetching(@, "load", c) EXCEPT !.from = current, !.calm = Quiet]]
    /\ UNCHANGED <<badge, rows, stored, runs>>

Loaded(p) ==
    /\ task[p].pc = "load"
    /\ IF Ok(p)
       THEN /\ pane' = [Empty(task[p].to) EXCEPT !.bubbles = task[p].snap]
            /\ badge' = task[p].to
       ELSE /\ NotOk(p)
            /\ pane' = [Empty(task[p].to) EXCEPT !.error = TRUE]
            /\ UNCHANGED badge
    /\ task' = [task EXCEPT ![p] = Ended(@, "done")]
    /\ UNCHANGED <<current, rows, stored, runs>>

-----------------------------------------------------------------------------
Page ==
    \/ NewChat
    \/ \E s \in Sends : \/ ClickSend(s) \/ Created(s) \/ Listed(s)
                        \/ CreateFailed(s) \/ Replied(s)
    \/ \E p \in Picks : Loaded(p) \/ \E c \in Chats : Pick(p, c)

Server ==
    \/ \E s \in Sends : CreateChat(s) \/ SendMessage(s) \/ ListChats(s)
    \/ \E p \in Picks : GetChat(p)

Next == Page \/ Server \/ \E t \in Tasks : Refused(t) \/ Retry(t)

Spec == Init /\ [][Next]_vars

-----------------------------------------------------------------------------
(* Properties.                                                             *)

\* A click has its effect at most once, although authFetch repeats requests
\* (index.html:676): what is repeated has not reached a handler.
ExecutedOnce == \A s \in Sends : runs[s].create <= 1 /\ runs[s].post <= 1

\* A message that is sent while a chat is selected goes to that chat, whatever
\* is clicked afterwards; the first message of a new conversation goes to the
\* chat made for it, unless a click comes in between (index.html:1052).
SentWhereMeant ==
    \A s \in Sends :
        task[s].pc = "post" =>
            /\ task[s].from # NoChat => task[s].to = task[s].from
            /\ task[s].from = NoChat /\ task[s].calm => task[s].to = task[s].made

\* At rest, and if no click ever came while a callback was in flight, pane,
\* badge and currentChatId agree: what the user reads is where a message goes
\* (index.html:883; two quick selections may leave the older one's answer).
PageAgrees ==
    Quiet /\ (\A t \in Tasks : task[t].calm) =>
        /\ pane.of = current
        /\ badge = current \/ pane.error

\* The reply to an undisturbed message is on the page when its callback ends
\* (index.html:1046; a second send parses the pane anew and leaves the first
\* callback with a node that is no longer shown).
ReplyShown ==
    [][\A s \in Sends :
          task[s].pc = "post" /\ task'[s].pc = "done" /\ task[s].calm
              => s \in pane'.shown]_vars

\* "チャットセッション作成 (未作成の場合)" (index.html:1001): a chat is created
\* only while the page has none.
CreatedOnlyIfMissing == [][rows' # rows => current = NoChat]_vars
=============================================================================
