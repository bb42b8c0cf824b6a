---------------------------- MODULE ChatSession ----------------------------
(***************************************************************************)
(* The exchange at the heart of the server: a user posts a message to a    *)
(* chat, the server stores it, asks an AI provider for a reply and stores  *)
(* that too.  POST /chats/:id/messages does it in one go ("send"), POST    *)
(* /chats/:id/messages/stream relays the reply chunk by chunk ("stream").  *)
(*                                                                         *)
(* Every call that leaves the process (database, provider) is a step of    *)
(* its own, so the requests in flight interleave between their calls; any  *)
(* of them may fail, the client may hang up at any moment and the process  *)
(* may die.  The whole of internal/handler/chat.go, internal/service/      *)
(* chat.go and internal/infra/repository/chat.go that changes state is     *)
(* here, except chats.updated_at.                                          *)
(***************************************************************************)
EXTENDS Integers, FiniteSets

CONSTANTS
    Users,          \* Clerk user ids
    Chats,          \* ids of chats rows
    Requests,       \* POSTs to a chat, one element each
    SystemPrompts,  \* texts of user_profiles.system_prompt
    NoUser,         \* owner of a chats row that does not exist
    NoPrompt,       \* the empty system prompt
    MaxChunks       \* longest reply, in chunks

ASSUME NoUserAssumption == NoUser \notin Users
ASSUME NoPromptAssumption == NoPrompt \in SystemPrompts
ASSUME MaxChunksAssumption == MaxChunks \in Nat

VARIABLES
    owner,      \* chats table: owner[c], NoUser while there is no row c
    profile,    \* user_profiles table: the system prompt of each user
    messages,   \* messages table
    limbo,      \* rows whose COMMIT failed or was never answered
    clock,      \* the server's clock: the last created_at it stamped
    session     \* session[r]: the goroutine that serves request r

vars == <<owner, profile, messages, limbo, clock, session>>

-----------------------------------------------------------------------------
Roles == {"user", "assistant"}

\* A row of the messages table.  Its content is abstracted to the request it
\* comes from and, for a reply, to the number of chunks it is made of.
Message == [req: Requests, role: Roles, chat: Chats, at: Nat, text: 0..MaxChunks]

\* Where the goroutine stands: at the call it is about to make, or inside a
\* transaction (askTx, saveTx), or gone.
Pcs == {"idle", "load", "key", "ask", "askTx", "profile", "generate",
        "streaming", "save", "saveTx", "done", "killed"}

\* How the request ended: the HTTP status, or for a stream that was already
\* open the last event: done (ok), error "AI generation interrupted"
\* (interrupted), error "failed to persist assistant message" (unsaved).
Codes == {"none", "ok", "400", "404", "500", "502", "interrupted", "unsaved"}

\* Why it ended badly: the request context was done, or something else.
Causes == {"none", "ctx", "other"}

Session == [
    pc    : Pcs,
    user  : Users,                          \* auth.MustGetUserID
    chat  : Chats,                          \* the :id of the path
    mode  : {"send", "stream"},
    ctx   : {"live", "cancelled", "expired"}, \* c.Request.Context()
    hist  : SUBSET Message,                 \* session.chat.Messages
    sys   : SystemPrompts,                  \* session.systemPrompt
    at    : Nat,                            \* created_at of the last message
    reply : {"none", "partial", "complete"}, \* what the provider delivered
    got   : 0..MaxChunks,                   \* aiContent, fullText
    code  : Codes,
    cause : Causes,
    acked : SUBSET Requests ]               \* history: see Arrive

TypeOK ==
    /\ owner \in [Chats -> Users \cup {NoUser}]
    /\ profile \in [Users -> SystemPrompts]
    /\ messages \subseteq Message
    /\ limbo \subseteq Message
    /\ clock \in Nat
    /\ session \in [Requests -> Session]

Fresh(u, c, m) == [
    pc |-> "idle", user |-> u, chat |-> c, mode |-> m, ctx |-> "live",
    hist |-> {}, sys |-> NoPrompt, at |-> 0, reply |-> "none", got |-> 0,
    code |-> "none", cause |-> "none", acked |-> {} ]

Init ==
    /\ owner = [c \in Chats |-> NoUser]
    /\ profile = [u \in Users |-> NoPrompt]
    /\ messages = {}
    /\ limbo = {}
    /\ clock = 0
    /\ session \in [Requests ->
          {Fresh(u, c, m) : u \in Users, c \in Chats, m \in {"send", "stream"}}]

-----------------------------------------------------------------------------
(* The database and the request context.                                   *)

\* Mutant: the WHERE clause loses user_id.
MutReadable(u, c) == owner[c] # NoUser

Readable(u, c) == owner[c] = u

\* Mutants: the history keeps one side of the conversation, or its last message.
MutOnlyReplies(c) == {m \in messages : m.chat = c /\ m.role = "assistant"}
MutLastMessage(c) ==
    {m \in messages : m.chat = c /\ \A n \in messages : n.chat = c => n.at <= m.at}

ChatHistory(c) == {m \in messages : m.chat = c}

Row(r, s, role, text) ==
    [req |-> r, role |-> role, chat |-> s.chat, at |-> s.at, text |-> text]

Prompt(r) == Row(r, session[r], "user", 0)
Reply(r) == Row(r, session[r], "assistant", session[r].got)

\* Mutant: created_at is relative to the request, not to the server.
MutNextStamp(s) == s.at + 1

\* gorm's autoCreateTime, at the INSERT.
NextStamp(s) == clock + 1

\* A call that was under way when the context was cancelled may still return,
\* but no call that takes the context and starts later does.
CallReturns(s) == s.ctx # "expired"

Used(s) == [s EXCEPT !.ctx = IF @ = "live" THEN "live" ELSE "expired"]

FailureCauses(s) == IF s.ctx = "live" THEN {"other"} ELSE {"other", "ctx"}

InFlight(r) == session[r].pc \notin {"idle", "done", "killed"}

Become(r, s) == session' = [session EXCEPT ![r] = s]

\* The handler returns: it answers the client, its locals are gone and net/http
\* cancels its context.
Ended(s, code, cause) ==
    [s EXCEPT !.pc = "done", !.code = code, !.cause = cause,
              !.ctx = "expired", !.hist = {}, !.sys = NoPrompt, !.acked = {}]

-----------------------------------------------------------------------------
(* Chats and profiles.                                                     *)

CreateChat(u, c) ==
    /\ owner[c] = NoUser
    /\ owner' = [owner EXCEPT ![c] = u]
    /\ UNCHANGED <<profile, messages, limbo, clock, session>>

UpdateSystemPrompt(u, p) ==
    /\ profile' = [profile EXCEPT ![u] = p]
    /\ UNCHANGED <<owner, messages, limbo, clock, session>>

-----------------------------------------------------------------------------
(* prepareSessionContext.                                                  *)

\* Requests to the chat whose caller has been told that all went well.
Acknowledged(c) == {q \in Requests : session[q].code = "ok" /\ session[q].chat = c}

\* The router hands the request to the handler.  "acked" records, for the
\* properties only, what had been acknowledged by then.
Started(s) == [s EXCEPT !.pc = "load", !.acked = Acknowledged(s.chat)]

Arrive(r) ==
    /\ session[r].pc = "idle"
    /\ Become(r, Started(session[r]))
    /\ UNCHANGED <<owner, profile, messages, limbo, clock>>

\* parseSendMessageRequest refuses the path, the body or the provider.
BadRequest(r) ==
    /\ session[r].pc = "idle"
    /\ Become(r, Ended(session[r], "400", "none"))
    /\ UNCHANGED <<owner, profile, messages, limbo, clock>>

Loaded(s) == [Used(s) EXCEPT !.pc = "key", !.hist = ChatHistory(s.chat)]

Load(r) ==
    LET s == session[r] IN
    /\ s.pc = "load"
    /\ \/ CallReturns(s) /\ Readable(s.user, s.chat) /\ Become(r, Loaded(s))
       \/ CallReturns(s) /\ ~Readable(s.user, s.chat) /\ Become(r, Ended(s, "404", "none"))
       \/ \E cause \in FailureCauses(s) : Become(r, Ended(s, "500", cause))
    /\ UNCHANGED <<owner, profile, messages, limbo, clock>>

WithKey(s) == [Used(s) EXCEPT !.pc = "ask"]

FetchKey(r) ==
    LET s == session[r] IN
    /\ s.pc = "key"
    /\ \/ CallReturns(s) /\ Become(r, WithKey(s))
       \/ CallReturns(s) /\ Become(r, Ended(s, "400", "none"))    \* ErrKeyNotRegistered
       \/ \E cause \in FailureCauses(s) : Become(r, Ended(s, "500", cause))
    /\ UNCHANGED <<owner, profile, messages, limbo, clock>>

\* CreateMessage opens its transaction and stamps created_at.
Asking(s) == [s EXCEPT !.pc = "askTx", !.at = NextStamp(s)]

BeginAsk(r) ==
    LET s == session[r] IN
    /\ s.pc = "ask"
    /\ \/ /\ CallReturns(s)
          /\ clock' = clock + 1
          /\ Become(r, Asking(s))
       \/ /\ \E cause \in FailureCauses(s) : Become(r, Ended(s, "500", cause))
          /\ UNCHANGED clock
    /\ UNCHANGED <<owner, profile, messages, limbo>>

\* Mutant: the error of CreateMessage is dropped.
MutAfterFailedAsk(s, cause) == [Used(s) EXCEPT !.pc = "profile"]

\* Mutant: CreateMessage is called again when it reports an error.
MutRetryAsk(s, cause) == [s EXCEPT !.pc = "ask"]

\* The handler goes on only when the commit was confirmed.
AfterFailedAsk(s, cause) == Ended(s, "500", cause)

Asked(s) == [Used(s) EXCEPT !.pc = "profile"]

\* A commit that is not confirmed leaves the row in limbo.
CommitAsk(r) ==
    LET s == session[r] IN
    /\ s.pc = "askTx"
    /\ \/ /\ messages' = messages \cup {Prompt(r)}
          /\ Become(r, Asked(s))
          /\ UNCHANGED limbo
       \/ /\ \E cause \in FailureCauses(s) : Become(r, AfterFailedAsk(s, cause))
          /\ limbo' = limbo \cup {Prompt(r)}
          /\ UNCHANGED messages
    /\ UNCHANGED <<owner, profile, clock>>

\* Mutant: the history is read again after the prompt was stored.
MutWithProfile(s) ==
    [Used(s) EXCEPT !.pc = "generate", !.sys = profile[s.user], !.hist = ChatHistory(s.chat)]

\* The error of GetProfile is dropped: the exchange goes on without a prompt.
WithProfile(s) == [Used(s) EXCEPT !.pc = "generate", !.sys = profile[s.user]]
WithoutProfile(s) == [Used(s) EXCEPT !.pc = "generate", !.sys = NoPrompt]

LoadProfile(r) ==
    LET s == session[r] IN
    /\ s.pc = "profile"
    /\ \/ CallReturns(s) /\ Become(r, WithProfile(s))
       \/ Become(r, WithoutProfile(s))
    /\ UNCHANGED <<owner, profile, messages, limbo, clock>>

-----------------------------------------------------------------------------
(* The provider.                                                           *)

\* GenerateReply: the whole reply or an error.
Generated(s, n) == [Used(s) EXCEPT !.pc = "save", !.reply = "complete", !.got = n]

Generate(r) ==
    LET s == session[r] IN
    /\ s.pc = "generate"
    /\ s.mode = "send"
    /\ \/ /\ CallReturns(s)
          /\ \E n \in 0..MaxChunks : Become(r, Generated(s, n))
       \/ Become(r, Ended(s, "502", "other"))
    /\ UNCHANGED <<owner, profile, messages, limbo, clock>>

\* StreamReply: from here on the response is an event stream.
Opened(s) == [s EXCEPT !.pc = "streaming", !.reply = "partial"]

OpenStream(r) ==
    LET s == session[r] IN
    /\ s.pc = "generate"
    /\ s.mode = "stream"
    /\ \/ Become(r, Opened(s))
       \/ Become(r, Ended(s, "502", "other"))
    /\ UNCHANGED <<owner, profile, messages, limbo, clock>>

\* Mutant: the text so far is written again together with the chunk.
MutReceiveChunk(s) == [s EXCEPT !.got = @ + @ + 1]

ReceiveChunk(s) == [s EXCEPT !.got = @ + 1]

Chunk(r) ==
    LET s == session[r] IN
    /\ s.pc = "streaming"
    /\ CallReturns(s)
    /\ s.got < MaxChunks
    /\ Become(r, ReceiveChunk(s))
    /\ UNCHANGED <<owner, profile, messages, limbo, clock>>

AfterStream(s) == [s EXCEPT !.pc = "save", !.reply = "complete"]

StreamEnds(r) ==
    /\ session[r].pc = "streaming"
    /\ CallReturns(session[r])
    /\ Become(r, AfterStream(session[r]))
    /\ UNCHANGED <<owner, profile, messages, limbo, clock>>

\* Mutant: the text received before the error is stored.
MutAfterStreamError(s, cause) == [s EXCEPT !.pc = "save"]

\* What TextStream.Err() leads to: an error event, and nothing is stored.
AfterStreamError(s, cause) == Ended(s, "interrupted", cause)

StreamBreaks(r) ==
    /\ session[r].pc = "streaming"
    /\ Become(r, AfterStreamError(session[r], "other"))
    /\ UNCHANGED <<owner, profile, messages, limbo, clock>>

\* Mutant: StreamReply is called with context.Background().
MutAbortable(s) == s.pc = "generate" /\ s.ctx # "live"

\* The provider call takes the request context, whichever mode it is in.
Abortable(s) == s.pc \in {"generate", "streaming"} /\ s.ctx # "live"

ContextAborts(r) ==
    LET s == session[r] IN
    /\ Abortable(s)
    /\ \/ s.pc = "generate"  /\ Become(r, Ended(s, "502", "ctx"))
       \/ s.pc = "streaming" /\ Become(r, AfterStreamError(s, "ctx"))
    /\ UNCHANGED <<owner, profile, messages, limbo, clock>>

-----------------------------------------------------------------------------
(* Storing the reply.  SendMessage uses the request context, the callback  *)
(* of StreamMessage uses context.Background().                             *)

\* Mutant: the callback keeps the request context.
MutSaveBound(s) == TRUE

SaveBound(s) == s.mode = "send"

SaveCauses(s) == IF SaveBound(s) THEN FailureCauses(s) ELSE {"other"}

\* Mutant: the error of the second CreateMessage is dropped.
MutSaveFailed(s, cause) == Ended(s, "ok", "none")

SaveFailed(s, cause) ==
    Ended(s, IF s.mode = "send" THEN "500" ELSE "unsaved", cause)

Saving(s) == [s EXCEPT !.pc = "saveTx", !.at = NextStamp(s)]

BeginSave(r) ==
    LET s == session[r] IN
    /\ s.pc = "save"
    /\ \/ /\ SaveBound(s) => CallReturns(s)
          /\ clock' = clock + 1
          /\ Become(r, Saving(s))
       \/ /\ \E cause \in SaveCauses(s) : Become(r, SaveFailed(s, cause))
          /\ UNCHANGED clock
    /\ UNCHANGED <<owner, profile, messages, limbo>>

CommitSave(r) ==
    LET s == session[r] IN
    /\ s.pc = "saveTx"
    /\ \/ /\ messages' = messages \cup {Reply(r)}
          /\ Become(r, Ended(s, "ok", "none"))
          /\ UNCHANGED limbo
       \/ /\ \E cause \in SaveCauses(s) : Become(r, SaveFailed(s, cause))
          /\ limbo' = limbo \cup {Reply(r)}
          /\ UNCHANGED messages
    /\ UNCHANGED <<owner, profile, clock>>

-----------------------------------------------------------------------------
(* The environment.                                                        *)

\* A commit nobody waits for any more takes effect after all.
Land(m) ==
    /\ m \in limbo
    /\ limbo' = limbo \ {m}
    /\ messages' = messages \cup {m}
    /\ UNCHANGED <<owner, profile, clock, session>>

\* The client hangs up and net/http cancels the request context.
HungUp(s) == [s EXCEPT !.ctx = "cancelled"]

Disconnect(r) ==
    /\ InFlight(r)
    /\ session[r].ctx = "live"
    /\ Become(r, HungUp(session[r]))
    /\ UNCHANGED <<owner, profile, messages, limbo, clock>>

Pending == {Prompt(r) : r \in {q \in Requests : session[q].pc = "askTx"}}
      \cup {Reply(r)  : r \in {q \in Requests : session[q].pc = "saveTx"}}

\* The process dies, or main returns when the 10 s drain is over.
Killed(s) == [Ended(s, "none", "none") EXCEPT !.pc = "killed"]

Crash ==
    /\ \E r \in Requests : InFlight(r)
    /\ session' = [r \in Requests |->
                     IF InFlight(r) THEN Killed(session[r]) ELSE session[r]]
    /\ limbo' = limbo \cup Pending
    /\ UNCHANGED <<owner, profile, messages, clock>>

-----------------------------------------------------------------------------
\* The steps the server owes a request once it has started it.
Serve(r) ==
    \/ Load(r) \/ FetchKey(r) \/ BeginAsk(r) \/ CommitAsk(r) \/ LoadProfile(r)
    \/ ContextAborts(r) \/ BeginSave(r) \/ CommitSave(r)

\* The steps the provider takes, in its own time if at all.
Provider(r) ==
    Generate(r) \/ OpenStream(r) \/ Chunk(r) \/ StreamEnds(r) \/ StreamBreaks(r)

Next ==
    \/ \E u \in Users, c \in Chats : CreateChat(u, c)
    \/ \E u \in Users, p \in SystemPrompts : UpdateSystemPrompt(u, p)
    \/ \E r \in Requests : \/ Arrive(r) \/ BadRequest(r) \/ Disconnect(r)
                           \/ Serve(r) \/ Provider(r)
    \/ \E m \in limbo : Land(m)
    \/ Crash

Spec == Init /\ [][Next]_vars

Fairness == \A r \in Requests : WF_vars(Serve(r))

FairSpec == Spec /\ Fairness

-----------------------------------------------------------------------------
(* Safety.                                                                 *)

Prompts(S) == {m \in S : m.role = "user"}
Replies(S) == {m \in S : m.role = "assistant"}
RowsOf(r, S) == {m \in S : m.req = r}

\* No user ever writes into, or has the AI read, a chat of someone else: the
\* only check is the WHERE of GetWithMessages, made long before the inserts of
\* CreateMessage, which name the chat and not the user.
Isolation ==
    /\ \A m \in messages \cup limbo : owner[m.chat] = session[m.req].user
    /\ \A r \in Requests : \A m \in session[r].hist :
          session[m.req].user = session[r].user

\* While the provider works, the context it was given (history, then content)
\* names the prompt of this request once and last: the prompt is stored, it is
\* not also in the history, and everything in the history is older.
ContextInOrder ==
    \A r \in Requests :
        session[r].pc \in {"profile", "generate", "streaming"} =>
            /\ Prompt(r) \in messages
            /\ \A m \in session[r].hist : m.req # r /\ m.at < session[r].at

\* In what is stored, and in every history handed to the provider, a reply comes
\* with the prompt it answers, stamped earlier, in the same chat.
Answers(a, p) == p.role = "user" /\ p.req = a.req /\ p.chat = a.chat /\ p.at < a.at

ReplyFollowsPrompt ==
    /\ \A a \in Replies(messages \cup limbo) : \E p \in messages : Answers(a, p)
    /\ \A r \in Requests : \A a \in Replies(session[r].hist) :
          \E p \in session[r].hist : Answers(a, p)

\* A request stores its prompt once and its reply once, also when a commit was not
\* confirmed or the process died in it: nothing is stored a second time to be sure.
StoredOnce ==
    \A m, n \in messages \cup limbo : m.req = n.req /\ m.role = n.role => m = n

\* A reply is stored only as a whole: never the part of a stream that broke,
\* whatever the commit did and whenever it took effect.
OnlyCompleteReplies ==
    \A a \in Replies(messages \cup limbo) :
        session[a.req].reply = "complete" /\ a.text = session[a.req].got

\* What the client was told agrees with what is stored, now and later: "ok" that
\* both messages are, "400" and "404" that neither is or will be, an AI failure
\* that the prompt is and a reply is not, a failed save that the prompt is.
ResponseIsTruthful ==
    \A r \in Requests :
        LET stored == RowsOf(r, messages)
            late   == RowsOf(r, limbo)
        IN  CASE session[r].code = "ok" ->
                   /\ Prompts(stored) # {}
                   /\ \E a \in Replies(stored) : a.text = session[r].got
                   /\ late = {}
              [] session[r].code \in {"400", "404"} -> stored = {} /\ late = {}
              [] session[r].code \in {"502", "interrupted"} ->
                   Prompts(stored) # {} /\ Replies(stored \cup late) = {}
              [] session[r].code = "unsaved" -> Prompts(stored) # {}
              [] OTHER -> TRUE

\* The provider sees every exchange that had been acknowledged to a caller of
\* this chat before the request arrived.
AckedVisible ==
    \A r \in Requests : InFlight(r) /\ session[r].pc # "load" =>
        \A q \in session[r].acked : RowsOf(q, messages) \subseteq session[r].hist

\* A streamed reply that was received to the end is not lost because the client
\* has hung up: only the database can make its save fail.
CompletedStreamSurvivesDisconnect ==
    \A r \in Requests :
        /\ session[r].pc = "done"
        /\ session[r].mode = "stream"
        /\ session[r].reply = "complete"
        => session[r].code = "ok" \/ session[r].cause = "other"

-----------------------------------------------------------------------------
(* Liveness.                                                               *)

\* The AI answers under the user's latest common setting (chat.go:111): an
\* exchange that is acknowledged ran under prompt p when p was the setting for
\* as long as the exchange took.
PromptApplied ==
    \A r \in Requests, p \in SystemPrompts :
        [](InFlight(r) => profile[session[r].user] = p) /\ <>(session[r].code = "ok")
            => [](session[r].pc \in {"generate", "streaming", "save", "saveTx"}
                    => session[r].sys = p)

\* A client that hangs up does not leave its goroutine, and the connection it
\* may hold, waiting on a provider that never answers.
DisconnectReleases ==
    \A r \in Requests :
        InFlight(r) /\ session[r].ctx = "cancelled" ~> ~InFlight(r)

-----------------------------------------------------------------------------
(* What the exchange promises, as an abstract specification.               *)

asked == {r \in Requests : Prompts(RowsOf(r, messages)) # {}}
answered == {r \in Requests : Replies(RowsOf(r, messages)) # {}}
told == [r \in Requests |->
           CASE session[r].code = "none" -> "pending"
             [] session[r].code = "ok" -> "ok"
             [] session[r].code \in {"400", "404"} -> "refused"
             [] OTHER -> "failed"]

Promise == INSTANCE Conversation WITH
    Requests <- Requests, asked <- asked, answered <- answered, told <- told

\* The server implements Conversation: the rows of a request appear in order, at
\* most once each, and never again after a verdict that settles them.
ImplementsConversation == Promise!Spec
=============================================================================
