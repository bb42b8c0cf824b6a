------------------------ MODULE ChatRefinementProofs ------------------------
(***************************************************************************)
(* ChatSession implements Conversation: every step of the server is a step *)
(* of the promised exchange, or leaves what is promised unchanged.         *)
(***************************************************************************)
EXTENDS ChatSessionProofs

Verdict(code) ==
    CASE code = "none" -> "pending"
      [] code = "ok" -> "ok"
      [] code \in {"400", "404"} -> "refused"
      [] OTHER -> "failed"

\* The promise is kept by the step: it takes a step of its own, or none.
Kept == [Promise!Next]_(Promise!cvars)

-----------------------------------------------------------------------------
(* How the three abstract variables follow the concrete state.             *)

\* A request is asked, or answered, when the row is there.
LEMMA StoredFacts ==
    ASSUME NEW r \in Requests
    PROVE  /\ r \in asked <=> \E m \in messages : m.req = r /\ m.role = "user"
           /\ r \in answered <=> \E m \in messages : m.req = r /\ m.role = "assistant"
  BY DEF asked, answered, Prompts, Replies, RowsOf

\* The same of the state after a step.
LEMMA StoredFactsPrimed ==
    ASSUME NEW r \in Requests
    PROVE  /\ r \in asked' <=> \E m \in messages' : m.req = r /\ m.role = "user"
           /\ r \in answered' <=> \E m \in messages' : m.req = r /\ m.role = "assistant"
  BY DEF asked, answered, Prompts, Replies, RowsOf

\* What a caller was told depends on the code of the answer alone.
LEMMA ToldFacts ==
    /\ told = [r \in Requests |-> Verdict(session[r].code)]
    /\ told' = [r \in Requests |-> Verdict(session'[r].code)]
  BY DEF told, Verdict

\* A step that stores nothing changes neither what is asked nor what is answered.
LEMMA SameRows ==
    ASSUME messages' = messages
    PROVE  asked' = asked /\ answered' = answered
  BY DEF asked, answered, Prompts, Replies, RowsOf

\* A step that changes no code tells nobody anything.
LEMMA SameCodes ==
    ASSUME \A r \in Requests : session'[r].code = session[r].code
    PROVE  told' = told
  BY ToldFacts

\* A step that stores nothing and tells nobody anything is a stutter.
LEMMA QuietStep ==
    ASSUME messages' = messages,
           \A r \in Requests : session'[r].code = session[r].code
    PROVE  Kept
  BY SameRows, SameCodes DEF Kept, Promise!cvars

\* Telling one caller a verdict changes "told" in that place.
LEMMA TellFacts ==
    ASSUME TypeOK, NEW r \in Requests, NEW code \in Codes \ {"none"},
           session[r].code = "none", session'[r].code = code,
           \A q \in Requests : q # r => session'[q] = session[q]
    PROVE  told[r] = "pending" /\ told' = [told EXCEPT ![r] = Verdict(code)]
  BY ToldFacts DEF Verdict

\* A handler that answers with a failure, the messages table unchanged.
LEMMA VerdictStep ==
    ASSUME TypeOK, IInv, NEW r \in Requests,
           NEW code \in Codes \ {"none", "ok"}, NEW cause \in Causes,
           session[r].pc \notin Stopped,
           code \in {"400", "404"} => session[r].pc \in Unasked,
           Become(r, Ended(session[r], code, cause)), messages' = messages
    PROVE  Kept
<1>1. /\ session'[r].code = code
      /\ \A q \in Requests : q # r => session'[q] = session[q]
  BY EndedFields, EndedTyped, BecomeFacts DEF TypeOK
<1>2. session[r].code = "none"
  BY Unfinished
<1>3. told[r] = "pending" /\ told' = [told EXCEPT ![r] = Verdict(code)]
  BY <1>1, <1>2, TellFacts
<1>4. asked' = asked /\ answered' = answered
  BY SameRows
<1>5. CASE code \in {"400", "404"}
  <2>1. r \notin asked
    BY <1>5, StoredFacts DEF IInv, RequestInv, ProgressInv
  <2>2. Verdict(code) = "refused"
    BY <1>5 DEF Verdict
  <2>3. Promise!Refuse(r)
    BY <1>3, <1>4, <2>1, <2>2 DEF Promise!Refuse
  <2> QED BY <2>3 DEF Kept, Promise!Next
<1>6. CASE code \notin {"400", "404"}
  <2>1. Verdict(code) = "failed"
    BY <1>6 DEF Verdict
  <2>2. Promise!Fail(r)
    BY <1>3, <1>4, <2>1 DEF Promise!Fail
  <2> QED BY <2>2 DEF Kept, Promise!Next
<1> QED BY <1>5, <1>6

\* A request that goes on, the messages table unchanged, promises nothing new.
LEMMA GoOnStep ==
    ASSUME TypeOK, NEW r \in Requests, NEW t \in Session,
           t.code = session[r].code, Become(r, t), messages' = messages
    PROVE  Kept
  BY BecomeFacts, QuietStep

-----------------------------------------------------------------------------
(* One lemma per group of actions.                                         *)

\* Until the prompt is stored a step is a stutter, a refusal or a failure.
LEMMA PrepareKept ==
    ASSUME TypeOK, IInv, NEW r \in Requests,
           \/ Arrive(r) \/ BadRequest(r) \/ Disconnect(r)
           \/ Load(r) \/ FetchKey(r) \/ BeginAsk(r) \/ LoadProfile(r)
    PROVE  Kept
<1> DEFINE s == session[r]
<1>0. s \in Session /\ FailureCauses(s) \subseteq Causes /\ "none" \in Causes
  BY CausesTyped DEF TypeOK, Causes
<1>1. CASE Arrive(r)
  <2>1. Started(s) \in Session /\ Started(s).code = s.code
    BY <1>0, StartedFields DEF SameRequest
  <2> QED BY <1>1, <2>1, GoOnStep DEF Arrive
<1>2. CASE BadRequest(r)
  BY <1>0, <1>2, VerdictStep DEF BadRequest, Codes, Stopped, Unasked
<1>3. CASE Disconnect(r)
  <2>1. HungUp(s) \in Session /\ HungUp(s).code = s.code
    BY <1>0, HungUpFields DEF SameProgress, SameRequest
  <2> QED BY <1>3, <2>1, GoOnStep DEF Disconnect
<1>4. CASE Load(r)
  <2>1. Loaded(s) \in Session /\ Loaded(s).code = s.code
    BY <1>0, LoadedFields DEF SameRequest
  <2>2. messages' = messages /\ s.pc = "load"
    BY <1>4 DEF Load
  <2>3. CASE Become(r, Loaded(s))
    BY <2>1, <2>2, <2>3, GoOnStep
  <2>4. CASE Become(r, Ended(s, "404", "none"))
    BY <1>0, <2>2, <2>4, VerdictStep DEF Codes, Stopped, Unasked
  <2>5. ASSUME NEW cause \in FailureCauses(s), Become(r, Ended(s, "500", cause))
        PROVE Kept
    BY <1>0, <2>2, <2>5, VerdictStep DEF Codes, Stopped
  <2> QED BY <1>4, <2>3, <2>4, <2>5 DEF Load
<1>5. CASE FetchKey(r)
  <2>1. WithKey(s) \in Session /\ WithKey(s).code = s.code
    BY <1>0, WithKeyFields DEF SameProgress, SameRequest
  <2>2. messages' = messages /\ s.pc = "key"
    BY <1>5 DEF FetchKey
  <2>3. CASE Become(r, WithKey(s))
    BY <2>1, <2>2, <2>3, GoOnStep
  <2>4. CASE Become(r, Ended(s, "400", "none"))
    BY <1>0, <2>2, <2>4, VerdictStep DEF Codes, Stopped, Unasked
  <2>5. ASSUME NEW cause \in FailureCauses(s), Become(r, Ended(s, "500", cause))
        PROVE Kept
    BY <1>0, <2>2, <2>5, VerdictStep DEF Codes, Stopped
  <2> QED BY <1>5, <2>3, <2>4, <2>5 DEF FetchKey
<1>6. CASE BeginAsk(r)
  <2>1. Asking(s) \in Session /\ Asking(s).code = s.code
    BY <1>0, AskingFields DEF SameProgress, SameRequest
  <2>2. messages' = messages /\ s.pc = "ask"
    BY <1>6 DEF BeginAsk
  <2>3. CASE Become(r, Asking(s))
    BY <2>1, <2>2, <2>3, GoOnStep
  <2>4. ASSUME NEW cause \in FailureCauses(s), Become(r, Ended(s, "500", cause))
        PROVE Kept
    BY <1>0, <2>2, <2>4, VerdictStep DEF Codes, Stopped
  <2> QED BY <1>6, <2>3, <2>4 DEF BeginAsk
<1>7. CASE LoadProfile(r)
  <2>1. /\ WithProfile(s) \in Session /\ WithProfile(s).code = s.code
        /\ WithoutProfile(s) \in Session /\ WithoutProfile(s).code = s.code
    BY <1>0, ProfileFields DEF SameProgress, SameRequest
  <2> QED BY <1>7, <2>1, GoOnStep DEF LoadProfile
<1> QED BY <1>1, <1>2, <1>3, <1>4, <1>5, <1>6, <1>7

\* While the provider works, and until the reply is stored, a step is a stutter or
\* a failure.
LEMMA ReplyKept ==
    ASSUME TypeOK, IInv, NEW r \in Requests,
           Provider(r) \/ ContextAborts(r) \/ BeginSave(r)
    PROVE  Kept
<1> DEFINE s == session[r]
<1>0. s \in Session /\ SaveCauses(s) \subseteq Causes /\ {"ctx", "other"} \subseteq Causes
  BY CausesTyped DEF TypeOK, Causes
<1>1. CASE Generate(r)
  <2>1. messages' = messages /\ s.pc = "generate"
    BY <1>1 DEF Generate
  <2>2. ASSUME NEW n \in 0..MaxChunks, Become(r, Generated(s, n)) PROVE Kept
    <3>1. Generated(s, n) \in Session /\ Generated(s, n).code = s.code
      BY <1>0, GeneratedFields DEF SameRequest
    <3> QED BY <2>1, <2>2, <3>1, GoOnStep
  <2>3. CASE Become(r, Ended(s, "502", "other"))
    BY <1>0, <2>1, <2>3, VerdictStep DEF Codes, Stopped
  <2> QED BY <1>1, <2>2, <2>3 DEF Generate
<1>2. CASE OpenStream(r)
  <2>1. messages' = messages /\ s.pc = "generate"
    BY <1>2 DEF OpenStream
  <2>2. Opened(s) \in Session /\ Opened(s).code = s.code
    BY <1>0, OpenedFields DEF SameRequest
  <2>3. CASE Become(r, Opened(s))
    BY <2>1, <2>2, <2>3, GoOnStep
  <2>4. CASE Become(r, Ended(s, "502", "other"))
    BY <1>0, <2>1, <2>4, VerdictStep DEF Codes, Stopped
  <2> QED BY <1>2, <2>3, <2>4 DEF OpenStream
<1>3. CASE Chunk(r)
  <2>1. ReceiveChunk(s) \in Session /\ ReceiveChunk(s).code = s.code
    BY <1>0, <1>3, ReceiveChunkFields DEF SameRequest, Chunk
  <2> QED BY <1>3, <2>1, GoOnStep DEF Chunk
<1>4. CASE StreamEnds(r)
  <2>1. AfterStream(s) \in Session /\ AfterStream(s).code = s.code
    BY <1>0, AfterStreamFields DEF SameRequest
  <2> QED BY <1>4, <2>1, GoOnStep DEF StreamEnds
<1>5. CASE StreamBreaks(r)
  BY <1>0, <1>5, VerdictStep DEF StreamBreaks, AfterStreamError, Codes, Stopped
<1>6. CASE ContextAborts(r)
  BY <1>0, <1>6, VerdictStep DEF ContextAborts, AfterStreamError, Codes, Stopped
<1>7. CASE BeginSave(r)
  <2>1. messages' = messages /\ s.pc = "save"
    BY <1>7 DEF BeginSave
  <2>2. Saving(s) \in Session /\ Saving(s).code = s.code
    BY <1>0, SavingFields DEF SameProgress, SameRequest
  <2>3. CASE Become(r, Saving(s))
    BY <2>1, <2>2, <2>3, GoOnStep
  <2>4. ASSUME NEW cause \in SaveCauses(s), Become(r, SaveFailed(s, cause))
        PROVE Kept
    BY <1>0, <2>1, <2>4, VerdictStep DEF SaveFailed, Codes, Stopped
  <2> QED BY <1>7, <2>3, <2>4 DEF BeginSave
<1> QED BY <1>1, <1>2, <1>3, <1>4, <1>5, <1>6, <1>7 DEF Provider

\* A row that joins the table asks or answers its request, if it was not there.
LEMMA JoinFacts ==
    ASSUME NEW m \in Message, messages' = messages \cup {m}
    PROVE  /\ m.role = "user" => asked' = asked \cup {m.req} /\ answered' = answered
           /\ m.role = "assistant" => answered' = answered \cup {m.req} /\ asked' = asked
  <1>1. \A q \in Requests :
          /\ q \in asked' <=> q \in asked \/ (m.req = q /\ m.role = "user")
          /\ q \in answered' <=> q \in answered \/ (m.req = q /\ m.role = "assistant")
    BY StoredFacts, StoredFactsPrimed
  <1>2. /\ asked \subseteq Requests /\ asked' \subseteq Requests
        /\ answered \subseteq Requests /\ answered' \subseteq Requests
        /\ m.req \in Requests
    BY DEF asked, answered, Message
  <1> QED BY <1>1, <1>2

\* Storing the prompt is Ask; a commit that is not confirmed is Fail.
LEMMA CommitAskKept ==
    ASSUME TypeOK, IInv, NEW r \in Requests, CommitAsk(r)
    PROVE  Kept
<1> DEFINE s == session[r]
<1>0. /\ s \in Session /\ s.pc = "askTx" /\ FailureCauses(s) \subseteq Causes
      /\ Prompt(r) \in Message
  BY CausesTyped, RowsTyped DEF TypeOK, CommitAsk
<1>1. CASE messages' = messages \cup {Prompt(r)} /\ Become(r, Asked(s))
  <2>1. Prompt(r).req = r /\ Prompt(r).role = "user"
    BY DEF Prompt, Row
  <2>2. asked' = asked \cup {r} /\ answered' = answered
    BY <1>0, <1>1, <2>1, JoinFacts
  <2>3. \A q \in Requests : session'[q].code = session[q].code
    BY <1>0, <1>1, AskedFields, BecomeFacts DEF SameProgress, SameRequest
  <2>4. told' = told
    BY <2>3, SameCodes
  <2>5. r \notin asked
    BY <1>0, StoredFacts DEF IInv, RequestInv, ProgressInv, Unasked
  <2>6. told[r] = "pending"
    BY <1>0, Unfinished, ToldFacts DEF Stopped, Verdict
  <2>7. Promise!Ask(r)
    BY <2>2, <2>4, <2>5, <2>6 DEF Promise!Ask, Promise!Unsettled
  <2> QED BY <2>7 DEF Kept, Promise!Next
<1>2. ASSUME NEW cause \in FailureCauses(s), messages' = messages,
             Become(r, AfterFailedAsk(s, cause))
      PROVE Kept
  BY <1>0, <1>2, VerdictStep DEF AfterFailedAsk, Codes, Stopped
<1> QED BY <1>1, <1>2 DEF CommitAsk

\* Storing the reply is Answer, with the verdict; a commit that is not confirmed
\* is Fail.
LEMMA CommitSaveKept ==
    ASSUME TypeOK, IInv, NEW r \in Requests, CommitSave(r)
    PROVE  Kept
<1> DEFINE s == session[r]
<1>0. /\ s \in Session /\ s.pc = "saveTx" /\ SaveCauses(s) \subseteq Causes
      /\ Reply(r) \in Message
  BY CausesTyped, RowsTyped DEF TypeOK, CommitSave
<1>1. CASE messages' = messages \cup {Reply(r)} /\ Become(r, Ended(s, "ok", "none"))
  <2>1. Reply(r).req = r /\ Reply(r).role = "assistant"
    BY DEF Reply, Row
  <2>2. answered' = answered \cup {r} /\ asked' = asked
    BY <1>0, <1>1, <2>1, JoinFacts
  <2>3. /\ session'[r].code = "ok" /\ session[r].code = "none"
        /\ \A q \in Requests : q # r => session'[q] = session[q]
    <3>1. "ok" \in Codes /\ "none" \in Causes
      BY DEF Codes, Causes
    <3>2. Ended(s, "ok", "none") \in Session /\ Ended(s, "ok", "none").code = "ok"
      BY <1>0, <3>1, EndedFields, EndedTyped
    <3>3. session[r].code = "none"
      BY <1>0, Unfinished DEF Stopped
    <3> QED BY <1>1, <3>2, <3>3, BecomeFacts
  <2>4. told[r] = "pending" /\ told' = [told EXCEPT ![r] = "ok"]
    BY <2>3, TellFacts DEF Verdict, Codes
  <2>5. r \in asked
    BY <1>0, StoredFacts DEF IInv, RequestInv, ProgressInv, IsPrompt
  <2>6. r \notin answered
    BY <1>0, StoredFacts, Unfinished DEF Stopped
  <2>7. Promise!Answer(r)
    BY <2>2, <2>4, <2>5, <2>6 DEF Promise!Answer, Promise!Unsettled
  <2> QED BY <2>7 DEF Kept, Promise!Next
<1>2. ASSUME NEW cause \in SaveCauses(s), messages' = messages,
             Become(r, SaveFailed(s, cause))
      PROVE Kept
  BY <1>0, <1>2, VerdictStep DEF SaveFailed, Codes, Stopped
<1> QED BY <1>1, <1>2 DEF CommitSave

\* A late commit asks or answers a request whose caller was told it had failed, or
\* nothing; if the row was there already it is a stutter.
LEMMA LandKept ==
    ASSUME TypeOK, IInv, NEW m \in limbo, Land(m)
    PROVE  Kept
<1> DEFINE r == m.req
<1>0. m \in Message /\ r \in Requests /\ m.role \in {"user", "assistant"}
  BY DEF TypeOK, Message, Roles
<1>1. messages' = messages \cup {m} /\ told' = told
  BY SameCodes DEF Land
<1>2. Promise!Unsettled(r)
  <2>1. session[r].code \in Codes \ {"ok", "400", "404"}
    BY <1>0 DEF IInv, LimboInv, RequestInv, ProgressInv, TypeOK, Session
  <2> QED BY <1>0, <2>1, ToldFacts DEF Promise!Unsettled, Verdict, Codes
<1>3. CASE m.role = "user"
  <2>1. asked' = asked \cup {r} /\ answered' = answered
    BY <1>0, <1>1, <1>3, JoinFacts
  <2>2. CASE r \in asked
    <3>1. asked' = asked
      BY <2>1, <2>2
    <3> QED BY <1>1, <2>1, <3>1 DEF Kept, Promise!cvars
  <2>3. CASE r \notin asked
    <3>1. Promise!Ask(r)
      BY <1>1, <1>2, <2>1, <2>3 DEF Promise!Ask
    <3> QED BY <1>0, <3>1 DEF Kept, Promise!Next
  <2> QED BY <2>2, <2>3
<1>4. CASE m.role = "assistant"
  <2>1. answered' = answered \cup {r} /\ asked' = asked
    BY <1>0, <1>1, <1>4, JoinFacts
  <2>2. r \in asked
    BY <1>0, <1>4, StoredFacts DEF IInv, RowInv, Answers
  <2>3. CASE r \in answered
    <3>1. answered' = answered
      BY <2>1, <2>3
    <3> QED BY <1>1, <2>1, <3>1 DEF Kept, Promise!cvars
  <2>4. CASE r \notin answered
    <3>1. Promise!Answer(r)
      BY <1>1, <1>2, <2>1, <2>2, <2>4 DEF Promise!Answer
    <3> QED BY <1>0, <3>1 DEF Kept, Promise!Next
  <2> QED BY <2>3, <2>4
<1> QED BY <1>0, <1>3, <1>4

\* A crash is a stutter: nobody is told anything, and what was not confirmed waits
\* in limbo.
LEMMA CrashKept ==
    ASSUME TypeOK, IInv, Crash
    PROVE  Kept
<1>1. ASSUME NEW r \in Requests PROVE session'[r].code = session[r].code
  <2>1. CASE InFlight(r)
    <3>1. session[r].code = "none"
      BY <2>1, Unfinished DEF InFlight, Stopped
    <3>2. session'[r] = Killed(session[r])
      BY <2>1 DEF Crash
    <3> QED BY <3>1, <3>2, KilledFields DEF TypeOK
  <2>2. CASE ~InFlight(r)
    BY <2>2 DEF Crash
  <2> QED BY <2>1, <2>2
<1> QED BY <1>1, QuietStep DEF Crash

-----------------------------------------------------------------------------
(* The refinement.                                                         *)

\* The initial states map to the initial state of Conversation.
LEMMA InitPromise == Init => Promise!Init
<1> SUFFICES ASSUME Init PROVE Promise!Init
  OBVIOUS
<1>1. asked = {} /\ answered = {}
  BY DEF Init, asked, answered, Prompts, Replies, RowsOf
<1>2. told = [r \in Requests |-> "pending"]
  <2>1. \A r \in Requests : session[r].code = "none"
    BY DEF Init, Fresh
  <2> QED BY <2>1, ToldFacts DEF Verdict
<1> QED BY <1>1, <1>2 DEF Promise!Init

\* Every step maps to a step of Conversation or to a stutter.
LEMMA NextPromise == TypeOK /\ IInv /\ [Next]_vars => Kept
<1> SUFFICES ASSUME TypeOK, IInv, [Next]_vars PROVE Kept
  OBVIOUS
<1>1. ASSUME NEW u \in Users, NEW c \in Chats, CreateChat(u, c) PROVE Kept
  BY <1>1, QuietStep DEF CreateChat
<1>2. ASSUME NEW u \in Users, NEW p \in SystemPrompts, UpdateSystemPrompt(u, p)
      PROVE Kept
  BY <1>2, QuietStep DEF UpdateSystemPrompt
<1>3. ASSUME NEW r \in Requests, Arrive(r) \/ BadRequest(r) \/ Disconnect(r) PROVE Kept
  BY <1>3, PrepareKept
<1>4. ASSUME NEW r \in Requests, Serve(r) PROVE Kept
  BY <1>4, PrepareKept, ReplyKept, CommitAskKept, CommitSaveKept DEF Serve
<1>5. ASSUME NEW r \in Requests, Provider(r) PROVE Kept
  BY <1>5, ReplyKept
<1>6. ASSUME NEW m \in limbo, Land(m) PROVE Kept
  BY <1>6, LandKept
<1>7. CASE Crash
  BY <1>7, CrashKept
<1>8. CASE UNCHANGED vars
  BY <1>8, QuietStep DEF vars
<1> QED
  BY <1>1, <1>2, <1>3, <1>4, <1>5, <1>6, <1>7, <1>8 DEF Next

\* The server implements Conversation: it stores a prompt before its reply, each
\* at most once, tells a caller at most one verdict and never stores anything for
\* a request after a verdict that settles it.
THEOREM Implements == Spec => ImplementsConversation
<1>1. Init => Promise!Init
  BY InitPromise
<1>2. TypeOK /\ IInv /\ [Next]_vars => [Promise!Next]_(Promise!cvars)
  BY NextPromise DEF Kept
<1> QED BY <1>1, <1>2, Invariant, PTL DEF Spec, ImplementsConversation, Promise!Spec
=============================================================================
