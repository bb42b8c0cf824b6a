------------------------- MODULE ChatSessionProofs -------------------------
(***************************************************************************)
(* Proofs about ChatSession, for any number of users, chats, requests and  *)
(* chunks: type correctness, the inductive invariant and the safety        *)
(* properties that follow from it.                                         *)
(***************************************************************************)
EXTENDS ChatSessionInductive, TLAPS

-----------------------------------------------------------------------------
(* What the updates of a session leave alone, and what they set.           *)

\* t is a session of the same request as s.
SameRequest(s, t) ==
    /\ t \in Session
    /\ t.user = s.user /\ t.chat = s.chat /\ t.mode = s.mode

\* t has seen and told nothing more than s.
SameProgress(s, t) ==
    /\ SameRequest(s, t)
    /\ t.hist = s.hist /\ t.acked = s.acked
    /\ t.reply = s.reply /\ t.got = s.got
    /\ t.code = s.code /\ t.cause = s.cause

\* A handler that returns keeps nothing but what it received.
LEMMA EndedFields ==
    ASSUME NEW s \in Session, NEW code \in Codes, NEW cause \in Causes
    PROVE  LET t == Ended(s, code, cause)
           IN  /\ SameRequest(s, t)
               /\ t.pc = "done" /\ t.code = code /\ t.cause = cause
               /\ t.hist = {} /\ t.acked = {}
               /\ t.reply = s.reply /\ t.got = s.got
  BY NoPromptAssumption DEF Ended, Session, Pcs, SameRequest

\* What Killed makes of a session.
LEMMA KilledFields ==
    ASSUME NEW s \in Session
    PROVE  /\ SameRequest(s, Killed(s))
           /\ Killed(s).pc = "killed" /\ Killed(s).code = "none"
           /\ Killed(s).hist = {} /\ Killed(s).acked = {}
           /\ Killed(s).reply = s.reply /\ Killed(s).got = s.got
  <1> DEFINE e == Ended(s, "none", "none")
  <1>1. SameRequest(s, e) /\ e.code = "none" /\ e.hist = {} /\ e.acked = {}
        /\ e.reply = s.reply /\ e.got = s.got
    BY EndedFields DEF Codes, Causes
  <1> HIDE DEF e
  <1>2. Killed(s) = [e EXCEPT !.pc = "killed"]
    BY DEF Killed, e
  <1> QED BY <1>1, <1>2 DEF SameRequest, Session, Pcs

\* A session that used its context keeps everything else.
LEMMA UsedFields ==
    ASSUME NEW s \in Session
    PROVE  SameProgress(s, Used(s)) /\ Used(s).pc = s.pc /\ Used(s).at = s.at
  BY DEF Used, Session, SameProgress, SameRequest

\* What Started makes of a session.
LEMMA StartedFields ==
    ASSUME NEW s \in Session
    PROVE  /\ SameRequest(s, Started(s))
           /\ Started(s).pc = "load" /\ Started(s).acked = Acknowledged(s.chat)
           /\ Started(s).hist = s.hist /\ Started(s).reply = s.reply
           /\ Started(s).code = s.code
  BY DEF Started, Acknowledged, Session, Pcs, SameRequest

\* What Loaded makes of a session.
LEMMA LoadedFields ==
    ASSUME TypeOK, NEW s \in Session
    PROVE  /\ SameRequest(s, Loaded(s))
           /\ Loaded(s).pc = "key" /\ Loaded(s).hist = ChatHistory(s.chat)
           /\ Loaded(s).acked = s.acked /\ Loaded(s).reply = s.reply
           /\ Loaded(s).code = s.code
  <1> DEFINE u == Used(s)
             h == ChatHistory(s.chat)
  <1>1. h \in SUBSET Message
    BY DEF TypeOK, ChatHistory
  <1>2. SameProgress(s, u)
    BY UsedFields
  <1> HIDE DEF u, h
  <1>3. Loaded(s) = [u EXCEPT !.pc = "key", !.hist = h]
    BY DEF Loaded, u, h
  <1>4. /\ SameRequest(s, Loaded(s))
        /\ Loaded(s).pc = "key" /\ Loaded(s).hist = h
        /\ Loaded(s).acked = s.acked /\ Loaded(s).reply = s.reply
        /\ Loaded(s).code = s.code
    BY <1>1, <1>2, <1>3 DEF Session, Pcs, SameProgress, SameRequest
  <1> QED BY <1>4 DEF h

\* What WithKey makes of a session.
LEMMA WithKeyFields ==
    ASSUME NEW s \in Session
    PROVE  SameProgress(s, WithKey(s)) /\ WithKey(s).pc = "ask"
  BY DEF WithKey, Used, Session, Pcs, SameProgress, SameRequest

\* What Asking makes of a session: the stamp is new.
LEMMA AskingFields ==
    ASSUME TypeOK, NEW s \in Session
    PROVE  SameProgress(s, Asking(s)) /\ Asking(s).pc = "askTx" /\ Asking(s).at = clock + 1
  <1>1. NextStamp(s) = clock + 1 /\ clock + 1 \in Nat
    BY DEF TypeOK, NextStamp
  <1> QED BY <1>1 DEF Asking, Session, Pcs, SameProgress, SameRequest

\* What Asked makes of a session.
LEMMA AskedFields ==
    ASSUME NEW s \in Session
    PROVE  SameProgress(s, Asked(s)) /\ Asked(s).pc = "profile" /\ Asked(s).at = s.at
  BY DEF Asked, Used, Session, Pcs, SameProgress, SameRequest

\* What LoadProfile makes of a session, with a prompt or without.
LEMMA ProfileFields ==
    ASSUME TypeOK, NEW s \in Session
    PROVE  /\ SameProgress(s, WithProfile(s))
           /\ WithProfile(s).pc = "generate" /\ WithProfile(s).at = s.at
           /\ SameProgress(s, WithoutProfile(s))
           /\ WithoutProfile(s).pc = "generate" /\ WithoutProfile(s).at = s.at
  <1>1. profile[s.user] \in SystemPrompts
    BY DEF TypeOK, Session
  <1> QED BY <1>1, NoPromptAssumption
          DEF WithProfile, WithoutProfile, Used, Session, Pcs, SameProgress, SameRequest

\* What Generated makes of a session.
LEMMA GeneratedFields ==
    ASSUME NEW s \in Session, NEW n \in 0..MaxChunks
    PROVE  LET t == Generated(s, n)
           IN  /\ SameRequest(s, t)
               /\ t.pc = "save" /\ t.reply = "complete"
               /\ t.hist = s.hist /\ t.acked = s.acked /\ t.code = s.code
  BY DEF Generated, Used, Session, Pcs, SameRequest

\* What Opened makes of a session.
LEMMA OpenedFields ==
    ASSUME NEW s \in Session
    PROVE  /\ SameRequest(s, Opened(s))
           /\ Opened(s).pc = "streaming" /\ Opened(s).reply = "partial" /\ Opened(s).at = s.at
           /\ Opened(s).hist = s.hist /\ Opened(s).acked = s.acked /\ Opened(s).code = s.code
  BY DEF Opened, Session, Pcs, SameRequest

\* What ReceiveChunk makes of a session.
LEMMA ReceiveChunkFields ==
    ASSUME NEW s \in Session, s.got < MaxChunks
    PROVE  LET t == ReceiveChunk(s)
           IN  /\ SameRequest(s, t)
               /\ t.pc = s.pc /\ t.reply = s.reply /\ t.at = s.at
               /\ t.hist = s.hist /\ t.acked = s.acked /\ t.code = s.code
  BY MaxChunksAssumption DEF ReceiveChunk, Session, SameRequest

\* What AfterStream makes of a session.
LEMMA AfterStreamFields ==
    ASSUME NEW s \in Session
    PROVE  LET t == AfterStream(s)
           IN  /\ SameRequest(s, t)
               /\ t.pc = "save" /\ t.reply = "complete"
               /\ t.hist = s.hist /\ t.acked = s.acked /\ t.code = s.code
  BY DEF AfterStream, Session, Pcs, SameRequest

\* What Saving makes of a session: the stamp is new.
LEMMA SavingFields ==
    ASSUME TypeOK, NEW s \in Session
    PROVE  SameProgress(s, Saving(s)) /\ Saving(s).pc = "saveTx" /\ Saving(s).at = clock + 1
  <1>1. NextStamp(s) = clock + 1 /\ clock + 1 \in Nat
    BY DEF TypeOK, NextStamp
  <1> QED BY <1>1 DEF Saving, Session, Pcs, SameProgress, SameRequest

\* What HungUp makes of a session.
LEMMA HungUpFields ==
    ASSUME NEW s \in Session
    PROVE  SameProgress(s, HungUp(s)) /\ HungUp(s).pc = s.pc /\ HungUp(s).at = s.at
  BY DEF HungUp, Session, SameProgress, SameRequest

\* The causes of a failed save are those of any failure, and a stream's save
\* never fails because of the request context.
LEMMA CausesTyped ==
    ASSUME NEW s \in Session
    PROVE  /\ FailureCauses(s) \subseteq Causes
           /\ SaveCauses(s) \subseteq Causes
           /\ s.mode = "stream" => SaveCauses(s) = {"other"}
  BY DEF FailureCauses, SaveCauses, SaveBound, Causes

\* The rows a request stores are well typed.
LEMMA RowsTyped ==
    ASSUME TypeOK, NEW r \in Requests
    PROVE  Prompt(r) \in Message /\ Reply(r) \in Message
  BY MaxChunksAssumption DEF TypeOK, Session, Prompt, Reply, Row, Message, Roles

\* What Become does to the table of sessions.
LEMMA BecomeFacts ==
    ASSUME TypeOK, NEW r \in Requests, NEW t \in Session, Become(r, t)
    PROVE  /\ session' \in [Requests -> Session]
           /\ session'[r] = t
           /\ \A q \in Requests : q # r => session'[q] = session[q]
  BY DEF TypeOK, Become

-----------------------------------------------------------------------------
(* Type correctness.                                                       *)

\* The initial states are typed.
LEMMA InitTypeOK == Init => TypeOK
  BY NoPromptAssumption, MaxChunksAssumption
     DEF Init, TypeOK, Fresh, Session, Pcs, Codes, Causes, Message

\* Each update a handler makes gives a well-typed session.
LEMMA EndedTyped ==
    ASSUME NEW s \in Session, NEW code \in Codes, NEW cause \in Causes
    PROVE  Ended(s, code, cause) \in Session
  BY EndedFields DEF SameRequest

\* Every step keeps the types: one step of the proof per action.
LEMMA NextTypeOK == TypeOK /\ [Next]_vars => TypeOK'
<1> SUFFICES ASSUME TypeOK, [Next]_vars PROVE TypeOK'
  OBVIOUS
<1>0. \A r \in Requests : session[r] \in Session
  BY DEF TypeOK
<1>1. ASSUME NEW u \in Users, NEW c \in Chats, CreateChat(u, c) PROVE TypeOK'
  BY <1>1 DEF CreateChat, TypeOK
<1>2. ASSUME NEW u \in Users, NEW p \in SystemPrompts, UpdateSystemPrompt(u, p)
      PROVE TypeOK'
  BY <1>2 DEF UpdateSystemPrompt, TypeOK
<1>3. ASSUME NEW r \in Requests, NEW t \in Session, Become(r, t),
             UNCHANGED <<owner, profile, messages, limbo>>, clock' \in Nat
      PROVE TypeOK'
  BY <1>3, BecomeFacts DEF TypeOK
<1>4. ASSUME NEW r \in Requests, Arrive(r) PROVE TypeOK'
  <2>1. Started(session[r]) \in Session
    BY <1>0, StartedFields DEF SameRequest
  <2> QED BY <1>3, <1>4, <2>1 DEF Arrive, TypeOK
<1>5. ASSUME NEW r \in Requests, BadRequest(r) PROVE TypeOK'
  <2>1. Ended(session[r], "400", "none") \in Session
    BY <1>0, EndedTyped DEF Codes, Causes
  <2> QED BY <1>3, <1>5, <2>1 DEF BadRequest, TypeOK
<1>6. ASSUME NEW r \in Requests, Disconnect(r) PROVE TypeOK'
  <2>1. HungUp(session[r]) \in Session
    BY <1>0, HungUpFields DEF SameProgress, SameRequest
  <2> QED BY <1>3, <1>6, <2>1 DEF Disconnect, TypeOK
<1>7. ASSUME NEW r \in Requests, Load(r) PROVE TypeOK'
  <2>1. Loaded(session[r]) \in Session
    BY <1>0, LoadedFields DEF SameRequest
  <2>2. Ended(session[r], "404", "none") \in Session
    BY <1>0, EndedTyped DEF Codes, Causes
  <2>3. \A cause \in FailureCauses(session[r]) : Ended(session[r], "500", cause) \in Session
    BY <1>0, EndedTyped, CausesTyped DEF Codes
  <2> QED BY <1>3, <1>7, <2>1, <2>2, <2>3 DEF Load, TypeOK
<1>8. ASSUME NEW r \in Requests, FetchKey(r) PROVE TypeOK'
  <2>1. WithKey(session[r]) \in Session
    BY <1>0, WithKeyFields DEF SameProgress, SameRequest
  <2>2. Ended(session[r], "400", "none") \in Session
    BY <1>0, EndedTyped DEF Codes, Causes
  <2>3. \A cause \in FailureCauses(session[r]) : Ended(session[r], "500", cause) \in Session
    BY <1>0, EndedTyped, CausesTyped DEF Codes
  <2> QED BY <1>3, <1>8, <2>1, <2>2, <2>3 DEF FetchKey, TypeOK
<1>9. ASSUME NEW r \in Requests, BeginAsk(r) PROVE TypeOK'
  <2>1. Asking(session[r]) \in Session
    BY <1>0, AskingFields DEF SameProgress, SameRequest
  <2>2. \A cause \in FailureCauses(session[r]) : Ended(session[r], "500", cause) \in Session
    BY <1>0, EndedTyped, CausesTyped DEF Codes
  <2>3. clock' \in Nat
    BY <1>9 DEF BeginAsk, TypeOK
  <2> QED BY <1>3, <1>9, <2>1, <2>2, <2>3 DEF BeginAsk
<1>10. ASSUME NEW r \in Requests, CommitAsk(r) PROVE TypeOK'
  <2>1. Asked(session[r]) \in Session
    BY <1>0, AskedFields DEF SameProgress, SameRequest
  <2>2. \A cause \in FailureCauses(session[r]) : AfterFailedAsk(session[r], cause) \in Session
    BY <1>0, EndedTyped, CausesTyped DEF AfterFailedAsk, Codes
  <2>3. session' \in [Requests -> Session]
    BY <1>10, <2>1, <2>2, BecomeFacts DEF CommitAsk
  <2> QED BY <1>10, <2>3, RowsTyped DEF CommitAsk, TypeOK
<1>11. ASSUME NEW r \in Requests, LoadProfile(r) PROVE TypeOK'
  <2>1. WithProfile(session[r]) \in Session /\ WithoutProfile(session[r]) \in Session
    BY <1>0, ProfileFields DEF SameProgress, SameRequest
  <2> QED BY <1>3, <1>11, <2>1 DEF LoadProfile, TypeOK
<1>12. ASSUME NEW r \in Requests, Generate(r) PROVE TypeOK'
  <2>1. \A n \in 0..MaxChunks : Generated(session[r], n) \in Session
    BY <1>0, GeneratedFields DEF SameRequest
  <2>2. Ended(session[r], "502", "other") \in Session
    BY <1>0, EndedTyped DEF Codes, Causes
  <2> QED BY <1>3, <1>12, <2>1, <2>2 DEF Generate, TypeOK
<1>13. ASSUME NEW r \in Requests, OpenStream(r) PROVE TypeOK'
  <2>1. Opened(session[r]) \in Session
    BY <1>0, OpenedFields DEF SameRequest
  <2>2. Ended(session[r], "502", "other") \in Session
    BY <1>0, EndedTyped DEF Codes, Causes
  <2> QED BY <1>3, <1>13, <2>1, <2>2 DEF OpenStream, TypeOK
<1>14. ASSUME NEW r \in Requests, Chunk(r) PROVE TypeOK'
  <2>1. ReceiveChunk(session[r]) \in Session
    BY <1>0, <1>14, ReceiveChunkFields DEF Chunk, SameRequest
  <2> QED BY <1>3, <1>14, <2>1 DEF Chunk, TypeOK
<1>15. ASSUME NEW r \in Requests, StreamEnds(r) PROVE TypeOK'
  <2>1. AfterStream(session[r]) \in Session
    BY <1>0, AfterStreamFields DEF SameRequest
  <2> QED BY <1>3, <1>15, <2>1 DEF StreamEnds, TypeOK
<1>16. ASSUME NEW r \in Requests, StreamBreaks(r) PROVE TypeOK'
  <2>1. AfterStreamError(session[r], "other") \in Session
    BY <1>0, EndedTyped DEF AfterStreamError, Codes, Causes
  <2> QED BY <1>3, <1>16, <2>1 DEF StreamBreaks, TypeOK
<1>17. ASSUME NEW r \in Requests, ContextAborts(r) PROVE TypeOK'
  <2>1. Ended(session[r], "502", "ctx") \in Session
    BY <1>0, EndedTyped DEF Codes, Causes
  <2>2. AfterStreamError(session[r], "ctx") \in Session
    BY <1>0, EndedTyped DEF AfterStreamError, Codes, Causes
  <2> QED BY <1>3, <1>17, <2>1, <2>2 DEF ContextAborts, TypeOK
<1>18. ASSUME NEW r \in Requests, BeginSave(r) PROVE TypeOK'
  <2>1. Saving(session[r]) \in Session
    BY <1>0, SavingFields DEF SameProgress, SameRequest
  <2>2. \A cause \in SaveCauses(session[r]) : SaveFailed(session[r], cause) \in Session
    BY <1>0, EndedTyped, CausesTyped DEF SaveFailed, Codes
  <2>3. clock' \in Nat
    BY <1>18 DEF BeginSave, TypeOK
  <2> QED BY <1>3, <1>18, <2>1, <2>2, <2>3 DEF BeginSave
<1>19. ASSUME NEW r \in Requests, CommitSave(r) PROVE TypeOK'
  <2>1. Ended(session[r], "ok", "none") \in Session
    BY <1>0, EndedTyped DEF Codes, Causes
  <2>2. \A cause \in SaveCauses(session[r]) : SaveFailed(session[r], cause) \in Session
    BY <1>0, EndedTyped, CausesTyped DEF SaveFailed, Codes
  <2>3. session' \in [Requests -> Session]
    BY <1>19, <2>1, <2>2, BecomeFacts DEF CommitSave
  <2> QED BY <1>19, <2>3, RowsTyped DEF CommitSave, TypeOK
<1>20. ASSUME NEW m \in limbo, Land(m) PROVE TypeOK'
  BY <1>20 DEF Land, TypeOK
<1>21. CASE Crash
  <2>1. \A r \in Requests : Killed(session[r]) \in Session
    BY <1>0, KilledFields DEF SameRequest
  <2>2. Pending \subseteq Message
    BY RowsTyped DEF Pending
  <2> QED BY <1>21, <2>1, <2>2 DEF Crash, TypeOK
<1>22. CASE UNCHANGED vars
  BY <1>22 DEF vars, TypeOK
<1> QED
  BY <1>1, <1>2, <1>4, <1>5, <1>6, <1>7, <1>8, <1>9, <1>10, <1>11, <1>12, <1>13,
     <1>14, <1>15, <1>16, <1>17, <1>18, <1>19, <1>20, <1>21, <1>22
     DEF Next, Serve, Provider

\* Every reachable state is well typed.
THEOREM TypeCorrect == Spec => []TypeOK
  BY InitTypeOK, NextTypeOK, PTL DEF Spec

-----------------------------------------------------------------------------
(* The inductive invariant.                                                *)

\* The initial states satisfy the inductive invariant.
LEMMA InitIInv == Init => IInv
  BY DEF Init, IInv, RowInv, LimboInv, RequestInv, ProgressInv, OutcomeInv,
         HistoryInv, AckedInv, Fresh, Unasked, InExchange, InSave, HasHistory, Stopped

\* A request that has not stopped has stored no reply and left nothing in limbo.
LEMMA Unfinished ==
    ASSUME TypeOK, IInv, NEW r \in Requests, session[r].pc \notin Stopped
    PROVE  /\ \A m \in messages \cup limbo : m.req = r => m.role # "assistant"
           /\ \A m \in limbo : m.req # r
           /\ session[r].code = "none"
           /\ \A q \in Requests : r \notin session[q].acked
  <1>1. session[r].code = "none"
    BY DEF IInv, RequestInv, OutcomeInv, Stopped, TypeOK
  <1>2. \A q \in Requests : r \notin session[q].acked
    BY <1>1 DEF IInv, RequestInv, AckedInv
  <1> QED BY <1>1, <1>2 DEF IInv, RowInv, LimboInv

\* The chat of a request that has read its history is the user's own.
LEMMA OwnChat ==
    ASSUME IInv, NEW r \in Requests, session[r].pc \in HasHistory
    PROVE  owner[session[r].chat] = session[r].user
  BY DEF IInv, RequestInv, HistoryInv

\* A step that moves one unfinished request and leaves the tables alone keeps the
\* invariant when it keeps that request's part of it.
LEMMA LocalStep ==
    ASSUME TypeOK, TypeOK', IInv, NEW r \in Requests,
           session[r].pc \notin Stopped,
           SameRequest(session[r], session'[r]),
           \A q \in Requests : q # r => session'[q] = session[q],
           UNCHANGED <<owner, messages, limbo>>, clock <= clock',
           RequestInv(r, session[r])'
    PROVE  IInv'
  <1>1. RowInv'
    <2> SUFFICES ASSUME NEW m \in messages \cup limbo
                 PROVE /\ m.chat = session'[m.req].chat
                       /\ owner[m.chat] = session'[m.req].user
                       /\ m.at <= clock'
                       /\ m.role = "assistant" =>
                            /\ session'[m.req].pc \in Stopped
                            /\ session'[m.req].reply = "complete"
                            /\ m.text = session'[m.req].got
                            /\ session'[m.req].code \notin {"502", "interrupted"}
                            /\ \E p \in messages : Answers(m, p)
      BY DEF RowInv
    <2>0. m.req \in Requests /\ m.at \in Nat /\ clock \in Nat /\ clock' \in Nat
      BY DEF TypeOK, Message
    <2>1. m.at <= clock'
      BY <2>0 DEF IInv, RowInv
    <2>2. CASE m.req = r
      BY <2>1, <2>2, Unfinished DEF IInv, RowInv, SameRequest
    <2>3. CASE m.req # r
      BY <2>0, <2>1, <2>3 DEF IInv, RowInv
    <2> QED BY <2>2, <2>3
  <1>2. LimboInv'
    <2> SUFFICES ASSUME NEW m \in limbo
                 PROVE session'[m.req].pc \in Stopped /\ session'[m.req].code # "ok"
      BY DEF LimboInv
    <2>1. m.req \in Requests /\ m.req # r
      BY Unfinished DEF TypeOK, Message
    <2> QED BY <2>1 DEF IInv, LimboInv
  <1>3. ASSUME NEW q \in Requests PROVE RequestInv(q, session[q])'
    <2>1. CASE q = r
      BY <2>1
    <2>2. CASE q # r
      <3>0. session'[q] = session[q]
        BY <2>2
      <3>1. ProgressInv(q, session[q])'
        <4>1. ProgressInv(q, session[q])
          BY DEF IInv, RequestInv
        <4>2. session[q].at \in Nat /\ clock \in Nat /\ clock' \in Nat
          BY DEF TypeOK, Session
        <4> QED BY <4>1, <4>2, <3>0 DEF ProgressInv, Row, IsPrompt
      <3>2. OutcomeInv(session[q])'
        BY <3>0 DEF IInv, RequestInv, OutcomeInv
      <3>3. HistoryInv(q, session[q])'
        BY <3>0 DEF IInv, RequestInv, HistoryInv, Answers
      <3>4. AckedInv(session[q])'
        <4>1. session[q].acked \subseteq Requests
          BY DEF TypeOK, Session
        <4>2. \A p \in session[q].acked : session'[p] = session[p]
          BY <4>1, Unfinished
        <4> QED BY <3>0, <4>2 DEF IInv, RequestInv, AckedInv, RowsOf
      <3> QED BY <3>1, <3>2, <3>3, <3>4 DEF RequestInv
    <2> QED BY <2>1, <2>2
  <1> QED BY <1>1, <1>2, <1>3 DEF IInv

\* The verdicts a handler may return from where it stands, the tables unchanged.
LEMMA EndStep ==
    ASSUME TypeOK, TypeOK', IInv, NEW r \in Requests,
           NEW code \in Codes \ {"none", "ok"}, NEW cause \in Causes,
           session[r].pc \notin Stopped,
           code \in {"400", "404"} => session[r].pc \in Unasked,
           code \in {"502", "interrupted", "unsaved"} => session[r].pc \in InExchange \cup InSave,
           session[r].pc \in InSave /\ session[r].mode = "stream" => cause = "other",
           Become(r, Ended(session[r], code, cause)),
           UNCHANGED <<owner, messages, limbo, clock>>
    PROVE  IInv'
<1> DEFINE s == session[r]
           t == session'[r]
<1>1. s \in Session
  BY DEF TypeOK
<1>2. /\ SameRequest(s, t)
      /\ t.pc = "done" /\ t.code = code /\ t.cause = cause
      /\ t.hist = {} /\ t.acked = {}
      /\ t.reply = s.reply /\ t.got = s.got
  BY <1>1, EndedFields, EndedTyped, BecomeFacts
<1>3. \A q \in Requests : q # r => session'[q] = session[q]
  BY <1>1, EndedTyped, BecomeFacts
<1>4. RequestInv(r, session[r])'
  <2>0. RequestInv(r, s)
    BY DEF IInv
  <2>1. ProgressInv(r, session[r])'
    <3>1. code \in {"502", "interrupted", "unsaved"} => \E p \in messages : IsPrompt(p, r)
      BY <2>0 DEF RequestInv, ProgressInv, IsPrompt, Row, InSave, InExchange
    <3>2. code \in {"400", "404"} => \A m \in messages \cup limbo : m.req # r
      BY <2>0 DEF RequestInv, ProgressInv
    <3> QED BY <1>2, <3>1, <3>2
            DEF ProgressInv, IsPrompt, Unasked, InExchange, InSave
  <2>2. OutcomeInv(session[r])'
    BY <1>2, <2>0 DEF OutcomeInv, RequestInv, InSave, Stopped, SameRequest
  <2>3. HistoryInv(r, session[r])'
    BY <1>2 DEF HistoryInv, HasHistory, InExchange, InSave
  <2>4. AckedInv(session[r])'
    BY <1>2 DEF AckedInv
  <2> QED BY <2>1, <2>2, <2>3, <2>4 DEF RequestInv
<1>5. clock <= clock'
  BY DEF TypeOK
<1> QED BY <1>2, <1>3, <1>4, <1>5, LocalStep

\* Arrive keeps IInv: what was acknowledged is settled.
LEMMA ArriveIInv ==
    ASSUME TypeOK, TypeOK', IInv, NEW r \in Requests, Arrive(r)
    PROVE  IInv'
<1> DEFINE s == session[r]
           t == session'[r]
<1>1. s \in Session /\ s.pc = "idle"
  BY DEF TypeOK, Arrive
<1>2. /\ SameRequest(s, t)
      /\ t.pc = "load" /\ t.acked = Acknowledged(s.chat)
      /\ t.hist = s.hist /\ t.reply = s.reply /\ t.code = s.code
      /\ \A q \in Requests : q # r => session'[q] = session[q]
  <2>1. Started(s) \in Session
    BY <1>1, StartedFields DEF SameRequest
  <2> QED BY <1>1, <2>1, StartedFields, BecomeFacts DEF Arrive
<1>3. RequestInv(r, s)
  BY DEF IInv
<1>4. s.code = "none"
  BY <1>1, Unfinished DEF Stopped
<1>5. RequestInv(r, session[r])'
  <2>1. ProgressInv(r, session[r])'
    BY <1>1, <1>2, <1>3, <1>4
       DEF Arrive, RequestInv, ProgressInv, Unasked, InExchange, InSave
  <2>2. OutcomeInv(session[r])'
    BY <1>1, <1>2, <1>3, <1>4 DEF RequestInv, OutcomeInv, InSave, Stopped
  <2>3. HistoryInv(r, session[r])'
    BY <1>1, <1>2, <1>3 DEF RequestInv, HistoryInv, HasHistory, InExchange, InSave
  <2>4. AckedInv(session[r])'
    <3>1. \A q \in t.acked : q \in Requests /\ q # r /\ session[q].code = "ok"
                            /\ session[q].chat = s.chat
      BY <1>2, <1>4 DEF Acknowledged
    <3> QED BY <1>2, <3>1 DEF AckedInv, HasHistory, InExchange, InSave, SameRequest
  <2> QED BY <2>1, <2>2, <2>3, <2>4 DEF RequestInv
<1> QED
  BY <1>1, <1>2, <1>5, LocalStep DEF Arrive, Stopped, TypeOK

\* BadRequest keeps IInv: nothing of the request is stored.
LEMMA BadRequestIInv ==
    ASSUME TypeOK, TypeOK', IInv, NEW r \in Requests, BadRequest(r)
    PROVE  IInv'
  BY EndStep DEF BadRequest, Codes, Causes, Stopped, Unasked, InSave

\* Disconnect keeps IInv: only the context changes.
LEMMA DisconnectIInv ==
    ASSUME TypeOK, TypeOK', IInv, NEW r \in Requests, Disconnect(r)
    PROVE  IInv'
<1> DEFINE s == session[r]
           t == session'[r]
<1>1. s \in Session /\ s.pc \notin Stopped
  BY DEF TypeOK, Disconnect, InFlight, Stopped
<1>2. /\ SameProgress(s, t) /\ t.pc = s.pc /\ t.at = s.at
      /\ \A q \in Requests : q # r => session'[q] = session[q]
  <2>1. HungUp(s) \in Session
    BY <1>1, HungUpFields DEF SameProgress, SameRequest
  <2> QED BY <1>1, <2>1, HungUpFields, BecomeFacts DEF Disconnect
<1>3. UNCHANGED <<owner, messages, limbo, clock>>
  BY DEF Disconnect
<1>4. RequestInv(r, s)
  BY DEF IInv
<1>5. RequestInv(r, session[r])'
  <2>1. ProgressInv(r, session[r])'
    BY <1>2, <1>3, <1>4 DEF RequestInv, ProgressInv, Row, IsPrompt, SameProgress, SameRequest
  <2>2. OutcomeInv(session[r])'
    BY <1>2, <1>4 DEF RequestInv, OutcomeInv, SameProgress, SameRequest
  <2>3. HistoryInv(r, session[r])'
    BY <1>2, <1>3, <1>4 DEF RequestInv, HistoryInv, SameProgress, SameRequest, Answers
  <2>4. AckedInv(session[r])'
    <3>1. \A q \in s.acked : q \in Requests /\ q # r
      BY <1>1, Unfinished DEF Session
    <3> QED BY <1>2, <1>3, <1>4, <3>1
            DEF RequestInv, AckedInv, RowsOf, SameProgress, SameRequest
  <2> QED BY <2>1, <2>2, <2>3, <2>4 DEF RequestInv
<1>6. SameRequest(s, t) /\ clock <= clock'
  BY <1>2, <1>3 DEF SameProgress, TypeOK
<1> QED BY <1>1, <1>2, <1>3, <1>5, <1>6, LocalStep

\* Load keeps IInv: the history it takes is owned, closed under prompts and holds what was acknowledged.
LEMMA LoadIInv ==
    ASSUME TypeOK, TypeOK', IInv, NEW r \in Requests, Load(r)
    PROVE  IInv'
<1> DEFINE s == session[r]
           t == session'[r]
<1>1. s \in Session /\ s.pc = "load" /\ UNCHANGED <<owner, messages, limbo, clock>>
  BY DEF TypeOK, Load
<1>2. CASE Readable(s.user, s.chat) /\ Become(r, Loaded(s))
  <2>1. /\ SameRequest(s, t)
        /\ t.pc = "key" /\ t.hist = ChatHistory(s.chat)
        /\ t.acked = s.acked /\ t.reply = s.reply /\ t.code = s.code
        /\ \A q \in Requests : q # r => session'[q] = session[q]
    <3>1. Loaded(s) \in Session
      BY <1>1, LoadedFields DEF SameRequest
    <3> QED BY <1>1, <1>2, <3>1, LoadedFields, BecomeFacts
  <2>2. RequestInv(r, s) /\ s.code = "none"
    BY <1>1, Unfinished DEF IInv, Stopped
  <2>3. ProgressInv(r, session[r])'
    BY <1>1, <2>1, <2>2 DEF RequestInv, ProgressInv, Unasked, InExchange, InSave
  <2>4. OutcomeInv(session[r])'
    BY <1>1, <2>1, <2>2 DEF RequestInv, OutcomeInv, InSave, Stopped
  <2>5. HistoryInv(r, session[r])'
    <3>1. \A m \in messages : m.req # r
      BY <1>1, <2>2 DEF RequestInv, ProgressInv, Unasked
    <3>2. \A m \in t.hist : m.role = "assistant" => \E p \in t.hist : Answers(m, p)
      BY <2>1 DEF IInv, RowInv, ChatHistory, Answers
    <3>3. owner'[t.chat] = t.user
      BY <1>1, <1>2, <2>1 DEF Readable, SameRequest
    <3> QED BY <1>1, <2>1, <3>1, <3>2, <3>3
            DEF HistoryInv, HasHistory, InExchange, ChatHistory, SameRequest
  <2>6. AckedInv(session[r])'
    <3>1. \A q \in s.acked : q \in Requests /\ q # r
      BY <1>1, Unfinished DEF Session, Stopped
    <3>2. \A q \in s.acked : RowsOf(q, messages) \subseteq ChatHistory(s.chat)
      BY <2>2 DEF IInv, RowInv, RequestInv, AckedInv, RowsOf, ChatHistory
    <3> QED BY <1>1, <2>1, <2>2, <3>1, <3>2 DEF RequestInv, AckedInv, RowsOf, SameRequest
  <2>7. RequestInv(r, session[r])'
    BY <2>3, <2>4, <2>5, <2>6 DEF RequestInv
  <2> QED BY <1>1, <2>1, <2>7, LocalStep DEF Stopped, TypeOK
<1>3. CASE Become(r, Ended(s, "404", "none"))
  BY <1>1, <1>3, EndStep DEF Codes, Causes, Stopped, Unasked, InSave
<1>4. ASSUME NEW cause \in FailureCauses(s), Become(r, Ended(s, "500", cause))
      PROVE IInv'
  BY <1>1, <1>4, EndStep, CausesTyped DEF Codes, Stopped, InSave
<1> QED BY <1>2, <1>3, <1>4 DEF Load

\* A request that keeps its history keeps what is acknowledged in it.
LEMMA AckedKept ==
    ASSUME TypeOK, IInv, NEW r \in Requests, session[r].pc \in HasHistory,
           session'[r].chat = session[r].chat,
           session'[r].hist = session[r].hist, session'[r].acked = session[r].acked,
           \A q \in Requests : q # r => session'[q] = session[q],
           UNCHANGED messages
    PROVE  AckedInv(session[r])'
<1>1. \A q \in session[r].acked : q \in Requests /\ q # r
  BY Unfinished DEF TypeOK, Session, HasHistory, InExchange, InSave, Stopped
<1> QED BY <1>1 DEF IInv, RequestInv, AckedInv, RowsOf

\* The steps between reading the history and the last commit that leave the
\* tables alone: what is left to show is the part about the rows of the request.
LEMMA ExchangeStep ==
    ASSUME TypeOK, TypeOK', IInv, NEW r \in Requests,
           session[r].pc \in HasHistory, session'[r].pc \in HasHistory,
           SameRequest(session[r], session'[r]),
           session'[r].hist = session[r].hist, session'[r].acked = session[r].acked,
           session'[r].code = "none",
           session'[r].reply = "complete" <=> session'[r].pc \in InSave,
           \A q \in Requests : q # r => session'[q] = session[q],
           UNCHANGED <<owner, messages, limbo>>, clock <= clock',
           session'[r].pc \in {"askTx"} \cup InExchange =>
              \A m \in session[r].hist : m.at < session'[r].at,
           ProgressInv(r, session[r])'
    PROVE  IInv'
<1> DEFINE s == session[r]
           t == session'[r]
<1>1. RequestInv(r, s) /\ s.pc \notin Stopped
  BY DEF IInv, HasHistory, InExchange, InSave, Stopped
<1>2. OutcomeInv(session[r])'
  BY DEF OutcomeInv, HasHistory, InExchange, InSave
<1>3. HistoryInv(r, session[r])'
  BY <1>1 DEF RequestInv, HistoryInv, SameRequest, Answers
<1>4. AckedInv(session[r])'
  BY AckedKept DEF SameRequest
<1>5. RequestInv(r, session[r])'
  BY <1>2, <1>3, <1>4 DEF RequestInv
<1> QED BY <1>1, <1>5, LocalStep

\* FetchKey keeps IInv.
LEMMA FetchKeyIInv ==
    ASSUME TypeOK, TypeOK', IInv, NEW r \in Requests, FetchKey(r)
    PROVE  IInv'
<1> DEFINE s == session[r]
           t == session'[r]
<1>1. s \in Session /\ s.pc = "key" /\ UNCHANGED <<owner, messages, limbo, clock>>
  BY DEF TypeOK, FetchKey
<1>2. CASE Become(r, WithKey(s))
  <2>1. /\ SameProgress(s, t) /\ t.pc = "ask"
        /\ \A q \in Requests : q # r => session'[q] = session[q]
    <3>1. WithKey(s) \in Session
      BY <1>1, WithKeyFields DEF SameProgress, SameRequest
    <3> QED BY <1>1, <1>2, <3>1, WithKeyFields, BecomeFacts
  <2>2. RequestInv(r, s) /\ s.code = "none"
    BY <1>1, Unfinished DEF IInv, Stopped
  <2>3. ProgressInv(r, session[r])'
    BY <1>1, <2>1, <2>2
       DEF RequestInv, ProgressInv, Unasked, InExchange, InSave, SameProgress
  <2>4. t.reply # "complete"
    BY <1>1, <2>1, <2>2 DEF RequestInv, OutcomeInv, InSave, Stopped, SameProgress
  <2> QED BY <1>1, <2>1, <2>2, <2>3, <2>4, ExchangeStep
          DEF SameProgress, HasHistory, InExchange, InSave, TypeOK
<1>3. CASE Become(r, Ended(s, "400", "none"))
  BY <1>1, <1>3, EndStep DEF Codes, Causes, Stopped, Unasked, InSave
<1>4. ASSUME NEW cause \in FailureCauses(s), Become(r, Ended(s, "500", cause))
      PROVE IInv'
  BY <1>1, <1>4, EndStep, CausesTyped DEF Codes, Stopped, InSave
<1> QED BY <1>2, <1>3, <1>4 DEF FetchKey

\* BeginAsk keeps IInv: the stamp is later than the whole history.
LEMMA BeginAskIInv ==
    ASSUME TypeOK, TypeOK', IInv, NEW r \in Requests, BeginAsk(r)
    PROVE  IInv'
<1> DEFINE s == session[r]
           t == session'[r]
<1>1. s \in Session /\ s.pc = "ask" /\ UNCHANGED <<owner, messages, limbo>>
  BY DEF TypeOK, BeginAsk
<1>2. CASE Become(r, Asking(s)) /\ clock' = clock + 1
  <2>1. /\ SameProgress(s, t) /\ t.pc = "askTx" /\ t.at = clock + 1
        /\ \A q \in Requests : q # r => session'[q] = session[q]
    <3>1. Asking(s) \in Session
      BY <1>1, AskingFields DEF SameProgress, SameRequest
    <3> QED BY <1>1, <1>2, <3>1, AskingFields, BecomeFacts
  <2>2. RequestInv(r, s) /\ s.code = "none"
    BY <1>1, Unfinished DEF IInv, Stopped
  <2>3. clock \in Nat /\ \A m \in s.hist : m.at \in Nat /\ m.at <= clock
    BY <2>2 DEF TypeOK, Message, RequestInv, HistoryInv, IInv, RowInv
  <2>4. ProgressInv(r, session[r])'
    BY <1>1, <1>2, <2>1, <2>2, <2>3
       DEF RequestInv, ProgressInv, Unasked, InExchange, InSave, SameProgress
  <2>5. t.reply # "complete"
    BY <1>1, <2>1, <2>2 DEF RequestInv, OutcomeInv, InSave, Stopped, SameProgress
  <2>6. clock <= clock' /\ \A m \in s.hist : m.at < t.at
    BY <1>2, <2>1, <2>3
  <2> QED BY <1>1, <2>1, <2>2, <2>4, <2>5, <2>6, ExchangeStep
          DEF SameProgress, HasHistory, InExchange, InSave
<1>3. ASSUME NEW cause \in FailureCauses(s), Become(r, Ended(s, "500", cause)), UNCHANGED clock
      PROVE IInv'
  BY <1>1, <1>3, EndStep, CausesTyped DEF Codes, Stopped, InSave
<1> QED BY <1>2, <1>3 DEF BeginAsk

\* LoadProfile keeps IInv, whether GetProfile failed or not.
LEMMA LoadProfileIInv ==
    ASSUME TypeOK, TypeOK', IInv, NEW r \in Requests, LoadProfile(r)
    PROVE  IInv'
<1> DEFINE s == session[r]
           t == session'[r]
<1>1. s \in Session /\ s.pc = "profile" /\ UNCHANGED <<owner, messages, limbo, clock>>
  BY DEF TypeOK, LoadProfile
<1>2. /\ SameProgress(s, t) /\ t.pc = "generate" /\ t.at = s.at
      /\ \A q \in Requests : q # r => session'[q] = session[q]
  <2>1. WithProfile(s) \in Session /\ WithoutProfile(s) \in Session
    BY <1>1, ProfileFields DEF SameProgress, SameRequest
  <2> QED BY <1>1, <2>1, ProfileFields, BecomeFacts DEF LoadProfile
<1>3. RequestInv(r, s) /\ s.code = "none"
  BY <1>1, Unfinished DEF IInv, Stopped
<1>4. ProgressInv(r, session[r])'
  BY <1>1, <1>2, <1>3
     DEF RequestInv, ProgressInv, Row, Unasked, InExchange, InSave, SameProgress, SameRequest
<1>5. t.reply # "complete"
  BY <1>1, <1>2, <1>3 DEF RequestInv, OutcomeInv, InSave, Stopped, SameProgress
<1>6. \A m \in s.hist : m.at < t.at
  BY <1>1, <1>2, <1>3 DEF RequestInv, HistoryInv, InExchange
<1> QED BY <1>1, <1>2, <1>3, <1>4, <1>5, <1>6, ExchangeStep
        DEF SameProgress, HasHistory, InExchange, InSave, TypeOK

\* While the provider works the prompt is stored.
LEMMA PromptStored ==
    ASSUME IInv, NEW r \in Requests, session[r].pc \in InExchange
    PROVE  \E p \in messages : IsPrompt(p, r) /\ p.chat = session[r].chat
<1>1. Row(r, session[r], "user", 0) \in messages
  BY DEF IInv, RequestInv, ProgressInv
<1>2. /\ IsPrompt(Row(r, session[r], "user", 0), r)
      /\ Row(r, session[r], "user", 0).chat = session[r].chat
  BY DEF Row, IsPrompt
<1> QED BY <1>1, <1>2

\* Generate keeps IInv.
LEMMA GenerateIInv ==
    ASSUME TypeOK, TypeOK', IInv, NEW r \in Requests, Generate(r)
    PROVE  IInv'
<1> DEFINE s == session[r]
           t == session'[r]
<1>1. /\ s \in Session /\ s.pc = "generate" /\ s.mode = "send"
      /\ UNCHANGED <<owner, messages, limbo, clock>>
  BY DEF TypeOK, Generate
<1>2. ASSUME NEW n \in 0..MaxChunks, Become(r, Generated(s, n)) PROVE IInv'
  <2>1. /\ SameRequest(s, t) /\ t.pc = "save" /\ t.reply = "complete"
        /\ t.hist = s.hist /\ t.acked = s.acked /\ t.code = s.code
        /\ \A q \in Requests : q # r => session'[q] = session[q]
    <3>1. Generated(s, n) \in Session
      BY <1>1, GeneratedFields DEF SameRequest
    <3> QED BY <1>1, <1>2, <3>1, GeneratedFields, BecomeFacts
  <2>2. s.code = "none"
    BY <1>1, Unfinished DEF Stopped
  <2>3. ProgressInv(r, session[r])'
    BY <1>1, <2>1, <2>2, PromptStored
       DEF ProgressInv, Unasked, InExchange, InSave, IsPrompt, SameRequest
  <2> QED BY <1>1, <2>1, <2>2, <2>3, ExchangeStep
          DEF HasHistory, InExchange, InSave, TypeOK
<1>3. CASE Become(r, Ended(s, "502", "other"))
  BY <1>1, <1>3, EndStep DEF Codes, Causes, Stopped, InExchange, InSave
<1> QED BY <1>2, <1>3 DEF Generate

\* OpenStream keeps IInv.
LEMMA OpenStreamIInv ==
    ASSUME TypeOK, TypeOK', IInv, NEW r \in Requests, OpenStream(r)
    PROVE  IInv'
<1> DEFINE s == session[r]
           t == session'[r]
<1>1. s \in Session /\ s.pc = "generate" /\ UNCHANGED <<owner, messages, limbo, clock>>
  BY DEF TypeOK, OpenStream
<1>2. CASE Become(r, Opened(s))
  <2>1. /\ SameRequest(s, t) /\ t.pc = "streaming" /\ t.reply = "partial" /\ t.at = s.at
        /\ t.hist = s.hist /\ t.acked = s.acked /\ t.code = s.code
        /\ \A q \in Requests : q # r => session'[q] = session[q]
    <3>1. Opened(s) \in Session
      BY <1>1, OpenedFields DEF SameRequest
    <3> QED BY <1>1, <1>2, <3>1, OpenedFields, BecomeFacts
  <2>2. RequestInv(r, s) /\ s.code = "none"
    BY <1>1, Unfinished DEF IInv, Stopped
  <2>3. ProgressInv(r, session[r])'
    BY <1>1, <2>1, <2>2
       DEF RequestInv, ProgressInv, Row, Unasked, InExchange, InSave, SameRequest
  <2>4. \A m \in s.hist : m.at < t.at
    BY <1>1, <2>1, <2>2 DEF RequestInv, HistoryInv, InExchange
  <2> QED BY <1>1, <2>1, <2>2, <2>3, <2>4, ExchangeStep
          DEF HasHistory, InExchange, InSave, TypeOK
<1>3. CASE Become(r, Ended(s, "502", "other"))
  BY <1>1, <1>3, EndStep DEF Codes, Causes, Stopped, InExchange, InSave
<1> QED BY <1>2, <1>3 DEF OpenStream

\* Chunk keeps IInv.
LEMMA ChunkIInv ==
    ASSUME TypeOK, TypeOK', IInv, NEW r \in Requests, Chunk(r)
    PROVE  IInv'
<1> DEFINE s == session[r]
           t == session'[r]
<1>1. /\ s \in Session /\ s.pc = "streaming" /\ s.got < MaxChunks
      /\ UNCHANGED <<owner, messages, limbo, clock>>
  BY DEF TypeOK, Chunk
<1>2. /\ SameRequest(s, t) /\ t.pc = s.pc /\ t.reply = s.reply /\ t.at = s.at
      /\ t.hist = s.hist /\ t.acked = s.acked /\ t.code = s.code
      /\ \A q \in Requests : q # r => session'[q] = session[q]
  <2>1. ReceiveChunk(s) \in Session
    BY <1>1, ReceiveChunkFields DEF SameRequest
  <2> QED BY <1>1, <2>1, ReceiveChunkFields, BecomeFacts DEF Chunk
<1>3. RequestInv(r, s) /\ s.code = "none"
  BY <1>1, Unfinished DEF IInv, Stopped
<1>4. ProgressInv(r, session[r])'
  BY <1>1, <1>2, <1>3
     DEF RequestInv, ProgressInv, Row, Unasked, InExchange, InSave, SameRequest
<1>5. \A m \in s.hist : m.at < t.at
  BY <1>1, <1>2, <1>3 DEF RequestInv, HistoryInv, InExchange
<1>6. t.reply # "complete"
  BY <1>1, <1>2, <1>3 DEF RequestInv, OutcomeInv, InSave, Stopped
<1> QED BY <1>1, <1>2, <1>3, <1>4, <1>5, <1>6, ExchangeStep
        DEF HasHistory, InExchange, InSave, TypeOK

\* StreamEnds keeps IInv.
LEMMA StreamEndsIInv ==
    ASSUME TypeOK, TypeOK', IInv, NEW r \in Requests, StreamEnds(r)
    PROVE  IInv'
<1> DEFINE s == session[r]
           t == session'[r]
<1>1. s \in Session /\ s.pc = "streaming" /\ UNCHANGED <<owner, messages, limbo, clock>>
  BY DEF TypeOK, StreamEnds
<1>2. /\ SameRequest(s, t) /\ t.pc = "save" /\ t.reply = "complete"
      /\ t.hist = s.hist /\ t.acked = s.acked /\ t.code = s.code
      /\ \A q \in Requests : q # r => session'[q] = session[q]
  <2>1. AfterStream(s) \in Session
    BY <1>1, AfterStreamFields DEF SameRequest
  <2> QED BY <1>1, <2>1, AfterStreamFields, BecomeFacts DEF StreamEnds
<1>3. s.code = "none"
  BY <1>1, Unfinished DEF Stopped
<1>4. ProgressInv(r, session[r])'
  BY <1>1, <1>2, <1>3, PromptStored
     DEF ProgressInv, Unasked, InExchange, InSave, IsPrompt, SameRequest
<1> QED BY <1>1, <1>2, <1>3, <1>4, ExchangeStep
        DEF HasHistory, InExchange, InSave, TypeOK

\* StreamBreaks keeps IInv: no reply is stored.
LEMMA StreamBreaksIInv ==
    ASSUME TypeOK, TypeOK', IInv, NEW r \in Requests, StreamBreaks(r)
    PROVE  IInv'
<1>1. /\ session[r].pc = "streaming" /\ UNCHANGED <<owner, messages, limbo, clock>>
      /\ Become(r, Ended(session[r], "interrupted", "other"))
  BY DEF StreamBreaks, AfterStreamError
<1> QED BY <1>1, EndStep DEF Codes, Causes, Stopped, InExchange, InSave

\* ContextAborts keeps IInv, in either mode.
LEMMA ContextAbortsIInv ==
    ASSUME TypeOK, TypeOK', IInv, NEW r \in Requests, ContextAborts(r)
    PROVE  IInv'
<1>1. CASE session[r].pc = "generate" /\ Become(r, Ended(session[r], "502", "ctx"))
  BY <1>1, EndStep DEF ContextAborts, Codes, Causes, Stopped, InExchange, InSave
<1>2. CASE session[r].pc = "streaming" /\ Become(r, AfterStreamError(session[r], "ctx"))
  BY <1>2, EndStep
     DEF ContextAborts, AfterStreamError, Codes, Causes, Stopped, InExchange, InSave
<1> QED BY <1>1, <1>2 DEF ContextAborts

\* BeginSave keeps IInv: the stamp is later than the prompt, and a stream fails by the database only.
LEMMA BeginSaveIInv ==
    ASSUME TypeOK, TypeOK', IInv, NEW r \in Requests, BeginSave(r)
    PROVE  IInv'
<1> DEFINE s == session[r]
           t == session'[r]
<1>1. s \in Session /\ s.pc = "save" /\ UNCHANGED <<owner, messages, limbo>>
  BY DEF TypeOK, BeginSave
<1>2. CASE Become(r, Saving(s)) /\ clock' = clock + 1
  <2>1. /\ SameProgress(s, t) /\ t.pc = "saveTx" /\ t.at = clock + 1
        /\ \A q \in Requests : q # r => session'[q] = session[q]
    <3>1. Saving(s) \in Session
      BY <1>1, SavingFields DEF SameProgress, SameRequest
    <3> QED BY <1>1, <1>2, <3>1, SavingFields, BecomeFacts
  <2>2. RequestInv(r, s) /\ s.code = "none"
    BY <1>1, Unfinished DEF IInv, Stopped
  <2>3. clock \in Nat /\ \A m \in messages : m.at \in Nat /\ m.at <= clock
    BY DEF TypeOK, Message, IInv, RowInv
  <2>4. \E p \in messages : IsPrompt(p, r) /\ p.chat = s.chat /\ p.at < t.at
    BY <1>1, <2>1, <2>2, <2>3 DEF RequestInv, ProgressInv, InSave
  <2>5. ProgressInv(r, session[r])'
    BY <1>1, <1>2, <2>1, <2>2, <2>3, <2>4
       DEF ProgressInv, Unasked, InExchange, InSave, IsPrompt, SameProgress, SameRequest
  <2>6. t.reply = "complete" /\ clock <= clock'
    BY <1>1, <1>2, <2>1, <2>2, <2>3 DEF RequestInv, OutcomeInv, InSave, SameProgress
  <2> QED BY <1>1, <2>1, <2>2, <2>5, <2>6, ExchangeStep
          DEF SameProgress, HasHistory, InExchange, InSave
<1>3. ASSUME NEW cause \in SaveCauses(s), Become(r, SaveFailed(s, cause)), UNCHANGED clock
      PROVE IInv'
  <2> DEFINE code == IF s.mode = "send" THEN "500" ELSE "unsaved"
  <2>1. code \in {"500", "unsaved"} /\ Become(r, Ended(s, code, cause))
    BY <1>3 DEF SaveFailed
  <2>2. cause \in Causes /\ (s.mode = "stream" => cause = "other")
    BY <1>1, CausesTyped
  <2> HIDE DEF code
  <2> QED BY <1>1, <1>3, <2>1, <2>2, EndStep DEF Codes, Stopped, InSave
<1> QED BY <1>2, <1>3 DEF BeginSave

\* A step of request r that adds one row of its own to the tables.
LEMMA CommitStep ==
    ASSUME TypeOK, TypeOK', IInv, NEW r \in Requests, NEW m \in Message,
           session[r].pc \notin Stopped,
           SameRequest(session[r], session'[r]),
           \A q \in Requests : q # r => session'[q] = session[q],
           UNCHANGED <<owner, clock>>,
           messages \subseteq messages', messages' \subseteq messages \cup {m},
           limbo \subseteq limbo', limbo' \subseteq limbo \cup {m},
           m.req = r, m.chat = session[r].chat, m.at <= clock,
           owner[m.chat] = session[r].user,
           m.role = "assistant" =>
              /\ session'[r].pc \in Stopped
              /\ session'[r].reply = "complete"
              /\ m.text = session'[r].got
              /\ session'[r].code \notin {"502", "interrupted"}
              /\ \E p \in messages : Answers(m, p),
           m \in limbo' => session'[r].pc \in Stopped /\ session'[r].code # "ok",
           RequestInv(r, session[r])'
    PROVE  IInv'
<1>1. RowInv'
  <2> SUFFICES ASSUME NEW n \in messages' \cup limbo'
               PROVE /\ n.chat = session'[n.req].chat
                     /\ owner[n.chat] = session'[n.req].user
                     /\ n.at <= clock
                     /\ n.role = "assistant" =>
                          /\ session'[n.req].pc \in Stopped
                          /\ session'[n.req].reply = "complete"
                          /\ n.text = session'[n.req].got
                          /\ session'[n.req].code \notin {"502", "interrupted"}
                          /\ \E p \in messages' : Answers(n, p)
    BY DEF RowInv
  <2>1. CASE n = m
    BY <2>1 DEF SameRequest
  <2>2. CASE n \in messages \cup limbo /\ n.req = r
    BY <2>2, Unfinished DEF IInv, RowInv, SameRequest
  <2>3. CASE n \in messages \cup limbo /\ n.req # r
    <3>1. n.req \in Requests
      BY <2>3 DEF TypeOK, Message
    <3> QED BY <2>3, <3>1 DEF IInv, RowInv
  <2> QED BY <2>1, <2>2, <2>3
<1>2. LimboInv'
  <2> SUFFICES ASSUME NEW n \in limbo'
               PROVE session'[n.req].pc \in Stopped /\ session'[n.req].code # "ok"
    BY DEF LimboInv
  <2>1. CASE n = m
    BY <2>1
  <2>2. CASE n \in limbo
    <3>1. n.req \in Requests /\ n.req # r
      BY <2>2, Unfinished DEF TypeOK, Message
    <3> QED BY <2>2, <3>1 DEF IInv, LimboInv
  <2> QED BY <2>1, <2>2
<1>3. ASSUME NEW q \in Requests PROVE RequestInv(q, session[q])'
  <2>1. CASE q = r
    BY <2>1
  <2>2. CASE q # r
    <3>0. session'[q] = session[q] /\ RequestInv(q, session[q])
      BY <2>2 DEF IInv
    <3>1. ProgressInv(q, session[q])'
      BY <2>2, <3>0 DEF RequestInv, ProgressInv, Row, IsPrompt
    <3>2. OutcomeInv(session[q])'
      BY <3>0 DEF RequestInv, OutcomeInv
    <3>3. HistoryInv(q, session[q])'
      BY <3>0 DEF RequestInv, HistoryInv, Answers
    <3>4. AckedInv(session[q])'
      <4>1. \A p \in session[q].acked : p \in Requests /\ p # r
        BY Unfinished DEF TypeOK, Session
      <4>2. \A p \in session[q].acked :
               session'[p] = session[p] /\ RowsOf(p, messages') = RowsOf(p, messages)
        BY <4>1 DEF RowsOf
      <4> QED BY <3>0, <4>2 DEF RequestInv, AckedInv, RowsOf
    <3> QED BY <3>1, <3>2, <3>3, <3>4 DEF RequestInv
  <2> QED BY <2>1, <2>2
<1> QED BY <1>1, <1>2, <1>3 DEF IInv

\* CommitAsk keeps IInv: the prompt is stored, or left in limbo by a request that stops.
LEMMA CommitAskIInv ==
    ASSUME TypeOK, TypeOK', IInv, NEW r \in Requests, CommitAsk(r)
    PROVE  IInv'
<1> DEFINE s == session[r]
           t == session'[r]
           m == Prompt(r)
<1>1. s \in Session /\ s.pc = "askTx" /\ UNCHANGED <<owner, clock>>
  BY DEF TypeOK, CommitAsk
<1>2. /\ m \in Message /\ m.req = r /\ m.chat = s.chat /\ m.at = s.at
      /\ m.role = "user" /\ m = Row(r, s, "user", 0)
  BY RowsTyped DEF Prompt, Row
<1>3. RequestInv(r, s) /\ s.code = "none" /\ s.pc \notin Stopped
  BY <1>1, Unfinished DEF IInv, Stopped
<1>4. owner[s.chat] = s.user /\ s.at <= clock /\ s.reply # "complete"
  BY <1>1, <1>3 DEF RequestInv, ProgressInv, HistoryInv, OutcomeInv, HasHistory, InSave
<1>5. CASE messages' = messages \cup {m} /\ UNCHANGED limbo /\ Become(r, Asked(s))
  <2>1. /\ SameProgress(s, t) /\ t.pc = "profile" /\ t.at = s.at
        /\ \A q \in Requests : q # r => session'[q] = session[q]
    <3>1. Asked(s) \in Session
      BY <1>1, AskedFields DEF SameProgress, SameRequest
    <3> QED BY <1>1, <1>5, <3>1, AskedFields, BecomeFacts
  <2>2. ProgressInv(r, session[r])'
    BY <1>2, <1>3, <1>5, <2>1
       DEF ProgressInv, Row, Unasked, InExchange, InSave, SameProgress, SameRequest
  <2>3. OutcomeInv(session[r])'
    BY <1>3, <1>4, <2>1 DEF OutcomeInv, InSave, SameProgress
  <2>4. HistoryInv(r, session[r])'
    BY <1>1, <1>3, <1>4, <1>5, <2>1
       DEF RequestInv, HistoryInv, HasHistory, InExchange, Answers, SameProgress, SameRequest
  <2>5. AckedInv(session[r])'
    <3>1. \A q \in s.acked : q \in Requests /\ q # r
      BY <1>1, <1>3, Unfinished DEF Session
    <3>2. \A q \in s.acked :
             session'[q] = session[q] /\ RowsOf(q, messages') = RowsOf(q, messages)
      BY <1>2, <1>5, <2>1, <3>1 DEF RowsOf
    <3> QED BY <1>1, <1>3, <2>1, <3>2
            DEF RequestInv, AckedInv, HasHistory, RowsOf, SameProgress, SameRequest
  <2>6. RequestInv(r, session[r])'
    BY <2>2, <2>3, <2>4, <2>5 DEF RequestInv
  <2>7. m \notin limbo'
    BY <1>2, <1>3, <1>5, Unfinished
  <2> QED BY <1>1, <1>2, <1>3, <1>4, <1>5, <2>1, <2>6, <2>7, CommitStep DEF SameProgress
<1>6. ASSUME NEW cause \in FailureCauses(s), Become(r, AfterFailedAsk(s, cause)),
             limbo' = limbo \cup {m}, UNCHANGED messages
      PROVE IInv'
  <2>1. /\ SameRequest(s, t) /\ t.pc = "done" /\ t.code = "500"
        /\ t.hist = {} /\ t.acked = {} /\ t.reply = s.reply
        /\ \A q \in Requests : q # r => session'[q] = session[q]
    <3>1. cause \in Causes /\ "500" \in Codes
      BY <1>1, CausesTyped DEF Codes
    <3>2. Become(r, Ended(s, "500", cause)) /\ Ended(s, "500", cause) \in Session
      BY <1>1, <1>6, <3>1, EndedTyped DEF AfterFailedAsk
    <3> QED BY <1>1, <3>1, <3>2, EndedFields, BecomeFacts
  <2>2. RequestInv(r, session[r])'
    BY <1>4, <2>1
       DEF RequestInv, ProgressInv, OutcomeInv, HistoryInv, AckedInv,
           Unasked, InExchange, InSave, HasHistory
  <2> QED BY <1>1, <1>2, <1>3, <1>4, <1>6, <2>1, <2>2, CommitStep DEF Stopped
<1> QED BY <1>5, <1>6 DEF CommitAsk

\* CommitSave keeps IInv: the reply is stored, or left in limbo by a request that stops.
LEMMA CommitSaveIInv ==
    ASSUME TypeOK, TypeOK', IInv, NEW r \in Requests, CommitSave(r)
    PROVE  IInv'
<1> DEFINE s == session[r]
           t == session'[r]
           m == Reply(r)
<1>1. s \in Session /\ s.pc = "saveTx" /\ UNCHANGED <<owner, clock>>
  BY DEF TypeOK, CommitSave
<1>2. /\ m \in Message /\ m.req = r /\ m.chat = s.chat /\ m.at = s.at
      /\ m.role = "assistant" /\ m.text = s.got
  BY RowsTyped DEF Reply, Row
<1>3. RequestInv(r, s) /\ s.code = "none" /\ s.pc \notin Stopped
  BY <1>1, Unfinished DEF IInv, Stopped
<1>4. owner[s.chat] = s.user /\ s.at <= clock /\ s.reply = "complete"
  BY <1>1, <1>3 DEF RequestInv, ProgressInv, HistoryInv, OutcomeInv, HasHistory, InSave
<1>5. \E p \in messages : IsPrompt(p, r) /\ Answers(m, p)
  BY <1>1, <1>2, <1>3 DEF RequestInv, ProgressInv, IsPrompt, Answers
<1>6. CASE messages' = messages \cup {m} /\ UNCHANGED limbo /\ Become(r, Ended(s, "ok", "none"))
  <2>1. /\ SameRequest(s, t) /\ t.pc = "done" /\ t.code = "ok"
        /\ t.hist = {} /\ t.acked = {} /\ t.reply = s.reply /\ t.got = s.got
        /\ \A q \in Requests : q # r => session'[q] = session[q]
    <3>1. "none" \in Causes /\ "ok" \in Codes
      BY DEF Codes, Causes
    <3> QED BY <1>1, <1>6, <3>1, EndedFields, EndedTyped, BecomeFacts
  <2>2. m \notin limbo'
    BY <1>2, <1>3, <1>6, Unfinished
  <2>3. RequestInv(r, session[r])'
    BY <1>2, <1>5, <1>6, <2>1
       DEF RequestInv, ProgressInv, OutcomeInv, HistoryInv, AckedInv,
           Unasked, InExchange, InSave, HasHistory, Stopped
  <2> QED BY <1>1, <1>2, <1>3, <1>4, <1>5, <1>6, <2>1, <2>2, <2>3, CommitStep DEF Stopped
<1>7. ASSUME NEW cause \in SaveCauses(s), Become(r, SaveFailed(s, cause)),
             limbo' = limbo \cup {m}, UNCHANGED messages
      PROVE IInv'
  <2> DEFINE code == IF s.mode = "send" THEN "500" ELSE "unsaved"
  <2>1. code \in {"500", "unsaved"} /\ Become(r, Ended(s, code, cause))
    BY <1>7 DEF SaveFailed
  <2>2. cause \in Causes /\ (s.mode = "stream" => cause = "other")
    BY <1>1, CausesTyped
  <2> HIDE DEF code
  <2>3. /\ SameRequest(s, t) /\ t.pc = "done" /\ t.code \in {"500", "unsaved"}
        /\ t.cause = cause /\ t.hist = {} /\ t.acked = {}
        /\ t.reply = s.reply /\ t.got = s.got
        /\ \A q \in Requests : q # r => session'[q] = session[q]
    <3>1. code \in Codes
      BY <2>1 DEF Codes
    <3> QED BY <1>1, <2>1, <2>2, <3>1, EndedFields, EndedTyped, BecomeFacts
  <2>4. RequestInv(r, session[r])'
    <3>1. ProgressInv(r, session[r])'
      BY <1>5, <1>7, <2>3 DEF ProgressInv, Unasked, InExchange, InSave
    <3>2. OutcomeInv(session[r])'
      BY <2>2, <2>3 DEF OutcomeInv, InSave, Stopped, SameRequest
    <3>3. HistoryInv(r, session[r])' /\ AckedInv(session[r])'
      BY <2>3 DEF HistoryInv, AckedInv, InExchange, InSave, HasHistory
    <3> QED BY <3>1, <3>2, <3>3 DEF RequestInv
  <2> QED BY <1>1, <1>2, <1>3, <1>4, <1>5, <1>7, <2>3, <2>4, CommitStep DEF Stopped
<1> QED BY <1>6, <1>7 DEF CommitSave

\* Land keeps IInv: a row of limbo was already as a stored row must be.
LEMMA LandIInv ==
    ASSUME TypeOK, IInv, NEW m \in limbo, Land(m)
    PROVE  IInv'
<1>1. /\ messages' = messages \cup {m} /\ limbo' = limbo \ {m}
      /\ UNCHANGED <<owner, clock, session>>
  BY DEF Land
<1>2. RowInv'
  BY <1>1 DEF IInv, RowInv
<1>3. LimboInv'
  BY <1>1 DEF IInv, LimboInv
<1>4. ASSUME NEW r \in Requests PROVE RequestInv(r, session[r])'
  <2>0. RequestInv(r, session[r])
    BY DEF IInv
  <2>1. ProgressInv(r, session[r])'
    BY <1>1, <2>0 DEF RequestInv, ProgressInv, Row, IsPrompt
  <2>2. OutcomeInv(session[r])'
    BY <1>1, <2>0 DEF RequestInv, OutcomeInv
  <2>3. HistoryInv(r, session[r])'
    BY <1>1, <2>0 DEF RequestInv, HistoryInv, Answers
  <2>4. AckedInv(session[r])'
    <3>1. session[m.req].code # "ok"
      BY DEF IInv, LimboInv
    <3> QED BY <1>1, <2>0, <3>1 DEF RequestInv, AckedInv, RowsOf
  <2> QED BY <2>1, <2>2, <2>3, <2>4 DEF RequestInv
<1> QED BY <1>2, <1>3, <1>4 DEF IInv

\* CreateChat keeps IInv: no row names a chat that had no owner.
LEMMA CreateChatIInv ==
    ASSUME TypeOK, IInv, NEW u \in Users, NEW c \in Chats, CreateChat(u, c)
    PROVE  IInv'
<1>1. /\ owner[c] = NoUser /\ owner' = [owner EXCEPT ![c] = u]
      /\ UNCHANGED <<messages, limbo, clock, session>>
  BY DEF CreateChat
<1>2. \A r \in Requests : session[r].user \in Users /\ session[r].chat \in Chats
  BY DEF TypeOK, Session
<1>3. \A r \in Requests : owner[session[r].chat] = session[r].user
                         => owner'[session[r].chat] = session[r].user
  BY <1>1, <1>2, NoUserAssumption DEF TypeOK
<1>4. RowInv'
  BY <1>1, <1>3 DEF IInv, RowInv, TypeOK, Message
<1>5. LimboInv'
  BY <1>1 DEF IInv, LimboInv
<1>6. ASSUME NEW r \in Requests PROVE RequestInv(r, session[r])'
  <2>0. RequestInv(r, session[r])
    BY DEF IInv
  <2>1. ProgressInv(r, session[r])'
    BY <1>1, <2>0 DEF RequestInv, ProgressInv, Row, IsPrompt
  <2>2. OutcomeInv(session[r])'
    BY <1>1, <2>0 DEF RequestInv, OutcomeInv
  <2>3. HistoryInv(r, session[r])'
    BY <1>1, <1>3, <2>0 DEF RequestInv, HistoryInv, Answers
  <2>4. AckedInv(session[r])'
    BY <1>1, <2>0 DEF RequestInv, AckedInv, RowsOf
  <2> QED BY <2>1, <2>2, <2>3, <2>4 DEF RequestInv
<1> QED BY <1>4, <1>5, <1>6 DEF IInv

\* Nothing in the invariant depends on the profiles.
LEMMA TablesUnchangedIInv ==
    ASSUME IInv, UNCHANGED <<owner, messages, limbo, clock, session>>
    PROVE  IInv'
  BY DEF IInv, RowInv, LimboInv, RequestInv, ProgressInv, OutcomeInv, HistoryInv,
         AckedInv, IsPrompt, Answers, Row, RowsOf

\* A crash stops every request in flight and sends its open transaction to limbo.
LEMMA CrashIInv ==
    ASSUME TypeOK, TypeOK', IInv, Crash
    PROVE  IInv'
<1>1. UNCHANGED <<owner, messages, clock>> /\ limbo' = limbo \cup Pending
  BY DEF Crash
<1>2. \A r \in Requests : session[r].pc \in Stopped \cup {"idle"} => session'[r] = session[r]
  BY DEF Crash, InFlight, Stopped
<1>3. \A r \in Requests : session[r].pc \notin Stopped \cup {"idle"} =>
         /\ SameRequest(session[r], session'[r])
         /\ session'[r].pc = "killed" /\ session'[r].code = "none"
         /\ session'[r].hist = {} /\ session'[r].acked = {}
         /\ session'[r].reply = session[r].reply /\ session'[r].got = session[r].got
  BY KilledFields DEF Crash, InFlight, Stopped, TypeOK
<1>4. \A r \in Requests : session'[r].user = session[r].user
                        /\ session'[r].chat = session[r].chat
  BY <1>2, <1>3 DEF SameRequest
<1>5. ASSUME NEW m \in Pending
      PROVE  LET r == m.req IN
             /\ r \in Requests /\ session[r].pc \in {"askTx", "saveTx"}
             /\ m.chat = session[r].chat /\ m.at = session[r].at
             /\ m.role = "assistant" => session[r].pc = "saveTx" /\ m.text = session[r].got
  BY <1>5 DEF Pending, Prompt, Reply, Row
<1>6. RowInv'
  <2>1. ASSUME NEW m \in messages \cup limbo
        PROVE /\ m.chat = session'[m.req].chat
              /\ owner[m.chat] = session'[m.req].user
              /\ m.at <= clock
              /\ m.role = "assistant" =>
                   /\ session'[m.req].pc \in Stopped
                   /\ session'[m.req].reply = "complete"
                   /\ m.text = session'[m.req].got
                   /\ session'[m.req].code \notin {"502", "interrupted"}
                   /\ \E p \in messages : Answers(m, p)
    <3>1. m.req \in Requests
      BY DEF TypeOK, Message
    <3> QED BY <1>2, <1>4, <3>1 DEF IInv, RowInv
  <2>2. ASSUME NEW m \in Pending
        PROVE /\ m.chat = session'[m.req].chat
              /\ owner[m.chat] = session'[m.req].user
              /\ m.at <= clock
              /\ m.role = "assistant" =>
                   /\ session'[m.req].pc \in Stopped
                   /\ session'[m.req].reply = "complete"
                   /\ m.text = session'[m.req].got
                   /\ session'[m.req].code \notin {"502", "interrupted"}
                   /\ \E p \in messages : Answers(m, p)
    <3> DEFINE r == m.req
    <3>1. r \in Requests /\ session[r].pc \in {"askTx", "saveTx"}
      BY <1>5
    <3>2. RequestInv(r, session[r])
      BY <3>1 DEF IInv
    <3>3. owner[session[r].chat] = session[r].user /\ session[r].at <= clock
      BY <3>1, <3>2 DEF RequestInv, ProgressInv, HistoryInv, HasHistory, InSave
    <3>4. session'[r].pc \in Stopped /\ session'[r].code = "none"
          /\ session'[r].reply = session[r].reply /\ session'[r].got = session[r].got
      BY <1>3, <3>1 DEF Stopped
    <3>5. m.role = "assistant" =>
             session[r].reply = "complete" /\ \E p \in messages : Answers(m, p)
      BY <1>5, <3>1, <3>2
         DEF RequestInv, ProgressInv, OutcomeInv, InSave, IsPrompt, Answers
    <3> QED BY <1>4, <1>5, <3>1, <3>3, <3>4, <3>5
  <2> QED BY <1>1, <2>1, <2>2 DEF RowInv
<1>7. LimboInv'
  <2>1. ASSUME NEW m \in limbo
        PROVE session'[m.req].pc \in Stopped /\ session'[m.req].code # "ok"
    BY <1>2 DEF IInv, LimboInv, TypeOK, Message
  <2>2. ASSUME NEW m \in Pending
        PROVE session'[m.req].pc \in Stopped /\ session'[m.req].code # "ok"
    BY <1>3, <1>5 DEF Stopped
  <2> QED BY <1>1, <2>1, <2>2 DEF LimboInv
<1>8. ASSUME NEW r \in Requests PROVE RequestInv(r, session[r])'
  <2>0. RequestInv(r, session[r])
    BY DEF IInv
  <2>1. CASE session[r].pc \in Stopped \cup {"idle"}
    <3>0. session'[r] = session[r] /\ \A m \in Pending : m.req # r
      BY <1>2, <1>5, <2>1 DEF Stopped
    <3>1. ProgressInv(r, session[r])'
      BY <1>1, <2>0, <3>0 DEF RequestInv, ProgressInv, Row, IsPrompt
    <3>2. OutcomeInv(session[r])'
      BY <2>0, <3>0 DEF RequestInv, OutcomeInv
    <3>3. HistoryInv(r, session[r])'
      BY <1>1, <2>0, <3>0 DEF RequestInv, HistoryInv, Answers
    <3>4. AckedInv(session[r])'
      <4>1. \A q \in session[r].acked : q \in Requests /\ session[q].pc = "done"
        BY <2>0 DEF RequestInv, AckedInv, IInv, OutcomeInv, TypeOK, Session
      <4>2. \A q \in session[r].acked : session'[q] = session[q]
        BY <1>2, <4>1 DEF Stopped
      <4> QED BY <1>1, <2>0, <3>0, <4>2 DEF RequestInv, AckedInv, RowsOf
    <3> QED BY <3>1, <3>2, <3>3, <3>4 DEF RequestInv
  <2>2. CASE session[r].pc \notin Stopped \cup {"idle"}
    BY <1>3, <2>2
       DEF RequestInv, ProgressInv, OutcomeInv, HistoryInv, AckedInv,
           Unasked, InExchange, InSave, HasHistory, Stopped
  <2> QED BY <2>1, <2>2
<1> QED BY <1>6, <1>7, <1>8 DEF IInv

\* Every step keeps IInv: one step of the proof per action.
LEMMA NextIInv == TypeOK /\ TypeOK' /\ IInv /\ [Next]_vars => IInv'
<1> SUFFICES ASSUME TypeOK, TypeOK', IInv, [Next]_vars PROVE IInv'
  OBVIOUS
<1>1. ASSUME NEW u \in Users, NEW c \in Chats, CreateChat(u, c) PROVE IInv'
  BY <1>1, CreateChatIInv
<1>2. ASSUME NEW u \in Users, NEW p \in SystemPrompts, UpdateSystemPrompt(u, p)
      PROVE IInv'
  BY <1>2, TablesUnchangedIInv DEF UpdateSystemPrompt
<1>3. ASSUME NEW r \in Requests, Serve(r) PROVE IInv'
  BY <1>3, LoadIInv, FetchKeyIInv, BeginAskIInv, CommitAskIInv, LoadProfileIInv,
     ContextAbortsIInv, BeginSaveIInv, CommitSaveIInv DEF Serve
<1>4. ASSUME NEW r \in Requests, Provider(r) PROVE IInv'
  BY <1>4, GenerateIInv, OpenStreamIInv, ChunkIInv, StreamEndsIInv, StreamBreaksIInv
     DEF Provider
<1>5. ASSUME NEW r \in Requests, Arrive(r) \/ BadRequest(r) \/ Disconnect(r) PROVE IInv'
  BY <1>5, ArriveIInv, BadRequestIInv, DisconnectIInv
<1>6. ASSUME NEW m \in limbo, Land(m) PROVE IInv'
  BY <1>6, LandIInv
<1>7. CASE Crash
  BY <1>7, CrashIInv
<1>8. CASE UNCHANGED vars
  BY <1>8, TablesUnchangedIInv DEF vars
<1> QED
  BY <1>1, <1>2, <1>3, <1>4, <1>5, <1>6, <1>7, <1>8 DEF Next

\* The inductive invariant holds in every reachable state.
THEOREM Invariant == Spec => [](TypeOK /\ IInv)
<1>1. Init => TypeOK /\ IInv
  BY InitTypeOK, InitIInv
<1>2. TypeOK /\ IInv /\ [Next]_vars => TypeOK' /\ IInv'
  BY NextTypeOK, NextIInv
<1> QED BY <1>1, <1>2, PTL DEF Spec

-----------------------------------------------------------------------------
(* The safety properties.                                                  *)

\* No user writes into, or has the AI read, a chat of someone else.
THEOREM IsolationHolds == Spec => []Isolation
<1>1. ASSUME TypeOK, IInv PROVE Isolation
  <2>1. \A m \in messages \cup limbo : owner[m.chat] = session[m.req].user
    BY <1>1 DEF IInv, RowInv
  <2>2. ASSUME NEW r \in Requests, NEW m \in session[r].hist
        PROVE session[m.req].user = session[r].user
    <3>1. HistoryInv(r, session[r])
      BY <1>1 DEF IInv, RequestInv
    <3>2. m \in messages /\ m.chat = session[r].chat /\ session[r].pc \in HasHistory
      BY <2>2, <3>1 DEF HistoryInv
    <3> QED BY <2>1, <3>1, <3>2 DEF HistoryInv
  <2> QED BY <2>1, <2>2 DEF Isolation
<1> QED BY <1>1, Invariant, PTL

\* The provider is given the prompt once, and last.
THEOREM ContextInOrderHolds == Spec => []ContextInOrder
<1>1. ASSUME TypeOK, IInv PROVE ContextInOrder
  <2> SUFFICES ASSUME NEW r \in Requests, session[r].pc \in InExchange
               PROVE /\ Prompt(r) \in messages
                     /\ \A m \in session[r].hist : m.req # r /\ m.at < session[r].at
    BY DEF ContextInOrder, InExchange
  <2>1. ProgressInv(r, session[r]) /\ HistoryInv(r, session[r])
    BY <1>1 DEF IInv, RequestInv
  <2> QED BY <2>1 DEF ProgressInv, HistoryInv, Prompt
<1> QED BY <1>1, Invariant, PTL

\* In the table and in every history a reply comes after the prompt it answers.
THEOREM ReplyFollowsPromptHolds == Spec => []ReplyFollowsPrompt
<1>1. ASSUME TypeOK, IInv PROVE ReplyFollowsPrompt
  BY <1>1 DEF IInv, RowInv, RequestInv, HistoryInv, ReplyFollowsPrompt, Replies
<1> QED BY <1>1, Invariant, PTL

\* No part of a reply that broke off is ever stored.
THEOREM OnlyCompleteRepliesHolds == Spec => []OnlyCompleteReplies
<1>1. ASSUME TypeOK, IInv PROVE OnlyCompleteReplies
  BY <1>1 DEF IInv, RowInv, OnlyCompleteReplies, Replies
<1> QED BY <1>1, Invariant, PTL

\* What the client was told agrees with what is stored, now and later.
THEOREM ResponseIsTruthfulHolds == Spec => []ResponseIsTruthful
<1>1. ASSUME TypeOK, IInv PROVE ResponseIsTruthful
  <2> SUFFICES ASSUME NEW r \in Requests
               PROVE LET stored == RowsOf(r, messages)
                         late   == RowsOf(r, limbo)
                         code   == session[r].code
                     IN /\ code = "ok" =>
                             /\ Prompts(stored) # {}
                             /\ \E a \in Replies(stored) : a.text = session[r].got
                             /\ late = {}
                        /\ code \in {"400", "404"} => stored = {} /\ late = {}
                        /\ code \in {"502", "interrupted"} =>
                             Prompts(stored) # {} /\ Replies(stored \cup late) = {}
                        /\ code = "unsaved" => Prompts(stored) # {}
    BY DEF ResponseIsTruthful
  <2>1. ProgressInv(r, session[r])
    BY <1>1 DEF IInv, RequestInv
  <2>2. session[r].code \in {"ok", "502", "interrupted", "unsaved"} =>
           Prompts(RowsOf(r, messages)) # {}
    BY <2>1 DEF ProgressInv, Prompts, RowsOf, IsPrompt
  <2>3. session[r].code = "ok" =>
           /\ \E a \in Replies(RowsOf(r, messages)) : a.text = session[r].got
           /\ RowsOf(r, limbo) = {}
    BY <1>1, <2>1 DEF ProgressInv, Replies, RowsOf, IInv, LimboInv
  <2>4. session[r].code \in {"400", "404"} =>
           RowsOf(r, messages) = {} /\ RowsOf(r, limbo) = {}
    BY <2>1 DEF ProgressInv, RowsOf
  <2>5. session[r].code \in {"502", "interrupted"} =>
           Replies(RowsOf(r, messages) \cup RowsOf(r, limbo)) = {}
    BY <1>1 DEF IInv, RowInv, Replies, RowsOf
  <2> QED BY <2>2, <2>3, <2>4, <2>5
<1> QED BY <1>1, Invariant, PTL

\* The provider sees every exchange acknowledged before the request arrived.
THEOREM AckedVisibleHolds == Spec => []AckedVisible
<1>1. ASSUME TypeOK, IInv PROVE AckedVisible
  <2> SUFFICES ASSUME NEW r \in Requests, InFlight(r), session[r].pc # "load",
                      NEW q \in session[r].acked
               PROVE RowsOf(q, messages) \subseteq session[r].hist
    BY DEF AckedVisible
  <2>1. session[r].pc \in HasHistory
    BY <1>1 DEF InFlight, TypeOK, Session, Pcs, HasHistory, InExchange, InSave
  <2> QED BY <1>1, <2>1 DEF IInv, RequestInv, AckedInv
<1> QED BY <1>1, Invariant, PTL

\* Hanging up does not lose a streamed reply that was received to the end.
THEOREM CompletedStreamSurvivesDisconnectHolds ==
    Spec => []CompletedStreamSurvivesDisconnect
<1>1. ASSUME TypeOK, IInv PROVE CompletedStreamSurvivesDisconnect
  BY <1>1 DEF IInv, RequestInv, OutcomeInv, CompletedStreamSurvivesDisconnect
<1> QED BY <1>1, Invariant, PTL

-----------------------------------------------------------------------------
(* Nothing is stored twice.                                                *)

\* Tables that gain nothing but one row nobody has stored yet.
LEMMA OneMoreRow ==
    ASSUME StoredOnce, NEW m, messages' \cup limbo' \subseteq messages \cup limbo \cup {m},
           \A n \in messages \cup limbo : ~ (n.req = m.req /\ n.role = m.role)
    PROVE  StoredOnce'
BY DEF StoredOnce

\* A request that is about to commit has not stored the row before: no prompt
\* before askTx is over, and no reply before the request has stopped.
LEMMA NotStoredYet ==
    ASSUME TypeOK, IInv, NEW r \in Requests
    PROVE  /\ session[r].pc = "askTx" =>
                 \A n \in messages \cup limbo : n.req # r
           /\ session[r].pc = "saveTx" =>
                 \A n \in messages \cup limbo : ~ (n.req = r /\ n.role = "assistant")
<1>1. session[r].pc = "askTx" => \A n \in messages \cup limbo : n.req # r
  BY DEF IInv, RequestInv, ProgressInv, Unasked
<1>2. session[r].pc = "saveTx" =>
         \A n \in messages \cup limbo : ~ (n.req = r /\ n.role = "assistant")
  BY DEF IInv, RowInv, Stopped
<1>3. QED
  BY <1>1, <1>2

\* The rows a crash leaves in limbo are one of each request, and new.
LEMMA PendingOnce ==
    ASSUME TypeOK, IInv, StoredOnce, Crash
    PROVE  StoredOnce'
<1>1. messages' \cup limbo' = messages \cup limbo \cup Pending
  BY DEF Crash
<1>2. ASSUME NEW m \in Pending
      PROVE  \E r \in Requests : \/ session[r].pc = "askTx" /\ m = Prompt(r)
                                 \/ session[r].pc = "saveTx" /\ m = Reply(r)
  BY <1>2 DEF Pending
<1>3. \A r \in Requests : /\ Prompt(r).req = r /\ Prompt(r).role = "user"
                          /\ Reply(r).req = r /\ Reply(r).role = "assistant"
  BY DEF Prompt, Reply, Row
<1>4. ASSUME NEW m \in Pending, NEW n \in messages \cup limbo, m.req = n.req, m.role = n.role
      PROVE  FALSE
  BY <1>2, <1>3, <1>4, NotStoredYet
<1>5. ASSUME NEW m \in Pending, NEW n \in Pending, m.req = n.req
      PROVE  m = n
  BY <1>2, <1>3, <1>5
<1>6. QED
  BY <1>1, <1>4, <1>5 DEF StoredOnce

\* Every request stores its prompt once and its reply once (handler and service
\* call CreateMessage once for each and repeat nothing), whatever becomes of the
\* commits.
THEOREM StoredOnceHolds == Spec => []StoredOnce
<1>1. Init => StoredOnce
  BY DEF Init, StoredOnce
<1>2. ASSUME TypeOK, IInv, StoredOnce, [Next]_vars
      PROVE  StoredOnce'
  <2>1. ASSUME messages' \cup limbo' = messages \cup limbo
        PROVE  StoredOnce'
    BY <1>2, <2>1 DEF StoredOnce
  <2>2. ASSUME NEW r \in Requests, CommitAsk(r)
        PROVE  StoredOnce'
    <3>1. Prompt(r).req = r
      BY DEF Prompt, Row
    <3>2. \A n \in messages \cup limbo : n.req # r
      BY <1>2, <2>2, NotStoredYet DEF CommitAsk
    <3>3. messages' \cup limbo' \subseteq messages \cup limbo \cup {Prompt(r)}
      BY <2>2 DEF CommitAsk
    <3>4. QED
      BY <1>2, <3>1, <3>2, <3>3, OneMoreRow
  <2>3. ASSUME NEW r \in Requests, CommitSave(r)
        PROVE  StoredOnce'
    <3>1. Reply(r).req = r /\ Reply(r).role = "assistant"
      BY DEF Reply, Row
    <3>2. \A n \in messages \cup limbo : ~ (n.req = r /\ n.role = "assistant")
      BY <1>2, <2>3, NotStoredYet DEF CommitSave
    <3>3. messages' \cup limbo' \subseteq messages \cup limbo \cup {Reply(r)}
      BY <2>3 DEF CommitSave
    <3>4. QED
      BY <1>2, <3>1, <3>2, <3>3, OneMoreRow
  <2>4. CASE Crash
    BY <1>2, <2>4, PendingOnce
  <2>5. ASSUME NEW m \in limbo, Land(m)
        PROVE  StoredOnce'
    BY <2>1, <2>5 DEF Land
  <2>6. ASSUME NEW r \in Requests,
               Arrive(r) \/ BadRequest(r) \/ Disconnect(r) \/ Load(r) \/ FetchKey(r)
                 \/ BeginAsk(r) \/ LoadProfile(r) \/ ContextAborts(r) \/ BeginSave(r)
                 \/ Provider(r)
        PROVE  StoredOnce'
    BY <2>1, <2>6 DEF Arrive, BadRequest, Disconnect, Load, FetchKey, BeginAsk, LoadProfile,
          ContextAborts, BeginSave, Provider, Generate, OpenStream, Chunk, StreamEnds, StreamBreaks
  <2>7. CASE \/ \E u \in Users, c \in Chats : CreateChat(u, c)
             \/ \E u \in Users, p \in SystemPrompts : UpdateSystemPrompt(u, p)
             \/ UNCHANGED vars
    BY <2>1, <2>7 DEF CreateChat, UpdateSystemPrompt, vars
  <2>8. QED
    BY <1>2, <2>2, <2>3, <2>4, <2>5, <2>6, <2>7 DEF Next, Serve
<1>3. QED
  BY <1>1, <1>2, Invariant, PTL DEF Spec

-----------------------------------------------------------------------------
(* How a goroutine ends: the part of DisconnectReleases that holds without *)
(* fairness.                                                               *)

\* The steps a goroutine has before it, at most, chunks included.
StepsLeft(s) ==
    CASE s.pc = "load"      -> MaxChunks + 10
      [] s.pc = "key"       -> MaxChunks + 9
      [] s.pc = "ask"       -> MaxChunks + 8
      [] s.pc = "askTx"     -> MaxChunks + 7
      [] s.pc = "profile"   -> MaxChunks + 6
      [] s.pc = "generate"  -> MaxChunks + 5
      [] s.pc = "streaming" -> (MaxChunks - s.got) + 4
      [] s.pc = "save"      -> 2
      [] s.pc = "saveTx"    -> 1
      [] OTHER              -> 0

\* A client that has hung up does not come back.
StaysHungUp(s, t) == s.ctx # "live" => t.ctx # "live"

Onward(s, t) == StepsLeft(t) < StepsLeft(s) /\ StaysHungUp(s, t)

\* The count is a number, and it is spent when the goroutine is gone.
LEMMA StepsLeftFacts ==
    ASSUME NEW s \in Session
    PROVE  /\ StepsLeft(s) \in 0..MaxChunks + 10
           /\ s.pc \notin {"idle", "done", "killed"} => StepsLeft(s) > 0
BY MaxChunksAssumption DEF StepsLeft, Session, Pcs

\* Returning is always a step onward.
LEMMA EndedOnward ==
    ASSUME NEW s \in Session, s.pc \notin {"idle", "done", "killed"},
           NEW code \in Codes, NEW cause \in Causes
    PROVE  Onward(s, Ended(s, code, cause))
<1> DEFINE t == Ended(s, code, cause)
<1>1. t.pc = "done"
  BY EndedFields
<1>2. t.ctx = "expired"
  BY DEF Ended, Session
<1> HIDE DEF t
<1>3. StepsLeft(t) = 0
  BY <1>1 DEF StepsLeft
<1>4. Onward(s, t)
  BY <1>2, <1>3, StepsLeftFacts DEF Onward, StaysHungUp
<1>5. QED
  BY <1>4 DEF t

\* What an update does to the context, when the goroutine goes on.
LEMMA ContextKept ==
    ASSUME TypeOK, NEW s \in Session
    PROVE  /\ StaysHungUp(s, Used(s))
           /\ StaysHungUp(s, Loaded(s)) /\ StaysHungUp(s, WithKey(s))
           /\ StaysHungUp(s, Asking(s)) /\ StaysHungUp(s, Asked(s))
           /\ StaysHungUp(s, WithProfile(s)) /\ StaysHungUp(s, WithoutProfile(s))
           /\ \A n \in 0..MaxChunks : StaysHungUp(s, Generated(s, n))
           /\ StaysHungUp(s, Opened(s)) /\ StaysHungUp(s, ReceiveChunk(s))
           /\ StaysHungUp(s, AfterStream(s)) /\ StaysHungUp(s, Saving(s))
<1> DEFINE u == Used(s)
<1>1. u \in Session /\ StaysHungUp(s, u)
  BY UsedFields DEF Used, StaysHungUp, Session, SameProgress, SameRequest
<1>2. /\ StaysHungUp(s, Asking(s)) /\ StaysHungUp(s, Opened(s))
      /\ StaysHungUp(s, ReceiveChunk(s)) /\ StaysHungUp(s, AfterStream(s))
      /\ StaysHungUp(s, Saving(s))
  BY DEF Asking, Opened, ReceiveChunk, AfterStream, Saving, StaysHungUp, Session
<1> HIDE DEF u
<1>3. /\ StaysHungUp(s, Loaded(s)) /\ StaysHungUp(s, WithKey(s)) /\ StaysHungUp(s, Asked(s))
      /\ StaysHungUp(s, WithProfile(s)) /\ StaysHungUp(s, WithoutProfile(s))
  <2>1. /\ Loaded(s) = [u EXCEPT !.pc = "key", !.hist = ChatHistory(s.chat)]
        /\ WithKey(s) = [u EXCEPT !.pc = "ask"] /\ Asked(s) = [u EXCEPT !.pc = "profile"]
        /\ WithProfile(s) = [u EXCEPT !.pc = "generate", !.sys = profile[s.user]]
        /\ WithoutProfile(s) = [u EXCEPT !.pc = "generate", !.sys = NoPrompt]
    BY DEF Loaded, WithKey, Asked, WithProfile, WithoutProfile, u
  <2>2. QED
    BY <1>1, <2>1 DEF StaysHungUp, Session
<1>4. ASSUME NEW n \in 0..MaxChunks PROVE StaysHungUp(s, Generated(s, n))
  <2>1. Generated(s, n) = [u EXCEPT !.pc = "save", !.reply = "complete", !.got = n]
    BY DEF Generated, u
  <2>2. QED
    BY <1>1, <2>1 DEF StaysHungUp, Session
<1>5. QED
  BY <1>1, <1>2, <1>3, <1>4 DEF u

\* Each step of the server or the provider takes its goroutine onward.
LEMMA ServeOnward ==
    ASSUME TypeOK, NEW r \in Requests, Serve(r) \/ Provider(r)
    PROVE  /\ Onward(session[r], session'[r])
           /\ \A q \in Requests \ {r} : session'[q] = session[q]
<1> DEFINE s == session[r]
<1>1. s \in Session
  BY DEF TypeOK
<1>2. ASSUME NEW t \in Session, Become(r, t), Onward(s, t)
      PROVE  /\ Onward(session[r], session'[r])
             /\ \A q \in Requests \ {r} : session'[q] = session[q]
  BY <1>2, BecomeFacts
<1>3. ASSUME NEW code \in Codes, NEW cause \in Causes, Become(r, Ended(s, code, cause)),
             s.pc \notin {"idle", "done", "killed"}
      PROVE  /\ Onward(session[r], session'[r])
             /\ \A q \in Requests \ {r} : session'[q] = session[q]
  BY <1>1, <1>2, <1>3, EndedOnward, EndedTyped
<1> HIDE DEF s
<1>4. CASE Load(r)
  <2>1. s.pc = "load"
    BY <1>4 DEF Load, s
  <2>2. Loaded(s) \in Session /\ Onward(s, Loaded(s))
    BY <1>1, <2>1, LoadedFields, ContextKept, MaxChunksAssumption
       DEF SameRequest, Onward, StepsLeft
  <2>3. \/ Become(r, Loaded(s)) \/ Become(r, Ended(s, "404", "none"))
        \/ \E cause \in FailureCauses(s) : Become(r, Ended(s, "500", cause))
    BY <1>4 DEF Load, s
  <2>4. QED
    BY <1>1, <1>2, <1>3, <2>1, <2>2, <2>3, CausesTyped DEF Codes, Causes
<1>5. CASE FetchKey(r)
  <2>1. s.pc = "key"
    BY <1>5 DEF FetchKey, s
  <2>2. WithKey(s) \in Session /\ Onward(s, WithKey(s))
    BY <1>1, <2>1, WithKeyFields, ContextKept, MaxChunksAssumption
       DEF SameProgress, SameRequest, Onward, StepsLeft
  <2>3. \/ Become(r, WithKey(s)) \/ Become(r, Ended(s, "400", "none"))
        \/ \E cause \in FailureCauses(s) : Become(r, Ended(s, "500", cause))
    BY <1>5 DEF FetchKey, s
  <2>4. QED
    BY <1>1, <1>2, <1>3, <2>1, <2>2, <2>3, CausesTyped DEF Codes, Causes
<1>6. CASE BeginAsk(r)
  <2>1. s.pc = "ask"
    BY <1>6 DEF BeginAsk, s
  <2>2. Asking(s) \in Session /\ Onward(s, Asking(s))
    BY <1>1, <2>1, AskingFields, ContextKept, MaxChunksAssumption
       DEF SameProgress, SameRequest, Onward, StepsLeft
  <2>3. \/ Become(r, Asking(s))
        \/ \E cause \in FailureCauses(s) : Become(r, Ended(s, "500", cause))
    BY <1>6 DEF BeginAsk, s
  <2>4. QED
    BY <1>1, <1>2, <1>3, <2>1, <2>2, <2>3, CausesTyped DEF Codes
<1>7. CASE CommitAsk(r)
  <2>1. s.pc = "askTx"
    BY <1>7 DEF CommitAsk, s
  <2>2. Asked(s) \in Session /\ Onward(s, Asked(s))
    BY <1>1, <2>1, AskedFields, ContextKept, MaxChunksAssumption
       DEF SameProgress, SameRequest, Onward, StepsLeft
  <2>3. \/ Become(r, Asked(s))
        \/ \E cause \in FailureCauses(s) : Become(r, Ended(s, "500", cause))
    BY <1>7 DEF CommitAsk, AfterFailedAsk, s
  <2>4. QED
    BY <1>1, <1>2, <1>3, <2>1, <2>2, <2>3, CausesTyped DEF Codes
<1>8. CASE LoadProfile(r)
  <2>1. s.pc = "profile"
    BY <1>8 DEF LoadProfile, s
  <2>2. /\ WithProfile(s) \in Session /\ Onward(s, WithProfile(s))
        /\ WithoutProfile(s) \in Session /\ Onward(s, WithoutProfile(s))
    BY <1>1, <2>1, ProfileFields, ContextKept, MaxChunksAssumption
       DEF SameProgress, SameRequest, Onward, StepsLeft
  <2>3. Become(r, WithProfile(s)) \/ Become(r, WithoutProfile(s))
    BY <1>8 DEF LoadProfile, s
  <2>4. QED
    BY <1>2, <2>2, <2>3
<1>9. CASE Generate(r)
  <2>1. s.pc = "generate"
    BY <1>9 DEF Generate, s
  <2>2. ASSUME NEW n \in 0..MaxChunks
        PROVE  Generated(s, n) \in Session /\ Onward(s, Generated(s, n))
    BY <1>1, <2>1, GeneratedFields, ContextKept, MaxChunksAssumption
       DEF SameRequest, Onward, StepsLeft
  <2>3. \/ \E n \in 0..MaxChunks : Become(r, Generated(s, n))
        \/ Become(r, Ended(s, "502", "other"))
    BY <1>9 DEF Generate, s
  <2>4. QED
    BY <1>2, <1>3, <2>1, <2>2, <2>3 DEF Codes, Causes
<1>10. CASE OpenStream(r)
  <2>1. s.pc = "generate"
    BY <1>10 DEF OpenStream, s
  <2>2. Opened(s) \in Session /\ Onward(s, Opened(s))
    <3>1. Opened(s) \in Session /\ Opened(s).pc = "streaming" /\ StaysHungUp(s, Opened(s))
      BY <1>1, OpenedFields, ContextKept DEF SameRequest
    <3>2. Opened(s).got \in 0..MaxChunks
      BY <3>1 DEF Session
    <3>3. QED
      BY <2>1, <3>1, <3>2, MaxChunksAssumption DEF Onward, StepsLeft
  <2>3. Become(r, Opened(s)) \/ Become(r, Ended(s, "502", "other"))
    BY <1>10 DEF OpenStream, s
  <2>4. QED
    BY <1>2, <1>3, <2>1, <2>2, <2>3 DEF Codes, Causes
<1>11. CASE Chunk(r)
  <2>1. s.pc = "streaming" /\ s.got < MaxChunks /\ Become(r, ReceiveChunk(s))
    BY <1>11 DEF Chunk, s
  <2>2. /\ ReceiveChunk(s) \in Session /\ ReceiveChunk(s).pc = "streaming"
        /\ StaysHungUp(s, ReceiveChunk(s))
    BY <1>1, <2>1, ReceiveChunkFields, ContextKept DEF SameRequest
  <2>3. ReceiveChunk(s).got = s.got + 1 /\ s.got \in 0..MaxChunks
    BY <1>1 DEF ReceiveChunk, Session
  <2>4. Onward(s, ReceiveChunk(s))
    BY <2>1, <2>2, <2>3, MaxChunksAssumption DEF Onward, StepsLeft
  <2>5. QED
    BY <1>2, <2>1, <2>2, <2>4
<1>12. CASE StreamEnds(r)
  <2>1. s.pc = "streaming" /\ Become(r, AfterStream(s))
    BY <1>12 DEF StreamEnds, s
  <2>2. /\ AfterStream(s) \in Session /\ AfterStream(s).pc = "save"
        /\ StaysHungUp(s, AfterStream(s))
    BY <1>1, AfterStreamFields, ContextKept DEF SameRequest
  <2>3. s.got \in 0..MaxChunks
    BY <1>1 DEF Session
  <2>4. Onward(s, AfterStream(s))
    BY <2>1, <2>2, <2>3, MaxChunksAssumption DEF Onward, StepsLeft
  <2>5. QED
    BY <1>2, <2>1, <2>2, <2>4
<1>13. CASE StreamBreaks(r)
  BY <1>3, <1>13 DEF StreamBreaks, AfterStreamError, Codes, Causes, s
<1>14. CASE ContextAborts(r)
  BY <1>3, <1>14 DEF ContextAborts, AfterStreamError, Codes, Causes, s
<1>15. CASE BeginSave(r)
  <2>1. s.pc = "save"
    BY <1>15 DEF BeginSave, s
  <2>2. Saving(s) \in Session /\ Onward(s, Saving(s))
    BY <1>1, <2>1, SavingFields, ContextKept DEF SameProgress, SameRequest, Onward, StepsLeft
  <2>3. \/ Become(r, Saving(s))
        \/ \E cause \in SaveCauses(s), code \in {"500", "unsaved"} : Become(r, Ended(s, code, cause))
    BY <1>15 DEF BeginSave, SaveFailed, s
  <2>4. QED
    BY <1>1, <1>2, <1>3, <2>1, <2>2, <2>3, CausesTyped DEF Codes
<1>16. CASE CommitSave(r)
  <2>1. s.pc = "saveTx"
    BY <1>16 DEF CommitSave, s
  <2>2. \/ Become(r, Ended(s, "ok", "none"))
        \/ \E cause \in SaveCauses(s), code \in {"500", "unsaved"} : Become(r, Ended(s, code, cause))
    BY <1>16 DEF CommitSave, SaveFailed, s
  <2>3. QED
    BY <1>1, <1>3, <2>1, <2>2, CausesTyped DEF Codes, Causes
<1>17. QED
  BY <1>4, <1>5, <1>6, <1>7, <1>8, <1>9, <1>10, <1>11, <1>12, <1>13, <1>14, <1>15, <1>16
     DEF Serve, Provider

\* What the others do leaves a goroutine where it is, unless the process dies.
LEMMA OthersLeaveGoroutines ==
    ASSUME TypeOK, [Next]_vars, NEW r \in Requests, InFlight(r), ~ (Serve(r) \/ Provider(r))
    PROVE  /\ StepsLeft(session'[r]) <= StepsLeft(session[r])
           /\ StaysHungUp(session[r], session'[r])
<1>1. session[r] \in Session /\ StepsLeft(session[r]) \in Int
  BY StepsLeftFacts DEF TypeOK
<1>2. CASE session'[r] = session[r]
  BY <1>1, <1>2 DEF StaysHungUp
<1>3. ASSUME NEW q \in Requests, Arrive(q) \/ BadRequest(q)
      PROVE  session'[r] = session[r]
  <2>1. q # r /\ \E t : Become(q, t)
    BY <1>3 DEF Arrive, BadRequest, InFlight
  <2>2. QED
    BY <2>1 DEF Become, TypeOK
<1>4. ASSUME NEW q \in Requests, Disconnect(q), q # r
      PROVE  session'[r] = session[r]
  BY <1>4 DEF Disconnect, Become, TypeOK
<1>5. CASE Disconnect(r)
  <2>1. session'[r] = HungUp(session[r]) /\ session[r].ctx = "live"
    BY <1>5 DEF Disconnect, Become, TypeOK
  <2>2. StepsLeft(HungUp(session[r])) = StepsLeft(session[r])
    BY <1>1, HungUpFields DEF StepsLeft, SameProgress
  <2>3. QED
    BY <1>1, <2>1, <2>2 DEF StaysHungUp
<1>6. ASSUME NEW q \in Requests, Serve(q) \/ Provider(q)
      PROVE  session'[r] = session[r]
  BY <1>6, ServeOnward
<1>7. CASE Crash
  <2>1. session'[r] = Killed(session[r])
    BY <1>7 DEF Crash, TypeOK
  <2>2. Killed(session[r]).pc = "killed"
    BY <1>1, KilledFields
  <2>3. Killed(session[r]).ctx = "expired"
    BY <1>1 DEF Killed, Ended, Session
  <2>4. StepsLeft(Killed(session[r])) = 0
    BY <2>2 DEF StepsLeft
  <2>5. StepsLeft(session[r]) > 0
    BY <1>1, StepsLeftFacts DEF InFlight
  <2>6. QED
    BY <1>1, <2>1, <2>3, <2>4, <2>5 DEF StaysHungUp
<1>8. CASE UNCHANGED vars \/ (\E m \in limbo : Land(m))
           \/ (\E u \in Users, c \in Chats : CreateChat(u, c))
           \/ (\E u \in Users, p \in SystemPrompts : UpdateSystemPrompt(u, p))
  BY <1>2, <1>8 DEF vars, Land, CreateChat, UpdateSystemPrompt
<1>9. QED
  BY <1>2, <1>3, <1>4, <1>5, <1>6, <1>7, <1>8 DEF Next

\* Every call a handler makes happens once and every chunk is read once
\* (handler/chat.go:167-256, service/chat.go:76-199): each step of its own or of the provider brings the
\* goroutine nearer to its return, nothing else sets it back, and a client that
\* has hung up stays so, which is what lets ContextAborts end the wait for a
\* provider.
THEOREM GoroutinesComeNearer ==
    Spec => [][\A r \in Requests : InFlight(r) =>
                  /\ StepsLeft(session'[r]) <= StepsLeft(session[r])
                  /\ Serve(r) \/ Provider(r)
                        => StepsLeft(session'[r]) < StepsLeft(session[r])
                  /\ session[r].ctx # "live" => session'[r].ctx # "live"]_vars
<1>1. ASSUME TypeOK, TypeOK', [Next]_vars, NEW r \in Requests, InFlight(r)
      PROVE  /\ StepsLeft(session'[r]) <= StepsLeft(session[r])
             /\ Serve(r) \/ Provider(r)
                   => StepsLeft(session'[r]) < StepsLeft(session[r])
             /\ session[r].ctx # "live" => session'[r].ctx # "live"
  <2>1. StepsLeft(session[r]) \in Int /\ StepsLeft(session'[r]) \in Int
    BY <1>1, StepsLeftFacts DEF TypeOK
  <2>2. CASE Serve(r) \/ Provider(r)
    BY <1>1, <2>1, <2>2, ServeOnward DEF Onward, StaysHungUp
  <2>3. CASE ~ (Serve(r) \/ Provider(r))
    BY <1>1, <2>3, OthersLeaveGoroutines DEF StaysHungUp
  <2>4. QED
    BY <2>2, <2>3
<1>2. TypeOK /\ TypeOK' /\ [Next]_vars =>
         [\A r \in Requests : InFlight(r) =>
             /\ StepsLeft(session'[r]) <= StepsLeft(session[r])
             /\ Serve(r) \/ Provider(r)
                   => StepsLeft(session'[r]) < StepsLeft(session[r])
             /\ session[r].ctx # "live" => session'[r].ctx # "live"]_vars
  BY <1>1
<1>3. QED
  BY <1>2, TypeCorrect, PTL DEF Spec
=============================================================================
