------------------------ MODULE ChatSessionInductive ------------------------
(***************************************************************************)
(* The inductive invariant of ChatSession.  It is split in what holds of   *)
(* every row, given the request it comes from, and what holds of every     *)
(* request, given the rows.                                                *)
(***************************************************************************)
EXTENDS ChatSession

Stopped == {"done", "killed"}
Unasked == {"idle", "load", "key", "ask", "askTx"}         \* before the prompt is stored
InExchange == {"profile", "generate", "streaming"}         \* the provider's turn
InSave == {"save", "saveTx"}
HasHistory == {"key", "ask", "askTx"} \cup InExchange \cup InSave

\* The prompt of request r.
IsPrompt(p, r) == p.req = r /\ p.role = "user"

\* A row belongs where its request writes; a reply row exists only once its
\* request has stopped, without an AI failure, and it answers a stored prompt.
RowInv ==
    \A m \in messages \cup limbo :
        /\ m.chat = session[m.req].chat
        /\ owner[m.chat] = session[m.req].user
        /\ m.at <= clock
        /\ m.role = "assistant" =>
              /\ session[m.req].pc \in Stopped
              /\ session[m.req].reply = "complete"
              /\ m.text = session[m.req].got
              /\ session[m.req].code \notin {"502", "interrupted"}
              /\ \E p \in messages : Answers(m, p)

\* Only a request that has stopped, and not well, has rows in limbo.
LimboInv ==
    \A m \in limbo : session[m.req].pc \in Stopped /\ session[m.req].code # "ok"

\* What the progress of request r, in state s, says of its rows.
ProgressInv(r, s) ==
    /\ s.pc \in Unasked \/ s.code \in {"400", "404"} =>
          \A m \in messages \cup limbo : m.req # r
    /\ s.pc \in InExchange => Row(r, s, "user", 0) \in messages
    /\ s.pc \in InSave => \E p \in messages : IsPrompt(p, r) /\ p.chat = s.chat
    /\ s.pc = "saveTx" => \E p \in messages : IsPrompt(p, r) /\ p.chat = s.chat /\ p.at < s.at
    /\ s.pc \in {"askTx", "saveTx"} => s.at <= clock
    /\ s.code \in {"ok", "502", "interrupted", "unsaved"} =>
          \E p \in messages : IsPrompt(p, r)
    /\ s.code = "ok" =>
          \E a \in messages : a.req = r /\ a.role = "assistant" /\ a.text = s.got

\* How the fields of a session hang together.
OutcomeInv(s) ==
    /\ s.code # "none" => s.pc = "done"
    /\ s.pc \in InSave => s.reply = "complete"
    /\ s.reply = "complete" => s.pc \in InSave \cup Stopped
    /\ s.pc = "done" /\ s.mode = "stream" /\ s.reply = "complete" =>
          s.code = "ok" \/ s.cause = "other"

\* The history request r holds: taken from the chat it owns, before its own
\* prompt, closed under "a reply comes with its prompt".
HistoryInv(r, s) ==
    /\ s.pc \in HasHistory => owner[s.chat] = s.user
    /\ s.pc \notin HasHistory => s.hist = {}
    /\ \A m \in s.hist :
          /\ m \in messages /\ m.chat = s.chat /\ m.req # r
          /\ s.pc \in {"askTx"} \cup InExchange => m.at < s.at
          /\ m.role = "assistant" => \E p \in s.hist : Answers(m, p)

\* The exchanges acknowledged before r arrived are settled, and in its history.
AckedInv(s) ==
    \A q \in s.acked :
        /\ session[q].code = "ok"
        /\ session[q].chat = s.chat
        /\ s.pc \in HasHistory => RowsOf(q, messages) \subseteq s.hist

RequestInv(r, s) ==
    /\ ProgressInv(r, s)
    /\ OutcomeInv(s)
    /\ HistoryInv(r, s)
    /\ AckedInv(s)

IInv ==
    /\ RowInv
    /\ LimboInv
    /\ \A r \in Requests : RequestInv(r, session[r])
=============================================================================
