-------------------------- MODULE WebClientProofs --------------------------
(***************************************************************************)
(* Proofs about WebClient, for every number of clicks and chats.  The      *)
(* argument is that a callback is calm only while it is alone: whatever    *)
(* else moves currentChatId, the pane or the badge has disturbed it.       *)
(***************************************************************************)
EXTENDS WebClient, TLAPS

-----------------------------------------------------------------------------
(* The inductive invariant.                                                *)

CalmAlone ==
    \A t \in Tasks : InFlight(t) /\ task[t].calm
        => \A u \in Tasks \ {t} : ~ InFlight(u)

IdleCalm == \A t \in Tasks : task[t].pc = "idle" => task[t].calm

\* A request that is out, or was refused with a 401, has reached no handler.
Unanswered(t) == task[t].net = "out" \/ task[t].ans = "401"

RunsFollow ==
    \A s \in Sends :
        /\ runs[s].create <= 1 /\ runs[s].post <= 1
        /\ task[s].pc = "idle" => runs[s].create = 0
        /\ task[s].pc = "create" /\ Unanswered(s) => runs[s].create = 0
        /\ task[s].pc \in {"idle", "create", "list"} => runs[s].post = 0
        /\ task[s].pc = "post" /\ Unanswered(s) => runs[s].post = 0

Targets ==
    \A s \in Sends :
        /\ task[s].pc \in {"create", "list"} => task[s].from = NoChat
        /\ task[s].pc = "list" /\ task[s].calm => current = task[s].made

\* Only a callback in flight has a request or an answer on its way.
NetInFlight == \A t \in Tasks : task[t].net # "none" => InFlight(t)

LoadsChats == \A p \in Picks : task[p].pc = "load" => task[p].to \in Chats

BubbleLive ==
    \A s \in Sends : task[s].pc = "post" /\ task[s].calm => s \in pane.live

AllCalm == \A t \in Tasks : task[t].calm

\* As long as nothing has overlapped.
PageSteady ==
    AllCalm =>
        /\ pane.of = current
        /\ (\A t \in Tasks : task[t].pc \notin {"list", "load"})
              => badge = current \/ pane.error
        /\ \A p \in Picks : task[p].pc = "load" => current = task[p].to
        /\ \A s \in Sends : task[s].pc = "create" =>
              current = NoChat /\ s \in pane.bubbles

IInv ==
    /\ TypeOK
    /\ CalmAlone
    /\ IdleCalm
    /\ NetInFlight
    /\ RunsFollow
    /\ Targets
    /\ SentWhereMeant
    /\ LoadsChats
    /\ BubbleLive
    /\ PageSteady

-----------------------------------------------------------------------------
(* Callbacks.                                                              *)

LEMMA TaskSets ==
    /\ Sends \subseteq Tasks /\ Picks \subseteq Tasks
    /\ Sends \cap Picks = {}
    /\ NoChat \notin Chats /\ Chats \subseteq ChatOrNone /\ NoChat \in ChatOrNone
BY TasksAssumption, NoChatAssumption DEF Tasks, ChatOrNone

\* Where a callback waits for an answer.
Flying == {"create", "list", "post", "load"}

\* The records a callback goes through.
LEMMA FetchingFacts ==
    ASSUME NEW x \in Task, NEW pc \in Flying,
           NEW c \in ChatOrNone
    PROVE  /\ Fetching(x, pc, c) \in Task
           /\ Fetching(x, pc, c).pc = pc
           /\ Fetching(x, pc, c).net = "out"
           /\ Fetching(x, pc, c).ans = "none"
           /\ Fetching(x, pc, c).to = c
           /\ Fetching(x, pc, c).from = x.from
           /\ Fetching(x, pc, c).made = x.made
           /\ Fetching(x, pc, c).calm = x.calm
<1>1. PICK n \in 0..2 : n = 1
  OBVIOUS
<1>2. [x EXCEPT !.pc = pc, !.net = "out", !.tries = n, !.ans = "none", !.to = c] \in Task
  BY DEF Task, Flying
<1>3. Fetching(x, pc, c) \in Task
  BY <1>1, <1>2 DEF Fetching
<1>4. QED
  BY <1>3 DEF Fetching, Task

LEMMA AnswerFacts ==
    ASSUME NEW x \in Task, NEW ans \in {"ok", "401", "error"}
    PROVE  /\ Answer(x, ans) \in Task
           /\ Answer(x, ans).pc = x.pc
           /\ Answer(x, ans).net = "back"
           /\ Answer(x, ans).ans = ans
           /\ Answer(x, ans).to = x.to
           /\ Answer(x, ans).from = x.from
           /\ Answer(x, ans).made = x.made
           /\ Answer(x, ans).calm = x.calm
BY DEF Answer, Task

LEMMA EndedFacts ==
    ASSUME NEW x \in Task, NEW pc \in {"done", "failed"}
    PROVE  /\ Ended(x, pc) \in Task
           /\ Ended(x, pc).pc = pc
           /\ Ended(x, pc).net = "none"
           /\ Ended(x, pc).calm = x.calm
<1>1. NoChat \in ChatOrNone /\ x.calm \in BOOLEAN
  BY TaskSets DEF Task
<1>2. QED
  BY <1>1 DEF Ended, Rest, Task

\* A callback that goes on disturbs nobody, and is calm only while it is alone.
LEMMA GoesOn ==
    ASSUME IInv, NEW t \in Tasks, NEW x \in Task, InFlight(t),
           task' = [task EXCEPT ![t] = x],
           x.calm = task[t].calm, x.pc # "idle",
           x.net = "none" \/ x.pc \in Flying
    PROVE  /\ task' \in [Tasks -> Task]
           /\ task'[t] = x
           /\ \A u \in Tasks \ {t} : task'[u] = task[u]
           /\ CalmAlone' /\ IdleCalm' /\ NetInFlight'
           /\ AllCalm' => AllCalm
           /\ task[t].calm => \A u \in Tasks \ {t} :
                 task'[u] = task[u] /\ task[u].pc \notin {"create", "list", "post", "load"}
<1>1. task \in [Tasks -> Task]
  BY DEF IInv, TypeOK
<1>2. /\ task' \in [Tasks -> Task]
      /\ task'[t] = x
      /\ \A u \in Tasks \ {t} : task'[u] = task[u]
  BY <1>1
<1>3. CalmAlone'
  BY <1>2 DEF IInv, CalmAlone, InFlight
<1>4. IdleCalm'
  BY <1>2 DEF IInv, IdleCalm
<1>5. AllCalm' => AllCalm
  BY <1>2 DEF AllCalm
<1>6. task[t].calm => \A u \in Tasks \ {t} :
         task'[u] = task[u] /\ task[u].pc \notin {"create", "list", "post", "load"}
  BY <1>2 DEF IInv, CalmAlone, InFlight
<1>7. NetInFlight'
  BY <1>2 DEF IInv, NetInFlight, InFlight, Flying
<1>8. QED
  BY <1>2, <1>3, <1>4, <1>5, <1>6, <1>7

\* A click disturbs every callback in flight.
LEMMA DisturbedFacts ==
    ASSUME IInv
    PROVE  /\ Disturbed \in [Tasks -> Task]
           /\ \A t \in Tasks :
                 /\ Disturbed[t].pc = task[t].pc
                 /\ Disturbed[t].net = task[t].net
                 /\ Disturbed[t].ans = task[t].ans
                 /\ Disturbed[t].from = task[t].from
                 /\ Disturbed[t].made = task[t].made
                 /\ Disturbed[t].to = task[t].to
                 /\ Disturbed[t].calm => task[t].calm /\ ~ InFlight(t)
                 /\ ~ InFlight(t) => Disturbed[t] = task[t]
<1>1. task \in [Tasks -> Task]
  BY DEF IInv, TypeOK
<1>2. \A t \in Tasks : [task[t] EXCEPT !.calm = FALSE] \in Task
  BY <1>1 DEF Task
<1>3. QED
  BY <1>1, <1>2 DEF Disturbed, Task

-----------------------------------------------------------------------------
(* The network and the server touch nothing of the page.                   *)

\* What an answer on its way, or a repeated request, keeps.
LEMMA NetMoves ==
    ASSUME IInv, NEW t \in Tasks, NEW x \in Task, InFlight(t),
           task' = [task EXCEPT ![t] = x],
           x.pc = task[t].pc, x.calm = task[t].calm, x.from = task[t].from,
           x.to = task[t].to, x.pc # "create" => x.made = task[t].made,
           UNCHANGED <<current, pane, badge>>
    PROVE  /\ task' \in [Tasks -> Task]
           /\ task'[t] = x
           /\ \A u \in Tasks \ {t} : task'[u] = task[u]
           /\ CalmAlone' /\ IdleCalm' /\ NetInFlight' /\ Targets' /\ SentWhereMeant'
           /\ LoadsChats' /\ BubbleLive' /\ PageSteady'
<1>1. /\ task' \in [Tasks -> Task]
      /\ task'[t] = x
      /\ \A u \in Tasks \ {t} : task'[u] = task[u]
      /\ CalmAlone' /\ IdleCalm' /\ NetInFlight'
      /\ AllCalm' => AllCalm
  BY GoesOn DEF InFlight, Flying
<1>2. \A u \in Tasks :
         /\ task'[u].pc = task[u].pc /\ task'[u].calm = task[u].calm
         /\ task'[u].from = task[u].from /\ task'[u].to = task[u].to
         /\ task[u].pc # "create" => task'[u].made = task[u].made
  BY <1>1
<1>3. Targets'
  BY <1>2, TaskSets DEF IInv, Targets
<1>4. SentWhereMeant'
  BY <1>2, TaskSets DEF IInv, SentWhereMeant
<1>5. BubbleLive'
  BY <1>2, TaskSets DEF IInv, BubbleLive
<1>6. PageSteady'
  BY <1>1, <1>2, TaskSets DEF IInv, PageSteady
<1>7. LoadsChats'
  BY <1>2, TaskSets DEF IInv, LoadsChats
<1>8. QED
  BY <1>1, <1>3, <1>4, <1>5, <1>6, <1>7

LEMMA GateAnswers ==
    ({Gate(token) : token \in PageTokens} \ {"pass"}) \cup {"error"} = {"401", "error"}
BY DEF Gate, PageTokens

LEMMA RefusedSteps ==
    ASSUME IInv, NEW t \in Tasks, InFlight(t), Refused(t)
    PROVE  IInv'
<1>1. PICK ans \in {"401", "error"} : task' = [task EXCEPT ![t] = Answer(task[t], ans)]
  BY GateAnswers DEF Refused, IInv, TypeOK
<1>2. task[t] \in Task
  BY DEF IInv, TypeOK
<1> DEFINE x == Answer(task[t], ans)
<1>3. /\ x \in Task /\ x.pc = task[t].pc /\ x.calm = task[t].calm
      /\ x.from = task[t].from /\ x.to = task[t].to /\ x.made = task[t].made
  BY <1>2, AnswerFacts
<1>4. /\ task' \in [Tasks -> Task]
      /\ task'[t] = x
      /\ \A u \in Tasks \ {t} : task'[u] = task[u]
      /\ CalmAlone' /\ IdleCalm' /\ NetInFlight' /\ Targets' /\ SentWhereMeant'
      /\ LoadsChats' /\ BubbleLive' /\ PageSteady'
  <2> HIDE DEF x
  <2>1. task' = [task EXCEPT ![t] = x]
    BY <1>1 DEF x
  <2>2. QED
    BY <1>3, <2>1, NetMoves DEF Refused
<1>5. TypeOK'
  BY <1>4 DEF Refused, IInv, TypeOK
<1>6. RunsFollow'
  BY <1>2, <1>3, <1>4, TaskSets DEF Refused, IInv, RunsFollow, Unanswered
<1>7. QED
  BY <1>4, <1>5, <1>6 DEF IInv

LEMMA RetrySteps ==
    ASSUME IInv, NEW t \in Tasks, InFlight(t), Retry(t)
    PROVE  IInv'
<1> DEFINE x == [task[t] EXCEPT !.net = "out", !.tries = @ + 1, !.ans = "none"]
<1>1. task[t] \in Task
  BY DEF IInv, TypeOK
<1>2. task[t].tries = 1 /\ task[t].ans = "401"
  BY DEF Retry, Repeats
<1>3. /\ x \in Task /\ x.pc = task[t].pc /\ x.calm = task[t].calm
      /\ x.from = task[t].from /\ x.to = task[t].to /\ x.made = task[t].made
  <2>1. task[t].tries + 1 \in 0..2
    BY <1>2
  <2>2. QED
    BY <1>1, <2>1 DEF Task
<1>4. /\ task' \in [Tasks -> Task]
      /\ task'[t] = x
      /\ \A u \in Tasks \ {t} : task'[u] = task[u]
      /\ CalmAlone' /\ IdleCalm' /\ NetInFlight' /\ Targets' /\ SentWhereMeant'
      /\ LoadsChats' /\ BubbleLive' /\ PageSteady'
  <2> HIDE DEF x
  <2>1. task' = [task EXCEPT ![t] = x]
    BY DEF Retry, x
  <2>2. QED
    BY <1>3, <2>1, NetMoves DEF Retry
<1>5. TypeOK'
  BY <1>4 DEF Retry, IInv, TypeOK
<1>6. RunsFollow'
  BY <1>1, <1>2, <1>3, <1>4, TaskSets DEF Retry, IInv, RunsFollow, Unanswered
<1>7. QED
  BY <1>4, <1>5, <1>6 DEF IInv

LEMMA CreateChatSteps ==
    ASSUME IInv, NEW s \in Sends, CreateChat(s)
    PROVE  IInv'
<1>1. task[s] \in Task /\ s \in Tasks /\ runs[s] \in [create : Nat, post : Nat]
  BY TaskSets DEF IInv, TypeOK
<1>2. task[s].pc = "create" /\ task[s].net = "out" /\ InFlight(s)
  BY DEF CreateChat, Out, InFlight
<1>3. PICK c \in Chats \ rows :
         /\ rows' = rows \cup {c}
         /\ \/ task' = [task EXCEPT ![s] = [Answer(task[s], "ok") EXCEPT !.made = c]]
            \/ task' = [task EXCEPT ![s] = Answer(task[s], "error")]
  BY <1>1 DEF CreateChat, IInv, TypeOK
<1>4. PICK x \in Task :
         /\ task' = [task EXCEPT ![s] = x]
         /\ x.pc = task[s].pc /\ x.calm = task[s].calm /\ x.from = task[s].from
         /\ x.to = task[s].to /\ x.net = "back" /\ x.ans \in {"ok", "error"}
  <2>1. CASE task' = [task EXCEPT ![s] = [Answer(task[s], "ok") EXCEPT !.made = c]]
    <3> DEFINE a == Answer(task[s], "ok")
    <3>1. /\ a \in Task /\ a.pc = task[s].pc /\ a.net = "back" /\ a.ans = "ok"
          /\ a.to = task[s].to /\ a.from = task[s].from /\ a.calm = task[s].calm
      BY <1>1, AnswerFacts
    <3> HIDE DEF a
    <3>2. [a EXCEPT !.made = c] \in Task /\ c \in ChatOrNone
      BY <3>1, TaskSets DEF Task
    <3>3. task' = [task EXCEPT ![s] = [a EXCEPT !.made = c]]
      BY <2>1 DEF a
    <3>4. QED
      BY <3>1, <3>2, <3>3 DEF Task
  <2>2. CASE task' = [task EXCEPT ![s] = Answer(task[s], "error")]
    BY <1>1, <2>2, AnswerFacts
  <2>3. QED
    BY <1>3, <2>1, <2>2
<1>5. /\ task' \in [Tasks -> Task]
      /\ task'[s] = x
      /\ \A u \in Tasks \ {s} : task'[u] = task[u]
      /\ CalmAlone' /\ IdleCalm' /\ NetInFlight' /\ Targets' /\ SentWhereMeant'
      /\ LoadsChats' /\ BubbleLive' /\ PageSteady'
  BY <1>1, <1>2, <1>4, NetMoves DEF CreateChat
<1>6. /\ runs' \in [Sends -> [create : Nat, post : Nat]]
      /\ runs'[s].create = runs[s].create + 1 /\ runs'[s].post = runs[s].post
      /\ \A q \in Sends \ {s} : runs'[q] = runs[q]
  BY <1>1 DEF CreateChat, IInv, TypeOK
<1>7. TypeOK'
  BY <1>3, <1>5, <1>6 DEF CreateChat, IInv, TypeOK
<1>8. runs[s].create = 0 /\ runs[s].post = 0
  BY <1>2 DEF IInv, RunsFollow, Unanswered
<1>9. RunsFollow'
  BY <1>2, <1>4, <1>5, <1>6, <1>8, TaskSets DEF IInv, RunsFollow, Unanswered
<1>10. QED
  BY <1>5, <1>7, <1>9 DEF IInv

LEMMA SendMessageSteps ==
    ASSUME IInv, NEW s \in Sends, SendMessage(s)
    PROVE  IInv'
<1>1. task[s] \in Task /\ s \in Tasks /\ runs[s] \in [create : Nat, post : Nat]
  BY TaskSets DEF IInv, TypeOK
<1>2. task[s].pc = "post" /\ task[s].net = "out" /\ InFlight(s)
  BY DEF SendMessage, Out, InFlight
<1>3. PICK ans \in {"ok", "error"} : task' = [task EXCEPT ![s] = Answer(task[s], ans)]
  BY <1>1 DEF SendMessage, IInv, TypeOK
<1> DEFINE x == Answer(task[s], ans)
<1>4. /\ x \in Task /\ x.pc = task[s].pc /\ x.calm = task[s].calm
      /\ x.from = task[s].from /\ x.to = task[s].to /\ x.made = task[s].made
      /\ x.net = "back" /\ x.ans \in {"ok", "error"}
  BY <1>1, AnswerFacts
<1>5. /\ task' \in [Tasks -> Task]
      /\ task'[s] = x
      /\ \A u \in Tasks \ {s} : task'[u] = task[u]
      /\ CalmAlone' /\ IdleCalm' /\ NetInFlight' /\ Targets' /\ SentWhereMeant'
      /\ LoadsChats' /\ BubbleLive' /\ PageSteady'
  <2> HIDE DEF x
  <2>1. task' = [task EXCEPT ![s] = x]
    BY <1>3 DEF x
  <2>2. QED
    BY <1>1, <1>2, <1>4, <2>1, NetMoves DEF SendMessage
<1>6. /\ runs' \in [Sends -> [create : Nat, post : Nat]]
      /\ runs'[s].post = runs[s].post + 1 /\ runs'[s].create = runs[s].create
      /\ \A q \in Sends \ {s} : runs'[q] = runs[q]
  BY <1>1 DEF SendMessage, IInv, TypeOK
<1>7. stored' \in [Chats -> SUBSET Sends]
  BY DEF SendMessage, IInv, TypeOK
<1>8. TypeOK'
  BY <1>5, <1>6, <1>7 DEF SendMessage, IInv, TypeOK
<1>9. runs[s].post = 0
  BY <1>2 DEF IInv, RunsFollow, Unanswered
<1>10. RunsFollow'
  <2> HIDE DEF x
  <2>1. QED
    BY <1>2, <1>4, <1>5, <1>6, <1>9, TaskSets DEF IInv, RunsFollow, Unanswered
<1>11. QED
  BY <1>5, <1>8, <1>10 DEF IInv

LEMMA ListChatsSteps ==
    ASSUME IInv, NEW s \in Sends, ListChats(s)
    PROVE  IInv'
<1>1. task[s] \in Task /\ s \in Tasks
  BY TaskSets DEF IInv, TypeOK
<1>2. task[s].pc = "list" /\ InFlight(s)
  BY DEF ListChats, Out, InFlight
<1> DEFINE x == Answer(task[s], "ok")
<1>3. /\ x \in Task /\ x.pc = task[s].pc /\ x.calm = task[s].calm
      /\ x.from = task[s].from /\ x.to = task[s].to /\ x.made = task[s].made
      /\ x.net = "back" /\ x.ans = "ok"
  BY <1>1, AnswerFacts
<1>4. /\ task' \in [Tasks -> Task]
      /\ task'[s] = x
      /\ \A u \in Tasks \ {s} : task'[u] = task[u]
      /\ CalmAlone' /\ IdleCalm' /\ NetInFlight' /\ Targets' /\ SentWhereMeant'
      /\ LoadsChats' /\ BubbleLive' /\ PageSteady'
  <2> HIDE DEF x
  <2>1. task' = [task EXCEPT ![s] = x]
    BY <1>1 DEF ListChats, IInv, TypeOK, x
  <2>2. QED
    BY <1>1, <1>2, <1>3, <2>1, NetMoves DEF ListChats
<1>5. TypeOK'
  BY <1>4 DEF ListChats, IInv, TypeOK
<1>6. RunsFollow'
  BY <1>2, <1>3, <1>4, TaskSets DEF ListChats, IInv, RunsFollow, Unanswered
<1>7. QED
  BY <1>4, <1>5, <1>6 DEF IInv

LEMMA GetChatSteps ==
    ASSUME IInv, NEW p \in Picks, GetChat(p)
    PROVE  IInv'
<1>1. task[p] \in Task /\ p \in Tasks /\ p \notin Sends
  BY TaskSets DEF IInv, TypeOK
<1>2. task[p].pc = "load" /\ InFlight(p)
  BY DEF GetChat, Out, InFlight
<1> DEFINE a == Answer(task[p], "ok")
           x == [a EXCEPT !.snap = stored[task[p].to]]
<1>3. /\ a \in Task /\ a.pc = task[p].pc /\ a.calm = task[p].calm
      /\ a.from = task[p].from /\ a.to = task[p].to /\ a.made = task[p].made
  BY <1>1, AnswerFacts
<1>4. task[p].to \in Chats
  BY <1>1, <1>2 DEF IInv, LoadsChats
<1>5. /\ x \in Task /\ x.pc = task[p].pc /\ x.calm = task[p].calm
      /\ x.from = task[p].from /\ x.to = task[p].to /\ x.made = task[p].made
  <2> HIDE DEF a
  <2>1. stored[task[p].to] \in SUBSET Sends
    BY <1>4 DEF IInv, TypeOK
  <2>2. QED
    BY <1>3, <2>1 DEF Task
<1>6. /\ task' \in [Tasks -> Task]
      /\ task'[p] = x
      /\ \A u \in Tasks \ {p} : task'[u] = task[u]
      /\ CalmAlone' /\ IdleCalm' /\ NetInFlight' /\ Targets' /\ SentWhereMeant'
      /\ LoadsChats' /\ BubbleLive' /\ PageSteady'
  <2>1. task' = [task EXCEPT ![p] = x]
    BY <1>1 DEF GetChat, IInv, TypeOK
  <2> HIDE DEF x
  <2>2. QED
    BY <1>1, <1>2, <1>5, <2>1, NetMoves DEF GetChat
<1>7. TypeOK'
  <2> HIDE DEF x
  <2>1. QED
    BY <1>6 DEF GetChat, IInv, TypeOK
<1>8. RunsFollow'
  BY <1>1, <1>6, TaskSets DEF GetChat, IInv, RunsFollow, Unanswered
<1>9. QED
  BY <1>6, <1>7, <1>8 DEF IInv

-----------------------------------------------------------------------------
(* sendChatMessage after an await.                                         *)

LEMMA PaneFacts ==
    ASSUME NEW q \in Pane, NEW s \in Sends
    PROVE  /\ WithPrompt(q, s) \in Pane /\ WithBubble(q, s) \in Pane
           /\ WithPrompt(q, s).of = q.of /\ WithBubble(q, s).of = q.of
           /\ WithPrompt(q, s).error = q.error /\ WithBubble(q, s).error = q.error
           /\ WithPrompt(q, s).bubbles = q.bubbles \cup {s}
           /\ WithBubble(q, s).bubbles = q.bubbles
           /\ WithBubble(q, s).live = {s}
BY DEF WithPrompt, WithBubble, Pane

LEMMA EmptyFacts ==
    ASSUME NEW c \in ChatOrNone
    PROVE  Empty(c) \in Pane /\ Empty(c).of = c
BY DEF Empty, Pane

LEMMA CreatedSteps ==
    ASSUME IInv, NEW s \in Sends, Created(s)
    PROVE  IInv'
<1>1. task[s] \in Task /\ s \in Tasks /\ task[s].made \in ChatOrNone /\ pane \in Pane
  BY TaskSets DEF IInv, TypeOK, Task
<1>2. task[s].pc = "create" /\ InFlight(s) /\ current' = task[s].made
  BY DEF Created, InFlight, CurrentAfterCreate
<1> DEFINE x == Fetching(task[s], "list", NoChat)
<1>3. /\ x \in Task /\ x.pc = "list" /\ x.net = "out" /\ x.calm = task[s].calm
      /\ x.from = task[s].from /\ x.made = task[s].made
  <2>1. "list" \in Flying /\ NoChat \in ChatOrNone
    BY TaskSets DEF Flying
  <2>2. QED
    BY <1>1, <2>1, FetchingFacts
<1>4. /\ task' \in [Tasks -> Task]
      /\ task'[s] = x
      /\ \A u \in Tasks \ {s} : task'[u] = task[u]
      /\ CalmAlone' /\ IdleCalm' /\ NetInFlight'
      /\ AllCalm' => AllCalm
      /\ task[s].calm => \A u \in Tasks \ {s} :
            task'[u] = task[u] /\ task[u].pc \notin {"create", "list", "post", "load"}
  <2> HIDE DEF x
  <2>1. task' = [task EXCEPT ![s] = x]
    BY <1>1 DEF Created, IInv, TypeOK, x
  <2>2. QED
    BY <1>1, <1>2, <1>3, <2>1, GoesOn DEF Flying
<1> HIDE DEF x
<1>5. /\ pane' \in Pane
      /\ pane'.of = IF pane.of = NoChat /\ s \in pane.bubbles THEN task[s].made ELSE pane.of
      /\ pane'.error = pane.error /\ pane'.bubbles = pane.bubbles /\ pane'.live = pane.live
  BY <1>1 DEF Created, Pane
<1>6. TypeOK'
  BY <1>1, <1>2, <1>4, <1>5 DEF Created, IInv, TypeOK
<1>7. RunsFollow'
  BY <1>2, <1>3, <1>4, TaskSets DEF Created, IInv, RunsFollow, Unanswered
<1>8. Targets'
  BY <1>2, <1>3, <1>4, TaskSets DEF IInv, Targets, CalmAlone, InFlight
<1>9. SentWhereMeant' /\ LoadsChats' /\ BubbleLive'
  BY <1>3, <1>4, <1>5, TaskSets DEF IInv, SentWhereMeant, LoadsChats, BubbleLive
<1>10. PageSteady'
  <2>1. SUFFICES ASSUME AllCalm' PROVE PageSteady'
    BY DEF PageSteady
  <2>2. AllCalm /\ task[s].calm
    BY <1>1, <1>4, <2>1 DEF AllCalm
  <2>3. pane.of = NoChat /\ s \in pane.bubbles
    BY <1>2, <2>2 DEF IInv, PageSteady
  <2>4. \A u \in Tasks \ {s} : task'[u].pc \notin {"create", "list", "post", "load"}
    BY <1>4, <2>2
  <2>5. QED
    BY <1>1, <1>2, <1>3, <1>4, <1>5, <2>3, <2>4, TaskSets DEF PageSteady
<1>11. QED
  BY <1>4, <1>6, <1>7, <1>8, <1>9, <1>10 DEF IInv

LEMMA ListedSteps ==
    ASSUME IInv, NEW s \in Sends, Listed(s)
    PROVE  IInv'
<1>1. task[s] \in Task /\ s \in Tasks /\ task[s].made \in ChatOrNone /\ pane \in Pane
      /\ current \in ChatOrNone
  BY TaskSets DEF IInv, TypeOK, Task
<1>2. task[s].pc = "list" /\ InFlight(s)
  BY DEF Listed, InFlight
<1> DEFINE x == Fetching(task[s], "post", current)
<1>3. /\ x \in Task /\ x.pc = "post" /\ x.net = "out" /\ x.calm = task[s].calm
      /\ x.from = task[s].from /\ x.made = task[s].made /\ x.to = current
  <2>1. "post" \in Flying /\ current \in ChatOrNone
    BY <1>1 DEF Flying
  <2>2. QED
    BY <1>1, <2>1, FetchingFacts
<1>4. /\ task' \in [Tasks -> Task]
      /\ task'[s] = x
      /\ \A u \in Tasks \ {s} : task'[u] = task[u]
      /\ CalmAlone' /\ IdleCalm' /\ NetInFlight'
      /\ AllCalm' => AllCalm
      /\ task[s].calm => \A u \in Tasks \ {s} :
            task'[u] = task[u] /\ task[u].pc \notin {"create", "list", "post", "load"}
  <2> HIDE DEF x
  <2>1. task' = [task EXCEPT ![s] = x]
    BY <1>1 DEF Listed, IInv, TypeOK, x
  <2>2. QED
    BY <1>1, <1>2, <1>3, <2>1, GoesOn DEF Flying
<1> HIDE DEF x
<1>5. /\ pane' \in Pane /\ pane'.of = pane.of /\ pane'.error = pane.error
      /\ pane'.bubbles = pane.bubbles /\ pane'.live = {s}
  BY <1>1, PaneFacts DEF Listed
<1>6. TypeOK'
  BY <1>1, <1>4, <1>5 DEF Listed, IInv, TypeOK
<1>7. RunsFollow'
  BY <1>2, <1>3, <1>4, TaskSets DEF Listed, IInv, RunsFollow, Unanswered
<1>8. Targets' /\ LoadsChats'
  BY <1>3, <1>4, TaskSets DEF Listed, IInv, Targets, LoadsChats
<1>9. SentWhereMeant'
  <2>1. task[s].from = NoChat /\ (task[s].calm => current = task[s].made)
    BY <1>2 DEF IInv, Targets
  <2>2. QED
    BY <1>3, <1>4, <2>1, TaskSets DEF IInv, SentWhereMeant
<1>10. BubbleLive'
  BY <1>2, <1>4, <1>5, TaskSets DEF IInv, BubbleLive, CalmAlone, InFlight
<1>11. PageSteady'
  <2>1. SUFFICES ASSUME AllCalm' PROVE PageSteady'
    BY DEF PageSteady
  <2>2. AllCalm /\ task[s].calm
    BY <1>1, <1>4, <2>1 DEF AllCalm
  <2>3. pane.of = current /\ current = task[s].made
    BY <1>2, <2>2 DEF IInv, PageSteady, Targets
  <2>4. \A u \in Tasks \ {s} : task'[u].pc \notin {"create", "list", "post", "load"}
    BY <1>4, <2>2
  <2>5. QED
    BY <1>3, <1>4, <1>5, <2>3, <2>4, TaskSets DEF Listed, PageSteady
<1>12. QED
  BY <1>4, <1>6, <1>7, <1>8, <1>9, <1>10, <1>11 DEF IInv

\* A callback that ends: CreateFailed and Replied.
LEMMA EndSteps ==
    ASSUME IInv, NEW s \in Sends, CreateFailed(s) \/ Replied(s)
    PROVE  IInv'
<1>1. task[s] \in Task /\ s \in Tasks /\ pane \in Pane
  BY TaskSets DEF IInv, TypeOK
<1>2. InFlight(s) /\ task[s].pc \in {"create", "post"}
  BY DEF CreateFailed, Replied, InFlight
<1>3. PICK pc \in {"done", "failed"} : task' = [task EXCEPT ![s] = Ended(task[s], pc)]
  BY <1>1 DEF CreateFailed, Replied, IInv, TypeOK
<1> DEFINE x == Ended(task[s], pc)
<1>4. x \in Task /\ x.pc = pc /\ x.net = "none" /\ x.calm = task[s].calm
  BY <1>1, EndedFacts
<1>5. /\ task' \in [Tasks -> Task]
      /\ task'[s] = x
      /\ \A u \in Tasks \ {s} : task'[u] = task[u]
      /\ CalmAlone' /\ IdleCalm' /\ NetInFlight'
      /\ AllCalm' => AllCalm
  <2> HIDE DEF x
  <2>1. task' = [task EXCEPT ![s] = x]
    BY <1>3 DEF x
  <2>2. QED
    BY <1>1, <1>2, <1>4, <2>1, GoesOn
<1> HIDE DEF x
<1>6. /\ pane' \in Pane /\ pane'.of = pane.of /\ pane'.error = pane.error
      /\ pane'.bubbles = pane.bubbles /\ pane'.live = pane.live
  BY <1>1 DEF CreateFailed, Replied, Pane
<1>7. TypeOK'
  BY <1>5, <1>6 DEF CreateFailed, Replied, IInv, TypeOK
<1>8. RunsFollow'
  BY <1>2, <1>4, <1>5, TaskSets DEF CreateFailed, Replied, IInv, RunsFollow, Unanswered
<1>9. Targets' /\ SentWhereMeant' /\ LoadsChats' /\ BubbleLive'
  BY <1>4, <1>5, <1>6, TaskSets
     DEF CreateFailed, Replied, IInv, Targets, SentWhereMeant, LoadsChats, BubbleLive
<1>10. PageSteady'
  BY <1>2, <1>4, <1>5, <1>6, TaskSets DEF CreateFailed, Replied, IInv, PageSteady
<1>11. QED
  BY <1>5, <1>7, <1>8, <1>9, <1>10 DEF IInv

-----------------------------------------------------------------------------
(* What the user clicks.                                                   *)

\* A click that starts a callback or none: nothing in flight stays calm, and
\* what starts is calm only when nothing was in flight.
LEMMA NewChatSteps ==
    ASSUME IInv, NewChat
    PROVE  IInv'
<1>1. /\ task' \in [Tasks -> Task]
      /\ \A t \in Tasks :
            /\ task'[t].pc = task[t].pc /\ task'[t].net = task[t].net
            /\ task'[t].ans = task[t].ans /\ task'[t].from = task[t].from
            /\ task'[t].made = task[t].made /\ task'[t].to = task[t].to
            /\ task'[t].calm => task[t].calm /\ ~ InFlight(t)
            /\ ~ InFlight(t) => task'[t] = task[t]
  BY DisturbedFacts DEF NewChat
<1>2. current' = NoChat /\ badge' = NoChat /\ pane' \in Pane /\ pane'.of = NoChat
  BY TaskSets, EmptyFacts DEF NewChat, CurrentAfterNew
<1>3. TypeOK'
  BY <1>1, <1>2, TaskSets DEF NewChat, IInv, TypeOK
<1>4. CalmAlone' /\ IdleCalm' /\ NetInFlight'
  BY <1>1 DEF IInv, CalmAlone, IdleCalm, NetInFlight, InFlight
<1>5. RunsFollow'
  BY <1>1, TaskSets DEF NewChat, IInv, RunsFollow, Unanswered
<1>6. Targets' /\ SentWhereMeant' /\ LoadsChats' /\ BubbleLive'
  BY <1>1, TaskSets DEF IInv, Targets, SentWhereMeant, LoadsChats, BubbleLive, InFlight
<1>7. PageSteady'
  BY <1>1, <1>2, TaskSets DEF PageSteady, AllCalm, InFlight
<1>8. QED
  BY <1>3, <1>4, <1>5, <1>6, <1>7 DEF IInv

\* The facts that ClickSend and Pick share.
LEMMA Starts ==
    ASSUME IInv, NEW t \in Tasks, NEW x \in Task, task[t].pc = "idle",
           task' = [Disturbed EXCEPT ![t] = x], x.calm = Quiet, x.pc \in Flying
    PROVE  /\ task' \in [Tasks -> Task]
           /\ task'[t] = x
           /\ \A u \in Tasks \ {t} :
                 /\ task'[u].pc = task[u].pc /\ task'[u].net = task[u].net
                 /\ task'[u].ans = task[u].ans /\ task'[u].from = task[u].from
                 /\ task'[u].made = task[u].made /\ task'[u].to = task[u].to
                 /\ task'[u].calm => task[u].calm /\ ~ InFlight(u)
           /\ CalmAlone' /\ IdleCalm' /\ NetInFlight'
           /\ AllCalm' => AllCalm /\ Quiet
<1>1. /\ Disturbed \in [Tasks -> Task]
      /\ \A u \in Tasks :
            /\ Disturbed[u].pc = task[u].pc
            /\ Disturbed[u].net = task[u].net
            /\ Disturbed[u].ans = task[u].ans
            /\ Disturbed[u].from = task[u].from
            /\ Disturbed[u].made = task[u].made
            /\ Disturbed[u].to = task[u].to
            /\ Disturbed[u].calm => task[u].calm /\ ~ InFlight(u)
            /\ ~ InFlight(u) => Disturbed[u] = task[u]
  BY DisturbedFacts
<1>2. /\ task' \in [Tasks -> Task]
      /\ task'[t] = x
      /\ \A u \in Tasks \ {t} : task'[u] = Disturbed[u]
  BY <1>1
<1>3. \A u \in Tasks \ {t} :
         /\ task'[u].pc = task[u].pc /\ task'[u].net = task[u].net
         /\ task'[u].ans = task[u].ans /\ task'[u].from = task[u].from
         /\ task'[u].made = task[u].made /\ task'[u].to = task[u].to
         /\ task'[u].calm => task[u].calm /\ ~ InFlight(u)
         /\ ~ InFlight(u) => task'[u] = task[u]
  BY <1>1, <1>2
<1>4. CalmAlone'
  <2>1. \A u \in Tasks \ {t} : InFlight(u)' => ~ task'[u].calm
    BY <1>3 DEF InFlight
  <2>2. Quiet => \A u \in Tasks \ {t} : ~ InFlight(u)'
    BY <1>3 DEF InFlight, Quiet
  <2>3. task'[t].calm = Quiet
    BY <1>2
  <2>4. QED
    BY <2>1, <2>2, <2>3 DEF CalmAlone
<1>5. IdleCalm'
  BY <1>2, <1>3 DEF IInv, IdleCalm, InFlight, Flying
<1>6. AllCalm' => AllCalm /\ Quiet
  <2>1. task[t].calm
    BY DEF IInv, IdleCalm
  <2>2. QED
    BY <1>2, <1>3, <2>1 DEF AllCalm
<1>7. NetInFlight'
  BY <1>2, <1>3 DEF IInv, NetInFlight, InFlight, Flying
<1>8. QED
  BY <1>2, <1>3, <1>4, <1>5, <1>6, <1>7

LEMMA QuietFacts ==
    ASSUME Quiet
    PROVE  \A u \in Tasks : task[u].pc \notin Flying
BY DEF Quiet, InFlight, Flying

LEMMA PickSteps ==
    ASSUME IInv, NEW p \in Picks, NEW c \in Chats, Pick(p, c)
    PROVE  IInv'
<1>1. task[p] \in Task /\ p \in Tasks /\ p \notin Sends /\ current \in ChatOrNone
      /\ c \in ChatOrNone /\ Quiet \in BOOLEAN
  BY TaskSets DEF IInv, TypeOK, Quiet
<1> DEFINE y == Fetching(task[p], "load", c)
           x == [y EXCEPT !.from = current, !.calm = Quiet]
<1>2. y \in Task /\ y.pc = "load" /\ y.to = c
  <2>1. "load" \in Flying
    BY DEF Flying
  <2>2. QED
    BY <1>1, <2>1, FetchingFacts
<1>3. x \in Task /\ x.pc = "load" /\ x.to = c /\ x.calm = Quiet
  <2> HIDE DEF y
  <2>1. QED
    BY <1>1, <1>2 DEF Task
<1>4. /\ task' \in [Tasks -> Task]
      /\ task'[p] = x
      /\ \A u \in Tasks \ {p} :
            /\ task'[u].pc = task[u].pc /\ task'[u].net = task[u].net
            /\ task'[u].ans = task[u].ans /\ task'[u].from = task[u].from
            /\ task'[u].made = task[u].made /\ task'[u].to = task[u].to
            /\ task'[u].calm => task[u].calm /\ ~ InFlight(u)
      /\ CalmAlone' /\ IdleCalm' /\ NetInFlight'
      /\ AllCalm' => AllCalm /\ Quiet
  <2>1. Disturbed \in [Tasks -> Task] /\ Disturbed[p] = task[p]
    BY <1>1, DisturbedFacts DEF Pick, InFlight
  <2>2. task' = [Disturbed EXCEPT ![p] = x]
    BY <1>1, <2>1 DEF Pick
  <2> HIDE DEF x
  <2>3. task[p].pc = "idle" /\ x.pc \in Flying
    BY <1>3 DEF Pick, Flying
  <2>4. QED
    BY <1>1, <1>3, <2>2, <2>3, Starts
<1> HIDE DEF x
<1>5. current' = c /\ pane' \in Pane /\ pane'.of = c
  BY <1>1, EmptyFacts DEF Pick
<1>6. TypeOK'
  BY <1>1, <1>4, <1>5 DEF Pick, IInv, TypeOK
<1>7. RunsFollow'
  BY <1>1, <1>4, TaskSets DEF Pick, IInv, RunsFollow, Unanswered
<1>8. Targets' /\ SentWhereMeant' /\ BubbleLive'
  BY <1>1, <1>4, TaskSets DEF IInv, Targets, SentWhereMeant, BubbleLive, InFlight
<1>9. LoadsChats'
  BY <1>3, <1>4, TaskSets DEF IInv, LoadsChats
<1>10. PageSteady'
  <2>1. SUFFICES ASSUME AllCalm' PROVE PageSteady'
    BY DEF PageSteady
  <2>2. \A u \in Tasks \ {p} : task'[u].pc \notin Flying
    BY <1>4, <2>1, QuietFacts
  <2>3. QED
    BY <1>1, <1>3, <1>4, <1>5, <2>2, TaskSets DEF PageSteady, Flying
<1>11. QED
  BY <1>4, <1>6, <1>7, <1>8, <1>9, <1>10 DEF IInv

LEMMA ClickSendSteps ==
    ASSUME IInv, NEW s \in Sends, ClickSend(s)
    PROVE  IInv'
<1>1. task[s] \in Task /\ s \in Tasks /\ pane \in Pane /\ current \in ChatOrNone
      /\ Quiet \in BOOLEAN /\ NoChat \in ChatOrNone
  BY TaskSets DEF IInv, TypeOK, Quiet
<1> DEFINE y == [task[s] EXCEPT !.from = current, !.calm = Quiet]
           x == IF current = NoChat THEN Fetching(y, "create", NoChat)
                                    ELSE Fetching(y, "post", current)
<1>2. y \in Task /\ y.from = current /\ y.calm = Quiet
  BY <1>1 DEF Task
<1>3. /\ x \in Task /\ x.net = "out" /\ x.ans = "none" /\ x.to = current
      /\ x.from = current /\ x.calm = Quiet
      /\ x.pc = IF current = NoChat THEN "create" ELSE "post"
  <2> HIDE DEF y
  <2>1. "create" \in Flying /\ "post" \in Flying
    BY DEF Flying
  <2>2. CASE current = NoChat
    BY <1>1, <1>2, <2>1, <2>2, FetchingFacts
  <2>3. CASE current # NoChat
    BY <1>1, <1>2, <2>1, <2>3, FetchingFacts
  <2>4. QED
    BY <2>2, <2>3
<1>4. /\ task' \in [Tasks -> Task]
      /\ task'[s] = x
      /\ \A u \in Tasks \ {s} :
            /\ task'[u].pc = task[u].pc /\ task'[u].net = task[u].net
            /\ task'[u].ans = task[u].ans /\ task'[u].from = task[u].from
            /\ task'[u].made = task[u].made /\ task'[u].to = task[u].to
            /\ task'[u].calm => task[u].calm /\ ~ InFlight(u)
      /\ CalmAlone' /\ IdleCalm' /\ NetInFlight'
      /\ AllCalm' => AllCalm /\ Quiet
  <2>1. task' = [Disturbed EXCEPT ![s] = x]
    BY DEF ClickSend
  <2> HIDE DEF x
  <2>2. task[s].pc = "idle" /\ x.pc \in Flying
    BY <1>3 DEF ClickSend, Flying
  <2>3. QED
    BY <1>1, <1>3, <2>1, <2>2, Starts
<1> HIDE DEF x, y
<1>5. /\ pane' \in Pane /\ pane'.of = pane.of /\ pane'.error = pane.error
      /\ pane'.bubbles = pane.bubbles \cup {s}
      /\ current # NoChat => pane'.live = {s}
  BY <1>1, PaneFacts DEF ClickSend
<1>6. TypeOK'
  BY <1>4, <1>5 DEF ClickSend, IInv, TypeOK
<1>7. RunsFollow'
  BY <1>1, <1>3, <1>4, TaskSets DEF ClickSend, IInv, RunsFollow, Unanswered
<1>8. Targets' /\ SentWhereMeant' /\ LoadsChats'
  BY <1>3, <1>4, TaskSets DEF ClickSend, IInv, Targets, SentWhereMeant, LoadsChats, InFlight
<1>9. BubbleLive'
  BY <1>3, <1>4, <1>5, TaskSets DEF IInv, BubbleLive, InFlight
<1>10. PageSteady'
  <2>1. SUFFICES ASSUME AllCalm' PROVE PageSteady'
    BY DEF PageSteady
  <2>2. \A u \in Tasks \ {s} : task'[u].pc \notin Flying
    BY <1>4, <2>1, QuietFacts
  <2>3. \A u \in Tasks : task[u].pc \notin Flying
    BY <1>4, <2>1, QuietFacts
  <2>4. pane.of = current /\ (badge = current \/ pane.error)
    BY <1>4, <2>1, <2>3 DEF IInv, PageSteady, Flying
  <2>5. QED
    BY <1>3, <1>4, <1>5, <2>2, <2>4, TaskSets DEF ClickSend, PageSteady, Flying
<1>11. QED
  BY <1>4, <1>6, <1>7, <1>8, <1>9, <1>10 DEF IInv

LEMMA LoadedSteps ==
    ASSUME IInv, NEW p \in Picks, Loaded(p)
    PROVE  IInv'
<1>1. task[p] \in Task /\ p \in Tasks /\ p \notin Sends /\ task[p].to \in ChatOrNone
      /\ task[p].snap \in SUBSET Sends
  BY TaskSets DEF IInv, TypeOK, Task
<1>2. task[p].pc = "load" /\ InFlight(p)
  BY DEF Loaded, InFlight
<1> DEFINE x == Ended(task[p], "done")
<1>3. x \in Task /\ x.pc = "done" /\ x.net = "none" /\ x.calm = task[p].calm
  BY <1>1, EndedFacts
<1>4. /\ task' \in [Tasks -> Task]
      /\ task'[p] = x
      /\ \A u \in Tasks \ {p} : task'[u] = task[u]
      /\ CalmAlone' /\ IdleCalm' /\ NetInFlight'
      /\ AllCalm' => AllCalm
      /\ task[p].calm => \A u \in Tasks \ {p} :
            task'[u] = task[u] /\ task[u].pc \notin {"create", "list", "post", "load"}
  <2> HIDE DEF x
  <2>1. task' = [task EXCEPT ![p] = x]
    BY <1>1 DEF Loaded, IInv, TypeOK, x
  <2>2. QED
    BY <1>1, <1>2, <1>3, <2>1, GoesOn DEF Flying
<1> HIDE DEF x
<1>5. /\ pane' \in Pane /\ pane'.of = task[p].to /\ badge' \in ChatOrNone
      /\ badge' = task[p].to \/ pane'.error
  <2>1. Empty(task[p].to) \in Pane /\ Empty(task[p].to).of = task[p].to
    BY <1>1, EmptyFacts
  <2>2. /\ [Empty(task[p].to) EXCEPT !.bubbles = task[p].snap] \in Pane
        /\ [Empty(task[p].to) EXCEPT !.error = TRUE] \in Pane
    BY <1>1, <2>1 DEF Pane
  <2>3. CASE Ok(p)
    <3>1. pane' = [Empty(task[p].to) EXCEPT !.bubbles = task[p].snap] /\ badge' = task[p].to
      BY <2>3 DEF Loaded
    <3>2. QED
      BY <1>1, <2>1, <2>2, <3>1 DEF Pane
  <2>4. CASE ~ Ok(p)
    <3>1. pane' = [Empty(task[p].to) EXCEPT !.error = TRUE] /\ badge' = badge
      BY <2>4 DEF Loaded
    <3>2. QED
      BY <2>1, <2>2, <3>1 DEF Pane, IInv, TypeOK
  <2>5. QED
    BY <2>3, <2>4
<1>6. TypeOK'
  BY <1>4, <1>5 DEF Loaded, IInv, TypeOK
<1>7. RunsFollow'
  BY <1>1, <1>4, TaskSets DEF Loaded, IInv, RunsFollow, Unanswered
<1>8. Targets' /\ SentWhereMeant' /\ LoadsChats'
  BY <1>1, <1>3, <1>4, TaskSets DEF Loaded, IInv, Targets, SentWhereMeant, LoadsChats
<1>9. BubbleLive'
  BY <1>1, <1>2, <1>4, TaskSets DEF IInv, BubbleLive, CalmAlone, InFlight
<1>10. PageSteady'
  <2>1. SUFFICES ASSUME AllCalm' PROVE PageSteady'
    BY DEF PageSteady
  <2>2. AllCalm /\ task[p].calm
    BY <1>1, <1>4, <2>1 DEF AllCalm
  <2>3. current = task[p].to
    BY <1>2, <2>2 DEF IInv, PageSteady
  <2>4. \A u \in Tasks \ {p} : task'[u].pc \notin {"create", "list", "post", "load"}
    BY <1>4, <2>2
  <2>5. QED
    BY <1>1, <1>3, <1>4, <1>5, <2>3, <2>4, TaskSets DEF Loaded, PageSteady
<1>11. QED
  BY <1>4, <1>6, <1>7, <1>8, <1>9, <1>10 DEF IInv

-----------------------------------------------------------------------------
(* What follows.                                                           *)

LEMMA IInvStep ==
    ASSUME IInv, [Next]_vars
    PROVE  IInv'
<1>1. CASE UNCHANGED vars
  <2>1. TypeOK' /\ RunsFollow'
    BY <1>1 DEF vars, IInv, TypeOK, RunsFollow, Unanswered
  <2>2. CalmAlone' /\ IdleCalm' /\ NetInFlight'
    BY <1>1 DEF vars, IInv, CalmAlone, IdleCalm, NetInFlight, InFlight
  <2>3. Targets' /\ SentWhereMeant' /\ LoadsChats' /\ BubbleLive'
    BY <1>1 DEF vars, IInv, Targets, SentWhereMeant, LoadsChats, BubbleLive
  <2>4. PageSteady'
    BY <1>1 DEF vars, IInv, PageSteady, AllCalm
  <2>5. QED
    BY <2>1, <2>2, <2>3, <2>4 DEF IInv
<1>2. CASE Page
  BY <1>2, NewChatSteps, ClickSendSteps, CreatedSteps, ListedSteps, EndSteps, PickSteps,
     LoadedSteps DEF Page
<1>3. CASE Server
  BY <1>3, CreateChatSteps, SendMessageSteps, ListChatsSteps, GetChatSteps DEF Server
<1>4. ASSUME NEW t \in Tasks, Refused(t) \/ Retry(t)
      PROVE  IInv'
  <2>1. InFlight(t)
    BY <1>4 DEF IInv, NetInFlight, Refused, Retry
  <2>2. QED
    BY <1>4, <2>1, RefusedSteps, RetrySteps
<1>5. QED
  BY <1>1, <1>2, <1>3, <1>4 DEF Next

LEMMA InitIInv ==
    ASSUME Init
    PROVE  IInv
<1>1. Rest("idle", TRUE) \in Task /\ Empty(NoChat) \in Pane /\ Empty(NoChat).of = NoChat
  <2>1. NoChat \in ChatOrNone
    BY TaskSets
  <2>2. QED
    BY <2>1, EmptyFacts DEF Rest, Task
<1>2. task \in [Tasks -> Task] /\ \A t \in Tasks : task[t] = Rest("idle", TRUE)
  BY <1>1 DEF Init
<1>3. \A t \in Tasks : task[t].pc = "idle" /\ task[t].net = "none" /\ task[t].calm
  BY <1>2 DEF Rest
<1>4. TypeOK
  BY <1>1, <1>2, TaskSets DEF Init, TypeOK
<1>5. CalmAlone /\ IdleCalm /\ NetInFlight
  BY <1>3 DEF CalmAlone, IdleCalm, NetInFlight, InFlight
<1>6. RunsFollow
  <2>1. \A s \in Sends : runs[s].create = 0 /\ runs[s].post = 0
    BY DEF Init
  <2>2. QED
    BY <1>3, <2>1, TaskSets DEF RunsFollow
<1>7. Targets /\ SentWhereMeant /\ LoadsChats /\ BubbleLive
  BY <1>3, TaskSets DEF Targets, SentWhereMeant, LoadsChats, BubbleLive
<1>8. PageSteady
  BY <1>1, <1>3, TaskSets DEF Init, PageSteady
<1>9. QED
  BY <1>4, <1>5, <1>6, <1>7, <1>8 DEF IInv

\* The inductive invariant of the page and its server.
THEOREM Invariant == Spec => []IInv
<1>1. Init => IInv
  BY InitIInv
<1>2. IInv /\ [Next]_vars => IInv'
  BY IInvStep
<1>3. QED
  BY <1>1, <1>2, PTL DEF Spec

\* Every reachable state is well typed.
THEOREM TypeCorrect == Spec => []TypeOK
<1>1. IInv => TypeOK
  BY DEF IInv
<1>2. QED
  BY <1>1, Invariant, PTL

\* A click has its effect at most once, however often authFetch repeats it.
THEOREM ExecutedOnceHolds == Spec => []ExecutedOnce
<1>1. IInv => ExecutedOnce
  BY DEF IInv, RunsFollow, ExecutedOnce
<1>2. QED
  BY <1>1, Invariant, PTL

\* A message goes to the chat it was meant for.
THEOREM SentWhereMeantHolds == Spec => []SentWhereMeant
<1>1. IInv => SentWhereMeant
  BY DEF IInv
<1>2. QED
  BY <1>1, Invariant, PTL

\* Pane, badge and currentChatId agree at rest when nothing overlapped.
THEOREM PageAgreesHolds == Spec => []PageAgrees
<1>1. IInv => PageAgrees
  BY DEF IInv, PageSteady, PageAgrees, AllCalm, Quiet, InFlight
<1>2. QED
  BY <1>1, Invariant, PTL

\* A callback that waits for a reply ends as done with that reply only.
LEMMA OnlyRepliedEnds ==
    ASSUME IInv, [Next]_vars, NEW s \in Sends, task[s].pc = "post", task'[s].pc = "done"
    PROVE  Replied(s) /\ Ok(s)
<1>1. task \in [Tasks -> Task] /\ s \in Tasks /\ s \notin Picks
  BY TaskSets DEF IInv, TypeOK
<1>2. task[s] \in Task /\ \A ans : Answer(task[s], ans).pc = task[s].pc
  BY <1>1 DEF Answer, Task
<1>3. ~ UNCHANGED vars
  BY DEF vars
<1>4. ASSUME NEW t \in Tasks, Refused(t) \/ Retry(t) PROVE FALSE
  BY <1>1, <1>4 DEF Refused, Retry, Answer, Task
<1>5. ~ Server
  <2>1. ASSUME NEW q \in Sends, CreateChat(q) PROVE FALSE
    BY <1>1, <2>1, TaskSets DEF CreateChat, Out
  <2>2. ASSUME NEW q \in Sends, SendMessage(q) PROVE FALSE
    BY <1>1, <1>2, <2>2, TaskSets DEF SendMessage
  <2>3. ASSUME NEW q \in Sends, ListChats(q) PROVE FALSE
    BY <1>1, <2>3, TaskSets DEF ListChats, Out
  <2>4. ASSUME NEW p \in Picks, GetChat(p) PROVE FALSE
    BY <1>1, <2>4, TaskSets DEF GetChat, Out
  <2>5. QED
    BY <2>1, <2>2, <2>3, <2>4 DEF Server
<1>6. ~ NewChat
  BY <1>1, DisturbedFacts DEF NewChat
<1>7. ASSUME NEW q \in Sends, ClickSend(q) PROVE FALSE
  BY <1>1, <1>7, DisturbedFacts, TaskSets DEF ClickSend
<1>8. ASSUME NEW p \in Picks, NEW c \in Chats, Pick(p, c) PROVE FALSE
  BY <1>1, <1>8, DisturbedFacts, TaskSets DEF Pick
<1>9. ASSUME NEW p \in Picks, Loaded(p) PROVE FALSE
  BY <1>1, <1>9, TaskSets DEF Loaded
<1>10. ASSUME NEW q \in Sends, Created(q) \/ Listed(q) \/ CreateFailed(q) PROVE FALSE
  BY <1>1, <1>10, TaskSets DEF Created, Listed, CreateFailed
<1>11. ASSUME NEW q \in Sends, Replied(q) PROVE q = s /\ Ok(s)
  <2>1. q = s
    BY <1>1, <1>11, TaskSets DEF Replied
  <2>2. task'[s] = Ended(task[s], IF Ok(s) THEN "done" ELSE "failed")
    BY <1>1, <1>11, <2>1 DEF Replied
  <2>3. QED
    BY <2>1, <2>2 DEF Ended, Rest
<1>12. QED
  BY <1>3, <1>4, <1>5, <1>6, <1>7, <1>8, <1>9, <1>10, <1>11 DEF Next, Page

\* The reply to an undisturbed message is on the page when its callback ends.
THEOREM ReplyShownHolds == Spec => ReplyShown
<1>1. ASSUME IInv, [Next]_vars, NEW s \in Sends, task[s].pc = "post",
             task'[s].pc = "done", task[s].calm
      PROVE  s \in pane'.shown
  <2>1. s \in pane.live /\ pane \in Pane
    BY <1>1 DEF IInv, BubbleLive, TypeOK
  <2>2. Replied(s) /\ Ok(s)
    BY <1>1, OnlyRepliedEnds
  <2>3. pane' = [pane EXCEPT !.shown = @ \cup (pane.live \cap {s})]
    BY <2>2 DEF Replied
  <2>4. QED
    BY <2>1, <2>3 DEF Pane
<1>2. IInv /\ [Next]_vars =>
         [\A s \in Sends :
             task[s].pc = "post" /\ task'[s].pc = "done" /\ task[s].calm
                 => s \in pane'.shown]_vars
  BY <1>1
<1>3. QED
  BY <1>2, Invariant, PTL DEF Spec, ReplyShown
-----------------------------------------------------------------------------
(* When a second chat is made.  CreatedOnlyIfMissing fails, and this is    *)
(* how far: only for a message in whose sending another click fell.        *)

\* A chat that is being created undisturbed is created for a page without one.
CreatesForNone ==
    \A s \in Sends : task[s].pc = "create" /\ task[s].calm => current = NoChat

\* Callbacks that wait for a new chat, and are calm, did so before.
LEMMA NoneStays ==
    ASSUME CreatesForNone, UNCHANGED current,
           \A s \in Sends : task'[s].pc = "create" /\ task'[s].calm
                               => (task[s].pc = "create" /\ task[s].calm) \/ current = NoChat
    PROVE  CreatesForNone'
BY DEF CreatesForNone

\* An answer, and what a handler adds to it, are not the callback's doing.
LEMMA AnswerKeeps ==
    ASSUME NEW x \in Task, NEW ans
    PROVE  /\ Answer(x, ans).pc = x.pc /\ Answer(x, ans).calm = x.calm
           /\ \A b : LET y == [Answer(x, ans) EXCEPT !.snap = b]
                    IN  y.pc = x.pc /\ y.calm = x.calm
BY DEF Answer, Task

LEMMA CreatesForNoneStep ==
    ASSUME IInv, CreatesForNone, [Next]_vars
    PROVE  CreatesForNone'
<1>1. task \in [Tasks -> Task] /\ Sends \subseteq Tasks /\ Picks \subseteq Tasks
  BY TaskSets DEF IInv, TypeOK
<1>2. \A t \in Tasks : /\ Disturbed[t].pc = task[t].pc
                       /\ Disturbed[t].calm => task[t].calm /\ ~ InFlight(t)
      /\ Disturbed \in [Tasks -> Task]
  BY DisturbedFacts
<1>3. CASE UNCHANGED vars
  BY <1>3 DEF vars, CreatesForNone
<1>4. ASSUME NEW t \in Tasks, Refused(t) \/ Retry(t)
      PROVE  CreatesForNone'
  <2>1. \A u \in Tasks : task'[u].pc = task[u].pc /\ task'[u].calm = task[u].calm
    <3>1. CASE Refused(t)
      BY <1>1, <3>1, AnswerKeeps DEF Refused
    <3>2. CASE Retry(t)
      BY <1>1, <3>2 DEF Retry, Task
    <3>3. QED
      BY <1>4, <3>1, <3>2
  <2>2. UNCHANGED current
    BY <1>4 DEF Refused, Retry
  <2>3. QED
    BY <1>1, <2>1, <2>2, NoneStays
<1>5. CASE NewChat
  BY <1>5 DEF NewChat, CurrentAfterNew, CreatesForNone
<1>6. ASSUME NEW s \in Sends, ClickSend(s)
      PROVE  CreatesForNone'
  <2>1. UNCHANGED current
    BY <1>6 DEF ClickSend
  <2>2. \A u \in Tasks \ {s} : task'[u] = Disturbed[u]
    BY <1>1, <1>2, <1>6 DEF ClickSend
  <2>3. ASSUME task'[s].pc = "create"
        PROVE  current = NoChat
    <3>1. CASE current = NoChat
      BY <3>1
    <3>2. CASE current # NoChat
      <4>1. PICK x : x = [task[s] EXCEPT !.from = current, !.calm = Quiet]
        OBVIOUS
      <4>2. x \in [pc : {x.pc}, net : {x.net}, tries : {x.tries}, ans : {x.ans},
                   from : {x.from}, made : {x.made}, to : {x.to}, snap : {x.snap},
                   calm : {x.calm}]
        BY <1>1, <4>1 DEF Task
      <4>3. task' = [Disturbed EXCEPT ![s] = Fetching(x, "post", current)]
        BY <1>6, <3>2, <4>1 DEF ClickSend
      <4>4. task'[s].pc = "post"
        BY <1>1, <1>2, <4>2, <4>3 DEF Fetching
      <4>5. QED
        BY <2>3, <4>4
    <3>3. QED
      BY <3>1, <3>2
  <2>4. QED
    BY <1>1, <1>2, <2>1, <2>2, <2>3, NoneStays
<1>7. ASSUME NEW s \in Sends, Created(s)
      PROVE  CreatesForNone'
  <2>1. ASSUME NEW u \in Sends, task'[u].pc = "create", task'[u].calm
        PROVE  FALSE
    <3>1. u # s
      BY <1>1, <1>7, <2>1 DEF Created, Fetching, Task
    <3>2. task[u].pc = "create" /\ task[u].calm
      BY <1>1, <1>7, <2>1, <3>1 DEF Created
    <3>3. InFlight(u) /\ InFlight(s)
      BY <1>7, <3>2 DEF InFlight, Created
    <3>4. QED
      BY <1>1, <3>1, <3>2, <3>3 DEF IInv, CalmAlone
  <2>2. QED
    BY <2>1 DEF CreatesForNone
<1>8. ASSUME NEW s \in Sends, Listed(s) \/ CreateFailed(s) \/ Replied(s)
      PROVE  CreatesForNone'
  <2>1. UNCHANGED current
    BY <1>8 DEF Listed, CreateFailed, Replied
  <2>2. task'[s].pc # "create" /\ \A u \in Tasks \ {s} : task'[u] = task[u]
    <3>1. CASE Listed(s)
      <4>1. task' = [task EXCEPT ![s] = Fetching(task[s], "post", current)]
        BY <3>1 DEF Listed
      <4>2. Fetching(task[s], "post", current).pc = "post"
        BY <1>1 DEF Fetching, Task
      <4>3. QED
        BY <1>1, <4>1, <4>2
    <3>2. CASE CreateFailed(s) \/ Replied(s)
      <4>1. PICK pc \in {"done", "failed"} : task' = [task EXCEPT ![s] = Ended(task[s], pc)]
        BY <3>2 DEF CreateFailed, Replied
      <4>2. QED
        BY <1>1, <4>1 DEF Ended, Rest
    <3>3. QED
      BY <1>8, <3>1, <3>2
  <2>3. QED
    BY <1>1, <2>1, <2>2, NoneStays
<1>9. ASSUME NEW p \in Picks, NEW c \in Chats, Pick(p, c)
       PROVE  CreatesForNone'
  <2>1. ASSUME NEW u \in Sends, task'[u].pc = "create", task'[u].calm
        PROVE  FALSE
    <3>1. u # p
      BY TaskSets
    <3>2. task'[u] = Disturbed[u]
      BY <1>1, <1>2, <1>9, <3>1 DEF Pick
    <3>3. QED
      BY <1>1, <1>2, <2>1, <3>2 DEF InFlight
  <2>2. QED
    BY <2>1 DEF CreatesForNone
<1>10. ASSUME NEW p \in Picks, Loaded(p)
       PROVE  CreatesForNone'
  <2>1. UNCHANGED current
    BY <1>10 DEF Loaded
  <2>2. task'[p].pc # "create" /\ \A u \in Tasks \ {p} : task'[u] = task[u]
    BY <1>1, <1>10 DEF Loaded, Ended, Rest, Task
  <2>3. QED
    BY <1>1, <2>1, <2>2, NoneStays
<1>11. CASE Server
  <2>1. \A u \in Tasks : task'[u].pc = task[u].pc /\ task'[u].calm = task[u].calm
    <3>1. ASSUME NEW s \in Sends, CreateChat(s)
          PROVE  \A u \in Tasks : task'[u].pc = task[u].pc /\ task'[u].calm = task[u].calm
      <4>1. \/ \E c : task' = [task EXCEPT ![s] = [Answer(task[s], "ok") EXCEPT !.made = c]]
            \/ task' = [task EXCEPT ![s] = Answer(task[s], "error")]
        BY <3>1 DEF CreateChat
      <4>2. CASE \E c : task' = [task EXCEPT ![s] = [Answer(task[s], "ok") EXCEPT !.made = c]]
        <5>1. PICK c : task' = [task EXCEPT ![s] = [Answer(task[s], "ok") EXCEPT !.made = c]]
          BY <4>2
        <5>2. PICK y : y = [Answer(task[s], "ok") EXCEPT !.made = c]
          OBVIOUS
        <5>3. y.pc = task[s].pc /\ y.calm = task[s].calm
          BY <1>1, <5>2 DEF Answer, Task
        <5>4. task' = [task EXCEPT ![s] = y]
          BY <5>1, <5>2
        <5>5. QED
          BY <1>1, <5>3, <5>4
      <4>3. CASE task' = [task EXCEPT ![s] = Answer(task[s], "error")]
        BY <1>1, <4>3, AnswerKeeps
      <4>4. QED
        BY <4>1, <4>2, <4>3
    <3>2. ASSUME NEW s \in Sends, SendMessage(s) \/ ListChats(s)
          PROVE  \A u \in Tasks : task'[u].pc = task[u].pc /\ task'[u].calm = task[u].calm
      BY <1>1, <3>2, AnswerKeeps DEF SendMessage, ListChats
    <3>3. ASSUME NEW p \in Picks, GetChat(p)
          PROVE  \A u \in Tasks : task'[u].pc = task[u].pc /\ task'[u].calm = task[u].calm
      BY <1>1, <3>3, AnswerKeeps DEF GetChat
    <3>4. QED
      BY <1>11, <3>1, <3>2, <3>3 DEF Server
  <2>2. UNCHANGED current
    BY <1>11 DEF Server, CreateChat, SendMessage, ListChats, GetChat
  <2>3. QED
    BY <1>1, <2>1, <2>2, NoneStays
<1>12. QED
  BY <1>3, <1>4, <1>5, <1>6, <1>7, <1>8, <1>9, <1>10, <1>11 DEF Next, Page

\* "チャットセッション作成 (未作成の場合)" (index.html:1001) is true as long as the
\* user waits: a chat is made while the page has one only for a message during
\* whose sending he clicked something else, as in the run that finds it.
THEOREM CreatedOnlyIfMissingOrDisturbed ==
    Spec => [][rows' # rows =>
                  \/ current = NoChat
                  \/ \E s \in Sends : task[s].pc = "create" /\ ~ task[s].calm]_vars
<1>1. Init => CreatesForNone
  BY DEF Init, CreatesForNone
<1>2. IInv /\ CreatesForNone /\ [Next]_vars => CreatesForNone'
  BY CreatesForNoneStep
<1>3. ASSUME CreatesForNone, [Next]_vars, rows' # rows
      PROVE  \/ current = NoChat
             \/ \E s \in Sends : task[s].pc = "create" /\ ~ task[s].calm
  <2>1. PICK s \in Sends : CreateChat(s)
    <3>1. ~ Page
      BY <1>3, Zenon DEF Page, NewChat, ClickSend, Created, Listed, CreateFailed, Replied,
                  Loaded, Pick
    <3>2. \A t \in Tasks : ~ Refused(t) /\ ~ Retry(t)
      BY <1>3 DEF Refused, Retry
    <3>3. ~ UNCHANGED vars
      BY <1>3 DEF vars
    <3>4. QED
      BY <1>3, <3>1, <3>2, <3>3 DEF Next, Server, SendMessage, ListChats, GetChat
  <2>2. task[s].pc = "create"
    BY <2>1 DEF CreateChat, Out
  <2>3. QED
    BY <1>3, <2>2 DEF CreatesForNone
<1>4. CreatesForNone /\ [Next]_vars =>
         [rows' # rows =>
             \/ current = NoChat
             \/ \E s \in Sends : task[s].pc = "create" /\ ~ task[s].calm]_vars
  BY <1>3
<1>5. QED
  BY <1>1, <1>2, <1>4, Invariant, PTL DEF Spec
=============================================================================
