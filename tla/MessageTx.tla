----------------------------- MODULE MessageTx -----------------------------
(***************************************************************************)
(* Create and CreateMessage (internal/infra/repository/chat.go), one level *)
(* below ChatSession: the statements of their transactions, the pool of    *)
(* connections (internal/infra/db/db.go) and the row locks they wait for.  *)
(* Many calls run at once; each may be cancelled by its request context,   *)
(* lose its connection, or have its COMMIT go unanswered.                  *)
(***************************************************************************)
EXTENDS Integers, FiniteSets

CONSTANTS
    Requests,   \* calls of Create and CreateMessage, one element each
    Detached,   \* those that take context.Background(): the save of a stream
    Chats,      \* rows of chats
    MaxConns,   \* SetMaxOpenConns
    Absent,     \* in place of updated_at: the chat has not been created
    Never       \* updated_at of a chat from before, no message since

ASSUME MaxConnsAssumption == MaxConns \in Nat \ {0}
ASSUME DetachedAssumption == Detached \subseteq Requests
ASSUME NeverAssumption == Never \notin Requests /\ Absent \notin Requests \cup {Never}

VARIABLES
    call,       \* call[r]: the goroutine inside Create or CreateMessage
    inUse,      \* calls that hold a connection of the pool
    tx,         \* tx[r]: the transaction of r as PostgreSQL sees it
    stored,     \* committed rows of chats and messages, named by the call
    updatedAt,  \* committed updated_at, named by the call whose clock reading it is
    clock       \* the last time.Now()

vars == <<call, inUse, tx, stored, updatedAt, clock>>

-----------------------------------------------------------------------------
Call == [
    op    : {"create", "message"},
    pc    : {"idle", "begin", "insert", "now", "update", "commit", "ok", "failed"},
    chat  : Chats,
    ctx   : {"live", "cancelled", "expired"},
    stamp : Nat,        \* its time.Now(), 0 before
    seen  : SUBSET Requests ]   \* history: the rows stored when it began

TxStates == {"none", "open", "inserted", "touched", "committing"}

TypeOK ==
    /\ call \in [Requests -> Call]
    /\ inUse \subseteq Requests
    /\ Cardinality(inUse) <= MaxConns
    /\ tx \in [Requests -> TxStates]
    /\ stored \subseteq Requests
    /\ updatedAt \in [Chats -> Requests \cup {Never, Absent}]
    /\ clock \in Nat

Creates(r) == call[r].op = "create"

\* A chat that some call creates is not there yet, and has an id of its own.
Init ==
    /\ call \in [Requests -> {
         [op |-> o, pc |-> "idle", chat |-> c, ctx |-> "live", stamp |-> 0,
          seen |-> {}] : o \in {"create", "message"}, c \in Chats}]
    /\ \A r \in Requests : Creates(r) =>
          /\ r \notin Detached
          /\ \A q \in Requests \ {r} : Creates(q) => call[q].chat # call[r].chat
    /\ inUse = {}
    /\ tx = [r \in Requests |-> "none"]
    /\ stored = {}
    /\ updatedAt = [c \in Chats |->
          IF \E r \in Requests : Creates(r) /\ call[r].chat = c THEN Absent ELSE Never]
    /\ clock = 0

-----------------------------------------------------------------------------
(* Row locks of PostgreSQL.                                                *)

\* A foreign key check takes KEY SHARE on the row it refers to.
InsertLock == "KEY SHARE"

\* Mutant: the row is locked as if its key could change.
MutUpdateLock == "UPDATE"

\* An UPDATE that leaves the key alone takes NO KEY UPDATE.
UpdateLock == "NO KEY UPDATE"

Conflicts == {{"KEY SHARE", "UPDATE"}, {"NO KEY UPDATE"},
              {"NO KEY UPDATE", "UPDATE"}, {"UPDATE"}}

\* Locks are kept until the transaction is over.  A chat that is being created
\* is not yet there for anybody else to lock.
Holds(q) ==
    CASE tx[q] \in {"none", "open"} -> {}
      [] tx[q] = "inserted" -> {InsertLock}
      [] OTHER -> {InsertLock, UpdateLock}

Clear(r, mode) ==
    \A q \in Requests \ {r} :
        call[q].chat = call[r].chat => \A m \in Holds(q) : {m, mode} \notin Conflicts

-----------------------------------------------------------------------------
(* The context, the pool, the end of a call.                               *)

InFlight(r) == call[r].pc \notin {"idle", "ok", "failed"}

\* Calls that are inside the transaction, from BeginTx to its end.
Inside(r) == call[r].pc \in {"insert", "now", "update", "commit"}

\* A statement under way when the context ends may still return; none that
\* starts later does.
CtxAllows(s) == s.ctx # "expired"
Used(s) == [s EXCEPT !.ctx = IF @ = "live" THEN @ ELSE "expired"]

Become(r, s) == call' = [call EXCEPT ![r] = s]

\* The statements of a call in their order.  Create is an INSERT in the
\* transaction gorm puts around it, stamped before it is sent.
Following(s) ==
    CASE s.pc = "begin"  -> IF s.op = "create" THEN "now" ELSE "insert"
      [] s.pc = "now"    -> IF s.op = "create" THEN "insert" ELSE "update"
      [] s.pc = "insert" -> IF s.op = "create" THEN "commit" ELSE "now"
      [] s.pc = "update" -> "commit"
      [] s.pc = "commit" -> "ok"

Advance(s) == Used([s EXCEPT !.pc = Following(s)])

\* Mutant: the pool counts one too many.
MutPoolHasRoom == Cardinality(inUse) <= MaxConns

PoolHasRoom == Cardinality(inUse) < MaxConns

\* The transaction is given up.  Normally PostgreSQL is told; when the
\* connection is lost it finds out later (Abandoned).
\* Mutant: Begin without a deferred Rollback.
MutRollBack(r) == UNCHANGED <<inUse, tx>>

RollBack(r) ==
    /\ inUse' = inUse \ {r}
    /\ \/ tx' = [tx EXCEPT ![r] = "none"]
       \/ UNCHANGED tx

\* The rows that become visible with the transaction of r.
\* Mutant: the UPDATE names the user where it should name the chat.
MutTouched(r) == Chats

Touched(r) == {call[r].chat}

Publish(r) ==
    /\ stored' = stored \cup {r}
    /\ updatedAt' = [c \in Chats |-> IF c \in Touched(r) THEN r ELSE updatedAt[c]]
    /\ tx' = [tx EXCEPT ![r] = "none"]

-----------------------------------------------------------------------------
(* Create and CreateMessage.                                               *)

\* SendMessage and SendMessageStream have read the chat before they call.
Invoke(r) ==
    /\ call[r].pc = "idle"
    /\ ~ Creates(r) => updatedAt[call[r].chat] # Absent
    /\ Become(r, [call[r] EXCEPT !.pc = "begin", !.seen = stored])
    /\ UNCHANGED <<inUse, tx, stored, updatedAt, clock>>

\* BeginTx waits for a connection.
Begin(r) ==
    /\ call[r].pc = "begin"
    /\ CtxAllows(call[r])
    /\ PoolHasRoom
    /\ inUse' = inUse \cup {r}
    /\ tx' = [tx EXCEPT ![r] = "open"]
    /\ Become(r, Advance(call[r]))
    /\ UNCHANGED <<stored, updatedAt, clock>>

\* Mutant: the INSERT goes through r.db, outside the transaction.
MutInserted(r) == stored \cup {r}

Inserted(r) == stored

\* tx.Create(msg), or the INSERT of the chat.
Insert(r) ==
    /\ call[r].pc = "insert"
    /\ CtxAllows(call[r])
    /\ Clear(r, InsertLock)
    /\ tx' = [tx EXCEPT ![r] = "inserted"]
    /\ stored' = Inserted(r)
    /\ Become(r, Advance(call[r]))
    /\ UNCHANGED <<inUse, updatedAt, clock>>

\* time.Now(), read by the server before the UPDATE is sent, or by gorm for
\* autoUpdateTime before the INSERT is.
Now(r) ==
    /\ call[r].pc = "now"
    /\ clock' = clock + 1
    /\ Become(r, [call[r] EXCEPT !.pc = Following(call[r]), !.stamp = clock + 1])
    /\ UNCHANGED <<inUse, tx, stored, updatedAt>>

\* Update("updated_at", ...) waits for the row.
Update(r) ==
    /\ call[r].pc = "update"
    /\ CtxAllows(call[r])
    /\ Clear(r, UpdateLock)
    /\ tx' = [tx EXCEPT ![r] = "touched"]
    /\ Become(r, Advance(call[r]))
    /\ UNCHANGED <<inUse, stored, updatedAt, clock>>

Commit(r) ==
    /\ call[r].pc = "commit"
    /\ CtxAllows(call[r])
    /\ Publish(r)
    /\ inUse' = inUse \ {r}
    /\ Become(r, Advance(call[r]))
    /\ UNCHANGED clock

\* A step fails and the call returns the error.
Abort(r) ==
    /\ InFlight(r)
    /\ IF Inside(r) THEN RollBack(r) ELSE UNCHANGED <<inUse, tx>>
    /\ Become(r, [call[r] EXCEPT !.pc = "failed"])
    /\ UNCHANGED <<stored, updatedAt, clock>>

\* COMMIT was sent and its answer is lost.
CommitUnanswered(r) ==
    /\ call[r].pc = "commit"
    /\ CtxAllows(call[r])
    /\ tx' = [tx EXCEPT ![r] = "committing"]
    /\ inUse' = inUse \ {r}
    /\ Become(r, [call[r] EXCEPT !.pc = "failed"])
    /\ UNCHANGED <<stored, updatedAt, clock>>

-----------------------------------------------------------------------------
(* The client and PostgreSQL.                                              *)

Disconnect(r) ==
    /\ InFlight(r)
    /\ r \notin Detached
    /\ call[r].ctx = "live"
    /\ Become(r, [call[r] EXCEPT !.ctx = "cancelled"])
    /\ UNCHANGED <<inUse, tx, stored, updatedAt, clock>>

\* PostgreSQL ends a transaction whose client is gone.
Abandoned(r) == ~ Inside(r) /\ tx[r] # "none"

Orphaned(r) ==
    /\ Abandoned(r)
    /\ \/ /\ tx' = [tx EXCEPT ![r] = "none"]
          /\ UNCHANGED <<stored, updatedAt>>
       \/ /\ tx[r] = "committing"
          /\ Publish(r)
    /\ UNCHANGED <<call, inUse, clock>>

-----------------------------------------------------------------------------
\* What the code does of itself: the next statement returns, or the ended
\* context makes it return.
Step(r) ==
    \/ Begin(r) \/ Insert(r) \/ Now(r) \/ Update(r) \/ Commit(r)
    \/ call[r].ctx # "live" /\ Abort(r)

Next ==
    \E r \in Requests :
        Invoke(r) \/ Step(r) \/ Abort(r) \/ CommitUnanswered(r)
            \/ Disconnect(r) \/ Orphaned(r)

Spec == Init /\ [][Next]_vars

\* A statement that can be answered is answered, and PostgreSQL notices in
\* the end that a client is gone.
Fairness == \A r \in Requests : WF_vars(Step(r)) /\ WF_vars(Orphaned(r))

FairSpec == Spec /\ Fairness

-----------------------------------------------------------------------------
(* Properties.                                                             *)

\* The pool leaks nothing: a connection is held exactly by the calls inside
\* their transaction (the Rollback that gorm's Transaction defers, chat.go:68).
NoLeak == inUse = {r \in Requests : Inside(r)}

Waiting(r) ==
    \/ call[r].pc = "begin" /\ ~ PoolHasRoom
    \/ call[r].pc = "insert" /\ ~ Clear(r, InsertLock)
    \/ call[r].pc = "update" /\ ~ Clear(r, UpdateLock)

\* Calls wait for a connection and for the row of their chat, in that order,
\* and never all for one another: as long as calls are in flight one of them
\* can go on, or a transaction whose client is gone is about to be ended.
SomeoneCanMove ==
    (\E r \in Requests : InFlight(r))
        => \E r \in Requests : Abandoned(r) \/ (InFlight(r) /\ ~ Waiting(r))

TimeOf(c) == IF updatedAt[c] = Never THEN 0 ELSE call[updatedAt[c]].stamp

\* ListByUserID: Order("updated_at DESC").
ListedBefore(c, d) == TimeOf(c) > TimeOf(d)

\* What is stored of a chat: its own row when a call made it, and its messages.
Rows(c) == {r \in stored : call[r].chat = c}

\* The latest of them: nothing of the chat came after it.  There are several
\* when calls overlapped.
Latest(c) == {r \in Rows(c) : \A q \in Rows(c) : r \notin call[q].seen}

\* The chat list is sorted by updated_at (ListByUserID).  A chat whose latest
\* message, or creation, came after everything that is stored of another chat
\* sorts before that chat.  When messages to it overlapped, the clock that was
\* read first may be the one that is written last (chat.go:74); it is enough
\* that each of those came after the other chat.
LatestFirst ==
    \A c \in Chats, d \in Chats :
        /\ c # d /\ updatedAt[d] # Absent
        /\ Latest(c) # {} /\ \A r \in Latest(c) : Rows(d) \subseteq call[r].seen
        => ListedBefore(c, d)

\* Every call returns, whatever the others do: nobody waits for good for a
\* connection or for the row of a chat.
EveryCallEnds == \A r \in Requests : InFlight(r) ~> ~ InFlight(r)

Verdicts ==
    [r \in Requests |->
        IF call[r].pc \in {"ok", "failed"} THEN call[r].pc ELSE "pending"]

Log == INSTANCE ChatLog WITH
    Requests <- Requests, Chats <- Chats, Never <- Never, Absent <- Absent,
    made <- {r \in stored : Creates(r)}, posted <- {r \in stored : ~ Creates(r)},
    touchedBy <- updatedAt, verdict <- Verdicts

\* The calls, their transactions and PostgreSQL's locks implement the abstract
\* log: a row and updated_at appear together, once, no message comes before its
\* chat, and "ok" is told of stored rows only.
ImplementsChatLog == Log!Spec
=============================================================================
