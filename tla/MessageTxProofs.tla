-------------------------- MODULE MessageTxProofs --------------------------
(***************************************************************************)
(* What holds of MessageTx for any number of calls, chats and connections. *)
(***************************************************************************)
EXTENDS MessageTx, TLAPS, FiniteSetTheorems

\* The transaction PostgreSQL holds is as far as the call is; a call that
\* failed may leave one behind.
TxFollowsCall ==
    \A r \in Requests :
        /\ call[r].pc \in {"idle", "begin", "ok"} => tx[r] = "none"
        /\ call[r].pc = "insert" => tx[r] = "open"
        /\ call[r].pc = "now" => tx[r] = IF Creates(r) THEN "open" ELSE "inserted"
        /\ call[r].pc = "update" => tx[r] = "inserted" /\ ~ Creates(r)
        /\ call[r].pc = "commit" => tx[r] = IF Creates(r) THEN "inserted" ELSE "touched"

\* A row is published when its transaction ends, and "ok" is told with it.
PublishedOnce ==
    \A r \in Requests :
        /\ r \in stored => call[r].pc \in {"ok", "failed"} /\ tx[r] = "none"
        /\ call[r].pc = "ok" => r \in stored

\* A chat that is being created has an id nobody else knows: no other call makes
\* it, and no message is sent to it before it is stored.
ChatsFirst ==
    /\ \A r, q \in Requests :
          Creates(r) /\ Creates(q) /\ call[q].chat = call[r].chat => q = r
    /\ \A r \in Requests :
          /\ Creates(r) /\ r \notin stored => updatedAt[call[r].chat] = Absent
          /\ ~ Creates(r) /\ call[r].pc # "idle" => updatedAt[call[r].chat] # Absent

\* Finite, because a connection is taken one at a time.
FinitePool == IsFiniteSet(inUse)

IInv == TypeOK /\ FinitePool /\ NoLeak /\ TxFollowsCall /\ PublishedOnce
        /\ ChatsFirst

-----------------------------------------------------------------------------
\* The pool with a connection more or less.
LEMMA Taken ==
    ASSUME NEW S, IsFiniteSet(S), Cardinality(S) < MaxConns, NEW r
    PROVE  IsFiniteSet(S \cup {r}) /\ Cardinality(S \cup {r}) <= MaxConns
<1>1. Cardinality(S) \in Nat
  BY FS_CardinalityType
<1>2. /\ IsFiniteSet(S \cup {r})
      /\ \/ Cardinality(S \cup {r}) = Cardinality(S)
         \/ Cardinality(S \cup {r}) = Cardinality(S) + 1
  BY FS_AddElement
<1>3. QED
  BY <1>1, <1>2, MaxConnsAssumption

LEMMA GivenBack ==
    ASSUME NEW S, IsFiniteSet(S), Cardinality(S) <= MaxConns, NEW r
    PROVE  IsFiniteSet(S \ {r}) /\ Cardinality(S \ {r}) <= MaxConns
<1>1. Cardinality(S) \in Nat
  BY FS_CardinalityType
<1>2. /\ IsFiniteSet(S \ {r})
      /\ \/ Cardinality(S \ {r}) = Cardinality(S)
         \/ Cardinality(S \ {r}) = Cardinality(S) - 1
  BY FS_RemoveElement
<1>3. QED
  BY <1>1, <1>2, MaxConnsAssumption

\* Where a call can go.
NextPcs == {"begin", "insert", "now", "update", "commit", "ok", "failed"}

\* A statement that returns moves its call on, and no other.
LEMMA MovesOn ==
    ASSUME call \in [Requests -> Call], NEW r \in Requests,
           call[r].pc \in {"begin", "insert", "now", "update", "commit"},
           Become(r, Advance(call[r]))
    PROVE  /\ call' \in [Requests -> Call]
           /\ call'[r].pc = Following(call[r])
           /\ call'[r].op = call[r].op /\ call'[r].chat = call[r].chat
           /\ call'[r].seen = call[r].seen /\ call'[r].stamp = call[r].stamp
           /\ \A q \in Requests \ {r} : call'[q] = call[q]
<1> DEFINE p == Following(call[r])
           s == [call[r] EXCEPT !.pc = p]
<1>1. p \in NextPcs
  BY DEF Following, NextPcs
<1> HIDE DEF p
<1>2. /\ s \in Call /\ s.pc = p /\ s.op = call[r].op /\ s.chat = call[r].chat
      /\ s.seen = call[r].seen /\ s.stamp = call[r].stamp
  BY <1>1 DEF Call, NextPcs
<1>3. /\ Used(s) \in Call /\ Used(s).pc = s.pc /\ Used(s).op = s.op
      /\ Used(s).chat = s.chat /\ Used(s).seen = s.seen /\ Used(s).stamp = s.stamp
  <2>1. s \in Call => /\ Used(s) \in Call /\ Used(s).pc = s.pc /\ Used(s).op = s.op
                      /\ Used(s).chat = s.chat /\ Used(s).seen = s.seen
                      /\ Used(s).stamp = s.stamp
    <3> HIDE DEF s
    <3> QED
      BY DEF Used, Call
  <2>2. QED
    BY <1>2, <2>1
<1>4. call' = [call EXCEPT ![r] = Used(s)]
  BY DEF Become, Advance, p
<1> HIDE DEF s
<1>5. QED
  BY <1>2, <1>3, <1>4 DEF p

\* The same of a call that fails.
LEMMA GivesUp ==
    ASSUME call \in [Requests -> Call], NEW r \in Requests,
           Become(r, [call[r] EXCEPT !.pc = "failed"])
    PROVE  /\ call' \in [Requests -> Call]
           /\ call'[r].pc = "failed"
           /\ call'[r].op = call[r].op /\ call'[r].chat = call[r].chat
           /\ call'[r].seen = call[r].seen /\ call'[r].stamp = call[r].stamp
           /\ \A q \in Requests \ {r} : call'[q] = call[q]
<1> DEFINE s == [call[r] EXCEPT !.pc = "failed"]
<1>1. /\ s \in Call /\ s.pc = "failed" /\ s.op = call[r].op /\ s.chat = call[r].chat
      /\ s.seen = call[r].seen /\ s.stamp = call[r].stamp
  BY DEF Call
<1>2. call' = [call EXCEPT ![r] = s]
  BY DEF Become
<1> HIDE DEF s
<1>3. QED
  BY <1>1, <1>2

\* The same of time.Now().
LEMMA ReadsClock ==
    ASSUME call \in [Requests -> Call], clock \in Nat, NEW r \in Requests, Now(r)
    PROVE  /\ call' \in [Requests -> Call]
           /\ call[r].pc = "now"
           /\ call'[r].pc = Following(call[r]) /\ call'[r].stamp = clock + 1
           /\ call'[r].op = call[r].op /\ call'[r].chat = call[r].chat
           /\ call'[r].seen = call[r].seen
           /\ \A q \in Requests \ {r} : call'[q] = call[q]
<1> DEFINE p == Following(call[r])
           s == [call[r] EXCEPT !.pc = p, !.stamp = clock + 1]
<1>1. call[r].pc = "now" /\ call' = [call EXCEPT ![r] = s]
  BY DEF Now, Become
<1>2. p \in NextPcs
  BY <1>1 DEF Following, NextPcs
<1> HIDE DEF p
<1>3. /\ s \in Call /\ s.pc = p /\ s.op = call[r].op /\ s.chat = call[r].chat
      /\ s.seen = call[r].seen /\ s.stamp = clock + 1
  <2>1. clock + 1 \in Nat /\ call[r] \in Call
    OBVIOUS
  <2>2. QED
    BY <1>2, <2>1 DEF Call, NextPcs
<1> HIDE DEF s
<1>4. QED
  BY <1>1, <1>3 DEF p

\* A type-correct state stays so: the one delicate part is the pool, which
\* Begin enlarges only when it has room.
LEMMA TypeStep ==
    ASSUME TypeOK, FinitePool, [Next]_vars
    PROVE  TypeOK' /\ FinitePool'
<1> USE DEF TypeOK, FinitePool
<1>1. CASE UNCHANGED vars
  BY <1>1 DEF vars
<1>2. ASSUME NEW r \in Requests
      PROVE  IsFiniteSet(inUse \ {r}) /\ Cardinality(inUse \ {r}) <= MaxConns
  BY GivenBack
<1>3. ASSUME NEW r \in Requests, Invoke(r) PROVE TypeOK' /\ FinitePool'
  <2>1. [call[r] EXCEPT !.pc = "begin", !.seen = stored] \in Call
    <3>1. call[r] \in Call /\ stored \in SUBSET Requests
      OBVIOUS
    <3> HIDE DEF TypeOK, FinitePool
    <3>2. QED
      BY <3>1 DEF Call
  <2>2. call' \in [Requests -> Call]
    BY <1>3, <2>1 DEF Invoke, Become
  <2>3. QED
    BY <1>3, <2>2 DEF Invoke
<1>4. ASSUME NEW r \in Requests, Begin(r) PROVE TypeOK' /\ FinitePool'
  <2>1. IsFiniteSet(inUse') /\ Cardinality(inUse') <= MaxConns
    BY <1>4, Taken DEF Begin, PoolHasRoom
  <2>2. call' \in [Requests -> Call]
    BY <1>4, MovesOn DEF Begin
  <2>3. tx' \in [Requests -> TxStates]
    BY <1>4 DEF Begin, TxStates
  <2>4. QED
    BY <1>4, <2>1, <2>2, <2>3 DEF Begin
<1>5. ASSUME NEW r \in Requests, Insert(r) PROVE TypeOK' /\ FinitePool'
  <2>1. call' \in [Requests -> Call]
    BY <1>5, MovesOn DEF Insert
  <2>2. tx' \in [Requests -> TxStates]
    BY <1>5 DEF Insert, TxStates
  <2>3. QED
    BY <1>5, <2>1, <2>2 DEF Insert, Inserted
<1>6. ASSUME NEW r \in Requests, Now(r) PROVE TypeOK' /\ FinitePool'
  <2>1. clock' \in Nat
    BY <1>6 DEF Now
  <2>2. call' \in [Requests -> Call]
    BY <1>6, ReadsClock
  <2>3. QED
    BY <1>6, <2>1, <2>2 DEF Now
<1>7. ASSUME NEW r \in Requests, Update(r) PROVE TypeOK' /\ FinitePool'
  <2>1. call' \in [Requests -> Call]
    BY <1>7, MovesOn DEF Update
  <2>2. tx' \in [Requests -> TxStates]
    BY <1>7 DEF Update, TxStates
  <2>3. QED
    BY <1>7, <2>1, <2>2 DEF Update
<1>8. ASSUME NEW r \in Requests, Commit(r) PROVE TypeOK' /\ FinitePool'
  <2>1. call' \in [Requests -> Call]
    BY <1>8, MovesOn DEF Commit
  <2>2. /\ tx' \in [Requests -> TxStates]
        /\ stored' \subseteq Requests
        /\ updatedAt' \in [Chats -> Requests \cup {Never, Absent}]
    BY <1>8 DEF Commit, Publish, TxStates
  <2>3. QED
    BY <1>2, <1>8, <2>1, <2>2 DEF Commit
<1>9. ASSUME NEW r \in Requests, Abort(r) PROVE TypeOK' /\ FinitePool'
  <2>1. call' \in [Requests -> Call]
    BY <1>9, GivesUp DEF Abort
  <2>2. /\ tx' \in [Requests -> TxStates]
        /\ inUse' = inUse \/ inUse' = inUse \ {r}
    BY <1>9 DEF Abort, RollBack, TxStates
  <2>3. QED
    BY <1>2, <1>9, <2>1, <2>2 DEF Abort
<1>10. ASSUME NEW r \in Requests, CommitUnanswered(r) PROVE TypeOK' /\ FinitePool'
  <2>1. call' \in [Requests -> Call]
    BY <1>10, GivesUp DEF CommitUnanswered
  <2>2. tx' \in [Requests -> TxStates]
    BY <1>10 DEF CommitUnanswered, TxStates
  <2>3. QED
    BY <1>2, <1>10, <2>1, <2>2 DEF CommitUnanswered
<1>11. ASSUME NEW r \in Requests, Disconnect(r) PROVE TypeOK' /\ FinitePool'
  BY <1>11 DEF Disconnect, Become, Call
<1>12. ASSUME NEW r \in Requests, Orphaned(r) PROVE TypeOK' /\ FinitePool'
  <2>1. /\ tx' \in [Requests -> TxStates]
        /\ stored' \subseteq Requests
        /\ updatedAt' \in [Chats -> Requests \cup {Never, Absent}]
    BY <1>12 DEF Orphaned, Publish, TxStates
  <2>2. QED
    BY <1>12, <2>1 DEF Orphaned
<1>13. QED
  BY <1>1, <1>3, <1>4, <1>5, <1>6, <1>7, <1>8, <1>9, <1>10, <1>11, <1>12
     DEF Next, Step

\* The pool, the transactions and the published rows stay in step.
LEMMA IInvStep ==
    ASSUME IInv, [Next]_vars
    PROVE  IInv'
<1>1. TypeOK' /\ FinitePool'
  BY TypeStep DEF IInv
<1> DEFINE Steady == NoLeak /\ TxFollowsCall /\ PublishedOnce
<1> SUFFICES Steady' /\ ChatsFirst'
  BY <1>1 DEF IInv
<1>t. /\ call \in [Requests -> Call] /\ clock \in Nat
      /\ tx \in [Requests -> TxStates]
      /\ inUse \subseteq Requests /\ stored \subseteq Requests
      /\ updatedAt \in [Chats -> Requests \cup {Never, Absent}]
  BY DEF IInv, TypeOK
<1>i. Steady /\ ChatsFirst
  BY DEF IInv
<1>c. \A r \in Requests : call[r].chat \in Chats
  BY <1>t DEF Call
<1>2. CASE UNCHANGED vars
  BY <1>2, <1>i DEF vars, NoLeak, TxFollowsCall, PublishedOnce, Inside, ChatsFirst, Creates
<1>k. ASSUME NEW r \in Requests, UNCHANGED <<stored, updatedAt>>,
             call[r].pc # "idle",
             call'[r].op = call[r].op, call'[r].chat = call[r].chat,
             \A q \in Requests \ {r} : call'[q] = call[q]
      PROVE  ChatsFirst'
  BY <1>i, <1>k DEF ChatsFirst, Creates
<1>3. ASSUME NEW r \in Requests, Invoke(r) PROVE Steady' /\ ChatsFirst'
  <2>1. /\ call[r].pc = "idle" /\ call'[r].pc = "begin" /\ UNCHANGED <<stored, updatedAt, tx, inUse>>
        /\ call'[r].op = call[r].op /\ call'[r].chat = call[r].chat
        /\ \A q \in Requests \ {r} : call'[q] = call[q]
    BY <1>t, <1>3 DEF Invoke, Become, Call
  <2>2. Creates(r) \/ updatedAt[call[r].chat] # Absent
    BY <1>3 DEF Invoke
  <2>3. ChatsFirst'
    BY <1>i, <2>1, <2>2 DEF ChatsFirst, Creates
  <2>4. QED
    BY <1>t, <1>i, <2>1, <2>3 DEF NoLeak, TxFollowsCall, PublishedOnce, Inside, Creates
<1>4. ASSUME NEW r \in Requests, Begin(r) PROVE Steady' /\ ChatsFirst'
  <2>1. /\ call[r].pc = "begin" /\ call'[r].pc = IF Creates(r) THEN "now" ELSE "insert"
        /\ call'[r].op = call[r].op /\ call'[r].chat = call[r].chat
        /\ \A q \in Requests \ {r} : call'[q] = call[q]
    BY <1>t, <1>4, MovesOn DEF Begin, Following, Creates
  <2>2. ChatsFirst'
    BY <1>4, <1>k, <2>1 DEF Begin
  <2>3. QED
    BY <1>t, <1>i, <1>4, <2>1, <2>2 DEF Begin, NoLeak, TxFollowsCall,
          PublishedOnce, Inside, Creates
<1>5. ASSUME NEW r \in Requests, Insert(r) PROVE Steady' /\ ChatsFirst'
  <2>1. /\ call[r].pc = "insert" /\ call'[r].pc = IF Creates(r) THEN "commit" ELSE "now"
        /\ call'[r].op = call[r].op /\ call'[r].chat = call[r].chat
        /\ \A q \in Requests \ {r} : call'[q] = call[q]
    BY <1>t, <1>5, MovesOn DEF Insert, Following, Creates
  <2>2. ChatsFirst'
    BY <1>5, <1>k, <2>1 DEF Insert, Inserted
  <2>3. QED
    BY <1>t, <1>i, <1>5, <2>1, <2>2 DEF Insert, Inserted, NoLeak, TxFollowsCall,
          PublishedOnce, Inside, Creates
<1>6. ASSUME NEW r \in Requests, Now(r) PROVE Steady' /\ ChatsFirst'
  <2>1. /\ call[r].pc = "now" /\ call'[r].pc = IF Creates(r) THEN "insert" ELSE "update"
        /\ call'[r].op = call[r].op /\ call'[r].chat = call[r].chat
        /\ \A q \in Requests \ {r} : call'[q] = call[q]
    BY <1>t, <1>6, ReadsClock DEF Following, Creates
  <2>2. ChatsFirst'
    BY <1>6, <1>k, <2>1 DEF Now
  <2>3. QED
    BY <1>t, <1>i, <1>6, <2>1, <2>2 DEF Now, NoLeak, TxFollowsCall,
          PublishedOnce, Inside, Creates
<1>7. ASSUME NEW r \in Requests, Update(r) PROVE Steady' /\ ChatsFirst'
  <2>1. /\ call[r].pc = "update" /\ call'[r].pc = "commit"
        /\ call'[r].op = call[r].op /\ call'[r].chat = call[r].chat
        /\ \A q \in Requests \ {r} : call'[q] = call[q]
    BY <1>t, <1>7, MovesOn DEF Update, Following
  <2>2. ChatsFirst'
    BY <1>7, <1>k, <2>1 DEF Update
  <2>3. QED
    BY <1>t, <1>i, <1>7, <2>1, <2>2 DEF Update, NoLeak, TxFollowsCall,
          PublishedOnce, Inside, Creates
<1>p. ASSUME NEW r \in Requests, Publish(r), r \notin stored, call[r].pc # "idle",
             call'[r].op = call[r].op, call'[r].chat = call[r].chat,
             \A q \in Requests \ {r} : call'[q] = call[q]
      PROVE  ChatsFirst'
  <2>1. /\ stored' = stored \cup {r} /\ updatedAt'[call[r].chat] = r
        /\ \A c \in Chats \ {call[r].chat} : updatedAt'[c] = updatedAt[c]
    BY <1>p, <1>c DEF Publish, Touched
  <2>2. r # Absent
    BY NeverAssumption
  <2>3. ASSUME NEW q \in Requests, Creates(q), q \notin stored'
        PROVE  updatedAt'[call[q].chat] = Absent
    <3>1. updatedAt[call[q].chat] = Absent /\ q # r
      BY <1>i, <2>1, <2>3 DEF ChatsFirst
    <3>2. call[q].chat # call[r].chat
      BY <1>i, <1>p, <2>3, <3>1 DEF ChatsFirst
    <3>3. QED
      BY <1>c, <2>1, <3>1, <3>2
  <2>4. ASSUME NEW q \in Requests, ~ Creates(q), call[q].pc # "idle"
        PROVE  updatedAt'[call[q].chat] # Absent
    BY <1>i, <1>c, <2>1, <2>2, <2>4 DEF ChatsFirst
  <2>5. QED
    BY <1>i, <1>p, <2>3, <2>4 DEF ChatsFirst, Creates
<1>8. ASSUME NEW r \in Requests, Commit(r) PROVE Steady' /\ ChatsFirst'
  <2>1. /\ call[r].pc = "commit" /\ call'[r].pc = "ok"
        /\ call'[r].op = call[r].op /\ call'[r].chat = call[r].chat
        /\ \A q \in Requests \ {r} : call'[q] = call[q]
    BY <1>t, <1>8, MovesOn DEF Commit, Following
  <2>2. r \notin stored
    BY <1>i, <2>1 DEF PublishedOnce
  <2>3. ChatsFirst'
    BY <1>8, <1>p, <2>1, <2>2 DEF Commit
  <2>4. QED
    BY <1>t, <1>i, <1>8, <2>1, <2>3 DEF Commit, Publish, NoLeak, TxFollowsCall,
          PublishedOnce, Inside, Creates
<1>9. ASSUME NEW r \in Requests, Abort(r) PROVE Steady' /\ ChatsFirst'
  <2>1. /\ call[r].pc # "idle" /\ call'[r].pc = "failed"
        /\ call'[r].op = call[r].op /\ call'[r].chat = call[r].chat
        /\ \A q \in Requests \ {r} : call'[q] = call[q]
    BY <1>t, <1>9, GivesUp DEF Abort, InFlight
  <2>2. ChatsFirst'
    BY <1>9, <1>k, <2>1 DEF Abort
  <2>3. QED
    BY <1>t, <1>i, <1>9, <2>1, <2>2 DEF Abort, RollBack, InFlight, NoLeak, TxFollowsCall,
          PublishedOnce, Inside, Creates
<1>10. ASSUME NEW r \in Requests, CommitUnanswered(r) PROVE Steady' /\ ChatsFirst'
  <2>1. /\ call[r].pc = "commit" /\ call'[r].pc = "failed"
        /\ call'[r].op = call[r].op /\ call'[r].chat = call[r].chat
        /\ \A q \in Requests \ {r} : call'[q] = call[q]
    BY <1>t, <1>10, GivesUp DEF CommitUnanswered
  <2>2. ChatsFirst'
    BY <1>10, <1>k, <2>1 DEF CommitUnanswered
  <2>3. QED
    BY <1>t, <1>i, <1>10, <2>1, <2>2 DEF CommitUnanswered, NoLeak, TxFollowsCall,
          PublishedOnce, Inside, Creates
<1>11. ASSUME NEW r \in Requests, Disconnect(r) PROVE Steady' /\ ChatsFirst'
  <2>1. /\ call[r].pc # "idle" /\ call'[r].pc = call[r].pc
        /\ call'[r].op = call[r].op /\ call'[r].chat = call[r].chat
        /\ \A q \in Requests \ {r} : call'[q] = call[q]
        /\ UNCHANGED <<inUse, tx, stored, updatedAt>>
    BY <1>t, <1>11 DEF Disconnect, Become, Call, InFlight
  <2>2. ChatsFirst'
    BY <1>k, <2>1
  <2>3. QED
    BY <1>t, <1>i, <2>1, <2>2 DEF NoLeak, TxFollowsCall, PublishedOnce, Inside, Creates
<1>12. ASSUME NEW r \in Requests, Orphaned(r) PROVE Steady' /\ ChatsFirst'
  <2>1. call[r].pc = "failed" /\ tx[r] # "none" /\ r \notin stored
    BY <1>t, <1>i, <1>12 DEF Orphaned, Abandoned, Inside, TxFollowsCall, PublishedOnce, Call
  <2>2. Steady'
    BY <1>t, <1>i, <1>12, <2>1 DEF Orphaned, Publish, NoLeak, TxFollowsCall,
          PublishedOnce, Inside, Creates
  <2>3. CASE UNCHANGED <<stored, updatedAt>>
    <3>1. ChatsFirst'
      BY <1>12, <1>k, <2>1, <2>3 DEF Orphaned
    <3>2. QED
      BY <2>2, <3>1
  <2>4. CASE Publish(r)
    <3>1. ChatsFirst'
      BY <1>12, <1>p, <2>1, <2>4 DEF Orphaned
    <3>2. QED
      BY <2>2, <3>1
  <2>5. QED
    BY <1>12, <2>3, <2>4 DEF Orphaned
<1>13. QED
  BY <1>2, <1>3, <1>4, <1>5, <1>6, <1>7, <1>8, <1>9, <1>10, <1>11, <1>12
     DEF Next, Step

LEMMA InitIInv ==
    ASSUME Init
    PROVE  IInv
<1>1. IsFiniteSet({}) /\ Cardinality({}) = 0
  BY FS_EmptySet
<1>2. \A r \in Requests : /\ call[r].pc = "idle" /\ call[r].chat \in Chats
                          /\ call[r] \in Call
  BY DEF Init, Call
<1>3. ChatsFirst
  BY <1>2 DEF Init, ChatsFirst
<1>4. TypeOK
  BY <1>1, <1>2, MaxConnsAssumption DEF Init, TypeOK, TxStates
<1>5. QED
  BY <1>1, <1>2, <1>3, <1>4
     DEF Init, IInv, FinitePool, NoLeak, Inside, TxFollowsCall, PublishedOnce

\* The inductive invariant of CreateMessage at the level of its statements.
THEOREM Invariant == Spec => []IInv
<1>1. Init => IInv
  BY InitIInv
<1>2. IInv /\ [Next]_vars => IInv'
  BY IInvStep
<1>3. QED
  BY <1>1, <1>2, PTL DEF Spec

\* Every reachable state is well typed, and no more connections are in use
\* than the pool may open.
THEOREM TypeCorrect == Spec => []TypeOK
<1>1. IInv => TypeOK
  BY DEF IInv
<1>2. QED
  BY <1>1, Invariant, PTL

\* No call that has returned keeps a connection, and none inside its
\* transaction is without one, however it ended.
THEOREM NoLeakHolds == Spec => []NoLeak
<1>1. IInv => NoLeak
  BY DEF IInv
<1>2. QED
  BY <1>1, Invariant, PTL

\* Who waits for the row of a chat waits for a call at its COMMIT, or for a
\* transaction whose client is gone: the KEY SHARE of an INSERT is in
\* nobody's way.
LEMMA RowWait ==
    ASSUME IInv, NEW r \in Requests, InFlight(r), Waiting(r), call[r].pc # "begin"
    PROVE  \E q \in Requests : Abandoned(q) \/ (InFlight(q) /\ ~ Waiting(q))
<1>0. /\ "UPDATE" # "KEY SHARE" /\ "UPDATE" # "NO KEY UPDATE"
      /\ "KEY SHARE" # "NO KEY UPDATE"
  OBVIOUS
<1>1. \A m \in {"KEY SHARE", "NO KEY UPDATE"} : {m, "KEY SHARE"} \notin Conflicts
  <2> SUFFICES ASSUME NEW m \in {"KEY SHARE", "NO KEY UPDATE"},
                      {m, "KEY SHARE"} \in Conflicts
               PROVE  FALSE
    OBVIOUS
  <2>1. "KEY SHARE" \in {m, "KEY SHARE"} /\ "UPDATE" \notin {m, "KEY SHARE"}
    BY <1>0
  <2>2. \A p \in Conflicts : "UPDATE" \in p \/ p = {"NO KEY UPDATE"}
    BY DEF Conflicts
  <2>3. "KEY SHARE" \notin {"NO KEY UPDATE"}
    BY <1>0
  <2>4. QED
    BY <2>1, <2>2, <2>3
<1>2. \A q \in Requests : Holds(q) \subseteq {"KEY SHARE", "NO KEY UPDATE"}
  BY DEF Holds, InsertLock, UpdateLock
<1>3. Clear(r, InsertLock)
  BY <1>1, <1>2 DEF Clear, InsertLock
<1>4. call[r].pc = "update" /\ ~ Clear(r, UpdateLock)
  BY <1>3 DEF Waiting
<1>5. PICK q \in Requests : \E m \in Holds(q) : {m, "NO KEY UPDATE"} \in Conflicts
  BY <1>4 DEF Clear, UpdateLock
<1>6. {"KEY SHARE", "NO KEY UPDATE"} \notin Conflicts
  <2>1. {"KEY SHARE", "NO KEY UPDATE"} = {"NO KEY UPDATE", "KEY SHARE"}
    OBVIOUS
  <2>2. QED
    BY <1>1, <2>1
<1>7. Holds(q) # {} /\ Holds(q) # {"KEY SHARE"}
  BY <1>5, <1>6
<1>8. tx[q] \notin {"none", "open", "inserted"}
  BY <1>7 DEF Holds, InsertLock
<1>9. call[q].pc \in {"commit", "failed"}
  BY <1>8 DEF IInv, TypeOK, Call, TxFollowsCall
<1>10. CASE call[q].pc = "commit"
  BY <1>10 DEF InFlight, Waiting
<1>11. CASE call[q].pc = "failed"
  BY <1>8, <1>11 DEF Abandoned, Inside
<1>12. QED
  BY <1>9, <1>10, <1>11

\* Connections and rows are waited for in that order, so the calls in flight
\* never all wait for one another, however many there are and however small
\* the pool is.
THEOREM SomeoneCanMoveHolds == Spec => []SomeoneCanMove
<1>1. ASSUME IInv PROVE SomeoneCanMove
  <2> SUFFICES ASSUME NEW r \in Requests, InFlight(r)
               PROVE  \E q \in Requests : Abandoned(q) \/ (InFlight(q) /\ ~ Waiting(q))
    BY DEF SomeoneCanMove
  <2>1. CASE ~ Waiting(r)
    BY <2>1
  <2>2. CASE Waiting(r) /\ call[r].pc # "begin"
    BY <1>1, <2>2, RowWait
  <2>3. CASE Waiting(r) /\ call[r].pc = "begin"
    <3>1. ~ PoolHasRoom
      BY <2>3 DEF Waiting
    <3>2. inUse # {}
      BY <3>1, FS_EmptySet, MaxConnsAssumption DEF PoolHasRoom
    <3>3. PICK q \in Requests : Inside(q)
      BY <3>2, <1>1 DEF IInv, NoLeak
    <3>4. InFlight(q) /\ call[q].pc # "begin"
      BY <3>3 DEF Inside, InFlight
    <3>5. CASE Waiting(q)
      BY <1>1, <3>4, <3>5, RowWait
    <3>6. CASE ~ Waiting(q)
      BY <3>4, <3>6
    <3>7. QED
      BY <3>5, <3>6
  <2>4. QED
    BY <2>1, <2>2, <2>3
<1>2. QED
  BY <1>1, Invariant, PTL

-----------------------------------------------------------------------------
(* The abstract log.                                                       *)

\* Who a call is for and what it does stay the same.
SameOps == \A q \in Requests : call'[q].op = call[q].op

\* A row is published by its own call, once: a chat when it is not there yet, a
\* message when its chat is.
LEMMA PublishStores ==
    ASSUME IInv, NEW r \in Requests, Publish(r), SameOps,
           r \notin stored, call[r].pc # "idle", Verdicts[r] # "ok",
           \/ Verdicts' = Verdicts
           \/ Verdicts[r] = "pending" /\ Verdicts' = [Verdicts EXCEPT ![r] = "ok"]
    PROVE  \E c \in Chats : Log!Make(r, c) \/ Log!Post(r, c)
<1>1. /\ stored \subseteq Requests /\ call[r].chat \in Chats
      /\ updatedAt \in [Chats -> Requests \cup {Never, Absent}]
  BY DEF IInv, TypeOK, Call
<1>2. /\ stored' = stored \cup {r}
      /\ updatedAt' = [updatedAt EXCEPT ![call[r].chat] = r]
  BY <1>1 DEF Publish, Touched
<1>3. Log!Store(r, call[r].chat)
  BY <1>2 DEF Log!Store
<1>4. CASE Creates(r)
  <2>1. updatedAt[call[r].chat] = Absent
    BY <1>4 DEF IInv, ChatsFirst
  <2>2. /\ {q \in stored : Creates(q)}' = {q \in stored : Creates(q)} \cup {r}
        /\ {q \in stored : ~ Creates(q)}' = {q \in stored : ~ Creates(q)}
    BY <1>1, <1>2, <1>4 DEF SameOps, Creates
  <2>3. Log!Make(r, call[r].chat)
    BY <1>3, <2>1, <2>2 DEF Log!Make
  <2>4. QED
    BY <1>1, <2>3
<1>5. CASE ~ Creates(r)
  <2>1. updatedAt[call[r].chat] # Absent
    BY <1>5 DEF IInv, ChatsFirst
  <2>2. /\ {q \in stored : Creates(q)}' = {q \in stored : Creates(q)}
        /\ {q \in stored : ~ Creates(q)}' = {q \in stored : ~ Creates(q)} \cup {r}
    BY <1>1, <1>2, <1>5 DEF SameOps, Creates
  <2>3. Log!Post(r, call[r].chat)
    BY <1>3, <2>1, <2>2 DEF Log!Post
  <2>4. QED
    BY <1>1, <2>3
<1>6. QED
  BY <1>4, <1>5

\* Every step of a call is a step of the log, or none.
LEMMA LogStep ==
    ASSUME IInv, [Next]_vars
    PROVE  [Log!Next]_(Log!lvars)
<1>t. /\ call \in [Requests -> Call] /\ clock \in Nat /\ stored \subseteq Requests
      /\ \A r \in Requests : call[r].chat \in Chats
  BY DEF IInv, TypeOK, Call
<1>s. ASSUME UNCHANGED stored, SameOps
      PROVE  /\ {q \in stored : Creates(q)}' = {q \in stored : Creates(q)}
             /\ {q \in stored : ~ Creates(q)}' = {q \in stored : ~ Creates(q)}
  BY <1>t, <1>s DEF SameOps, Creates
<1>1. CASE UNCHANGED vars
  BY <1>1 DEF vars, Log!lvars, Verdicts, Creates
<1>2. ASSUME NEW r \in Requests,
             Invoke(r) \/ Begin(r) \/ Insert(r) \/ Now(r) \/ Update(r)
               \/ Disconnect(r)
      PROVE  UNCHANGED Log!lvars
  <2>1. UNCHANGED <<stored, updatedAt>>
    BY <1>2 DEF Invoke, Begin, Insert, Inserted, Now, Update, Disconnect
  <2>2. /\ call[r].pc \notin {"ok", "failed"}
        /\ call'[r].pc \notin {"ok", "failed"}
        /\ call'[r].op = call[r].op
        /\ \A q \in Requests \ {r} : call'[q] = call[q]
    <3>1. CASE Invoke(r)
      BY <1>t, <3>1 DEF Invoke, Become, Call
    <3>2. CASE Begin(r)
      BY <1>t, <3>2, MovesOn DEF Begin, Following
    <3>3. CASE Insert(r)
      BY <1>t, <3>3, MovesOn DEF Insert, Following
    <3>4. CASE Now(r)
      BY <1>t, <3>4, ReadsClock DEF Following
    <3>5. CASE Update(r)
      BY <1>t, <3>5, MovesOn DEF Update, Following
    <3>6. CASE Disconnect(r)
      BY <1>t, <3>6 DEF Disconnect, Become, Call, InFlight
    <3>7. QED
      BY <1>2, <3>1, <3>2, <3>3, <3>4, <3>5, <3>6
  <2>3. Verdicts' = Verdicts
    BY <2>2 DEF Verdicts
  <2>4. SameOps
    BY <2>2 DEF SameOps
  <2>5. QED
    BY <1>s, <2>1, <2>3, <2>4 DEF Log!lvars
<1>3. ASSUME NEW r \in Requests, Commit(r)
      PROVE  \E c \in Chats : Log!Make(r, c) \/ Log!Post(r, c)
  <2>1. /\ call[r].pc = "commit" /\ call'[r].pc = "ok" /\ call'[r].op = call[r].op
        /\ \A q \in Requests \ {r} : call'[q] = call[q]
    BY <1>t, <1>3, MovesOn DEF Commit, Following
  <2>2. r \notin stored /\ SameOps
    BY <2>1 DEF IInv, PublishedOnce, SameOps
  <2>3. Verdicts[r] = "pending" /\ Verdicts' = [Verdicts EXCEPT ![r] = "ok"]
    BY <2>1 DEF Verdicts
  <2>4. Publish(r)
    BY <1>3 DEF Commit
  <2>5. QED
    BY <2>1, <2>2, <2>3, <2>4, PublishStores
<1>4. ASSUME NEW r \in Requests, Abort(r) \/ CommitUnanswered(r)
      PROVE  Log!Fail(r)
  <2>1. /\ call[r].pc \notin {"ok", "failed"} /\ call'[r].pc = "failed"
        /\ call'[r].op = call[r].op
        /\ \A q \in Requests \ {r} : call'[q] = call[q]
    BY <1>t, <1>4, GivesUp DEF Abort, CommitUnanswered, InFlight
  <2>2. Verdicts[r] = "pending" /\ Verdicts' = [Verdicts EXCEPT ![r] = "failed"]
    BY <2>1 DEF Verdicts
  <2>3. SameOps /\ UNCHANGED <<stored, updatedAt>>
    BY <1>4, <2>1 DEF SameOps, Abort, CommitUnanswered
  <2>4. QED
    BY <1>s, <2>2, <2>3 DEF Log!Fail
<1>5. ASSUME NEW r \in Requests, Orphaned(r)
      PROVE  \/ \E c \in Chats : Log!Make(r, c) \/ Log!Post(r, c)
             \/ UNCHANGED Log!lvars
  <2>1. Verdicts' = Verdicts /\ SameOps
    BY <1>5 DEF Orphaned, Verdicts, SameOps
  <2>2. CASE UNCHANGED <<stored, updatedAt>>
    BY <1>s, <2>1, <2>2 DEF Log!lvars
  <2>3. CASE tx[r] = "committing" /\ Publish(r)
    <3>1. r \notin stored
      BY <2>3 DEF IInv, PublishedOnce
    <3>2. Verdicts[r] # "ok" /\ call[r].pc # "idle"
      BY <2>3, <3>1 DEF Verdicts, IInv, PublishedOnce, TxFollowsCall
    <3>3. QED
      BY <2>1, <2>3, <3>1, <3>2, PublishStores
  <2>4. QED
    BY <1>5, <2>2, <2>3 DEF Orphaned
<1>6. ASSUME NEW r \in Requests, \E c \in Chats : Log!Make(r, c) \/ Log!Post(r, c)
      PROVE  Log!Next
  BY <1>6 DEF Log!Next
<1>7. ASSUME NEW r \in Requests, Log!Fail(r) PROVE Log!Next
  BY <1>7 DEF Log!Next
<1>8. QED
  BY <1>1, <1>2, <1>3, <1>4, <1>5, <1>6, <1>7 DEF Next, Step

\* Create and CreateMessage implement the abstract log: a row and the touch of
\* its chat appear together and once, no message before its chat, and "ok" is
\* only told of stored rows.
THEOREM Implements == Spec => ImplementsChatLog
<1>1. Init => Log!Init
  <2>1. Init => Verdicts = [r \in Requests |-> "pending"]
    BY DEF Init, Verdicts
  <2>2. Init => updatedAt \in [Chats -> {Never, Absent}] /\ stored = {}
    BY DEF Init
  <2>3. QED
    BY <2>1, <2>2 DEF Log!Init
<1>2. IInv /\ [Next]_vars => [Log!Next]_(Log!lvars)
  BY LogStep
<1>3. QED
  BY <1>1, <1>2, Invariant, PTL DEF Spec, ImplementsChatLog, Log!Spec

-----------------------------------------------------------------------------
(* The order of the chat list.                                             *)

\* Who reads the clock later has the greater stamp; what is published has one.
Stamped ==
    \A r \in Requests :
        /\ call[r].stamp <= clock
        /\ call[r].pc \in {"idle", "begin", "now"} => call[r].stamp = 0
        /\ call[r].pc = "insert" /\ ~ Creates(r) => call[r].stamp = 0
        /\ call[r].pc = "insert" /\ Creates(r) => call[r].stamp > 0
        /\ call[r].pc \in {"update", "commit"} \/ tx[r] = "committing" \/ r \in stored
              => call[r].stamp > 0
        /\ tx[r] = "committing" => call[r].pc = "failed"

\* What was stored when a call began read its clock before that call did.
SeenEarlier ==
    \A r \in Requests : \A q \in call[r].seen :
        q \in stored /\ (call[r].stamp > 0 => call[q].stamp < call[r].stamp)

\* updated_at is of a row of the chat, and one of the latest.
TouchedLast ==
    /\ \A c \in Chats : updatedAt[c] \notin {Never, Absent} => updatedAt[c] \in Rows(c)
    /\ \A r \in stored : /\ updatedAt[call[r].chat] \notin {Never, Absent}
                         /\ updatedAt[call[r].chat] \notin call[r].seen

OrderInv == Stamped /\ SeenEarlier /\ TouchedLast

\* A call moves; who it is for, what it has seen and read of the clock stays.
SameCalls ==
    \A q \in Requests :
        /\ call'[q].chat = call[q].chat /\ call'[q].seen = call[q].seen
        /\ call'[q].stamp = call[q].stamp

LEMMA MovesAlone ==
    ASSUME call \in [Requests -> Call], NEW r \in Requests,
           \/ /\ call[r].pc \in {"begin", "insert", "now", "update", "commit"}
              /\ Become(r, Advance(call[r]))
           \/ Become(r, [call[r] EXCEPT !.pc = "failed"])
    PROVE  /\ SameCalls
           /\ call'[r].pc \in {Following(call[r]), "failed"}
           /\ call'[r].op = call[r].op
           /\ \A q \in Requests \ {r} : call'[q] = call[q]
<1>1. CASE Become(r, [call[r] EXCEPT !.pc = "failed"])
  <2>1. /\ call'[r].pc = "failed" /\ call'[r].op = call[r].op
        /\ call'[r].chat = call[r].chat
        /\ call'[r].seen = call[r].seen /\ call'[r].stamp = call[r].stamp
        /\ \A q \in Requests \ {r} : call'[q] = call[q]
    BY <1>1, GivesUp
  <2>2. QED
    BY <2>1 DEF SameCalls
<1>2. CASE /\ call[r].pc \in {"begin", "insert", "now", "update", "commit"}
           /\ Become(r, Advance(call[r]))
  <2>1. /\ call'[r].pc = Following(call[r]) /\ call'[r].op = call[r].op
        /\ call'[r].chat = call[r].chat
        /\ call'[r].seen = call[r].seen /\ call'[r].stamp = call[r].stamp
        /\ \A q \in Requests \ {r} : call'[q] = call[q]
    BY <1>2, MovesOn
  <2>2. QED
    BY <2>1 DEF SameCalls
<1>3. QED
  BY <1>1, <1>2

\* Steps that publish nothing.
LEMMA QuietKeepsOrder ==
    ASSUME TypeOK, OrderInv, SameCalls, UNCHANGED <<stored, updatedAt>>, Stamped'
    PROVE  OrderInv'
<1>1. call \in [Requests -> Call] /\ stored \subseteq Requests
      /\ updatedAt \in [Chats -> Requests \cup {Never, Absent}]
  BY DEF TypeOK
<1>2. \A q \in Requests : call[q].seen \subseteq Requests /\ call[q].chat \in Chats
  BY <1>1 DEF Call
<1>3. SeenEarlier'
  BY <1>2 DEF OrderInv, SeenEarlier, SameCalls
<1>4. TouchedLast'
  BY <1>1, <1>2 DEF OrderInv, TouchedLast, SameCalls, Rows
<1>5. QED
  BY <1>3, <1>4 DEF OrderInv

\* A row that is published was not stored before, so nobody has seen it.
LEMMA PublishKeepsOrder ==
    ASSUME TypeOK, OrderInv, SameCalls, NEW r \in Requests, Publish(r),
           r \notin stored, Stamped'
    PROVE  OrderInv'
<1>1. call \in [Requests -> Call] /\ stored \subseteq Requests
      /\ updatedAt \in [Chats -> Requests \cup {Never, Absent}]
  BY DEF TypeOK
<1>2. \A q \in Requests : call[q].seen \subseteq Requests /\ call[q].chat \in Chats
  BY <1>1 DEF Call
<1>3. /\ stored' = stored \cup {r} /\ updatedAt'[call[r].chat] = r
      /\ \A c \in Chats \ {call[r].chat} : updatedAt'[c] = updatedAt[c]
  BY <1>1, <1>2 DEF Publish, Touched
<1>4. SeenEarlier'
  BY <1>2, <1>3 DEF OrderInv, SeenEarlier, SameCalls
<1>5. ASSUME NEW c \in Chats, updatedAt'[c] \notin {Never, Absent}
      PROVE  updatedAt'[c] \in stored' /\ call'[updatedAt'[c]].chat = c
  BY <1>1, <1>3, <1>5 DEF OrderInv, TouchedLast, SameCalls, Rows
<1>6. ASSUME NEW q \in stored'
      PROVE  /\ updatedAt'[call'[q].chat] \notin {Never, Absent}
             /\ updatedAt'[call'[q].chat] \notin call'[q].seen
  <2>1. q \in Requests /\ call'[q].chat = call[q].chat /\ call'[q].seen = call[q].seen
    BY <1>1, <1>3 DEF SameCalls
  <2>2. CASE call[q].chat = call[r].chat
    BY <1>3, <2>1, <2>2, NeverAssumption DEF OrderInv, SeenEarlier
  <2>3. CASE call[q].chat # call[r].chat
    BY <1>2, <1>3, <2>1, <2>3 DEF OrderInv, TouchedLast
  <2>4. QED
    BY <2>2, <2>3
<1>7. TouchedLast'
  BY <1>5, <1>6 DEF TouchedLast, Rows
<1>8. QED
  BY <1>4, <1>7 DEF OrderInv

LEMMA OrderStep ==
    ASSUME IInv, OrderInv, [Next]_vars
    PROVE  OrderInv'
<1>1. /\ TypeOK /\ call \in [Requests -> Call] /\ clock \in Nat
      /\ tx \in [Requests -> TxStates] /\ TxFollowsCall /\ PublishedOnce /\ Stamped
      /\ stored \subseteq Requests /\ updatedAt \in [Chats -> Requests \cup {Never, Absent}]
  BY DEF IInv, TypeOK, OrderInv
<1>2. \A q \in Requests : /\ call[q].stamp \in Nat /\ call[q].seen \subseteq Requests
                          /\ call[q].chat \in Chats /\ call[q].op \in {"create", "message"}
  BY <1>1 DEF Call
<1>3. ASSUME NEW r \in Requests, Invoke(r) PROVE OrderInv'
  <2> DEFINE s == [call[r] EXCEPT !.pc = "begin", !.seen = stored]
  <2>1. /\ call[r].pc = "idle" /\ call' = [call EXCEPT ![r] = s]
        /\ UNCHANGED <<tx, stored, updatedAt, clock>>
    BY <1>3 DEF Invoke, Become
  <2>2. /\ s.pc = "begin" /\ s.chat = call[r].chat /\ s.stamp = call[r].stamp
        /\ s.seen = stored /\ s.op = call[r].op
    BY <1>1 DEF Call
  <2> HIDE DEF s
  <2>3. call'[r] = s /\ \A q \in Requests \ {r} : call'[q] = call[q]
    BY <1>1, <2>1
  <2>4. call[r].stamp = 0 /\ r \notin stored
    BY <1>1, <2>1 DEF Stamped, PublishedOnce
  <2>5. Stamped'
    BY <1>1, <2>1, <2>2, <2>3, <2>4 DEF Stamped, Creates
  <2>6. SeenEarlier'
    BY <1>1, <1>2, <2>1, <2>2, <2>3, <2>4 DEF OrderInv, SeenEarlier
  <2>7. TouchedLast'
    <3>1. \A q \in Requests : call'[q].chat = call[q].chat
      BY <2>2, <2>3
    <3>2. \A q \in stored : call'[q].seen = call[q].seen
      BY <1>1, <2>3, <2>4
    <3>3. QED
      BY <1>1, <1>2, <2>1, <3>1, <3>2 DEF OrderInv, TouchedLast, Rows
  <2>8. QED
    BY <2>5, <2>6, <2>7 DEF OrderInv
<1>4. ASSUME NEW r \in Requests, Begin(r) \/ Insert(r) \/ Update(r) PROVE OrderInv'
  <2>1. /\ UNCHANGED <<stored, updatedAt, clock>>
        /\ \E t \in {"open", "inserted", "touched"} : tx' = [tx EXCEPT ![r] = t]
        /\ call[r].pc \in {"begin", "insert", "update"}
        /\ Become(r, Advance(call[r]))
    BY <1>1, <1>4 DEF Begin, Insert, Inserted, Update
  <2>2. /\ SameCalls /\ call'[r].pc \in {Following(call[r]), "failed"}
        /\ call'[r].op = call[r].op /\ \A q \in Requests \ {r} : call'[q] = call[q]
    BY <1>1, <2>1, MovesAlone
  <2>3. \A q \in Requests \ {r} : tx'[q] = tx[q]
    BY <1>1, <2>1
  <2>4. tx'[r] # "committing" /\ r \notin stored
    BY <1>1, <2>1 DEF PublishedOnce
  <2>5. \/ call'[r].pc = "failed"
        \/ call[r].pc = "begin" /\ call'[r].pc \in {"now", "insert"}
           /\ (call'[r].pc = "insert" => ~ Creates(r))
        \/ call[r].pc = "insert" /\ Creates(r) /\ call'[r].pc = "commit"
        \/ call[r].pc = "insert" /\ ~ Creates(r) /\ call'[r].pc = "now"
        \/ call[r].pc = "update" /\ call'[r].pc = "commit"
    BY <2>1, <2>2 DEF Following, Creates
  <2>6. /\ call'[r].stamp = call[r].stamp /\ (Creates(r))' = Creates(r)
        /\ \A q \in Requests \ {r} : (Creates(q))' = Creates(q)
    BY <2>2 DEF SameCalls, Creates
  <2>7. Stamped'
    BY <1>1, <2>1, <2>2, <2>3, <2>4, <2>5, <2>6 DEF Stamped
  <2>8. QED
    BY <1>1, <2>1, <2>2, <2>7, QuietKeepsOrder
<1>5. ASSUME NEW r \in Requests, Now(r) PROVE OrderInv'
  <2>1. /\ call[r].pc = "now" /\ clock' = clock + 1
        /\ UNCHANGED <<tx, stored, updatedAt>>
    BY <1>5 DEF Now
  <2>2. /\ call'[r].pc = IF Creates(r) THEN "insert" ELSE "update"
        /\ call'[r].stamp = clock + 1
        /\ call'[r].op = call[r].op /\ call'[r].chat = call[r].chat
        /\ call'[r].seen = call[r].seen
        /\ \A q \in Requests \ {r} : call'[q] = call[q]
    BY <1>1, <1>5, ReadsClock DEF Following, Creates
  <2>3. r \notin stored /\ tx[r] # "committing"
    BY <1>1, <2>1 DEF TxFollowsCall, PublishedOnce
  <2>4. Stamped'
    BY <1>1, <1>2, <2>1, <2>2, <2>3 DEF Stamped, Creates
  <2>5. SeenEarlier'
    <3>1. ASSUME NEW x \in Requests, NEW q \in call'[x].seen
          PROVE  q \in stored' /\ (call'[x].stamp > 0 => call'[q].stamp < call'[x].stamp)
      <4>1. call'[x].seen = call[x].seen /\ q \in Requests /\ q \in stored
        BY <1>2, <2>2 DEF OrderInv, SeenEarlier
      <4>2. q # r /\ call'[q] = call[q] /\ call[q].stamp <= clock
        BY <1>1, <2>2, <2>3, <4>1 DEF Stamped
      <4>3. CASE x = r
        BY <1>1, <1>2, <2>1, <2>2, <4>1, <4>2, <4>3
      <4>4. CASE x # r
        BY <2>1, <2>2, <4>1, <4>2, <4>4 DEF OrderInv, SeenEarlier
      <4>5. QED
        BY <4>3, <4>4
    <3>2. QED
      BY <3>1 DEF SeenEarlier
  <2>6. TouchedLast'
    <3>1. \A q \in Requests : call'[q].chat = call[q].chat /\ call'[q].seen = call[q].seen
      BY <2>2
    <3>2. QED
      BY <1>1, <1>2, <2>1, <3>1 DEF OrderInv, TouchedLast, Rows
  <2>7. QED
    BY <2>4, <2>5, <2>6 DEF OrderInv
<1>6. ASSUME NEW r \in Requests, Commit(r) PROVE OrderInv'
  <2>1. call[r].pc = "commit" /\ Publish(r) /\ UNCHANGED clock
        /\ Become(r, Advance(call[r]))
    BY <1>6 DEF Commit
  <2>2. /\ SameCalls /\ call'[r].pc \in {"ok", "failed"} /\ call'[r].op = call[r].op
        /\ \A q \in Requests \ {r} : call'[q] = call[q]
    BY <1>1, <2>1, MovesAlone DEF Following
  <2>3. /\ stored' = stored \cup {r} /\ tx' = [tx EXCEPT ![r] = "none"]
        /\ r \notin stored
    BY <1>1, <2>1 DEF Publish, PublishedOnce
  <2>4. call[r].stamp > 0
    BY <1>1, <2>1 DEF Stamped
  <2>5. Stamped'
    BY <1>1, <2>1, <2>2, <2>3, <2>4 DEF Stamped, SameCalls, Creates
  <2>6. QED
    BY <1>1, <2>1, <2>2, <2>3, <2>5, PublishKeepsOrder
<1>7. ASSUME NEW r \in Requests, Abort(r) \/ CommitUnanswered(r) PROVE OrderInv'
  <2>1. /\ call[r].pc \notin {"idle", "ok", "failed"} /\ UNCHANGED <<stored, updatedAt, clock>>
        /\ Become(r, [call[r] EXCEPT !.pc = "failed"])
        /\ \/ tx' = tx \/ tx' = [tx EXCEPT ![r] = "none"]
           \/ call[r].pc = "commit" /\ tx' = [tx EXCEPT ![r] = "committing"]
    BY <1>7 DEF Abort, CommitUnanswered, InFlight, RollBack
  <2>2. /\ call'[r].pc = "failed" /\ call'[r].op = call[r].op
        /\ call'[r].chat = call[r].chat
        /\ call'[r].seen = call[r].seen /\ call'[r].stamp = call[r].stamp
        /\ \A q \in Requests \ {r} : call'[q] = call[q]
    BY <1>1, <2>1, GivesUp
  <2>3. SameCalls
    BY <2>2 DEF SameCalls
  <2>4. \A q \in Requests \ {r} : tx'[q] = tx[q]
    BY <1>1, <2>1
  <2>5. tx'[r] = "committing" => call[r].stamp > 0
    BY <1>1, <2>1 DEF Stamped
  <2>6. Stamped'
    BY <1>1, <2>1, <2>2, <2>4, <2>5 DEF Stamped, Creates
  <2>7. QED
    BY <1>1, <2>1, <2>3, <2>6, QuietKeepsOrder
<1>8. ASSUME NEW r \in Requests, Disconnect(r) PROVE OrderInv'
  <2>1. call' = [call EXCEPT ![r] = [call[r] EXCEPT !.ctx = "cancelled"]]
        /\ UNCHANGED <<tx, stored, updatedAt, clock>>
    BY <1>8 DEF Disconnect, Become
  <2>2. \A q \in Requests : /\ call'[q].pc = call[q].pc /\ call'[q].chat = call[q].chat
                            /\ call'[q].seen = call[q].seen /\ call'[q].stamp = call[q].stamp
                            /\ call'[q].op = call[q].op
    BY <1>1, <2>1 DEF Call
  <2>3. SameCalls
    BY <2>2 DEF SameCalls
  <2>4. Stamped'
    BY <1>1, <2>1, <2>2 DEF Stamped, Creates
  <2>5. QED
    BY <1>1, <2>1, <2>3, <2>4, QuietKeepsOrder
<1>9. ASSUME NEW r \in Requests, Orphaned(r) PROVE OrderInv'
  <2>1. call[r].pc = "failed" /\ r \notin stored
    BY <1>1, <1>9 DEF Orphaned, Abandoned, Inside, TxFollowsCall, PublishedOnce, Call
  <2>2. SameCalls /\ UNCHANGED <<call, clock>>
    BY <1>9 DEF Orphaned, SameCalls
  <2>3. CASE tx' = [tx EXCEPT ![r] = "none"] /\ UNCHANGED <<stored, updatedAt>>
    <3>1. Stamped'
      BY <1>1, <2>2, <2>3 DEF Stamped, Creates
    <3>2. QED
      BY <1>1, <2>2, <2>3, <3>1, QuietKeepsOrder
  <2>4. CASE tx[r] = "committing" /\ Publish(r)
    <3>1. /\ stored' = stored \cup {r} /\ tx' = [tx EXCEPT ![r] = "none"]
          /\ call[r].stamp > 0
      BY <1>1, <2>4 DEF Publish, Stamped
    <3>2. Stamped'
      BY <1>1, <2>1, <2>2, <3>1 DEF Stamped, Creates
    <3>3. QED
      BY <1>1, <2>1, <2>2, <2>4, <3>2, PublishKeepsOrder
  <2>5. QED
    BY <1>9, <2>3, <2>4 DEF Orphaned
<1>10. CASE UNCHANGED vars
  BY <1>10 DEF vars, OrderInv, Stamped, SeenEarlier, TouchedLast, Rows, Creates
<1>11. QED
  BY <1>3, <1>4, <1>5, <1>6, <1>7, <1>8, <1>9, <1>10 DEF Next, Step

\* updated_at is the clock reading of one of the latest rows of its chat, and
\* that row has seen the row whose reading the other chat has.
LEMMA OrderSuffices ==
    ASSUME IInv, OrderInv
    PROVE  LatestFirst
<1> SUFFICES ASSUME NEW c \in Chats, NEW d \in Chats, c # d, updatedAt[d] # Absent,
                    Latest(c) # {},
                    \A r \in Latest(c) : Rows(d) \subseteq call[r].seen
             PROVE  ListedBefore(c, d)
  BY DEF LatestFirst
<1>1. /\ \A q \in Requests : call[q].stamp \in Nat
      /\ stored \subseteq Requests
  BY DEF IInv, TypeOK, Call
<1>2. PICK w : w = updatedAt[c]
  OBVIOUS
<1>3. w \in Latest(c)
  <2>1. PICK r : r \in stored /\ call[r].chat = c
    BY DEF Latest, Rows
  <2>2. w \notin {Never, Absent} /\ w \in Rows(c)
    BY <1>2, <2>1 DEF OrderInv, TouchedLast
  <2>3. \A q \in Rows(c) : w \notin call[q].seen
    BY <1>2 DEF OrderInv, TouchedLast, Rows
  <2>4. QED
    BY <2>2, <2>3 DEF Latest
<1>4. w \in stored /\ w \in Requests /\ call[w].stamp > 0 /\ Rows(d) \subseteq call[w].seen
  BY <1>1, <1>3 DEF Latest, Rows, OrderInv, Stamped
<1>5. TimeOf(c) = call[w].stamp
  BY <1>2, <1>4, NeverAssumption DEF TimeOf
<1>6. TimeOf(d) \in Nat /\ TimeOf(d) < call[w].stamp
  <2>1. CASE updatedAt[d] = Never
    BY <1>1, <1>4, <2>1 DEF TimeOf
  <2>2. CASE updatedAt[d] # Never
    <3>1. updatedAt[d] \in Rows(d) /\ updatedAt[d] \in Requests
      BY <1>1, <2>2 DEF OrderInv, TouchedLast, Rows
    <3>2. call[updatedAt[d]].stamp < call[w].stamp
      BY <1>4, <3>1 DEF OrderInv, SeenEarlier
    <3>3. QED
      BY <1>1, <2>2, <3>1, <3>2 DEF TimeOf
  <2>3. QED
    BY <2>1, <2>2
<1>7. QED
  BY <1>1, <1>4, <1>5, <1>6 DEF ListedBefore

\* The chat list has a chat before another when its latest message, or each of
\* those that overlapped, or its creation, came after all that is stored of the
\* other (chat.go:20-42, 58-84).
THEOREM LatestFirstHolds == Spec => []LatestFirst
<1>1. Init => OrderInv
  <2> SUFFICES ASSUME Init PROVE OrderInv
    OBVIOUS
  <2>1. \A q \in Requests : /\ call[q].pc = "idle" /\ call[q].stamp = 0
                            /\ call[q].seen = {}
    BY DEF Init
  <2>2. QED
    BY <2>1 DEF Init, OrderInv, Stamped, SeenEarlier, TouchedLast, Rows
<1>2. IInv /\ OrderInv /\ [Next]_vars => OrderInv'
  BY OrderStep
<1>3. IInv /\ OrderInv => LatestFirst
  BY OrderSuffices
<1>4. QED
  BY <1>1, <1>2, <1>3, Invariant, PTL DEF Spec

-----------------------------------------------------------------------------
(* How a call ends: the part of EveryCallEnds that holds without fairness. *)

\* The statements a call has before it, at most.
StatementsLeft(s) ==
    CASE s.pc = "idle"   -> 6
      [] s.pc = "begin"  -> 5
      [] s.pc = "insert" -> IF s.op = "create" THEN 2 ELSE 4
      [] s.pc = "now"    -> 3
      [] s.pc = "update" -> 2
      [] s.pc = "commit" -> 1
      [] OTHER           -> 0

\* Moved on, or not moved.
Nearer(s, t) == StatementsLeft(t) < StatementsLeft(s)
Stays(r) == call'[r].pc = call[r].pc /\ call'[r].op = call[r].op

\* A call that takes a step comes nearer to its end.
LEMMA StepComesNearer ==
    ASSUME TypeOK, NEW r \in Requests, InFlight(r), Step(r) \/ Abort(r) \/ CommitUnanswered(r)
    PROVE  /\ Nearer(call[r], call'[r])
           /\ \A q \in Requests \ {r} : call'[q] = call[q]
<1> USE DEF Nearer, StatementsLeft
<1>1. call \in [Requests -> Call]
  BY DEF TypeOK
<1>2. CASE Begin(r) \/ Insert(r) \/ Update(r) \/ Commit(r)
  <2>1. /\ call[r].pc \in {"begin", "insert", "update", "commit"}
        /\ Become(r, Advance(call[r]))
    BY <1>2 DEF Begin, Insert, Update, Commit
  <2>2. /\ call'[r].pc = Following(call[r]) /\ call'[r].op = call[r].op
        /\ \A q \in Requests \ {r} : call'[q] = call[q]
    BY <1>1, <2>1, MovesOn
  <2>3. QED
    BY <2>1, <2>2 DEF Following
<1>3. CASE Now(r)
  <2>1. /\ call[r].pc = "now" /\ call'[r].pc = Following(call[r])
        /\ call'[r].op = call[r].op
        /\ \A q \in Requests \ {r} : call'[q] = call[q]
    BY <1>1, <1>3, ReadsClock DEF TypeOK
  <2>2. QED
    BY <2>1 DEF Following
<1>4. CASE Abort(r) \/ CommitUnanswered(r)
  <2>1. call'[r].pc = "failed" /\ \A q \in Requests \ {r} : call'[q] = call[q]
    BY <1>1, <1>4, GivesUp DEF Abort, CommitUnanswered
  <2>2. call[r].pc \in {"begin", "insert", "now", "update", "commit"}
    BY <1>1 DEF InFlight, Call
  <2>3. QED
    BY <2>1, <2>2
<1>5. QED
  BY <1>2, <1>3, <1>4 DEF Step

\* A call is only ever moved by a step of its own.
LEMMA OthersLeaveCalls ==
    ASSUME TypeOK, [Next]_vars, NEW r \in Requests, InFlight(r),
           ~ (Step(r) \/ Abort(r) \/ CommitUnanswered(r))
    PROVE  Stays(r)
<1> USE DEF Stays
<1>1. call \in [Requests -> Call]
  BY DEF TypeOK
<1>2. ASSUME NEW q \in Requests, Invoke(q) PROVE Stays(r)
  BY <1>1, <1>2 DEF Invoke, Become, InFlight
<1>3. ASSUME NEW q \in Requests, Disconnect(q) PROVE Stays(r)
  BY <1>1, <1>3 DEF Disconnect, Become, Call
<1>4. ASSUME NEW q \in Requests, Orphaned(q) PROVE Stays(r)
  BY <1>4 DEF Orphaned
<1>5. ASSUME NEW q \in Requests, Step(q) \/ Abort(q) \/ CommitUnanswered(q)
      PROVE  Stays(r)
  <2>1. q # r
    BY <1>5
  <2>2. InFlight(q)
    BY <1>5 DEF Step, Abort, CommitUnanswered, Begin, Insert, Now, Update, Commit, InFlight
  <2>3. QED
    BY <1>5, <2>1, <2>2, StepComesNearer
<1>6. CASE UNCHANGED vars
  BY <1>6 DEF vars
<1>7. QED
  BY <1>2, <1>3, <1>4, <1>5, <1>6 DEF Next

\* Create and CreateMessage send each of their statements once, whatever the others do
\* (chat.go:21-30, 66-83): every step of a call, and every error, brings it nearer to
\* its return, and nothing sets it back.  So a call that does not return is one
\* that is left waiting, and SomeoneCanMove says that never happens to all.
THEOREM CallsComeNearer ==
    Spec => [][\A r \in Requests : InFlight(r) =>
                  /\ StatementsLeft(call'[r]) <= StatementsLeft(call[r])
                  /\ Step(r) \/ Abort(r) \/ CommitUnanswered(r)
                        => StatementsLeft(call'[r]) < StatementsLeft(call[r])]_vars
<1>1. ASSUME TypeOK, [Next]_vars, NEW r \in Requests, InFlight(r)
      PROVE  /\ StatementsLeft(call'[r]) <= StatementsLeft(call[r])
             /\ Step(r) \/ Abort(r) \/ CommitUnanswered(r)
                   => StatementsLeft(call'[r]) < StatementsLeft(call[r])
  <2>1. CASE Step(r) \/ Abort(r) \/ CommitUnanswered(r)
    BY <1>1, <2>1, StepComesNearer DEF Nearer, StatementsLeft
  <2>2. CASE ~ (Step(r) \/ Abort(r) \/ CommitUnanswered(r))
    BY <1>1, <2>2, OthersLeaveCalls DEF Stays, StatementsLeft
  <2>3. QED
    BY <2>1, <2>2
<1>2. TypeOK /\ [Next]_vars =>
         [\A r \in Requests : InFlight(r) =>
             /\ StatementsLeft(call'[r]) <= StatementsLeft(call[r])
             /\ Step(r) \/ Abort(r) \/ CommitUnanswered(r)
                   => StatementsLeft(call'[r]) < StatementsLeft(call[r])]_vars
  BY <1>1
<1>3. QED
  BY <1>2, TypeCorrect, PTL DEF Spec
=============================================================================
