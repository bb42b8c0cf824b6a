-------------------------- MODULE LifecycleProofs --------------------------
(***************************************************************************)
(* Proofs about Inputs and Lifecycle, for every number of requests, length *)
(* of a key and limit of the drain.  All safety properties of Lifecycle    *)
(* follow from one inductive invariant, IInv.                              *)
(***************************************************************************)
EXTENDS Lifecycle, TLAPS

-----------------------------------------------------------------------------
(* Inputs.                                                                 *)

\* A key that passes Load (env.go:48) is 32 bytes to parseKey (aes.go:42),
\* whatever its length and the white space around it.
THEOREM LoadAgreesWithParse ==
    \A k \in KeyText(Nat, Nat) : LoadAcceptsKey(k) => ParseKey(k) = 32
BY DEF KeyText, LoadAcceptsKey, Trimmed, ParseKey

\* The hint of a key (user_api_key.go:20) never shows all of it, its two ends
\* do not meet, and it fits the VARCHAR(50) of key_hint, for keys of every
\* length and prefix.
THEOREM HintHidesAndFits ==
    \A k \in ApiKey(Nat) :
        /\ Hint(k).head + Hint(k).tail <= k.len
        /\ k.len > 0 => Hint(k).head + Hint(k).tail < k.len
        /\ HintLength(k) <= 50
<1> SUFFICES ASSUME NEW k \in ApiKey(Nat)
             PROVE  /\ Hint(k).head + Hint(k).tail <= k.len
                    /\ k.len > 0 => Hint(k).head + Hint(k).tail < k.len
                    /\ HintLength(k) <= 50
  OBVIOUS
<1>1. k.len \in Nat /\ k.prefix \in {"none", "sk", "router"}
  BY DEF ApiKey
<1>2. CASE k.len <= 8
  <2>1. Hint(k) = [head |-> 0, tail |-> 0]
    BY <1>1, <1>2 DEF Hint
  <2>2. QED
    BY <1>1, <1>2, <2>1 DEF HintLength
<1>3. CASE k.len > 13 /\ k.prefix = "router"
  <2>1. Hint(k) = [head |-> 9, tail |-> 4]
    BY <1>1, <1>3 DEF Hint
  <2>2. QED
    BY <1>1, <1>3, <2>1 DEF HintLength
<1>4. CASE \/ k.len \in 9..13 /\ k.prefix = "router"
           \/ k.len > 8 /\ k.prefix = "sk"
  <2>1. Hint(k) = [head |-> 3, tail |-> 4]
    BY <1>1, <1>4 DEF Hint
  <2>2. QED
    BY <1>1, <1>4, <2>1 DEF HintLength
<1>5. CASE k.len > 12 /\ k.prefix = "none"
  <2>1. Hint(k) = [head |-> 6, tail |-> 4]
    BY <1>1, <1>5 DEF Hint
  <2>2. QED
    BY <1>1, <1>5, <2>1 DEF HintLength
<1>6. CASE k.len \in 9..12 /\ k.prefix = "none"
  <2>1. Hint(k) = [head |-> 2, tail |-> 2]
    BY <1>1, <1>6 DEF Hint
  <2>2. QED
    BY <1>1, <1>6, <2>1 DEF HintLength
<1>7. /\ k.len <= 8 \/ k.len \in 9..13 \/ k.len > 13
      /\ k.len <= 8 \/ k.len \in 9..12 \/ k.len > 12
      /\ k.len <= 8 \/ k.len > 8
  BY <1>1
<1>8. QED
  BY <1>1, <1>2, <1>3, <1>4, <1>5, <1>6, <1>7

-----------------------------------------------------------------------------
(* The inductive invariant.                                                *)

\* main before the goroutine of ListenAndServe exists, and after the drain.
Early == {"load", "open", "cipher", "router", "notify"}
Over == {"stop", "cleanup", "return"}

\* Where main stands decides what the pool is.
PoolFollowsMain ==
    pool = CASE main \in {"load", "open"} -> "none"
             [] main = "return" -> "closed"
             [] OTHER -> "open"

LoadedFirst == main # "load" => LoadAccepts

NothingEarly ==
    main \in Early =>
        /\ listener = "none"
        /\ \A r \in Requests : req[r].st \in {"none", "refused"}

ForcedLate == forced => main \in Over /\ drained = DrainLimit

\* Nothing is in flight once a drain is over that was not cut short, nor once
\* the process is gone.
QuietAtLast == (main \in Over /\ ~ forced) \/ ~ Alive => Quiescent

CutWhenDead == Alive => \A r \in Requests : req[r].st # "cut"

\* A handler meets an error of the pool only in a drain that was cut short.
ErrorsForced == \A r \in Requests : req[r].code = "500" => forced

ReturnsLast == exit = "ok" => main = "return"

IInv ==
    /\ TypeOK
    /\ PoolFollowsMain
    /\ LoadedFirst
    /\ NothingEarly
    /\ ForcedLate
    /\ QuietAtLast
    /\ CutWhenDead
    /\ CutOnlyAfterLimit
    /\ ErrorsForced
    /\ ReturnsLast

\* What the end of the process does to a request.
LEMMA Cutting ==
    ASSUME TypeOK, NEW how \in Exits \ {"no"}, Die(how)
    PROVE  /\ exit' = how /\ ~ Alive' /\ Quiescent'
           /\ req' \in [Requests -> Request]
           /\ \A r \in Requests :
                 /\ req'[r].code = req[r].code
                 /\ req'[r].st = "cut" => req[r].st = "cut" \/ Open(r)
                 /\ ~ Open(r) => req'[r].st = req[r].st
<1>1. req \in [Requests -> Request]
  BY DEF TypeOK
<1>2. \A r \in Requests : Cut(req[r]) \in Request
  BY <1>1 DEF Cut, Request
<1>3. req' = [r \in Requests |-> Cut(req[r])] /\ exit' = how
  BY DEF Die
<1>4. QED
  BY <1>1, <1>2, <1>3 DEF Cut, Request, Quiescent, Open, Alive

\* What a step of one request leaves alone.
LEMMA Moving ==
    ASSUME TypeOK, NEW r \in Requests, NEW q \in Request, Put(r, q)
    PROVE  /\ req' \in [Requests -> Request]
           /\ req'[r] = q
           /\ \A p \in Requests \ {r} : req'[p] = req[p]
BY DEF TypeOK, Put

\* The key is good from Load on, so NewAESCipher does not fail.
LEMMA KeyIsGood ==
    ASSUME TypeOK, LoadAccepts
    PROVE  ParseKey(env.key) = 32
<1>1. env.key \in KeyText(Nat, Nat)
  BY KeyAssumption DEF TypeOK, Env, KeyText
<1>2. QED
  BY <1>1, LoadAgreesWithParse DEF LoadAccepts

\* Before the goroutine of ListenAndServe exists no request is in flight, and
\* no drain has been cut short.
LEMMA NothingOpenEarly ==
    ASSUME IInv, main \in Early
    PROVE  Quiescent /\ \A r \in Requests : req[r].st # "cut"
BY DEF IInv, NothingEarly, Quiescent, Open

\* The process may end where nothing is in flight.
LEMMA DieQuietly ==
    ASSUME IInv, Alive, NEW how \in Exits \ {"no", "ok"}, Die(how), Quiescent,
           UNCHANGED <<env, main, pool, listener, drained, forced>>,
           signal' \in {"none", "once", "again"}
    PROVE  IInv'
<1>1. /\ exit' = how /\ ~ Alive' /\ Quiescent'
      /\ req' \in [Requests -> Request]
      /\ \A r \in Requests : req'[r].code = req[r].code /\ req'[r].st = req[r].st
  BY Cutting DEF IInv, Quiescent
<1>2. TypeOK'
  BY <1>1 DEF IInv, TypeOK
<1>3. PoolFollowsMain' /\ LoadedFirst'
  BY DEF IInv, PoolFollowsMain, LoadedFirst, LoadAccepts
<1>4. NothingEarly' /\ ForcedLate'
  BY <1>1 DEF IInv, NothingEarly, ForcedLate
<1>5. QuietAtLast' /\ CutWhenDead'
  BY <1>1 DEF QuietAtLast, CutWhenDead
<1>6. CutOnlyAfterLimit'
  BY <1>1 DEF IInv, CutOnlyAfterLimit, CutWhenDead
<1>7. ErrorsForced'
  BY <1>1 DEF IInv, ErrorsForced
<1>8. ReturnsLast'
  BY <1>1 DEF ReturnsLast
<1>9. QED
  BY <1>2, <1>3, <1>4, <1>5, <1>6, <1>7, <1>8 DEF IInv

-----------------------------------------------------------------------------
(* Every step keeps it.                                                    *)

LEMMA StartSteps ==
    ASSUME IInv, Load \/ OpenPool \/ BuildCipher \/ BuildRouter \/ Notify
    PROVE  IInv'
<1>1. CASE Load /\ ~ LoadAccepts
  BY <1>1, NothingOpenEarly, DieQuietly DEF Load, Exits, Early, IInv, TypeOK
<1>2. CASE Load /\ LoadAccepts
  BY <1>2 DEF Load, IInv, TypeOK, Mains, Exits, PoolFollowsMain, LoadedFirst, LoadAccepts,
         NothingEarly, ForcedLate, QuietAtLast, Quiescent, Open, CutWhenDead,
         CutOnlyAfterLimit, ErrorsForced, ReturnsLast, Alive, Early, Over
<1>3. CASE OpenPool /\ ~ env.db
  BY <1>3, NothingOpenEarly, DieQuietly DEF OpenPool, Exits, Early, IInv, TypeOK
<1>4. CASE OpenPool /\ env.db
  BY <1>4 DEF OpenPool, IInv, TypeOK, Mains, Exits, PoolFollowsMain, LoadedFirst, LoadAccepts,
         NothingEarly, ForcedLate, QuietAtLast, Quiescent, Open, CutWhenDead,
         CutOnlyAfterLimit, ErrorsForced, ReturnsLast, Alive, Early, Over
<1>5. CASE BuildCipher
  <2>1. ParseKey(env.key) = 32
    BY <1>5, KeyIsGood DEF BuildCipher, IInv, LoadedFirst
  <2>2. QED
    BY <1>5, <2>1 DEF BuildCipher, IInv, TypeOK, Mains, Exits, PoolFollowsMain, LoadedFirst, LoadAccepts,
         NothingEarly, ForcedLate, QuietAtLast, Quiescent, Open, CutWhenDead,
         CutOnlyAfterLimit, ErrorsForced, ReturnsLast, Alive, Early, Over
<1>6. CASE BuildRouter /\ ~ CorsAccepts(env.url)
  BY <1>6, NothingOpenEarly, DieQuietly DEF BuildRouter, Exits, Early, IInv, TypeOK
<1>7. CASE BuildRouter /\ CorsAccepts(env.url)
  BY <1>7 DEF BuildRouter, IInv, TypeOK, Mains, Exits, PoolFollowsMain, LoadedFirst, LoadAccepts,
         NothingEarly, ForcedLate, QuietAtLast, Quiescent, Open, CutWhenDead,
         CutOnlyAfterLimit, ErrorsForced, ReturnsLast, Alive, Early, Over
<1>8. CASE Notify
  BY <1>8 DEF Notify, IInv, TypeOK, Mains, Exits, PoolFollowsMain, LoadedFirst, LoadAccepts,
         NothingEarly, ForcedLate, QuietAtLast, Quiescent, Open, CutWhenDead,
         CutOnlyAfterLimit, ErrorsForced, ReturnsLast, Alive, Early, Over
<1>9. QED
  BY <1>1, <1>2, <1>3, <1>4, <1>5, <1>6, <1>7, <1>8

LEMMA EndSteps ==
    ASSUME IInv,
           BeginShutdown \/ DrainEnds \/ DrainForced \/ Stop \/ ClosePool \/ Return
    PROVE  IInv'
<1>1. CASE BeginShutdown
  BY <1>1 DEF BeginShutdown, PoolInDrain, IInv, TypeOK, Mains, Exits, PoolFollowsMain, LoadedFirst, LoadAccepts,
         NothingEarly, ForcedLate, QuietAtLast, Quiescent, Open, CutWhenDead,
         CutOnlyAfterLimit, ErrorsForced, ReturnsLast, Alive, Early, Over
<1>2. CASE DrainEnds
  BY <1>2 DEF DrainEnds, IInv, TypeOK, Mains, Exits, PoolFollowsMain, LoadedFirst, LoadAccepts,
         NothingEarly, ForcedLate, QuietAtLast, Quiescent, Open, CutWhenDead,
         CutOnlyAfterLimit, ErrorsForced, ReturnsLast, Alive, Early, Over
<1>3. CASE DrainForced
  BY <1>3 DEF DrainForced, DrainTimesOut, IInv, TypeOK, Mains, Exits, PoolFollowsMain, LoadedFirst, LoadAccepts,
         NothingEarly, ForcedLate, QuietAtLast, Quiescent, Open, CutWhenDead,
         CutOnlyAfterLimit, ErrorsForced, ReturnsLast, Alive, Early, Over
<1>4. CASE Stop
  BY <1>4 DEF Stop, IInv, TypeOK, Mains, Exits, PoolFollowsMain, LoadedFirst, LoadAccepts,
         NothingEarly, ForcedLate, QuietAtLast, Quiescent, Open, CutWhenDead,
         CutOnlyAfterLimit, ErrorsForced, ReturnsLast, Alive, Early, Over
<1>5. CASE ClosePool
  BY <1>5 DEF ClosePool, IInv, TypeOK, Mains, Exits, PoolFollowsMain, LoadedFirst, LoadAccepts,
         NothingEarly, ForcedLate, QuietAtLast, Quiescent, Open, CutWhenDead,
         CutOnlyAfterLimit, ErrorsForced, ReturnsLast, Alive, Early, Over
<1>6. CASE Return
  <2>1. /\ exit' = "ok" /\ ~ Alive' /\ Quiescent'
        /\ req' \in [Requests -> Request]
        /\ \A r \in Requests :
              /\ req'[r].code = req[r].code
              /\ req'[r].st = "cut" => req[r].st = "cut" \/ Open(r)
              /\ ~ Open(r) => req'[r].st = req[r].st
    BY <1>6, Cutting DEF Return, IInv, Exits
  <2>2. \A r \in Requests : req'[r].st = "cut" => forced
    BY <1>6, <2>1 DEF Return, IInv, QuietAtLast, CutWhenDead, Quiescent, Over
  <2>3. TypeOK' /\ NothingEarly' /\ ErrorsForced' /\ ReturnsLast'
    BY <1>6, <2>1 DEF Return, IInv, TypeOK, Exits, NothingEarly, Early, ErrorsForced,
          ReturnsLast
  <2>4. PoolFollowsMain' /\ LoadedFirst' /\ ForcedLate'
    BY <1>6 DEF Return, IInv, PoolFollowsMain, LoadedFirst, LoadAccepts, ForcedLate
  <2>5. QuietAtLast' /\ CutWhenDead'
    BY <2>1 DEF QuietAtLast, CutWhenDead
  <2>6. CutOnlyAfterLimit'
    BY <1>6, <2>2 DEF Return, IInv, CutOnlyAfterLimit, ForcedLate
  <2>7. QED
    BY <2>3, <2>4, <2>5, <2>6 DEF IInv
<1>7. QED
  BY <1>1, <1>2, <1>3, <1>4, <1>5, <1>6

LEMMA ListenerSteps ==
    ASSUME IInv, Listener
    PROVE  IInv'
<1>1. CASE Listen
  BY <1>1 DEF Listen, IInv, TypeOK, Mains, Exits, PoolFollowsMain, LoadedFirst, LoadAccepts,
         NothingEarly, ForcedLate, QuietAtLast, Quiescent, Open, CutWhenDead,
         CutOnlyAfterLimit, ErrorsForced, ReturnsLast, Alive, Early, Over
<1>2. CASE Bind
  BY <1>2 DEF Bind, IInv, TypeOK, Mains, Exits, PoolFollowsMain, LoadedFirst, LoadAccepts,
         NothingEarly, ForcedLate, QuietAtLast, Quiescent, Open, CutWhenDead,
         CutOnlyAfterLimit, ErrorsForced, ReturnsLast, Alive, Early, Over
<1>3. CASE ServerClosed
  BY <1>3 DEF ServerClosed, IInv, TypeOK, Mains, Exits, PoolFollowsMain, LoadedFirst, LoadAccepts,
         NothingEarly, ForcedLate, QuietAtLast, Quiescent, Open, CutWhenDead,
         CutOnlyAfterLimit, ErrorsForced, ReturnsLast, Alive, Early, Over
<1>4. CASE ListenFails
  <2>1. /\ exit' = "listen" /\ ~ Alive' /\ Quiescent'
        /\ req' \in [Requests -> Request]
        /\ \A r \in Requests :
              /\ req'[r].code = req[r].code
              /\ req'[r].st = "cut" => req[r].st = "cut" \/ Open(r)
              /\ ~ Open(r) => req'[r].st = req[r].st
    BY <1>4, Cutting DEF ListenFails, IInv, Exits
  <2>2. main \notin Early
    BY <1>4 DEF ListenFails, IInv, NothingEarly
  <2>3. TypeOK' /\ NothingEarly' /\ ErrorsForced' /\ ReturnsLast'
    BY <1>4, <2>1, <2>2 DEF ListenFails, IInv, TypeOK, Exits, NothingEarly,
          ErrorsForced, ReturnsLast
  <2>4. PoolFollowsMain' /\ LoadedFirst' /\ ForcedLate'
    BY <1>4 DEF ListenFails, IInv, PoolFollowsMain, LoadedFirst, LoadAccepts, ForcedLate
  <2>5. QuietAtLast' /\ CutWhenDead' /\ CutOnlyAfterLimit'
    BY <2>1 DEF QuietAtLast, CutWhenDead, CutOnlyAfterLimit
  <2>6. QED
    BY <2>3, <2>4, <2>5 DEF IInv
<1>5. QED
  BY <1>1, <1>2, <1>3, <1>4 DEF Listener

\* A signal that kills comes before anything is in flight, or after the drain.
LEMMA SignalSteps ==
    ASSUME IInv, Signal
    PROVE  IInv'
<1>1. CASE Caught
  BY <1>1 DEF Signal, IInv, TypeOK, Mains, Exits, PoolFollowsMain, LoadedFirst, LoadAccepts,
         NothingEarly, ForcedLate, QuietAtLast, Quiescent, Open, CutWhenDead,
         CutOnlyAfterLimit, ErrorsForced, ReturnsLast, Alive, Early, Over
<1>2. CASE ~ Caught /\ Quiescent
  <2>1. signal' \in {"none", "once", "again"} /\ Die("killed")
    BY <1>2 DEF Signal
  <2>2. QED
    BY <1>2, <2>1, DieQuietly DEF Signal, Exits
<1>3. CASE ~ Caught /\ ~ Quiescent
  <2>1. /\ exit' = "killed" /\ ~ Alive' /\ Quiescent'
        /\ req' \in [Requests -> Request]
        /\ \A r \in Requests :
              /\ req'[r].code = req[r].code
              /\ req'[r].st = "cut" => req[r].st = "cut" \/ Open(r)
              /\ ~ Open(r) => req'[r].st = req[r].st
    BY <1>3, Cutting DEF Signal, IInv, Exits
  <2>2. main \notin Early /\ forced
    BY <1>3, NothingOpenEarly DEF Caught, IInv, TypeOK, Mains, Early, Over, QuietAtLast
  <2>3. TypeOK' /\ NothingEarly' /\ ErrorsForced' /\ ReturnsLast'
    BY <1>3, <2>1, <2>2 DEF Signal, IInv, TypeOK, Exits, NothingEarly,
          ErrorsForced, ReturnsLast
  <2>4. PoolFollowsMain' /\ LoadedFirst' /\ ForcedLate'
    BY <1>3 DEF Signal, IInv, PoolFollowsMain, LoadedFirst, LoadAccepts, ForcedLate
  <2>5. QuietAtLast' /\ CutWhenDead'
    BY <2>1 DEF QuietAtLast, CutWhenDead
  <2>6. CutOnlyAfterLimit'
    BY <1>3, <2>2 DEF Signal, IInv, CutOnlyAfterLimit, ForcedLate
  <2>7. QED
    BY <2>3, <2>4, <2>5, <2>6 DEF IInv
<1>4. QED
  BY <1>1, <1>2, <1>3

LEMMA TickSteps ==
    ASSUME IInv, Tick
    PROVE  IInv'
BY DrainLimitAssumption DEF Tick, IInv, TypeOK, Mains, Exits, PoolFollowsMain, LoadedFirst, LoadAccepts,
         NothingEarly, ForcedLate, QuietAtLast, Quiescent, Open, CutWhenDead,
         CutOnlyAfterLimit, ErrorsForced, ReturnsLast, Alive, Early, Over

\* A request that moves keeps the invariant when it is not cut, when it is in
\* flight only where it was or the listener accepts, and when it is answered
\* "500" only by a pool that is not open.
LEMMA RequestMoves ==
    ASSUME IInv, NEW r \in Requests, NEW q \in Request, Put(r, q),
           UNCHANGED <<env, main, pool, listener, signal, drained, forced, exit>>,
           q.st = "cut" => req[r].st = "cut",
           q.st \in {"new", "running"} => Open(r) \/ (Alive /\ listener = "accept" /\ ~ InShutdown),
           q.code = "500" => req[r].code = "500" \/ (Alive /\ Running(r) /\ pool # "open"),
           req[r].st \in {"none", "refused"} =>
              \/ q.st \in {"none", "refused"}
              \/ listener # "none"
    PROVE  IInv'
<1>1. /\ req' \in [Requests -> Request]
      /\ req'[r] = q
      /\ \A p \in Requests \ {r} : req'[p] = req[p]
  BY Moving DEF IInv
<1>2. TypeOK' /\ PoolFollowsMain' /\ LoadedFirst' /\ ForcedLate' /\ ReturnsLast'
  BY <1>1 DEF IInv, TypeOK, PoolFollowsMain, LoadedFirst, LoadAccepts, ForcedLate,
         ReturnsLast
<1>3. NothingEarly'
  <2>1. SUFFICES ASSUME main \in Early
                 PROVE  listener = "none" /\ \A p \in Requests : req'[p].st \in {"none", "refused"}
    BY DEF NothingEarly
  <2>2. listener = "none" /\ \A p \in Requests : req[p].st \in {"none", "refused"}
    BY <2>1 DEF IInv, NothingEarly
  <2>3. QED
    BY <1>1, <2>2
<1>4. QuietAtLast'
  BY <1>1 DEF IInv, QuietAtLast, Quiescent, Open, Over, InShutdown, Alive
<1>5. CutWhenDead' /\ CutOnlyAfterLimit'
  BY <1>1 DEF IInv, CutWhenDead, CutOnlyAfterLimit, Alive
<1>6. ErrorsForced'
  <2>1. Alive /\ Running(r) /\ pool # "open" => forced
    BY DEF IInv, PoolFollowsMain, NothingEarly, QuietAtLast, Quiescent, Open, Running,
           Early, Over
  <2>2. QED
    BY <1>1, <2>1 DEF IInv, ErrorsForced
<1>7. QED
  BY <1>2, <1>3, <1>4, <1>5, <1>6 DEF IInv

LEMMA RequestSteps ==
    ASSUME IInv, NEW r \in Requests,
           \/ Accept(r) \/ Connect(r) \/ Dispatch(r) \/ CloseNew(r)
           \/ Call(r) \/ Ping(r)
    PROVE  IInv'
<1>0. req[r] \in Request /\ 1..MaxCalls \subseteq Nat
  BY MaxCallsAssumption DEF IInv, TypeOK
<1>1. CASE Accept(r)
  <2> DEFINE q == [req[r] EXCEPT !.st = "new"]
  <2>1. q \in Request /\ q.st = "new" /\ q.code = req[r].code
    BY <1>0 DEF Request
  <2>2. QED
    BY <1>1, <2>1, RequestMoves DEF Accept
<1>2. CASE Connect(r)
  <2> DEFINE q == [req[r] EXCEPT !.st = "refused"]
  <2>1. q \in Request /\ q.st = "refused" /\ q.code = req[r].code
    BY <1>0 DEF Request
  <2>2. QED
    BY <1>2, <2>1, RequestMoves DEF Connect
<1>3. CASE Dispatch(r)
  <2> DEFINE q == [req[r] EXCEPT !.st = "running"]
  <2>1. q \in Request /\ q.st = "running" /\ q.code = req[r].code
    BY <1>0 DEF Request
  <2>2. QED
    BY <1>3, <2>1, RequestMoves DEF Dispatch, Open
<1>4. CASE CloseNew(r)
  <2> DEFINE q == [req[r] EXCEPT !.st = "refused"]
  <2>1. q \in Request /\ q.st = "refused" /\ q.code = req[r].code
    BY <1>0 DEF Request
  <2>2. QED
    BY <1>4, <2>1, RequestMoves DEF CloseNew
<1>5. CASE Call(r) \/ Ping(r)
  <2>1. PICK q \in Request :
           /\ Put(r, q)
           /\ q.st \in {"running", "replied"}
           /\ q.code = "500" => req[r].code = "500" \/ pool # "open"
    <3>1. \A c \in {"ok", "500", "503"} :
             /\ Replied(req[r], c) \in Request
             /\ Replied(req[r], c).st = "replied"
             /\ Replied(req[r], c).code = c
      BY <1>0 DEF Replied, Request
    <3> DEFINE q == [req[r] EXCEPT !.calls = @ - 1]
    <3>2. Running(r) /\ ~ LastCall(req[r]) =>
             q \in Request /\ q.st = "running" /\ q.code = req[r].code
      BY <1>0, MaxCallsAssumption DEF Request, Running, LastCall
    <3>3. CASE Ping(r)
      BY <3>1, <3>3 DEF Ping
    <3>4. CASE Call(r) /\ pool # "open"
      BY <3>1, <3>4 DEF Call
    <3>5. CASE Call(r) /\ pool = "open" /\ LastCall(req[r])
      BY <3>1, <3>5 DEF Call
    <3>6. CASE Call(r) /\ pool = "open" /\ ~ LastCall(req[r])
      BY <3>2, <3>6 DEF Call
    <3>7. QED
      BY <1>5, <3>3, <3>4, <3>5, <3>6
  <2>2. /\ Alive /\ Running(r)
        /\ UNCHANGED <<env, main, pool, listener, signal, drained, forced, exit>>
    BY <1>5 DEF Call, Ping
  <2>3. QED
    BY <2>1, <2>2, RequestMoves DEF Running, Open
<1>6. QED
  BY <1>1, <1>2, <1>3, <1>4, <1>5

LEMMA IInvStep ==
    ASSUME IInv, [Next]_vars
    PROVE  IInv'
<1>1. CASE UNCHANGED vars
  <2>1. TypeOK'
    BY <1>1 DEF IInv, TypeOK, vars
  <2>2. PoolFollowsMain' /\ LoadedFirst' /\ NothingEarly' /\ ForcedLate'
    BY <1>1 DEF IInv, PoolFollowsMain, LoadedFirst, LoadAccepts, NothingEarly,
          ForcedLate, vars
  <2>3. QuietAtLast' /\ CutWhenDead' /\ CutOnlyAfterLimit'
    BY <1>1 DEF IInv, QuietAtLast, Quiescent, Open, Alive, CutWhenDead,
          CutOnlyAfterLimit, vars
  <2>4. ErrorsForced' /\ ReturnsLast'
    BY <1>1 DEF IInv, ErrorsForced, ReturnsLast, vars
  <2>5. QED
    BY <2>1, <2>2, <2>3, <2>4 DEF IInv
<1>2. CASE Main
  BY <1>2, StartSteps, EndSteps DEF Main
<1>3. CASE \E r \in Requests :
              Accept(r) \/ Connect(r) \/ Dispatch(r) \/ CloseNew(r) \/ Call(r) \/ Ping(r)
  BY <1>3, RequestSteps
<1>4. QED
  BY <1>1, <1>2, <1>3, ListenerSteps, SignalSteps, TickSteps DEF Next

LEMMA InitIInv ==
    ASSUME Init
    PROVE  IInv
<1>1. TypeOK
  <2>1. \A k \in {"health", "api"} : \A n \in 1..MaxCalls :
           [st |-> "none", kind |-> k, calls |-> n, code |-> "none"] \in Request
    BY DEF Request
  <2>2. {[st |-> "none", kind |-> k, calls |-> n, code |-> "none"] :
            k \in {"health", "api"}, n \in 1..MaxCalls} \subseteq Request
    BY <2>1
  <2>3. req \in [Requests -> Request]
    BY <2>2 DEF Init
  <2>4. /\ env \in Env
        /\ main \in Mains
        /\ exit \in Exits
        /\ forced \in BOOLEAN /\ (forced => drained = DrainLimit)
        /\ pool \in {"none", "open", "closed"}
        /\ signal \in {"none", "once", "again"}
        /\ listener \in {"none", "start", "bind", "accept", "done"}
    <3>1. env \in Env /\ main = "load" /\ pool = "none" /\ listener = "none"
      BY DEF Init
    <3>2. signal = "none" /\ forced = FALSE /\ exit = "no"
      BY DEF Init
    <3>3. QED
      BY <3>1, <3>2 DEF Mains, Exits
  <2>5. drained \in 0..DrainLimit
    BY DrainLimitAssumption DEF Init
  <2>6. QED
    BY <2>3, <2>4, <2>5 DEF TypeOK
<1>2. \A r \in Requests : req[r].st = "none" /\ req[r].code = "none"
  BY DEF Init
<1>3. QED
  BY <1>1, <1>2 DEF Init, IInv, PoolFollowsMain, LoadedFirst, NothingEarly, ForcedLate,
         QuietAtLast, CutWhenDead, CutOnlyAfterLimit, ErrorsForced, ReturnsLast,
         Alive, Over

-----------------------------------------------------------------------------
(* What follows.                                                           *)

\* The inductive invariant of the process from its start to its exit.
THEOREM Invariant == Spec => []IInv
<1>1. Init => IInv
  BY InitIInv
<1>2. IInv /\ [Next]_vars => IInv'
  BY IInvStep
<1>3. QED
  BY <1>1, <1>2, PTL DEF Spec

\* Every reachable state is well typed.
THEOREM TypeCorrect == Spec => []TypeOK
<1>1. IInv => TypeOK
  BY DEF IInv
<1>2. QED
  BY <1>1, Invariant, PTL

\* No pool is ever opened for a process with a key that NewAESCipher refuses
\* (env.go:47), whatever the length of the text and its white space.
THEOREM FailFastHolds == Spec => []FailFast
<1>1. IInv => FailFast
  BY KeyIsGood DEF IInv, FailFast, PoolFollowsMain, LoadedFirst
<1>2. QED
  BY <1>1, Invariant, PTL

\* No handler meets a closed pool unless the drain was cut short.
THEOREM PoolOutlivesHandlersHolds == Spec => []PoolOutlivesHandlers
<1>1. IInv => PoolOutlivesHandlers
  BY DEF IInv, PoolOutlivesHandlers, PoolFollowsMain, QuietAtLast, Quiescent, Open,
         Running, Over
<1>2. QED
  BY <1>1, Invariant, PTL

\* Requests are cut off by the end of the 10 seconds or a failing listener,
\* never by a second signal.
THEOREM CutOnlyAfterLimitHolds == Spec => []CutOnlyAfterLimit
<1>1. IInv => CutOnlyAfterLimit
  BY DEF IInv
<1>2. QED
  BY <1>1, Invariant, PTL

\* An exit that was not forced leaves no request without its answer and no
\* pool open.
THEOREM OrderlyExitHolds == Spec => []OrderlyExit
<1>1. IInv => OrderlyExit
  <2>1. SUFFICES ASSUME IInv, exit = "ok", ~ forced
                 PROVE  /\ pool = "closed"
                        /\ \A r \in Requests : /\ ~ Open(r) /\ req[r].st # "cut"
                                               /\ req[r].code # "500"
    BY DEF OrderlyExit
  <2>2. pool = "closed"
    BY <2>1 DEF IInv, ReturnsLast, PoolFollowsMain
  <2>3. Quiescent
    BY <2>1 DEF IInv, QuietAtLast, Alive
  <2>4. QED
    BY <2>1, <2>2, <2>3 DEF IInv, CutOnlyAfterLimit, ErrorsForced, Quiescent
<1>2. QED
  BY <1>1, Invariant, PTL

-----------------------------------------------------------------------------
(* How the process ends: the part of SignalEnds that holds without         *)
(* fairness.                                                               *)

\* What main still has to do.
Ahead(m) ==
    CASE m = "load"    -> 10
      [] m = "open"    -> 9
      [] m = "cipher"  -> 8
      [] m = "router"  -> 7
      [] m = "notify"  -> 6
      [] m = "wait"    -> 5
      [] m = "drain"   -> 4
      [] m = "stop"    -> 3
      [] m = "cleanup" -> 2
      [] OTHER         -> 1

\* Steps of main and ticks of shutdownCtx before the process is gone, at most.
StepsLeft == Ahead(main) + (DrainLimit - drained)

LEMMA AheadFacts ==
    /\ \A m : Ahead(m) \in 1..10
    /\ TypeOK => StepsLeft \in 1..10 + DrainLimit
BY DrainLimitAssumption DEF Ahead, StepsLeft, TypeOK

\* A step of main ends the process or takes main further.
LEMMA MainComesNearer ==
    ASSUME TypeOK, Main
    PROVE  ~ Alive' \/ (Ahead(main') < Ahead(main) /\ drained' = drained)
<1> USE DEF Ahead
<1>1. ASSUME NEW how \in {"boot", "panic", "ok"}, Die(how) PROVE ~ Alive'
  BY <1>1 DEF Die, Alive
<1>2. CASE Load \/ OpenPool \/ BuildCipher \/ BuildRouter
  BY <1>1, <1>2 DEF Load, OpenPool, BuildCipher, BuildRouter
<1>3. CASE Notify \/ BeginShutdown \/ DrainEnds \/ DrainForced
  BY <1>3 DEF Notify, BeginShutdown, DrainEnds, DrainForced
<1>4. CASE Stop \/ ClosePool
  BY <1>4 DEF Stop, ClosePool
<1>5. CASE Return
  BY <1>1, <1>5 DEF Return
<1>6. QED
  BY <1>2, <1>3, <1>4, <1>5 DEF Main

\* Requests, the listener and signals do not hold main up.
LEMMA OthersLeaveMain ==
    ASSUME [Next]_vars, ~ Main, ~ Tick
    PROVE  main' = main /\ drained' = drained
<1>1. CASE Listener
  BY <1>1 DEF Listener, Listen, Bind, ListenFails, ServerClosed
<1>2. CASE Signal
  BY <1>2 DEF Signal
<1>3. CASE \E r \in Requests :
              Accept(r) \/ Connect(r) \/ Dispatch(r) \/ CloseNew(r) \/ Call(r) \/ Ping(r)
  BY <1>3 DEF Accept, Connect, Dispatch, CloseNew, Call, Ping
<1>4. CASE UNCHANGED vars
  BY <1>4 DEF vars
<1>5. QED
  BY <1>1, <1>2, <1>3, <1>4 DEF Next

\* The end of the process is a bounded number of steps of main and of ticks
\* away, 10 + DrainLimit at most, and no request, second signal or listener
\* moves it further away (main.go:69-80).
THEOREM ExitComesNearer ==
    Spec => [][Alive =>
                  /\ StepsLeft \in 1..10 + DrainLimit
                  /\ StepsLeft' <= StepsLeft
                  /\ Main \/ Tick => ~ Alive' \/ StepsLeft' < StepsLeft]_vars
<1>1. ASSUME TypeOK, TypeOK', [Next]_vars
      PROVE  /\ StepsLeft' <= StepsLeft
             /\ Main \/ Tick => ~ Alive' \/ StepsLeft' < StepsLeft
  <2>1. /\ Ahead(main) \in Nat /\ Ahead(main') \in Nat
        /\ drained \in Nat /\ drained' \in Nat /\ DrainLimit \in Nat
    BY <1>1, AheadFacts, DrainLimitAssumption DEF TypeOK
  <2>2. CASE Main
    <3>1. drained' = drained /\ Ahead(main') <= Ahead(main)
      BY <2>2 DEF Main, Load, OpenPool, BuildCipher, BuildRouter, Notify, BeginShutdown,
            DrainEnds, DrainForced, Stop, ClosePool, Return, Ahead
    <3>2. QED
      BY <1>1, <2>1, <2>2, <3>1, MainComesNearer DEF StepsLeft
  <2>3. CASE Tick
    BY <2>1, <2>3 DEF Tick, StepsLeft
  <2>4. CASE ~ Main /\ ~ Tick
    BY <1>1, <2>1, <2>4, OthersLeaveMain DEF StepsLeft
  <2>5. QED
    BY <2>2, <2>3, <2>4
<1>2. TypeOK /\ TypeOK' /\ [Next]_vars =>
         [Alive => /\ StepsLeft \in 1..10 + DrainLimit
                   /\ StepsLeft' <= StepsLeft
                   /\ Main \/ Tick => ~ Alive' \/ StepsLeft' < StepsLeft]_vars
  BY <1>1, AheadFacts
<1>3. QED
  BY <1>2, TypeCorrect, PTL DEF Spec
=============================================================================
