----------------------------- MODULE Lifecycle -----------------------------
(***************************************************************************)
(* The life of the process (cmd/api/main.go): configuration, wiring, the   *)
(* listener's goroutine, signals, the drain of Shutdown and the deferred   *)
(* cleanup of the connection pool, with the requests that are in flight.   *)
(* A request is a number of database calls; what they do is the business   *)
(* of the other modules.                                                   *)
(***************************************************************************)
EXTENDS Inputs, FiniteSets

CONSTANTS
    Requests,   \* HTTP requests that reach the process, one element each
    DrainLimit, \* the 10 seconds of shutdownCtx, in ticks
    MaxCalls,   \* most database calls of a handler
    KeyLens,    \* lengths of ENCRYPTION_KEY that are tried
    KeyPads     \* bytes of white space around it

ASSUME DrainLimitAssumption == DrainLimit \in Nat \ {0}
ASSUME MaxCallsAssumption == MaxCalls \in Nat \ {0}
ASSUME KeyAssumption == KeyLens \subseteq Nat /\ KeyPads \subseteq Nat

VARIABLES
    env,        \* the environment variables, constant
    main,       \* where the main goroutine stands
    pool,       \* the connection pool
    listener,   \* where the goroutine of ListenAndServe stands
    signal,     \* SIGINT or SIGTERM: not yet, arrived, arrived again
    drained,    \* ticks since shutdownCtx was made
    forced,     \* Shutdown returned because its context ended
    exit,       \* how the process ended
    req         \* req[r]: a request, its connection and its handler

vars == <<env, main, pool, listener, signal, drained, forced, exit, req>>

-----------------------------------------------------------------------------
Env == [key : KeyText(KeyLens, KeyPads), url : AppURLs,
        others : BOOLEAN,       \* PORT, CLERK_SECRET_KEY and DATABASE_URL are set
        db : BOOLEAN]           \* the database answers when the pool is opened

Mains == {"load", "open", "cipher", "router", "notify", "wait", "drain",
          "stop", "cleanup", "return"}

Exits == {"no", "ok", "boot", "listen", "panic", "killed"}

\* new: accepted, its header not read yet.  refused: no listener, or the
\* connection was closed before a handler saw it.  cut: the process ended first.
Request == [
    st    : {"none", "new", "running", "replied", "refused", "cut"},
    kind  : {"health", "api"},
    calls : 1..MaxCalls,    \* database calls the handler still makes
    code  : {"none", "ok", "500", "503"} ]

TypeOK ==
    /\ env \in Env
    /\ main \in Mains
    /\ pool \in {"none", "open", "closed"}
    /\ listener \in {"none", "start", "bind", "accept", "done"}
    /\ signal \in {"none", "once", "again"}
    /\ drained \in 0..DrainLimit
    /\ forced \in BOOLEAN
    /\ forced => drained = DrainLimit
    /\ exit \in Exits
    /\ req \in [Requests -> Request]

Init ==
    /\ env \in Env
    /\ main = "load"
    /\ pool = "none"
    /\ listener = "none"
    /\ signal = "none"
    /\ drained = 0
    /\ forced = FALSE
    /\ exit = "no"
    /\ req \in [Requests -> {[st |-> "none", kind |-> k, calls |-> n, code |-> "none"] :
                    k \in {"health", "api"}, n \in 1..MaxCalls}]
    /\ \A r \in Requests : req[r].kind = "health" => req[r].calls = 1

-----------------------------------------------------------------------------
Alive == exit = "no"

Cut(q) == IF q.st \in {"new", "running"} THEN [q EXCEPT !.st = "cut"] ELSE q

\* The process ends, and every goroutine with it.
Die(how) ==
    /\ exit' = how
    /\ req' = [r \in Requests |-> Cut(req[r])]

Running(r) == req[r].st = "running"
Open(r) == req[r].st \in {"new", "running"}

\* Shutdown was called: inShutdown of net/http.
InShutdown == main \in {"drain", "stop", "cleanup", "return"}

-----------------------------------------------------------------------------
(* main, from the top.  os.Exit and a panic skip what is deferred.          *)

LoadAccepts == env.others /\ LoadAcceptsURL(env.url) /\ LoadAcceptsKey(env.key)

Load ==
    /\ Alive /\ main = "load"
    /\ IF LoadAccepts
       THEN main' = "open" /\ UNCHANGED <<exit, req>>
       ELSE Die("boot") /\ UNCHANGED main
    /\ UNCHANGED <<env, pool, listener, signal, drained, forced>>

\* NewDB: gorm.Open reaches for the database.
OpenPool ==
    /\ Alive /\ main = "open"
    /\ IF env.db
       THEN main' = "cipher" /\ pool' = "open" /\ UNCHANGED <<exit, req>>
       ELSE Die("boot") /\ UNCHANGED <<main, pool>>
    /\ UNCHANGED <<env, listener, signal, drained, forced>>

\* NewAESCipher; when it fails InitializeApp closes the pool itself.
BuildCipher ==
    /\ Alive /\ main = "cipher"
    /\ IF ParseKey(env.key) = 32
       THEN main' = "router" /\ UNCHANGED <<pool, exit, req>>
       ELSE Die("boot") /\ pool' = "closed" /\ UNCHANGED main
    /\ UNCHANGED <<env, listener, signal, drained, forced>>

\* router.New.
BuildRouter ==
    /\ Alive /\ main = "router"
    /\ IF CorsAccepts(env.url)
       THEN main' = "notify" /\ UNCHANGED <<exit, req>>
       ELSE Die("panic") /\ UNCHANGED main
    /\ UNCHANGED <<env, pool, listener, signal, drained, forced>>

\* NotifyContext, then the goroutine.
Notify ==
    /\ Alive /\ main = "notify"
    /\ main' = "wait"
    /\ listener' = "start"
    /\ UNCHANGED <<env, pool, signal, drained, forced, exit, req>>

\* Mutant: the deferred cleanup is called as soon as the signal is there.
MutPoolInDrain == "closed"

PoolInDrain == pool

\* <-ctx.Done(), then Shutdown: the listener is closed before it waits.
BeginShutdown ==
    /\ Alive /\ main = "wait"
    /\ signal # "none"
    /\ main' = "drain"
    /\ pool' = PoolInDrain
    /\ UNCHANGED <<env, listener, signal, drained, forced, exit, req>>

\* Mutant: Close in place of Shutdown.
MutQuiescent == TRUE

\* No connection is active; Shutdown has closed the idle ones.
Quiescent == \A r \in Requests : ~ Open(r)

DrainEnds ==
    /\ Alive /\ main = "drain"
    /\ Quiescent
    /\ main' = "stop"
    /\ UNCHANGED <<env, pool, listener, signal, drained, forced, exit, req>>

\* Mutants: shutdownCtx has no timeout, or is made from the context that the
\* signal has ended.
MutDrainTimesOut == FALSE
MutDrainTimesOutAtOnce == TRUE

DrainTimesOut == drained = DrainLimit

\* Shutdown looks at the connections from time to time, so it may also miss
\* that the last one has just become idle.
DrainForced ==
    /\ Alive /\ main = "drain"
    /\ DrainTimesOut
    /\ forced' = TRUE
    /\ main' = "stop"
    /\ UNCHANGED <<env, pool, listener, signal, drained, exit, req>>

\* The deferred calls, last first: cancel, stop, cleanup.
Stop ==
    /\ Alive /\ main = "stop"
    /\ main' = "cleanup"
    /\ UNCHANGED <<env, pool, listener, signal, drained, forced, exit, req>>

ClosePool ==
    /\ Alive /\ main = "cleanup"
    /\ main' = "return"
    /\ pool' = "closed"
    /\ UNCHANGED <<env, listener, signal, drained, forced, exit, req>>

Return ==
    /\ Alive /\ main = "return"
    /\ Die("ok")
    /\ UNCHANGED <<env, main, pool, listener, signal, drained, forced>>

-----------------------------------------------------------------------------
(* The goroutine of ListenAndServe.                                        *)

Listen ==
    /\ Alive /\ listener = "start"
    /\ listener' = IF InShutdown THEN "done" ELSE "bind"
    /\ UNCHANGED <<env, main, pool, signal, drained, forced, exit, req>>

\* The port is bound; Serve looks again whether Shutdown was called.
Bind ==
    /\ Alive /\ listener = "bind"
    /\ listener' = IF InShutdown THEN "done" ELSE "accept"
    /\ UNCHANGED <<env, main, pool, signal, drained, forced, exit, req>>

\* Any error but ErrServerClosed: os.Exit(1).
ListenFails ==
    /\ Alive
    /\ \/ listener = "bind"
       \/ listener = "accept" /\ ~ InShutdown
    /\ Die("listen")
    /\ UNCHANGED <<env, main, pool, listener, signal, drained, forced>>

ServerClosed ==
    /\ Alive /\ listener = "accept" /\ InShutdown
    /\ listener' = "done"
    /\ UNCHANGED <<env, main, pool, signal, drained, forced, exit, req>>

-----------------------------------------------------------------------------
(* Signals and time.                                                       *)

\* Mutant: stop is called once the first signal is there, so that a second
\* one has its default effect.
MutCaught == main = "wait" \/ (main \in {"notify", "drain"} /\ signal = "none")

\* NotifyContext holds the signals until the deferred stop; outside of that
\* they kill the process.
Caught == main \in {"wait", "drain", "stop"}

Signal ==
    /\ Alive
    /\ signal # "again"
    /\ signal' = IF signal = "none" THEN "once" ELSE "again"
    /\ IF Caught THEN UNCHANGED <<exit, req>> ELSE Die("killed")
    /\ UNCHANGED <<env, main, pool, listener, drained, forced>>

Tick ==
    /\ Alive /\ main = "drain"
    /\ drained < DrainLimit
    /\ drained' = drained + 1
    /\ UNCHANGED <<env, main, pool, listener, signal, forced, exit, req>>

-----------------------------------------------------------------------------
(* Requests.                                                               *)

Put(r, q) == req' = [req EXCEPT ![r] = q]

Accept(r) ==
    /\ Alive /\ listener = "accept" /\ ~ InShutdown
    /\ req[r].st = "none"
    /\ Put(r, [req[r] EXCEPT !.st = "new"])
    /\ UNCHANGED <<env, main, pool, listener, signal, drained, forced, exit>>

Connect(r) ==
    /\ listener # "accept" \/ InShutdown \/ ~ Alive
    /\ req[r].st = "none"
    /\ Put(r, [req[r] EXCEPT !.st = "refused"])
    /\ UNCHANGED <<env, main, pool, listener, signal, drained, forced, exit>>

\* The header is there and the handler starts, also while Shutdown waits.
Dispatch(r) ==
    /\ Alive /\ req[r].st = "new"
    /\ Put(r, [req[r] EXCEPT !.st = "running"])
    /\ UNCHANGED <<env, main, pool, listener, signal, drained, forced, exit>>

\* ReadHeaderTimeout, and Shutdown, which takes a connection that stays new
\* for an idle one.
CloseNew(r) ==
    /\ Alive /\ req[r].st = "new"
    /\ Put(r, [req[r] EXCEPT !.st = "refused"])
    /\ UNCHANGED <<env, main, pool, listener, signal, drained, forced, exit>>

Replied(q, code) == [q EXCEPT !.st = "replied", !.code = code]

LastCall(q) == q.calls = 1

\* One database call of a handler.  On a closed pool it fails.
Call(r) ==
    /\ Alive /\ Running(r)
    /\ req[r].kind = "api"
    /\ Put(r, IF pool # "open" THEN Replied(req[r], "500")
              ELSE IF LastCall(req[r]) THEN Replied(req[r], "ok")
              ELSE [req[r] EXCEPT !.calls = @ - 1])
    /\ UNCHANGED <<env, main, pool, listener, signal, drained, forced, exit>>

\* GET /health: one ping, which may fail for reasons of its own.
Ping(r) ==
    /\ Alive /\ Running(r)
    /\ req[r].kind = "health"
    /\ \/ pool = "open" /\ Put(r, Replied(req[r], "ok"))
       \/ Put(r, Replied(req[r], "503"))
    /\ UNCHANGED <<env, main, pool, listener, signal, drained, forced, exit>>

-----------------------------------------------------------------------------
Main ==
    \/ Load \/ OpenPool \/ BuildCipher \/ BuildRouter \/ Notify \/ BeginShutdown
    \/ DrainEnds \/ DrainForced \/ Stop \/ ClosePool \/ Return

Listener == Listen \/ Bind \/ ListenFails \/ ServerClosed

Next ==
    \/ Main \/ Listener \/ Signal \/ Tick
    \/ \E r \in Requests :
          Accept(r) \/ Connect(r) \/ Dispatch(r) \/ CloseNew(r) \/ Call(r) \/ Ping(r)

Spec == Init /\ [][Next]_vars

\* The main goroutine runs and time passes.  Nothing is asked of handlers:
\* a call to a provider may take for ever.
FairSpec == Spec /\ WF_vars(Main) /\ WF_vars(Tick)

-----------------------------------------------------------------------------
(* Properties.                                                             *)

\* "Fail-Fast" (env.go:47): a key that Load lets through never makes
\* NewAESCipher fail, so no pool is opened for a process with a bad key.
FailFast == pool # "none" => ParseKey(env.key) = 32

\* No handler meets a closed pool unless the drain was cut short (the order of
\* the deferred cleanup, main.go:48, after Shutdown, main.go:75).
PoolOutlivesHandlers ==
    \A r \in Requests : pool = "closed" /\ Running(r) => forced

\* A request the server took is cut off only by the end of the 10 seconds
\* (main.go:71) or by a listener that failed, never by a second signal while
\* the drain is on.  (A signal between stop and the end of main kills a
\* process whose drain is over.)
CutOnlyAfterLimit ==
    \A r \in Requests :
        req[r].st = "cut" => exit = "listen" \/ (forced /\ drained = DrainLimit)

\* An orderly exit, one that was not forced, has answered every request it
\* took, none of them with an error of the pool, and leaves no pool open.
OrderlyExit ==
    exit = "ok" /\ ~ forced =>
        /\ pool = "closed"
        /\ \A r \in Requests :
              /\ ~ Open(r) /\ req[r].st # "cut"
              /\ req[r].code # "500"

\* Once a signal is there the process ends, whatever the handlers do.
SignalEnds == signal # "none" ~> ~ Alive
=============================================================================
