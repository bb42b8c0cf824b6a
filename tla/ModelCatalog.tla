---------------------------- MODULE ModelCatalog ----------------------------
(***************************************************************************)
(* API keys, and the models a user may pick with them.                     *)
(*                                                                         *)
(* A user registers one key per provider (table user_api_keys); GET        *)
(* /models asks each provider which models the key gives access to and     *)
(* keeps the answer for TTL in the process's MemoryCache.  Registering or  *)
(* deleting a key purges the entry of its provider.  Nothing orders these  *)
(* requests, so a list may hold a key, or an answer, that has been         *)
(* replaced meanwhile.                                                     *)
(*                                                                         *)
(* Time is kept in countdowns: an entry has "life" ticks until expiresAt,  *)
(* a provider call has "left" ticks until the HTTP client's timeout.       *)
(***************************************************************************)
EXTENDS Integers, FiniteSets

CONSTANTS
    Users,          \* Clerk user ids
    Providers,      \* providers, numbered in the order of their names
    Keys,           \* API keys
    Requests,       \* slots for the requests in flight
    NoUser, NoKey, NoEntry,
    TTL,            \* ticks an entry lives
    FetchLimit,     \* ticks a call to a provider lasts at most
    Overlap,        \* TRUE: requests of one user may overlap
    Unconfirmed     \* TRUE: a write that reports an error may have been made

ASSUME CatalogAssumption ==
    /\ Providers \subseteq Nat \ {0} /\ IsFiniteSet(Providers)
    /\ NoUser \notin Users /\ NoKey \notin Keys
    /\ TTL \in Nat /\ FetchLimit \in Nat
    /\ Overlap \in BOOLEAN /\ Unconfirmed \in BOOLEAN

VARIABLES
    table,      \* user_api_keys: the key of each user and provider, or NoKey
    sealed,     \* rows encrypted under an earlier ENCRYPTION_KEY
    cache,      \* MemoryCache.items
    request,    \* the goroutines serving requests
    age         \* history: ticks since a key was last in the table, or in an
                \* answer of the database on its way

vars == <<table, sealed, cache, request, age>>

-----------------------------------------------------------------------------
Rows == Users \X Providers

\* What a list fetched for "user" with "key"; life < 0 once it has expired.
Entry == [user: Users, key: Keys, life: -1..TTL]
ASSUME NoEntryAssumption == NoEntry \notin Entry

\* Models in a response, named by where they came from.
Item == [user: Users, provider: Providers, key: Keys]

Pcs == {"idle", "probe", "upsert", "delete", "purge", "keys", "rows", "look", "fetch"}

\* A list that gets its keys now and visits every provider in turn serves and
\* stores nothing later than this after any of the keys was replaced.
FillDelay == Cardinality(Providers) * FetchLimit
StaleBound == FillDelay + TTL
AgeCap == StaleBound + 1

Request == [
    pc       : Pcs,
    user     : Users \cup {NoUser},
    provider : Providers \cup {0},      \* of a register or a delete
    key      : Keys \cup {NoKey},       \* the key to register
    refresh  : BOOLEAN,                 \* ?refresh=true
    keys     : [Providers -> Keys \cup {NoKey}],  \* GetDecryptedKeys
    todo     : SUBSET Providers,        \* providers the loop has yet to visit
    left     : 0..FetchLimit,
    served   : SUBSET Item,             \* allModels
    replaced : Keys \cup {NoKey},       \* history: what its write overwrote
    seen     : [Providers -> SUBSET (Keys \cup {NoKey})] ] \* history: see List

TypeOK ==
    /\ table \in [Rows -> Keys \cup {NoKey}]
    /\ sealed \subseteq Rows
    /\ cache \in [Rows -> Entry \cup {NoEntry}]
    /\ request \in [Requests -> Request]
    /\ age \in [Rows -> [Keys -> 0..AgeCap]]

Idle == [
    pc |-> "idle", user |-> NoUser, provider |-> 0, key |-> NoKey,
    refresh |-> FALSE, keys |-> [p \in Providers |-> NoKey], todo |-> {},
    left |-> 0, served |-> {}, replaced |-> NoKey, seen |-> [p \in Providers |-> {}] ]

Init ==
    /\ table = [x \in Rows |-> NoKey]
    /\ sealed = {}
    /\ cache = [x \in Rows |-> NoEntry]
    /\ request = [r \in Requests |-> Idle]
    /\ age = [x \in Rows |-> [k \in Keys |-> AgeCap]]

-----------------------------------------------------------------------------
(* MemoryCache.                                                            *)

\* Mutant: the cache key leaves out the user.
MutSlot(u, p) == <<CHOOSE v \in Users : TRUE, p>>

Slot(u, p) == <<u, p>>

\* Mutant: Get does not look at expiresAt and leaves it to the janitor.
MutExpired(e) == FALSE

Expired(e) == e.life < 0

Live(x) == cache[x] # NoEntry /\ ~Expired(cache[x])

Filled(u, k) == [user |-> u, key |-> k, life |-> TTL]

\* Mutant: the janitor sweeps an entry that expires now.
MutSweepable(e) == e.life <= 0

\* The janitor's pass; its 10 minute ticker is not modelled, it may run any time.
Sweepable(e) == e.life < 0

Cleanup ==
    /\ \E x \in Rows : cache[x] # NoEntry /\ Sweepable(cache[x])
    /\ cache' = [x \in Rows |->
                   IF cache[x] # NoEntry /\ Sweepable(cache[x]) THEN NoEntry ELSE cache[x]]
    /\ UNCHANGED <<table, sealed, request, age>>

-----------------------------------------------------------------------------
(* Requests and the table.                                                 *)

Listing(s) == s.pc \in {"keys", "rows", "look", "fetch"}

MayStart(u) == Overlap \/ \A q \in Requests : request[q].user # u

Become(r, s) == request' = [request EXCEPT ![r] = s]

\* The row of u and p becomes k; the lists of u in flight may or may not see it.
Write(u, p, k) ==
    /\ table' = [table EXCEPT ![<<u, p>>] = k]
    /\ sealed' = sealed \ {<<u, p>>}
    /\ age' = IF k = NoKey THEN age ELSE [age EXCEPT ![<<u, p>>][k] = 0]

Observed(reqs, u, p, k) ==
    [q \in Requests |-> IF Listing(reqs[q]) /\ reqs[q].user = u
                        THEN [reqs[q] EXCEPT !.seen[p] = @ \cup {k}]
                        ELSE reqs[q]]

\* r writes k and goes on as s, with its purge and its answer still to come.
WriteAndBecome(r, s, k) ==
    LET u == request[r].user
        p == request[r].provider
    IN  /\ Write(u, p, k)
        /\ request' = Observed([request EXCEPT ![r] = s], u, p, k)

WithReplaced(s) == [s EXCEPT !.replaced = table[s.user, s.provider]]

\* The write of r failed, or so it looks: the handler answers 500.
WriteFails(r, k) ==
    \/ Become(r, Idle) /\ UNCHANGED <<table, sealed, age>>
    \/ Unconfirmed /\ WriteAndBecome(r, Idle, k)

-----------------------------------------------------------------------------
(* Registering a key.                                                      *)

Register(r, u, p, k) ==
    /\ request[r].pc = "idle"
    /\ MayStart(u)
    /\ Become(r, [Idle EXCEPT !.pc = "probe", !.user = u, !.provider = p,
                              !.key = k, !.left = FetchLimit])
    /\ UNCHANGED <<table, sealed, cache, age>>

\* ValidateKey; a key the provider refuses is answered with 400.
Probe(r) ==
    /\ request[r].pc = "probe"
    /\ \/ Become(r, [request[r] EXCEPT !.pc = "upsert", !.left = 0])
       \/ Become(r, Idle)
    /\ UNCHANGED <<table, sealed, cache, age>>

\* Mutant: the handler answers without purging.
MutAfterUpsert(s) == Idle

\* When Upsert reports an error the handler returns without purging.
AfterUpsert(s) == [WithReplaced(s) EXCEPT !.pc = "purge"]

Upsert(r) ==
    LET s == request[r] IN
    /\ s.pc = "upsert"
    /\ \/ WriteAndBecome(r, AfterUpsert(s), s.key)
       \/ WriteFails(r, s.key)
    /\ UNCHANGED cache

Purge(r) ==
    LET s == request[r] IN
    /\ s.pc = "purge"
    /\ cache' = [cache EXCEPT ![Slot(s.user, s.provider)] = NoEntry]
    /\ Become(r, Idle)
    /\ UNCHANGED <<table, sealed, age>>

-----------------------------------------------------------------------------
(* Deleting a key.                                                         *)

Delete(r, u, p) ==
    /\ request[r].pc = "idle"
    /\ MayStart(u)
    /\ Become(r, [Idle EXCEPT !.pc = "delete", !.user = u, !.provider = p])
    /\ UNCHANGED <<table, sealed, cache, age>>

AfterDelete(s) == [WithReplaced(s) EXCEPT !.pc = "purge"]

\* No row: 404, and no purge either.
DeleteRow(r) ==
    LET s == request[r] IN
    /\ s.pc = "delete"
    /\ \/ /\ table[s.user, s.provider] = NoKey
          /\ Become(r, Idle)
          /\ UNCHANGED <<table, sealed, age>>
       \/ /\ table[s.user, s.provider] # NoKey
          /\ WriteAndBecome(r, AfterDelete(s), NoKey)
       \/ WriteFails(r, NoKey)
    /\ UNCHANGED cache

-----------------------------------------------------------------------------
(* Listing the models.                                                     *)

\* "seen" records, for the properties only, every key each row has held since
\* the request arrived, and those whose replacement is not acknowledged yet.
NotYetReplaced(u, p) ==
    LET purging == {q \in Requests : /\ request[q].pc = "purge"
                                     /\ request[q].user = u
                                     /\ request[q].provider = p}
    IN  {request[q].replaced : q \in purging}

List(r, u, refresh) ==
    /\ request[r].pc = "idle"
    /\ MayStart(u)
    /\ Become(r, [Idle EXCEPT !.pc = "keys", !.user = u, !.refresh = refresh,
                              !.seen = [p \in Providers |-> {table[u, p]} \cup NotYetReplaced(u, p)]])
    /\ UNCHANGED <<table, sealed, cache, age>>

\* Mutant: Decrypt returns what it finds when it cannot open a row.
MutDecrypts(u, p) == TRUE

\* AES-GCM opens what was sealed under the same key, and nothing else.
Decrypts(u, p) == <<u, p>> \notin sealed

\* GetDecryptedKeys: a row that does not decrypt is skipped.
DecryptedKeys(u) ==
    [p \in Providers |-> IF Decrypts(u, p) THEN table[u, p] ELSE NoKey]

\* Mutant: the loop runs over the providers, not over the keys.
MutToVisit(keys) == Providers

ToVisit(keys) == {p \in Providers : keys[p] # NoKey}

\* PostgreSQL reads the rows as they are now; its answer is on its way.
ReadKeys(r) ==
    LET s    == request[r]
        keys == DecryptedKeys(s.user)
    IN
    /\ s.pc = "keys"
    /\ Become(r, [s EXCEPT !.pc = "rows", !.keys = keys, !.todo = ToVisit(keys)])
    /\ UNCHANGED <<table, sealed, cache, age>>

\* The answer arrives, however late: nothing limits the time of a query.
KeysArrive(r) ==
    /\ request[r].pc = "rows"
    /\ \/ Become(r, [request[r] EXCEPT !.pc = "look"])
       \/ Become(r, Idle)                                       \* 500
    /\ UNCHANGED <<table, sealed, cache, age>>

\* The provider the loop is at.
Current(s) == CHOOSE p \in s.todo : \A q \in s.todo : p <= q

\* Mutant: refresh is not looked at.
MutUseCache(s) == Live(Slot(s.user, Current(s)))

UseCache(s) == ~s.refresh /\ Live(Slot(s.user, Current(s)))

Serving(s, item) ==
    [s EXCEPT !.pc = "look", !.left = 0, !.todo = @ \ {Current(s)},
              !.served = @ \cup {item}]

Hit(r) ==
    LET s == request[r]
        e == cache[Slot(s.user, Current(s))]
    IN
    /\ s.pc = "look"
    /\ s.todo # {}
    /\ UseCache(s)
    /\ Become(r, Serving(s, [user |-> e.user, provider |-> Current(s), key |-> e.key]))
    /\ UNCHANGED <<table, sealed, cache, age>>

Miss(r) ==
    LET s == request[r] IN
    /\ s.pc = "look"
    /\ s.todo # {}
    /\ ~UseCache(s)
    /\ Become(r, [s EXCEPT !.pc = "fetch", !.left = FetchLimit])
    /\ UNCHANGED <<table, sealed, cache, age>>

\* FetchModels answers; the loop stores the answer and moves on.
FetchAnswers(r) ==
    LET s == request[r]
        p == Current(s)
    IN
    /\ s.pc = "fetch"
    /\ cache' = [cache EXCEPT ![Slot(s.user, p)] = Filled(s.user, s.keys[p])]
    /\ Become(r, Serving(s, [user |-> s.user, provider |-> p, key |-> s.keys[p]]))
    /\ UNCHANGED <<table, sealed, age>>

\* Mutant: the loop tries the same provider again.
MutSkipping(s) == [s EXCEPT !.pc = "look", !.left = 0]

\* An error of FetchModels (its timeout included) only skips the provider.
Skipping(s) == [s EXCEPT !.pc = "look", !.left = 0, !.todo = @ \ {Current(s)}]

FetchFails(r) ==
    /\ request[r].pc = "fetch"
    /\ Become(r, Skipping(request[r]))
    /\ UNCHANGED <<table, sealed, cache, age>>

Respond(r) ==
    /\ request[r].pc = "look"
    /\ request[r].todo = {}
    /\ Become(r, Idle)
    /\ UNCHANGED <<table, sealed, cache, age>>

-----------------------------------------------------------------------------
(* The environment.                                                        *)

\* Mutant: the HTTP client has no timeout.
MutMayWait(s) == s.pc \notin {"look", "purge"}

\* Time passes while requests wait for the database or a provider; the steps a
\* request takes inside the process take no time, and no provider call outlasts
\* the timeout of the HTTP client.
MayWait(s) ==
    /\ s.pc \notin {"look", "purge"}
    /\ s.pc \in {"probe", "fetch"} => s.left > 0

Elapsed(s) == IF s.pc \in {"probe", "fetch"} THEN [s EXCEPT !.left = @ - 1] ELSE s

OneOlder(e) == IF e = NoEntry \/ e.life < 0 THEN e ELSE [e EXCEPT !.life = @ - 1]

\* A list is still to get key k of row x from the database.
OnItsWay(x, k) ==
    \E r \in Requests : /\ request[r].pc = "rows"
                        /\ request[r].user = x[1]
                        /\ request[r].keys[x[2]] = k

Tick ==
    /\ \A r \in Requests : MayWait(request[r])
    /\ request' = [r \in Requests |-> Elapsed(request[r])]
    /\ cache' = [x \in Rows |-> OneOlder(cache[x])]
    /\ age' = [x \in Rows |-> [k \in Keys |->
                 IF table[x] = k \/ OnItsWay(x, k) THEN 0
                 ELSE IF age[x][k] < AgeCap THEN age[x][k] + 1 ELSE AgeCap]]
    /\ UNCHANGED <<table, sealed>>

\* The process dies and starts again, possibly with another ENCRYPTION_KEY.
Restart(rotated) ==
    /\ cache' = [x \in Rows |-> NoEntry]
    /\ request' = [r \in Requests |-> Idle]
    /\ sealed' = IF rotated THEN {x \in Rows : table[x] # NoKey} ELSE sealed
    /\ UNCHANGED <<table, age>>

-----------------------------------------------------------------------------
Serve(r) ==
    \/ Probe(r) \/ Upsert(r) \/ DeleteRow(r) \/ Purge(r)
    \/ ReadKeys(r) \/ KeysArrive(r) \/ Hit(r) \/ Miss(r)
    \/ FetchAnswers(r) \/ FetchFails(r) \/ Respond(r)

Next ==
    \/ \E r \in Requests, u \in Users :
          \/ \E p \in Providers : (\E k \in Keys : Register(r, u, p, k)) \/ Delete(r, u, p)
          \/ \E refresh \in BOOLEAN : List(r, u, refresh)
    \/ \E r \in Requests : Serve(r)
    \/ Cleanup
    \/ Tick
    \/ \E rotated \in BOOLEAN : Restart(rotated)

Spec == Init /\ [][Next]_vars

Fairness == \A r \in Requests : WF_vars(Serve(r))

FairSpec == Spec /\ Fairness

-----------------------------------------------------------------------------
(* Properties.                                                             *)

\* Nobody is served, or has cached under his name, models that were fetched
\* with the key of someone else.
Isolation ==
    /\ \A r \in Requests : \A item \in request[r].served : item.user = request[r].user
    /\ \A x \in Rows : cache[x] # NoEntry => cache[x].user = x[1]

\* A row that was sealed under an earlier ENCRYPTION_KEY is dead until it is
\* written again: no list holds its key, and no models of it are cached, however
\* the restart fell into the requests that were under way.
SealedUnused ==
    \A x \in sealed :
        /\ cache[x] = NoEntry
        /\ \A r \in Requests : request[r].user = x[1] => x[2] \notin request[r].todo

\* The items a step adds to the response of r.
JustServed(r) == request'[r].served \ request[r].served

\* Whatever races, models are not served longer after their key was last in the
\* table, or in an answer of the database still on its way to a list, than a list
\* may take to store them plus the life of an entry.
BoundedStaleness ==
    [][\A r \in Requests : \A item \in JustServed(r) :
          age[item.user, item.provider][item.key] <= StaleBound]_vars

\* A list serves no provider for which the user had no key at any moment since
\* the request arrived, however long its models stay in the cache.
OnlyRegisteredProviders ==
    [][\A r \in Requests : \A item \in JustServed(r) :
          request[r].seen[item.provider] \cap Keys # {}]_vars

\* A list serves models of a key the user had at some moment since the request
\* arrived: it does not go back behind a change acknowledged before it.
Regular ==
    [][\A r \in Requests : \A item \in JustServed(r) :
          item.key \in request[r].seen[item.provider]]_vars

\* A list with refresh=true is regular whatever it races with.
RefreshIsRegular ==
    [][\A r \in Requests : \A item \in JustServed(r) :
          request[r].refresh => item.key \in request[r].seen[item.provider]]_vars

\* The janitor takes away nothing that Get would still have found.
JanitorInvisible == [][Cleanup => \A x \in Rows : Live(x) = Live(x)']_vars

\* Every list ends, whatever the providers do.
ListsEnd == \A r \in Requests : Listing(request[r]) ~> request[r].pc = "idle"

-----------------------------------------------------------------------------
(* What the catalog promises, as an abstract specification.                *)

Changes == [r \in Requests |->
    IF request[r].pc = "purge"
    THEN {[user |-> request[r].user, provider |-> request[r].provider,
           key |-> request[r].replaced]}
    ELSE {}]

Lists == [r \in Requests |->
    IF Listing(request[r])
    THEN [open |-> TRUE, user |-> request[r].user, refresh |-> request[r].refresh,
          drawn |-> IF request[r].pc = "rows" THEN request[r].keys ELSE Idle.keys,
          seen |-> request[r].seen, served |-> request[r].served]
    ELSE [open |-> FALSE, user |-> NoUser, refresh |-> FALSE, drawn |-> Idle.keys,
          seen |-> [p \in Providers |-> {}], served |-> {}]]

Promise == INSTANCE KeyRegister WITH
    Bound <- StaleBound, Strict <- ~Overlap /\ ~Unconfirmed,
    held <- table, change <- Changes, list <- Lists

\* Keys, cache, purges and lists together are a register per user and provider
\* whose reads are bounded in their staleness, and regular with refresh=true, or
\* if no requests of a user overlap and no failed write is made.
ImplementsKeyRegister == Promise!Spec
=============================================================================
