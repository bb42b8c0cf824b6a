# A verification of study-gin-clerk

The repository is a chat server in Go (gin, gorm on PostgreSQL, Clerk for
sign-in) through which users talk to AI providers with API keys of their own,
and a web page that uses it. This directory holds TLA+ models of the server,
the TLC runs that check them on small instances, and proofs checked by TLAPS.

## 1. The system

| Part | Source | State | Operations |
|---|---|---|---|
| Chat exchange | `internal/{handler,service,infra/repository}/chat.go` | tables `chats`, `messages`; per request a `chatSessionContext` | create, list and get a chat; send a message; stream a message |
| AI client | `internal/infra/ai/client.go` | none | GenerateReply, StreamReply |
| User profile | `internal/{handler,service,infra/repository}/user_profile.go` | table `user_profiles` (system prompt) | get, update |
| API keys | `internal/{handler,service,infra/repository}/user_api_key.go` | table `user_api_keys`, one row per user and provider | register (probe, encrypt, upsert, purge), delete (delete, purge), list, decrypt one or all |
| Model catalog | `internal/{handler,service}/ai_model.go`, `internal/infra/ai/cache.go` | `MemoryCache`: user and provider to models and an expiry, under an RWMutex | list (get, fetch, set), purge, janitor |
| Model registry | `internal/infra/ai/registry.go` | an HTTP client with a 20 s timeout | FetchModels, ValidateKey |
| Encryption, configuration | `internal/infra/crypto/aes.go`, `internal/config/env.go`, `internal/model/*.go` | the key of the process | Encrypt, Decrypt, Load, MaskAPIKey, ParseProvider |
| Authentication, routing | `internal/{middleware,auth,router}` | the user id of a request | ClerkAuthMiddleware, MustGetUserID |
| Lifecycle, pool | `cmd/api/*.go`, `internal/infra/db/db.go` | listener, 100-connection pool | start, serve, drain 10 s, close |
| Health | `internal/handler/health.go` | none | ping |
| Schema | `migrations/*.sql` | the tables above | up, down |
| Web client | `web/index.html` | `currentChatId`, the page | token refresh, keys, models, chats, send, stream |

How they interact. A handler goroutine per request takes the user id the
middleware left, calls one service, and the service calls repositories, the
cache, the registry and the AI client in sequence. Goroutines share the
database and the `MemoryCache`, nothing else, and there is no lock or
transaction around a whole operation: a message exchange is five database
calls and a provider call, a key registration is a probe, an upsert and a
purge, a model list is a read of the keys and then, provider by provider, a
look into the cache, perhaps a fetch and a store. All database and provider
calls take the request's context, which net/http cancels when the client hangs
up, except the save at the end of a stream, which is a callback under
`context.Background()`.

What is hard. Requests to one chat or of one user interleave between any two
calls. Any call may fail, the context may end between or during them, and a
COMMIT whose answer is lost may take effect later. The process may die in the
middle, and may come back with another `ENCRYPTION_KEY`. Answers that were
fetched before a change are stored after it. Entries expire while a janitor
sweeps. Inside a message's transaction calls wait for one of the pool's connections and
for the row of their chat. A shutdown races with handlers, with the start of the listener
and with further signals. In the page every `await` lets the user's next click
in. `PROJECT.json` lists these as hazards, each at its line, with the
properties that speak of it.

What makes each part correct:

* exchange: rows agree with what the caller was told, also after late commits
  and crashes; only whole replies are stored; the context given to the provider
  is in order, has the prompt once and last, and has every acknowledged
  exchange; a finished stream survives a hang-up; a hang-up releases the
  goroutine; no user reaches another's chat; the current system prompt is used.
* catalog: models served belong to the user and to a provider he has a key for;
  how stale they may be is bounded from the moment the keys reach the list, whatever races; without races a list never
  goes back behind a key change, and with `refresh=true` not even with races;
  every list ends; the janitor is invisible.
* message transaction: the message and its chat's `updated_at` appear together and
  once, and a chat appears with an `updated_at` of its own; no connection is leaked; calls that wait for connections and rows never wait
  for one another; the chat list is sorted as the user expects.
* lifecycle: a bad key stops the process before it opens a pool; a handler meets a closed
  pool only when the drain was cut short; an orderly exit has answered everything; a signal
  ends the process.
* web client: a click has its effect at most once; a message goes to the chat it was
  typed in; at rest the pane, the badge and `currentChatId` agree, and a reply is
  shown, when nothing overlapped.

## 2. Modules

| Module | What it is |
|---|---|
| `ChatSession` | the exchange: chats, profiles, messages and the goroutine of every request |
| `Conversation` | abstract: prompt, then reply, then at most one verdict, per request |
| `ChatSessionInductive` | the inductive invariant `IInv` of `ChatSession` |
| `ChatSessionProofs` | type correctness, `IInv` and the safety properties, proved |
| `ChatRefinementProofs` | `ChatSession` implements `Conversation`, proved |
| `MessageTx` | `Create` and `CreateMessage` statement by statement, with row locks and the connection pool |
| `ChatLog` | abstract: what `Create` and `CreateMessage` promise |
| `MessageTxProofs` | safety of `MessageTx`, and that it implements `ChatLog`, proved |
| `ModelCatalog` | API keys, the model cache and the lists |
| `KeyRegister` | abstract: what callers may rely on, keys and lists without a cache |
| `ModelCatalogProofs` | safety of `ModelCatalog`, and how its lists end, proved |
| `CatalogRefinementProofs` | `ModelCatalog` implements `KeyRegister`, proved |
| `Inputs` | what the server checks of its key, its `APP_URL` and a user's API key: pure operators |
| `Lifecycle` | the process from `Load` to its end, over `Inputs` |
| `LifecycleProofs` | safety of `Lifecycle` and two theorems about `Inputs`, proved |
| `WebClient` | the page, the authentication gate and the effects of the handlers |
| `WebClientProofs` | safety of `WebClient`, proved |
| `MCChatSession`, `MCMessageTx`, `MCModelCatalog`, `MCLifecycle`, `MCWebClient` | symmetry and small sets for TLC |

How they fit together. `MessageTx` opens up what `ChatSession` takes as one step
(`BeginAsk`/`CommitAsk`, `BeginSave`/`CommitSave`, `Land`): the promise that `ChatSession`
builds on, `ChatLog`, is what `MessageTx` is shown to implement. `Lifecycle` says when
a handler may run at all; `Crash` of `ChatSession` and `Restart` of `ModelCatalog` are
the abrupt ends it can come to. `WebClient` sees of a handler only its effect and that the
answer may be lost. They are not composed into one module: what they share are the
promises just named.

### ChatSession

`session[r]` is the goroutine of request `r`: `pc` names the call it is about
to make (`askTx` and `saveTx`: it is inside `CreateMessage`'s transaction), `hist` is
`session.chat.Messages`, `sys` the system prompt, `got` the text received, in chunks,
`code` what the client was told (an HTTP status, or how an open stream ended).
`owner`, `profile` and `messages` are the tables. A request is in one of two modes,
`send` (one JSON answer) and `stream` (server-sent events).

| Action | Code |
|---|---|
| `CreateChat`, `UpdateSystemPrompt` | the handlers of the same names (one insert or upsert each) |
| `Arrive`, `BadRequest` | `parseSendMessageRequest` and the checks at the head of `prepareSessionContext` |
| `Load`, `FetchKey`, `BeginAsk`/`CommitAsk`, `LoadProfile` | the four steps of `prepareSessionContext` |
| `Generate` | `GenerateReply` in `SendMessage` |
| `OpenStream`, `Chunk`, `StreamEnds`, `StreamBreaks` | `StreamReply` and the loop of the stream handler |
| `ContextAborts` | a provider call that returns because the request context ended |
| `BeginSave`/`CommitSave` | the second `CreateMessage`: under the request context in `send`, under `context.Background()` in `stream` |
| `Land` | a commit that was not confirmed takes effect after all |
| `Disconnect`, `Crash` | net/http cancels the context; the process dies |

Abstractions. A message is its request and, for a reply, its number of chunks.
`created_at` is a clock that steps at every insert: stamps are distinct and grow in
the order of the inserts, not of the commits. (The code orders by `created_at`
only; two rows with the same microsecond are not modelled.) `GetWithMessages` reads
the chat and its messages as one snapshot: an owner never changes and rows are only
added, so reading the messages a moment after the ownership is the same as
doing both at that moment. A commit that was not confirmed goes to `limbo`, from
where it may enter the table at any later moment, or never; this covers a rollback.
A call under way when the context is cancelled may still succeed; the next one
that takes the context does not (`live`, `cancelled`, `expired`).
`chats.updated_at`, and the row lock under which it is written, are in `MessageTx`.

### Conversation

Three variables: requests whose prompt is stored, requests whose reply is stored,
and what the caller was told. "ok" comes with the reply; "refused" (400, 404) settles that
nothing is stored; after "failed", or when the process died before it said
anything, rows may still appear, the prompt before the reply and each once.
The refinement mapping (`asked`, `answered`, `told`) is at the end of `ChatSession`.

### MessageTx

`call[r]` is the goroutine inside `Create` or `CreateMessage` (`op` says which), `inUse` the
connections taken, `tx[r]` the transaction as PostgreSQL sees it, `stored` the committed rows of chats and
messages, each named by the call that made it, `updatedAt` the committed `updated_at` of each chat, named by the
call whose clock reading it is: `Absent` while a call is still to create the chat, `Never` for a chat from before
that nothing has touched since. `clock` is the last `time.Now()`. `seen` (the rows stored when the call
began) is history. `Following` is the order of the statements: `Create` reads the clock and inserts, `CreateMessage`
inserts, reads the clock and updates.

| Action | Code |
|---|---|
| `Invoke` | the call; a message is sent only to a chat that exists |
| `Begin` | `Transaction`, or the one gorm puts around `Create`: it waits for one of `MaxConns` connections |
| `Insert` | `tx.Create(msg)`, whose foreign key takes `KEY SHARE` on the chat; or the INSERT of a chat |
| `Now` | `time.Now()` before the UPDATE; or gorm's stamp of `autoUpdateTime` before the INSERT of a chat |
| `Update` | the UPDATE of `updated_at`, which takes `NO KEY UPDATE` |
| `Commit`, `CommitUnanswered` | the COMMIT, and one whose answer is lost |
| `Abort` | any step fails, or the context has ended: gorm rolls back |
| `Disconnect` | the request context ends; not for calls in `Detached`, which take `context.Background()` |
| `Orphaned` | PostgreSQL ends a transaction whose connection is lost |

`KEY SHARE` conflicts neither with itself nor with `NO KEY UPDATE`, so no insert waits for a
row and the UPDATE is the only place where a call does: that
is why there is no deadlock, and run `tx_pool` finds one when the UPDATE takes the stronger lock `UPDATE`. A
lost connection gives its place in the pool back at once, its locks only when PostgreSQL notices.

### ModelCatalog

`table` holds the current key of each user and provider, `sealed` the rows that were
encrypted under an earlier `ENCRYPTION_KEY`, `cache` the entries with the ticks they
have left (negative once expired), `request` the goroutines. `seen`, `replaced` and
`age` are history, read by the properties only. `age` counts from the tick a key was replaced or, if that is
later, from the arrival of the last answer of the database that carried it.

| Action | Code |
|---|---|
| `Register`, `Probe`, `Upsert`, `Purge` | `RegisterKey`: the handler, `ValidateKey`, the upsert, `cache.Purge` |
| `Delete`, `DeleteRow`, `Purge` | `DeleteKey` |
| `List` | `ListModels` up to `GetDecryptedKeys` |
| `ReadKeys`, `KeysArrive` | the SELECT as PostgreSQL sees it, and the return of `GetDecryptedKeys`, with the keys or a 500 |
| `Hit`, `Miss`, `FetchAnswers`, `FetchFails`, `Respond` | one turn of the loop of `GetAvailableModels`, and its end |
| `Cleanup` | the janitor; at any time, which covers its 10 minute ticker |
| `Tick` | time passes for entries and calls |
| `Restart` | the process dies and comes back, the cache empty, perhaps with another key |

Time. What a request does inside the process takes no time; database calls may take any
time, since nothing in the code limits one: a key may be replaced while the answer that carries it is under
way, and such an answer may come at any tick. A provider call takes at most `FetchLimit`, the 20 s timeout of the HTTP
client. A failed write takes effect, if at all, before its error is reported. One that lands later
looks the same as an error reported later: until a pending COMMIT settles, PostgreSQL's row lock keeps every
other writer of that row out, and readers see the old row in both cases. A write that
lands when the process that sent it is gone is taken as made just before the `Restart`.
`Encrypt` failing is a failure of the write. A model list is named by the user,
provider and key it was fetched with; the provider is assumed to answer for the key it is given.

### KeyRegister

The catalog as its callers see it: a register per user and provider (`held`), the changes that were made and
not acknowledged yet (`change`), and the lists that are open (`list`), with what each has drawn from the
registers and not got yet (`drawn`), what it has seen of them and what it has served. No cache, no purge, no provider. `Serve` is the promise: the register has
held some key since the list arrived; the key served was held, or on its way to a list between `Draw` and `Get`,
at most `Bound` ticks ago; and
with `refresh`, or while `Strict`, it was held since the list arrived, or its replacement was not
acknowledged when it did. The mapping is at the end of `ModelCatalog`: `held` is `table`, a change is a
request that has its purge ahead, `Bound` is `StaleBound`, and `Strict` holds when requests of a
user do not overlap and failed writes are not made.

### Inputs and Lifecycle

A text is cut down to what is looked at: an `ENCRYPTION_KEY` to its length, the white space
around it and whether it is hexadecimal; `APP_URL` to four kinds; an API key to its
length and prefix. Keys are measured in bytes, as the code does.

`main` is where the main goroutine stands, `listener` the goroutine of `ListenAndServe`, `req[r]`
a request, a number of database calls or one ping. `drained` counts the ticks of
`shutdownCtx`.

| Action | Code |
|---|---|
| `Load` | `config.Load`; os.Exit on a bad environment |
| `OpenPool`, `BuildCipher`, `BuildRouter` | `InitializeApp`: `NewDB`, `NewAESCipher`, `router.New` (where `cors.New` may panic) |
| `Notify` | `NotifyContext`, and the goroutine of the listener |
| `BeginShutdown`, `DrainEnds`, `DrainForced` | `<-ctx.Done()`, `Shutdown` and its 10 s |
| `Stop`, `ClosePool`, `Return` | the deferred calls, last first, and the end of main |
| `Listen`, `Bind`, `ListenFails`, `ServerClosed` | `ListenAndServe` and the os.Exit in its goroutine |
| `Signal`, `Tick` | SIGINT or SIGTERM; a tick of the drain |
| `Accept`, `Connect`, `Dispatch`, `CloseNew` | connections, by what net/http does with them |
| `Call`, `Ping` | a database call of a handler; `GET /health` |

### WebClient

`current` is `currentChatId`, `pane` and `badge` what the page shows, `task[t]` a callback with its
pending fetch; `rows` and `stored` are the server's. The nodes of the pane matter: `innerHTML +=` parses
the pane anew, and a callback that holds an older node writes to nothing (`live`). `calm`
and `runs` are history: no other click fell into the callback; how often a handler ran.

| Action | Code |
|---|---|
| `ClickSend`, `Created`, `Listed`, `CreateFailed`, `Replied` | `sendChatMessage`, from await to await |
| `NewChat`, `Pick`, `Loaded` | `selectChat` |
| `Retry` | `authFetch` repeats after a 401 |
| `Refused` | `ClerkAuthMiddleware` ends the chain, or the request is lost |
| `CreateChat`, `SendMessage`, `ListChats`, `GetChat` | the effects of the handlers; the answer may be lost |

A stream is one answer: its chunks go to the node the reply goes to.

## 3. Runs

| Run | Instance | What it shows |
|---|---|---|
| `chat_concurrent` | 2 users, 2 chats, 2 requests, replies of up to 2 chunks | types, the inductive invariant, isolation, whole replies, truthful answers, the hang-up after the last chunk, nothing stored twice, and the refinement of `Conversation` |
| `chat_three` | 1 chat, 3 requests | order and completeness of the context given to the provider |
| `chat_hangup` | 2 requests, 2 prompts, fairness | a hang-up releases the goroutine |
| `chat_prompt` | 1 request, fairness | fails: see Findings |
| `catalog_races` | 1 user, 1 provider, 2 keys, 3 overlapping requests, failed writes that may have been made | staleness bound, only registered providers, refresh, janitor, rows sealed under an earlier key |
| `catalog_providers` | 2 providers, 2 requests, fairness | the refinement of `KeyRegister`, whose bound grows with the providers; every list ends |
| `catalog_serial` | 2 users, 2 keys, requests of a user one at a time, failed writes not made | isolation; a list never goes back behind a key change; the refinement of `KeyRegister` with regular reads only |
| `catalog_stale_fill` | 1 user, 2 keys, 2 overlapping requests | fails: see Findings |
| `tx_pool` | 3 calls: two detached messages, and one message or creation of a chat under a request context; 2 connections, 2 chats, fairness | no leak, no deadlock, every call ends, the order of the chat list, and the refinement of `ChatLog` |
| `lifecycle` | 2 requests of up to 2 database calls, a drain of 2 ticks, keys of 30 to 64 bytes, fairness | start, drain and end of the process |
| `web_clicks` | 2 sends, 1 selection, 2 chats, "new chat" at any time | once, to the right chat, and shown |
| `web_double_create` | 2 sends, no selection | fails: see Findings |

Why the bounds are enough. Two requests meet each other in every pair of calls; two users
and two chats give a request of one user in the other's chat. Three requests are
needed where a property relates an acknowledged exchange, one still in flight and
one that starts later (`AckedVisible`), or a fill, a purge and the list that is
served (`catalog_races`). Two chunks tell a part of a reply from the whole. With `TTL = 1` an entry
is live at two instants and expired at the next, so every side of the boundary
occurs (`catalog_serial`, `catalog_stale_fill`); `TTL = 0` keeps only the instant itself, which is enough where three
requests race or two providers are visited: an entry is still found live, found expired and swept. The staleness bound is
tight, in `catalog_races` and, through `ImplementsKeyRegister`, in `catalog_providers`: with one tick less TLC finds a
trace in both. `age` stops at one tick beyond the bound (`AgeCap`), which is
enough to tell a violation. `clock` needs no bound: each request stamps at most two
rows, each call of `tx_pool` one. In `tx_pool` three calls for two connections and two chats make a call wait for a
connection, and for a row, while another is inside; a call detached from its context cannot be freed by
a hang-up, and a chat may be created before, while or after messages come to the other one. In `lifecycle` one request may end within the limit and the other outlast it, and
30 bytes with 2 of white space are the key that a check of the wrong length would let
through. In `web_clicks` a send can overlap a send, a selection or both. `runs` stops by
itself: a request is repeated once.

Deadlock is checked in the runs of `ChatSession` and `ModelCatalog`. The others really come to an
end (every call has returned, the process is gone, no click is left) and say
`CHECK_DEADLOCK FALSE`; that nobody waits for good is stated there by `SomeoneCanMove`,
`EveryCallEnds` and `SignalEnds`.

Symmetry is used only in runs of invariants and of safety properties; no definition
singles out an element of a symmetric set.

Fairness. `FairSpec` of `ChatSession` is weak fairness of `Serve(r)`: the steps in which
the server itself, the database or a cancelled context must move. It assumes a
database that answers. There is none on the provider: the code sets no
timeout on a chat call, so a provider may never answer, and
`DisconnectReleases` says that a hang-up ends the wait nevertheless. `chat_prompt` uses it too, so that its
counterexample is not a system that stopped. `FairSpec` of `ModelCatalog` is weak
fairness of a request's steps, the provider's included, which there is justified by
the HTTP client's timeout. `FairSpec` of `MessageTx` is weak fairness of each call's next statement
and of PostgreSQL noticing lost connections. Weak fairness is enough although calls compete: there are finitely
many, each takes a connection and a row lock once, so what blocks a call is gone in the end and
stays gone. In a server without end this needs the queue of `database/sql` and PostgreSQL's own,
which are first come, first served. `FairSpec` of `Lifecycle` is weak fairness of the main goroutine and of
time; nothing is asked of handlers, for a call to a provider may take for ever.

### Properties

* `Isolation` (chat): the ownership check is one SELECT, made before inserts that
  name only the chat.
* `ContextInOrder`, `ReplyFollowsPrompt`, `AckedVisible`: what the provider reads.
  Exchanges of one chat may interleave: a history may hold a prompt
  whose reply is still under way. It never holds a reply without its prompt, and never
  misses an exchange that had been acknowledged.
* `OnlyCompleteReplies`, `ResponseIsTruthful`, `CompletedStreamSurvivesDisconnect`:
  what is stored against what was received and said.
* `StoredOnce`: a lost COMMIT may have been made, so a second try would store a message twice; the code makes
  none.
* `BoundedStaleness`: a list may read its keys, spend `FetchLimit` on each provider and store the last answer,
  which then lives for `TTL`; models of a replaced key are served no later than
  that, `|Providers| * FetchLimit + TTL` after the replacement or, if that is later, after the arrival of
  the last answer of the database that carried the key. In the code: 80 s and 15 minutes from then. From the
  replacement alone there is no bound, for the SELECT has no timeout.
* `OnlyRegisteredProviders`, `Regular`, `RefreshIsRegular`: which key the models served come from, against the
  keys that the row held since the request arrived.
* `ImplementsKeyRegister`: the three together, as a specification of its own.
* `SealedUnused`: a restart with another `ENCRYPTION_KEY` may cut off a write or a purge; no list uses a row
  it cannot open, and nothing fetched with it is left in the cache.
* `JanitorInvisible`, `ListsEnd`, `DisconnectReleases`: as they say.
* `NoLeak`, `SomeoneCanMove`, `EveryCallEnds`: the deferred rollback and the two waits of `CreateMessage`.
* `LatestFirst`: which chat the list shows first, the empty chat that was just created included. The latest rows
  of a chat are those nothing of the chat came after; if all of them came after everything stored of another
  chat, the chat is listed before that one. There are several when messages overlapped: each reads its
  clock before it waits for the row, so the reading that is written last may be older than another one's, but not older
  than what they all came after.
* `PromptApplied`: a user whose setting stays the same throughout an exchange that is acknowledged has it applied.
  It fails (Findings).
* `FailFast`, `PoolOutlivesHandlers`, `CutOnlyAfterLimit`, `OrderlyExit`, `SignalEnds`: `Load` is
  as strict as the cipher; what a shutdown does to requests in flight, with a second signal, a listener
  that fails, and requests accepted but not read yet.
* `ExecutedOnce`: `authFetch` repeats only what the gate refused before a handler ran.
* `SentWhereMeant`, `PageAgrees`, `ReplyShown`: `currentChatId`, the path of the request, the pane and the node
  a callback holds, promised when no click fell in between. The code promises no more. Three hazards of the page
  are therefore covered by no property: a history that arrives for a chat no longer selected, the
  selection moved back by an answer to `POST /chats`, and a reply written to a node that was parsed away. The
  model has all three, and these properties say only that it takes an overlapping click to meet them; the mutants show
  that without one the page keeps its word by its own order of assignments.

### Findings

* `chat_prompt`. `prepareSessionContext` drops the error of `GetProfile`, so a failed read
  of the profile means that the exchange runs without the system prompt; the
  comment there says the current setting is always applied. The trace is a whole exchange: the prompt is set, the
  message stored, the read fails while the request is alive, the reply is generated without the prompt, stored
  and acknowledged with 200, and the setting has not changed meanwhile.
* `catalog_stale_fill`. A list in flight while a key is registered stores the old key's models after the purge; a
  list that starts after the 201 is served them until the entry expires. The comments of
  `RegisterKey` promise that the cache is purged at once. `BoundedStaleness` bounds
  the harm.
* `web_double_create`. `sendChatMessage` looks at `currentChatId` before it awaits `POST /chats`, and nothing disables the
  button meanwhile: a second message sent before the first answer creates a second chat. The trace stops where the second chat is
  made while the page has one. The comment there says that a chat is created if there is none yet.

## 4. Proofs

Every safety property that a passing run checks is also a theorem, for every value of the constants that
meets the named assumptions of its module:

| Component | Assumed of the constants |
|---|---|
| `ChatSession` | `NoUser` is no user, `NoPrompt` is a prompt, `MaxChunks` is a natural number |
| `MessageTx` | at least one connection, `Detached` are calls, `Never` and `Absent` are no calls and differ |
| `ModelCatalog` | finitely many providers, numbered from 1; `TTL` and `FetchLimit` natural numbers; the "none" values are none |
| `Lifecycle` | `DrainLimit` and `MaxCalls` at least 1; lengths are natural numbers |
| `WebClient` | `NoChat` is no chat; a callback is a send or a selection |

**ChatSession.** None of the safety properties is inductive. `IInv` (module `ChatSessionInductive`)
strengthens them in two halves: `RowInv` and `LimboInv` say of every row, stored or in limbo, what the session
of its request looks like; `RequestInv` says of every request, by its `pc`, which rows
there are, how outcome and reply fit, that its history is old, owned and closed
under "a reply comes with its prompt", and that what it was told to be acknowledged is
settled. For instance, that a reply row exists only once its request has stopped (`RowInv`) is what makes
`CommitSave` the only way to the verdict "ok", and that a history is a part of the table
taken before the request's own stamp is what makes `ContextInOrder` survive the commits of others.

The argument: `InitIInv`; one lemma per action, most of them instances of `LocalStep`
(one unfinished request moves, the tables stay), `EndStep` (it moves to a verdict)
or `CommitStep` (a row joins the table); `NextIInv` collects them; `Invariant`
concludes. Each property then follows from `TypeOK /\ IInv` in one state. The
refinement uses the same invariant: `InitPromise`, and `NextPromise`, in which
`CommitAsk` is `Ask`, `CommitSave` is `Answer`, `Land` is either or a stutter, a
handler's return is `Refuse` or `Fail`, and everything else, a crash included, is a stutter.
`StoredOnce` is carried by its own step: by `IInv` a request that is inside a transaction has no row of that role yet,
stored or in limbo (`NotStoredYet`, `PendingOnce`).

**MessageTx.** `IInv`: the pool holds exactly the calls inside their transaction (`NoLeak`, itself a
property), what PostgreSQL holds is as far as the call is (`TxFollowsCall`), and a row is there once its call has
ended and its transaction is gone (`PublishedOnce`). `ChatsFirst` says that a chat has one creator
at most, is absent until he has stored it, and is there for every message that was sent. `SomeoneCanMove` follows without
induction: a call that waits for a row waits for one that is at COMMIT or abandoned; a call that waits for
the pool waits for one that is inside. The refinement takes `Commit` and a publishing `Orphaned`
to `Make` or `Post`, `Abort` and `CommitUnanswered` to `Fail`. `LatestFirst` needs `OrderInv`
besides: no stamp is ahead of the clock, whatever a call has seen is stored and was stamped earlier
(`SeenEarlier`), and `updated_at` names one of the latest rows of its chat (`TouchedLast`).

**ModelCatalog.** `IInv` holds what the staleness bound counts: the age of a key that a
list has still to use is at most the time the list has spent since its keys arrived (`KeysInTime`, `Spent`), and the age of an
entry's key at most `FillDelay + TTL` less the life the entry has left (`RowInv`). A list also
has seen the key in the table now, which gives `RefreshIsRegular` and `OnlyRegisteredProviders`.
`Regular` is proved from `~ Overlap` and `~ Unconfirmed`, the conditions under which it holds:
`SerialInv` adds that a user has one request, that cached models are of the
current key but between a write and its purge, and that a list holds current keys.
`catalog_stale_fill` shows that `~ Overlap` is needed. `SealedUnused` is inductive beside `IInv`: only a
restart seals rows, and it leaves neither list nor cache; after it a list skips what it cannot open.

The refinement of `KeyRegister` takes a request to what can be seen of it (`View`: the open list; `Told`: the change
to be acknowledged). A write is `Put` (`WriteIsPut`), with `Change` when a purge follows and
`ChangeUnconfirmed` when the handler reports an error; `ReadKeys` is `Draw`, `KeysArrive` is `Get`, `Hit` and
`FetchAnswers` are `Serve`, whose guard is what `IInv` and, under `Strict`, `SerialInv` say of the key served; answers and restarts are
`Over`, `Tick` is `Pass`; all else is a stutter.

**Lifecycle.** One invariant says what must be so by where `main` stands: which pool there
is, that no listener exists before `Notify`, that a drain which was not forced leaves no
request open, and which ends are possible. The properties are read off it. `LoadAgreesWithParse` and
`HintHidesAndFits` are about `Inputs`, for texts of every length: a key that `Load` accepts is one
that `parseKey` accepts; the hint of an API key never shows the whole of it and fits its column.

**WebClient.** A callback is calm only while it is alone (`CalmAlone`): everything
else that moves `currentChatId`, the pane or the badge has disturbed it. With it go that a
request which is out, or came back with a 401, has reached no handler (`RunsFollow`), and
what the page looks like as long as nothing has overlapped (`PageSteady`).
`CreatedOnlyIfMissing` fails (Findings); `CreatedOnlyIfMissingOrDisturbed` says how far: a chat is created
while the page has one only for a message in whose sending another click fell.

**Termination.** Liveness under fairness is out of the prover's reach, but most of each argument is not. For every
liveness property there is a measure in natural numbers, and a theorem that each step of the one who is to
end lowers it and that nobody else raises it: `GoroutinesComeNearer` (for `DisconnectReleases`; it adds that
a client which has hung up stays so), `CallsComeNearer` (`EveryCallEnds`), `ListsAdvance` (`ListsEnd`) and
`ExitComesNearer` (`SignalEnds`). What is left to fairness, and to TLC, is that those steps are taken.
`ListsAnswerInTime` measures in ticks: from receiving its keys to its answer a list has
`FillDelay` of them, and each that passes is used up for good.

Only model-checked: the liveness properties `DisconnectReleases`, `ListsEnd`, `EveryCallEnds`
and `SignalEnds` themselves, and of course the three properties that fail.

## 5. Not modelled

* Reads that change nothing and that nobody races with (list keys, get the profile).
* The JSON of the four providers' model lists and their filters, the layout of messages and responses,
  the bytes of AES-GCM, the spelling of a provider's name (`ParseProvider`): data, with no state to go wrong over.
* The conversion of a chat id (64 bits in the schema, 32 in the handler): ids are model values here.
* The route table and the headers of CORS: fixed at the start.
* In the page: sign-in, the forms for keys and the prompt, the frame of the API docs. They share nothing
  with the callbacks of `WebClient`.
* The steps of the migrations (run by an outside tool), generated API docs and wiring
  declarations, deployment files.
* `MemoryCache.PurgeUser`: nobody calls it.

## 6. Plan

Done: every component that keeps state is modelled and checked; its safety properties are proved; the three
that promise something to callers (exchange, message transaction, catalog) are shown to implement an abstract
specification; and of the liveness properties the part that needs no fairness is proved.

What could be added, none of it needed by what is stated above: `WebClient` over `ChatSession` in place of
the effects of its handlers, so that a failed exchange is seen from the page.
