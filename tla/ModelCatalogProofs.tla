------------------------- MODULE ModelCatalogProofs -------------------------
(***************************************************************************)
(* Proofs about ModelCatalog, for every set of users, keys and requests,   *)
(* every finite set of providers, every TTL and every timeout.  All safety *)
(* properties but Regular follow from the inductive invariant IInv.        *)
(* Regular, which holds only while nobody's requests overlap, needs        *)
(* SerialInv besides.                                                      *)
(***************************************************************************)
EXTENDS ModelCatalog, TLAPS, FiniteSetTheorems, WellFoundedInduction

-----------------------------------------------------------------------------
(* The inductive invariant.                                                *)

\* Ticks a list may have spent on providers since it got its keys.
Spent(s) ==
    (Cardinality(Providers) - Cardinality(s.todo)) * FetchLimit
        + (IF s.pc = "fetch" THEN FetchLimit - s.left ELSE 0)

WellFormed(s) ==
    /\ s.pc # "idle" => s.user \in Users
    /\ s.pc \in {"probe", "upsert", "delete", "purge"} => s.provider \in Providers
    /\ s.pc \in {"probe", "upsert"} => s.key \in Keys
    /\ s.pc = "fetch" => s.todo # {}
    /\ s.todo # {} => s.pc \in {"rows", "look", "fetch"}

\* A list has seen the key that is in the table now, for every provider.
SeesTable(s) == Listing(s) => \A p \in Providers : table[<<s.user, p>>] \in s.seen[p]

\* A key that a list has yet to use was in the table since the list arrived,
\* and there, or on its way, no longer ago than the list has waited for providers.
KeysInTime(s) ==
    \A p \in s.todo : /\ s.keys[p] \in Keys
                      /\ s.keys[p] \in s.seen[p]
                      /\ age[<<s.user, p>>][s.keys[p]] <= Spent(s)

RequestInv(s) ==
    /\ WellFormed(s)
    /\ \A item \in s.served : item.user = s.user
    /\ SeesTable(s)
    /\ KeysInTime(s)

\* An entry is its user's own, and ages no faster than it expires.
RowInv(x) ==
    /\ table[x] # NoKey => age[x][table[x]] = 0
    /\ cache[x] # NoEntry =>
          /\ cache[x].user = x[1]
          /\ age[x][cache[x].key] <= FillDelay + TTL - cache[x].life

IInv ==
    /\ \A r \in Requests : RequestInv(request[r])
    /\ \A x \in Rows : RowInv(x)

-----------------------------------------------------------------------------
(* The constants and the loop.                                             *)

LEMMA BoundsAreNat ==
    /\ Cardinality(Providers) \in Nat
    /\ FillDelay \in Nat /\ StaleBound \in Nat /\ AgeCap \in Nat
<1>1. Cardinality(Providers) \in Nat /\ FetchLimit \in Nat /\ TTL \in Nat
  BY CatalogAssumption, FS_CardinalityType
<1>2. FillDelay \in Nat
  BY <1>1 DEF FillDelay
<1>3. QED
  BY <1>1, <1>2 DEF StaleBound, AgeCap

\* The loop of GetAvailableModels is at one of the providers it has to visit.
LEMMA CurrentIsToDo ==
    ASSUME NEW s, s.todo \in SUBSET Providers, s.todo # {}
    PROVE  Current(s) \in s.todo
<1>1. s.todo \subseteq Nat
  BY CatalogAssumption
<1>2. PICK p \in s.todo : \A q \in s.todo : ~ (<<q, p>> \in OpToRel(<, Nat))
  BY <1>1, NatLessThanWellFounded, WFMin, Zenon
<1>3. \A q \in s.todo : ~ (q < p)
  BY <1>1, <1>2, Zenon DEF OpToRel
<1>4. \A q \in s.todo : p <= q
  BY <1>1, <1>3
<1>5. QED
  BY <1>4, Zenon DEF Current

\* Visiting one more provider leaves one less.
LEMMA OneLess ==
    ASSUME NEW s, s.todo \in SUBSET Providers, s.todo # {}
    PROVE  /\ Cardinality(s.todo) \in Nat
           /\ Cardinality(s.todo) <= Cardinality(Providers)
           /\ Cardinality(s.todo) >= 1
           /\ Cardinality(s.todo \ {Current(s)}) = Cardinality(s.todo) - 1
<1>1. IsFiniteSet(s.todo) /\ Cardinality(s.todo) <= Cardinality(Providers)
  BY CatalogAssumption, FS_Subset
<1>2. Cardinality(s.todo) \in Nat
  BY <1>1, FS_CardinalityType
<1>3. Cardinality(s.todo) # 0
  BY <1>1, FS_EmptySet
<1>4. Cardinality(s.todo \ {Current(s)}) = Cardinality(s.todo) - 1
  BY <1>1, CurrentIsToDo, FS_RemoveElement
<1>5. QED
  BY <1>1, <1>2, <1>3, <1>4

-----------------------------------------------------------------------------
(* Types.                                                                  *)

LEMMA IdleIsRequest == Idle \in Request
BY CatalogAssumption DEF Idle, Request, Pcs

LEMMA FilledIsEntry ==
    ASSUME NEW u \in Users, NEW k \in Keys
    PROVE  Filled(u, k) \in Entry
BY CatalogAssumption DEF Filled, Entry

LEMMA BecomeType ==
    ASSUME TypeOK, NEW r \in Requests, NEW s \in Request, Become(r, s)
    PROVE  request' \in [Requests -> Request]
BY DEF TypeOK, Become

LEMMA WriteType ==
    ASSUME TypeOK, NEW u \in Users, NEW p \in Providers,
           NEW k \in Keys \cup {NoKey}, Write(u, p, k)
    PROVE  /\ table' \in [Rows -> Keys \cup {NoKey}]
           /\ sealed' \subseteq Rows
           /\ age' \in [Rows -> [Keys -> 0..AgeCap]]
<1>1. <<u, p>> \in Rows
  BY DEF Rows
<1>2. 0 \in 0..AgeCap
  BY BoundsAreNat
<1>3. QED
  BY <1>1, <1>2 DEF TypeOK, Write

LEMMA ObservedType ==
    ASSUME NEW reqs \in [Requests -> Request], NEW u, NEW p \in Providers,
           NEW k \in Keys \cup {NoKey}
    PROVE  Observed(reqs, u, p, k) \in [Requests -> Request]
<1> SUFFICES ASSUME NEW q \in Requests
             PROVE  [reqs[q] EXCEPT !.seen[p] = @ \cup {k}] \in Request
  BY DEF Observed
<1>1. reqs[q] \in Request
  OBVIOUS
<1>2. QED
  BY <1>1 DEF Request

LEMMA WriteAndBecomeType ==
    ASSUME TypeOK, NEW r \in Requests, NEW s \in Request,
           NEW k \in Keys \cup {NoKey},
           request[r].user \in Users, request[r].provider \in Providers,
           WriteAndBecome(r, s, k), UNCHANGED cache
    PROVE  TypeOK'
<1>1. [request EXCEPT ![r] = s] \in [Requests -> Request]
  BY DEF TypeOK
<1>2. request' \in [Requests -> Request]
  BY <1>1, ObservedType DEF WriteAndBecome
<1>3. QED
  BY <1>2, WriteType DEF WriteAndBecome, TypeOK

LEMMA LocalType ==
    ASSUME TypeOK, NEW r \in Requests, NEW s \in Request, Become(r, s),
           UNCHANGED <<table, sealed, age>>,
           cache' \in [Rows -> Entry \cup {NoEntry}]
    PROVE  TypeOK'
BY BecomeType DEF TypeOK

LEMMA OneOlderType ==
    ASSUME NEW e \in Entry \cup {NoEntry}
    PROVE  OneOlder(e) \in Entry \cup {NoEntry}
<1>1. CASE e = NoEntry
  BY <1>1 DEF OneOlder
<1>2. CASE e # NoEntry /\ e.life < 0
  BY <1>2 DEF OneOlder
<1>3. CASE e # NoEntry /\ ~(e.life < 0)
  <2>1. e \in Entry /\ e.life \in 0..TTL
    BY <1>3, CatalogAssumption DEF Entry
  <2>2. OneOlder(e) = [e EXCEPT !.life = @ - 1]
    BY <1>3 DEF OneOlder
  <2>3. [e EXCEPT !.life = @ - 1] \in Entry
    BY <2>1, CatalogAssumption DEF Entry
  <2>4. QED
    BY <2>2, <2>3
<1>4. QED
  BY <1>1, <1>2, <1>3

LEMMA ElapsedType ==
    ASSUME NEW s \in Request, MayWait(s)
    PROVE  Elapsed(s) \in Request
<1>1. CASE s.pc \in {"probe", "fetch"}
  <2>1. s.left - 1 \in 0..FetchLimit
    BY <1>1, CatalogAssumption DEF MayWait, Request
  <2>2. Elapsed(s) = [s EXCEPT !.left = s.left - 1]
    BY <1>1 DEF Elapsed
  <2>3. QED
    BY <2>1, <2>2 DEF Request
<1>2. CASE s.pc \notin {"probe", "fetch"}
  BY <1>2 DEF Elapsed
<1>3. QED
  BY <1>1, <1>2
\* What Serve does to a request keeps it one.
LEMMA ServingType ==
    ASSUME NEW s \in Request, s.todo # {}, NEW item \in Item
    PROVE  Serving(s, item) \in Request
<1>1. s.todo \ {Current(s)} \subseteq Providers /\ s.served \cup {item} \subseteq Item
  BY DEF Request
<1>2. 0 \in 0..FetchLimit
  BY CatalogAssumption
<1>3. QED
  BY <1>1, <1>2 DEF Serving, Request, Pcs

LEMMA SkippingType ==
    ASSUME NEW s \in Request
    PROVE  Skipping(s) \in Request
<1>1. s.todo \ {Current(s)} \subseteq Providers /\ 0 \in 0..FetchLimit
  BY CatalogAssumption DEF Request
<1>2. QED
  BY <1>1 DEF Skipping, Request, Pcs

LEMMA WriterType ==
    ASSUME TypeOK, NEW r \in Requests, request[r].user \in Users,
           request[r].provider \in Providers
    PROVE  /\ AfterUpsert(request[r]) \in Request
           /\ AfterDelete(request[r]) \in Request
<1>1. request[r] \in Request
  BY DEF TypeOK
<1>2. table[request[r].user, request[r].provider] \in Keys \cup {NoKey}
  BY DEF TypeOK, Rows
<1>3. WithReplaced(request[r]) \in Request
  BY <1>1, <1>2 DEF WithReplaced, Request
<1>4. QED
  BY <1>3 DEF AfterUpsert, AfterDelete, Request, Pcs

LEMMA ServeType ==
    ASSUME TypeOK, IInv, NEW r \in Requests, Serve(r)
    PROVE  TypeOK'
<1> DEFINE s == request[r]
<1>1. s \in Request /\ WellFormed(s) /\ KeysInTime(s)
  BY DEF TypeOK, IInv, RequestInv
<1>2. cache \in [Rows -> Entry \cup {NoEntry}] /\ 0 \in 0..FetchLimit
      /\ FetchLimit \in 0..FetchLimit
  BY CatalogAssumption DEF TypeOK
<1>3. s.todo \in SUBSET Providers
  BY <1>1 DEF Request
<1> HIDE DEF s
<1>4. CASE Probe(r)
  <2>1. [s EXCEPT !.pc = "upsert", !.left = 0] \in Request
    BY <1>1, <1>2 DEF Request, Pcs
  <2>2. PICK t \in Request : Become(r, t)
    BY <1>4, <2>1, IdleIsRequest DEF Probe, s
  <2>3. UNCHANGED <<table, sealed, cache, age>>
    BY <1>4 DEF Probe
  <2>4. QED
    BY <1>2, <2>2, <2>3, LocalType
<1>5. CASE Upsert(r)
  <2>1. s.user \in Users /\ s.provider \in Providers /\ s.key \in Keys
    BY <1>1, <1>5 DEF Upsert, WellFormed, s
  <2>2. CASE WriteAndBecome(r, AfterUpsert(s), s.key)
    BY <1>5, <2>1, <2>2, WriterType, WriteAndBecomeType DEF Upsert, s
  <2>3. CASE WriteAndBecome(r, Idle, s.key)
    BY <1>5, <2>1, <2>3, IdleIsRequest, WriteAndBecomeType DEF Upsert, s
  <2>4. CASE Become(r, Idle) /\ UNCHANGED <<table, sealed, age>>
    BY <1>2, <1>5, <2>4, IdleIsRequest, LocalType DEF Upsert
  <2>5. QED
    BY <1>5, <2>2, <2>3, <2>4 DEF Upsert, WriteFails, s
<1>6. CASE DeleteRow(r)
  <2>1. s.user \in Users /\ s.provider \in Providers
    BY <1>1, <1>6 DEF DeleteRow, WellFormed, s
  <2>2. CASE WriteAndBecome(r, AfterDelete(s), NoKey)
    BY <1>6, <2>1, <2>2, WriterType, WriteAndBecomeType DEF DeleteRow, s
  <2>3. CASE WriteAndBecome(r, Idle, NoKey)
    BY <1>6, <2>1, <2>3, IdleIsRequest, WriteAndBecomeType DEF DeleteRow, s
  <2>4. CASE Become(r, Idle) /\ UNCHANGED <<table, sealed, age>>
    BY <1>2, <1>6, <2>4, IdleIsRequest, LocalType DEF DeleteRow
  <2>5. QED
    BY <1>6, <2>2, <2>3, <2>4 DEF DeleteRow, WriteFails, s
<1>7. CASE Purge(r)
  <2>1. cache' \in [Rows -> Entry \cup {NoEntry}]
    BY <1>2, <1>7 DEF Purge
  <2>2. QED
    BY <1>7, <2>1, IdleIsRequest, LocalType DEF Purge
<1>8. CASE ReadKeys(r)
  <2> DEFINE keys == DecryptedKeys(s.user)
  <2>1. s.user \in Users
    BY <1>1, <1>8 DEF ReadKeys, WellFormed, s
  <2>2. keys \in [Providers -> Keys \cup {NoKey}]
    BY <2>1 DEF TypeOK, Rows, DecryptedKeys
  <2>3. ToVisit(keys) \subseteq Providers
    BY DEF ToVisit
  <2> HIDE DEF keys
  <2>4. [s EXCEPT !.pc = "rows", !.keys = keys, !.todo = ToVisit(keys)] \in Request
    BY <1>1, <2>2, <2>3 DEF Request, Pcs
  <2>5. PICK t \in Request : Become(r, t)
    BY <1>8, <2>4 DEF ReadKeys, keys, s
  <2>6. UNCHANGED <<table, sealed, cache, age>>
    BY <1>8 DEF ReadKeys
  <2>7. QED
    BY <1>2, <2>5, <2>6, LocalType
<1>9. CASE Hit(r)
  <2> DEFINE e == cache[Slot(s.user, Current(s))]
             item == [user |-> e.user, provider |-> Current(s), key |-> e.key]
  <2>1. s.todo # {} /\ s.user \in Users
    BY <1>1, <1>9 DEF Hit, WellFormed, s
  <2>2. Current(s) \in Providers
    BY <1>3, <2>1, CurrentIsToDo
  <2>3. e \in Entry
    BY <1>2, <1>9, <2>1, <2>2 DEF Hit, UseCache, Live, Slot, Rows, s
  <2>4. item \in Item
    BY <2>2, <2>3 DEF Entry, Item
  <2>5. Become(r, Serving(s, item)) /\ UNCHANGED <<table, sealed, cache, age>>
    BY <1>9 DEF Hit, s
  <2> HIDE DEF item
  <2>6. QED
    BY <1>1, <1>2, <2>1, <2>4, <2>5, ServingType, LocalType
<1>10. CASE Miss(r)
  <2>1. [s EXCEPT !.pc = "fetch", !.left = FetchLimit] \in Request
    BY <1>1, <1>2 DEF Request, Pcs
  <2>2. QED
    BY <1>2, <1>10, <2>1, LocalType DEF Miss, s
<1>11. CASE FetchAnswers(r)
  <2> DEFINE p == Current(s)
             item == [user |-> s.user, provider |-> p, key |-> s.keys[p]]
  <2>1. s.todo # {} /\ s.user \in Users
    BY <1>1, <1>11 DEF FetchAnswers, WellFormed, s
  <2>2. p \in s.todo /\ p \in Providers /\ s.keys[p] \in Keys
    BY <1>1, <1>3, <2>1, CurrentIsToDo DEF KeysInTime
  <2>3. item \in Item /\ Filled(s.user, s.keys[p]) \in Entry
    BY <2>1, <2>2, FilledIsEntry DEF Item
  <2>4. cache' \in [Rows -> Entry \cup {NoEntry}]
    BY <1>2, <1>11, <2>3 DEF FetchAnswers, s
  <2>5. Become(r, Serving(s, item)) /\ UNCHANGED <<table, sealed, age>>
    BY <1>11 DEF FetchAnswers, s
  <2> HIDE DEF item
  <2>6. QED
    BY <1>1, <2>1, <2>3, <2>4, <2>5, ServingType, LocalType
<1>12. CASE FetchFails(r)
  BY <1>1, <1>2, <1>12, SkippingType, LocalType DEF FetchFails, s
<1>13. CASE Respond(r)
  BY <1>2, <1>13, IdleIsRequest, LocalType DEF Respond
<1>14. CASE KeysArrive(r)
  <2>1. [s EXCEPT !.pc = "look"] \in Request
    BY <1>1 DEF Request, Pcs
  <2>2. PICK t \in Request : Become(r, t)
    BY <1>14, <2>1, IdleIsRequest DEF KeysArrive, s
  <2>3. UNCHANGED <<table, sealed, cache, age>>
    BY <1>14 DEF KeysArrive
  <2>4. QED
    BY <1>2, <2>2, <2>3, LocalType
<1>15. QED
  BY <1>4, <1>5, <1>6, <1>7, <1>8, <1>9, <1>10, <1>11, <1>12, <1>13, <1>14 DEF Serve

LEMMA TypeNext ==
    ASSUME TypeOK, IInv, Next
    PROVE  TypeOK'
<1>1. cache \in [Rows -> Entry \cup {NoEntry}] /\ 0 \in 0..FetchLimit
      /\ FetchLimit \in 0..FetchLimit
  BY CatalogAssumption DEF TypeOK
<1>2. ASSUME NEW r \in Requests, NEW u \in Users, NEW p \in Providers, NEW k \in Keys,
             Register(r, u, p, k)
      PROVE  TypeOK'
  <2>1. [Idle EXCEPT !.pc = "probe", !.user = u, !.provider = p, !.key = k,
                     !.left = FetchLimit] \in Request
    BY <1>1, IdleIsRequest DEF Request, Pcs
  <2>2. QED
    BY <1>1, <1>2, <2>1, LocalType DEF Register
<1>3. ASSUME NEW r \in Requests, NEW u \in Users, NEW p \in Providers, Delete(r, u, p)
      PROVE  TypeOK'
  <2>1. [Idle EXCEPT !.pc = "delete", !.user = u, !.provider = p] \in Request
    BY IdleIsRequest DEF Request, Pcs
  <2>2. QED
    BY <1>1, <1>3, <2>1, LocalType DEF Delete
<1>4. ASSUME NEW r \in Requests, NEW u \in Users, NEW refresh \in BOOLEAN, List(r, u, refresh)
      PROVE  TypeOK'
  <2> DEFINE seen == [p \in Providers |-> {table[u, p]} \cup NotYetReplaced(u, p)]
  <2>1. ASSUME NEW p \in Providers
        PROVE  table[u, p] \in Keys \cup {NoKey} /\ NotYetReplaced(u, p) \subseteq Keys \cup {NoKey}
    BY DEF TypeOK, Rows, NotYetReplaced, Request
  <2>2. seen \in [Providers -> SUBSET (Keys \cup {NoKey})]
    BY <2>1
  <2> HIDE DEF seen
  <2>3. [Idle EXCEPT !.pc = "keys", !.user = u, !.refresh = refresh, !.seen = seen] \in Request
    BY <2>2, IdleIsRequest DEF Request, Pcs
  <2>4. QED
    BY <1>1, <1>4, <2>3, LocalType DEF List, seen
<1>5. CASE Cleanup
  BY <1>1, <1>5 DEF TypeOK, Cleanup
<1>6. CASE Tick
  <2>1. cache' \in [Rows -> Entry \cup {NoEntry}]
    BY <1>1, <1>6, OneOlderType DEF Tick
  <2>2. request' \in [Requests -> Request]
    BY <1>6, ElapsedType DEF Tick, TypeOK
  <2>3. age' \in [Rows -> [Keys -> 0..AgeCap]]
    <3>1. ASSUME NEW x \in Rows, NEW k \in Keys
          PROVE  (IF table[x] = k \/ OnItsWay(x, k) THEN 0
                  ELSE IF age[x][k] < AgeCap THEN age[x][k] + 1 ELSE AgeCap) \in 0..AgeCap
      BY BoundsAreNat DEF TypeOK
    <3>2. QED
      BY <1>6, <3>1 DEF Tick
  <2>4. QED
    BY <1>6, <2>1, <2>2, <2>3 DEF Tick, TypeOK
<1>7. ASSUME NEW rotated \in BOOLEAN, Restart(rotated)
      PROVE  TypeOK'
  BY <1>7, IdleIsRequest DEF Restart, TypeOK
<1>8. QED
  BY <1>2, <1>3, <1>4, <1>5, <1>6, <1>7, ServeType DEF Next
-----------------------------------------------------------------------------
(* The invariant: steps that leave the tables alone.                       *)

\* What an age may be compared with.
LEMMA SpentType ==
    ASSUME NEW s \in Request
    PROVE  Spent(s) \in Int /\ Spent(s) >= 0
<1>1. /\ Cardinality(s.todo) \in Nat /\ Cardinality(Providers) \in Nat
      /\ Cardinality(s.todo) <= Cardinality(Providers)
  BY CatalogAssumption, FS_Subset, FS_CardinalityType DEF Request
<1>2. s.left \in 0..FetchLimit /\ FetchLimit \in Nat
  BY CatalogAssumption DEF Request
<1>3. (Cardinality(Providers) - Cardinality(s.todo)) * FetchLimit \in Nat
  BY <1>1, <1>2
<1>4. QED
  BY <1>2, <1>3 DEF Spent

LEMMA IdleInv == RequestInv(Idle)
BY DEF RequestInv, Idle, WellFormed, SeesTable, Listing, KeysInTime

LEMMA InitIInv ==
    ASSUME Init
    PROVE  TypeOK /\ IInv
<1>1. TypeOK
  BY IdleIsRequest, BoundsAreNat DEF Init, TypeOK
<1>2. \A r \in Requests : RequestInv(request[r])
  BY IdleInv DEF Init
<1>3. \A x \in Rows : RowInv(x)
  BY DEF Init, RowInv
<1>4. QED
  BY <1>1, <1>2, <1>3 DEF IInv

\* One request moves on, perhaps with a step of the cache.
LEMMA RequestStep ==
    ASSUME TypeOK, IInv, NEW r \in Requests, NEW s, RequestInv(s), Become(r, s),
           UNCHANGED <<table, age>>, \A x \in Rows : RowInv(x)'
    PROVE  IInv'
<1>1. ASSUME NEW q \in Requests
      PROVE  RequestInv(request[q])'
  <2>1. CASE q = r
    <3>1. request'[q] = s
      BY <2>1 DEF Become, TypeOK
    <3>2. QED
      BY <3>1 DEF RequestInv, WellFormed, SeesTable, Listing, KeysInTime, Spent
  <2>2. CASE q # r
    <3>1. request'[q] = request[q] /\ RequestInv(request[q])
      BY <2>2 DEF Become, TypeOK, IInv
    <3>2. QED
      BY <3>1 DEF RequestInv, WellFormed, SeesTable, Listing, KeysInTime, Spent
  <2>3. QED
    BY <2>1, <2>2
<1>2. QED
  BY <1>1 DEF IInv

LEMMA LocalStep ==
    ASSUME TypeOK, IInv, NEW r \in Requests, NEW s, RequestInv(s), Become(r, s),
           UNCHANGED <<table, cache, age>>
    PROVE  IInv'
<1>1. \A x \in Rows : RowInv(x)'
  BY DEF IInv, RowInv
<1>2. QED
  BY <1>1, RequestStep

-----------------------------------------------------------------------------
(* Writes.                                                                 *)

\* A write makes no key older.
LEMMA WriteMakesNothingOlder ==
    ASSUME TypeOK, NEW u \in Users, NEW p \in Providers,
           NEW k \in Keys \cup {NoKey}, Write(u, p, k)
    PROVE  \A x \in Rows : \A j \in Keys : age'[x][j] <= age[x][j]
<1> SUFFICES ASSUME NEW x \in Rows, NEW j \in Keys
             PROVE  age'[x][j] <= age[x][j]
  OBVIOUS
<1>1. age[x][j] \in Nat
  BY BoundsAreNat DEF TypeOK
<1>2. CASE k = NoKey
  BY <1>1, <1>2 DEF Write
<1>3. CASE k # NoKey
  <2>1. age' = [age EXCEPT ![<<u, p>>] = [@ EXCEPT ![k] = 0]]
    BY <1>3 DEF Write
  <2>2. age'[x][j] = 0 \/ age'[x][j] = age[x][j]
    BY <2>1 DEF TypeOK
  <2>3. QED
    BY <1>1, <2>2
<1>4. QED
  BY <1>2, <1>3

\* What Observed makes of one request.
Seeing(s, u, p, k) ==
    IF Listing(s) /\ s.user = u THEN [s EXCEPT !.seen[p] = @ \cup {k}] ELSE s

\* A request that is in order before a write is in order after it, once the
\* lists of that user have seen the new key.
LEMMA WriteKeepsRequest ==
    ASSUME TypeOK, NEW u \in Users, NEW p \in Providers,
           NEW k \in Keys \cup {NoKey}, Write(u, p, k),
           NEW s \in Request, RequestInv(s),
           NEW t, t = Seeing(s, u, p, k)
    PROVE  RequestInv(t)'
<1>1. /\ t.pc = s.pc /\ t.user = s.user /\ t.provider = s.provider /\ t.key = s.key
      /\ t.keys = s.keys /\ t.todo = s.todo /\ t.left = s.left /\ t.served = s.served
  BY DEF Request, Seeing
<1>2. /\ \A q \in Providers : s.seen[q] \subseteq t.seen[q]
      /\ Listing(s) /\ s.user = u => k \in t.seen[p]
  BY DEF Request, Seeing
<1>3. s.todo \subseteq Providers
  BY DEF Request
<1>4. WellFormed(t)'
  BY <1>1 DEF RequestInv, WellFormed
<1>5. \A item \in t.served : item.user = t.user
  BY <1>1 DEF RequestInv
<1>6. SeesTable(t)'
  <2> SUFFICES ASSUME Listing(s), NEW q \in Providers
               PROVE  table'[<<s.user, q>>] \in t.seen[q]
    BY <1>1 DEF SeesTable, Listing
  <2>1. table[<<s.user, q>>] \in s.seen[q] /\ s.user \in Users
    BY DEF RequestInv, SeesTable, WellFormed, Listing
  <2>2. CASE s.user = u /\ q = p
    BY <1>2, <2>2 DEF Write, TypeOK, Rows
  <2>3. CASE ~(s.user = u /\ q = p)
    <3>1. table'[<<s.user, q>>] = table[<<s.user, q>>]
      BY <2>1, <2>3 DEF Write, TypeOK, Rows
    <3>2. QED
      BY <1>2, <2>1, <3>1
  <2>4. QED
    BY <2>2, <2>3
<1>7. KeysInTime(t)'
  <2> SUFFICES ASSUME NEW q \in s.todo
               PROVE  /\ s.keys[q] \in Keys
                      /\ s.keys[q] \in t.seen[q]
                      /\ age'[<<s.user, q>>][s.keys[q]] <= Spent(s)
    BY <1>1 DEF KeysInTime, Spent
  <2>1. /\ s.keys[q] \in Keys
        /\ s.keys[q] \in s.seen[q]
        /\ age[<<s.user, q>>][s.keys[q]] <= Spent(s)
    BY DEF RequestInv, KeysInTime
  <2>2. <<s.user, q>> \in Rows
    BY <1>3 DEF RequestInv, WellFormed, Rows
  <2>3. age'[<<s.user, q>>][s.keys[q]] <= age[<<s.user, q>>][s.keys[q]]
    BY <2>1, <2>2, WriteMakesNothingOlder
  <2>4. age \in [Rows -> [Keys -> 0..AgeCap]] /\ age' \in [Rows -> [Keys -> 0..AgeCap]]
    BY WriteType DEF TypeOK
  <2>5. age[<<s.user, q>>][s.keys[q]] \in Int /\ age'[<<s.user, q>>][s.keys[q]] \in Int
    BY <2>1, <2>2, <2>4, BoundsAreNat
  <2>6. Spent(s) \in Int
    BY SpentType
  <2>7. age'[<<s.user, q>>][s.keys[q]] <= Spent(s)
    BY <2>1, <2>3, <2>5, <2>6
  <2>8. s.keys[q] \in t.seen[q]
    BY <1>2, <1>3, <2>1
  <2>9. QED
    BY <2>1, <2>7, <2>8
<1>8. QED
  BY <1>4, <1>5, <1>6, <1>7 DEF RequestInv

LEMMA WriteKeepsRow ==
    ASSUME TypeOK, IInv, NEW u \in Users, NEW p \in Providers,
           NEW k \in Keys \cup {NoKey}, Write(u, p, k), UNCHANGED cache,
           NEW x \in Rows
    PROVE  RowInv(x)'
<1>1. RowInv(x)
  BY DEF IInv
<1>2. ASSUME table'[x] # NoKey
      PROVE  age'[x][table'[x]] = 0
  <2>1. table[x] \in Keys \cup {NoKey}
    BY DEF TypeOK
  <2>2. CASE x = <<u, p>>
    <3>1. table'[x] = k
      BY <2>2 DEF Write, TypeOK
    <3>2. age' = [age EXCEPT ![<<u, p>>] = [@ EXCEPT ![k] = 0]] /\ k \in Keys
      BY <1>2, <3>1 DEF Write
    <3>3. QED
      BY <2>2, <3>1, <3>2 DEF TypeOK
  <2>3. CASE x # <<u, p>>
    <3>1. table'[x] = table[x] /\ age'[x] = age[x]
      BY <2>3 DEF Write, TypeOK
    <3>2. QED
      BY <1>1, <1>2, <3>1 DEF RowInv
  <2>4. QED
    BY <2>2, <2>3
<1>3. ASSUME cache'[x] # NoEntry
      PROVE  /\ cache[x].user = x[1]
             /\ age'[x][cache[x].key] <= FillDelay + TTL - cache[x].life
  <2>1. cache[x] \in Entry
    BY <1>3 DEF TypeOK
  <2>2. cache[x].key \in Keys /\ cache[x].life \in Int
    BY <2>1 DEF Entry
  <2>3. age'[x][cache[x].key] <= age[x][cache[x].key]
    BY <2>2, WriteMakesNothingOlder
  <2>4. age[x][cache[x].key] \in Int /\ age'[x][cache[x].key] \in Int
    BY <2>2, WriteType, BoundsAreNat DEF TypeOK
  <2>5. FillDelay + TTL - cache[x].life \in Int
    BY <2>2, BoundsAreNat, CatalogAssumption
  <2>6. QED
    BY <1>1, <1>3, <2>3, <2>4, <2>5 DEF RowInv
<1>4. QED
  BY <1>2, <1>3 DEF RowInv

LEMMA WriteStep ==
    ASSUME TypeOK, IInv, NEW r \in Requests, NEW s \in Request, RequestInv(s),
           NEW k \in Keys \cup {NoKey},
           request[r].user \in Users, request[r].provider \in Providers,
           WriteAndBecome(r, s, k), UNCHANGED cache
    PROVE  IInv'
<1> DEFINE u    == request[r].user
           p    == request[r].provider
           reqs == [request EXCEPT ![r] = s]
<1>1. Write(u, p, k) /\ request' = Observed(reqs, u, p, k)
  BY DEF WriteAndBecome
<1>2. \A q \in Requests : reqs[q] \in Request /\ RequestInv(reqs[q])
  BY DEF TypeOK, IInv
<1>3. u \in Users /\ p \in Providers
  OBVIOUS
<1> HIDE DEF u, p, reqs
<1>4. ASSUME NEW q \in Requests
      PROVE  RequestInv(request[q])'
  <2>1. request'[q] = Seeing(reqs[q], u, p, k)
    BY <1>1 DEF Observed, Seeing
  <2>2. PICK t : t = request'[q]
    OBVIOUS
  <2>3. RequestInv(t)'
    BY <1>1, <1>2, <1>3, <2>1, <2>2, WriteKeepsRequest
  <2>4. QED
    BY <2>2, <2>3
<1>5. \A x \in Rows : RowInv(x)'
  BY <1>1, <1>3, WriteKeepsRow
<1>6. QED
  BY <1>4, <1>5 DEF IInv
-----------------------------------------------------------------------------
(* The steps of a request.                                                 *)

\* With one provider less to visit, the time for it counts as spent.
LEMMA SpentGrows ==
    ASSUME NEW s \in Request, s.todo # {},
           NEW t, t.pc = "look", t.todo = s.todo \ {Current(s)}
    PROVE  /\ Spent(s) \in Int /\ Spent(t) \in Int
           /\ Spent(s) <= Spent(t) /\ Spent(s) <= FillDelay
<1> DEFINE n == Cardinality(Providers)
           m == Cardinality(s.todo)
           f == FetchLimit
<1>1. /\ n \in Nat /\ m \in Nat /\ m <= n /\ m >= 1
      /\ Cardinality(t.todo) = m - 1
  BY OneLess, BoundsAreNat DEF Request
<1>2. f \in Nat /\ s.left \in 0..f
  BY CatalogAssumption DEF Request
<1>3. Spent(s) = (n - m) * f + (IF s.pc = "fetch" THEN f - s.left ELSE 0)
  BY DEF Spent
<1>4. Spent(t) = (n - (m - 1)) * f + 0
  BY <1>1 DEF Spent
<1>5. FillDelay = n * f
  BY DEF FillDelay
<1> HIDE DEF n, m, f
<1>6. (n - m) * f \in Int /\ (n - (m - 1)) * f = (n - m) * f + f
  BY <1>1, <1>2
<1>7. (n - (m - 1)) * f <= n * f /\ n * f \in Int
  BY <1>1, <1>2
<1>8. (IF s.pc = "fetch" THEN f - s.left ELSE 0) \in 0..f
  BY <1>2
<1>9. QED
  BY <1>2, <1>3, <1>4, <1>5, <1>6, <1>7, <1>8

\* A request whose loop moves on stays in order.
LEMMA LoopInv ==
    ASSUME TypeOK, NEW s \in Request, RequestInv(s), s.todo # {}, Listing(s),
           NEW t, t.pc = "look", t.user = s.user, t.todo = s.todo \ {Current(s)},
           t.keys = s.keys, t.seen = s.seen,
           \A item \in t.served : item.user = s.user
    PROVE  RequestInv(t)
<1>1. WellFormed(t)
  BY DEF RequestInv, WellFormed, Listing
<1>2. SeesTable(t)
  BY DEF RequestInv, SeesTable, Listing
<1>3. KeysInTime(t)
  <2> SUFFICES ASSUME NEW p \in s.todo
               PROVE  /\ s.keys[p] \in Keys
                      /\ s.keys[p] \in s.seen[p]
                      /\ age[<<s.user, p>>][s.keys[p]] <= Spent(t)
    BY DEF KeysInTime
  <2>1. /\ s.keys[p] \in Keys
        /\ s.keys[p] \in s.seen[p]
        /\ age[<<s.user, p>>][s.keys[p]] <= Spent(s)
    BY DEF RequestInv, KeysInTime
  <2>2. <<s.user, p>> \in Rows
    BY DEF RequestInv, WellFormed, Listing, Rows, Request
  <2>3. age[<<s.user, p>>][s.keys[p]] \in Int
    BY <2>1, <2>2, BoundsAreNat DEF TypeOK
  <2>4. Spent(s) \in Int /\ Spent(t) \in Int /\ Spent(s) <= Spent(t)
    BY SpentGrows
  <2>5. QED
    BY <2>1, <2>3, <2>4
<1>4. QED
  BY <1>1, <1>2, <1>3 DEF RequestInv

LEMMA ServingInv ==
    ASSUME TypeOK, NEW s \in Request, RequestInv(s), s.todo # {}, Listing(s),
           NEW item, item.user = s.user
    PROVE  RequestInv(Serving(s, item))
<1> DEFINE t == Serving(s, item)
<1>1. /\ t.pc = "look" /\ t.user = s.user /\ t.todo = s.todo \ {Current(s)}
      /\ t.keys = s.keys /\ t.seen = s.seen /\ t.served = s.served \cup {item}
  BY DEF Serving, Request
<1> HIDE DEF t
<1>2. \A i \in t.served : i.user = s.user
  BY <1>1 DEF RequestInv
<1>3. RequestInv(t)
  BY <1>1, <1>2, LoopInv
<1>4. QED
  BY <1>3 DEF t

LEMMA SkippingInv ==
    ASSUME TypeOK, NEW s \in Request, RequestInv(s), s.todo # {}, Listing(s)
    PROVE  RequestInv(Skipping(s))
<1> DEFINE t == Skipping(s)
<1>1. /\ t.pc = "look" /\ t.user = s.user /\ t.todo = s.todo \ {Current(s)}
      /\ t.keys = s.keys /\ t.seen = s.seen /\ t.served = s.served
  BY DEF Skipping, Request
<1> HIDE DEF t
<1>2. RequestInv(t)
  BY <1>1, LoopInv DEF RequestInv
<1>3. QED
  BY <1>2 DEF t

\* A key that was just read is in the table, so it is of age 0.
LEMMA ReadKeysInv ==
    ASSUME TypeOK, IInv, NEW r \in Requests, request[r].pc = "keys",
           NEW keys, keys = DecryptedKeys(request[r].user)
    PROVE  RequestInv([request[r] EXCEPT !.pc = "rows", !.keys = keys,
                                         !.todo = ToVisit(keys)])
<1> DEFINE s == request[r]
           t == [s EXCEPT !.pc = "rows", !.keys = keys, !.todo = ToVisit(keys)]
<1>1. s \in Request /\ RequestInv(s)
  BY DEF TypeOK, IInv
<1>2. /\ t.pc = "rows" /\ t.user = s.user /\ t.todo = ToVisit(keys)
      /\ t.keys = keys /\ t.seen = s.seen /\ t.served = s.served
  BY <1>1 DEF Request
<1>3. s.pc = "keys" /\ keys = DecryptedKeys(s.user)
  OBVIOUS
<1> HIDE DEF t, s
<1>4. s.user \in Users
  BY <1>1, <1>3 DEF RequestInv, WellFormed
<1>5. WellFormed(t)
  BY <1>2, <1>4 DEF WellFormed
<1>6. SeesTable(t)
  BY <1>1, <1>2, <1>3 DEF RequestInv, SeesTable, Listing
<1>7. KeysInTime(t)
  <2> SUFFICES ASSUME NEW p \in ToVisit(keys)
               PROVE  /\ keys[p] \in Keys
                      /\ keys[p] \in s.seen[p]
                      /\ age[<<s.user, p>>][keys[p]] <= Spent(t)
    BY <1>2 DEF KeysInTime
  <2>1. p \in Providers /\ keys[p] # NoKey
    BY DEF ToVisit
  <2>2. keys[p] = table[<<s.user, p>>]
    BY <1>3, <2>1 DEF DecryptedKeys
  <2>3. <<s.user, p>> \in Rows
    BY <1>4, <2>1 DEF Rows
  <2>4. table[<<s.user, p>>] \in Keys
    BY <2>1, <2>2, <2>3 DEF TypeOK
  <2>5. table[<<s.user, p>>] \in s.seen[p]
    BY <1>1, <1>3, <2>1 DEF RequestInv, SeesTable, Listing
  <2>6. age[<<s.user, p>>][table[<<s.user, p>>]] = 0
    BY <2>1, <2>2, <2>3 DEF IInv, RowInv
  <2>7. Spent(t) >= 0
    <3>1. ToVisit(keys) \in SUBSET Providers
      BY DEF ToVisit
    <3>2. /\ Cardinality(ToVisit(keys)) \in Nat /\ Cardinality(Providers) \in Nat
          /\ Cardinality(ToVisit(keys)) <= Cardinality(Providers)
      BY <3>1, CatalogAssumption, FS_Subset, FS_CardinalityType
    <3>3. Spent(t) = (Cardinality(Providers) - Cardinality(ToVisit(keys))) * FetchLimit + 0
      BY <1>2 DEF Spent
    <3>4. QED
      BY <3>2, <3>3, CatalogAssumption
  <2>8. QED
    BY <2>2, <2>4, <2>5, <2>6, <2>7
<1>8. RequestInv(t)
  BY <1>1, <1>2, <1>5, <1>6, <1>7 DEF RequestInv
<1>9. QED
  BY <1>8 DEF t, s
\* The key a list is at: of its user, seen, and within the bound.
LEMMA CurrentKey ==
    ASSUME TypeOK, NEW s \in Request, RequestInv(s), s.todo # {}
    PROVE  /\ Current(s) \in s.todo /\ Current(s) \in Providers
           /\ s.user \in Users
           /\ <<s.user, Current(s)>> \in Rows
           /\ s.keys[Current(s)] \in Keys
           /\ s.keys[Current(s)] \in s.seen[Current(s)]
           /\ age[<<s.user, Current(s)>>][s.keys[Current(s)]] \in Int
           /\ age[<<s.user, Current(s)>>][s.keys[Current(s)]] <= FillDelay
<1> DEFINE p == Current(s)
<1>1. p \in s.todo /\ p \in Providers
  BY CurrentIsToDo DEF Request
<1>2. s.user \in Users
  BY DEF RequestInv, WellFormed
<1>3. <<s.user, p>> \in Rows
  BY <1>1, <1>2 DEF Rows
<1>4. /\ s.keys[p] \in Keys
      /\ s.keys[p] \in s.seen[p]
      /\ age[<<s.user, p>>][s.keys[p]] <= Spent(s)
  BY <1>1 DEF RequestInv, KeysInTime
<1>5. age[<<s.user, p>>][s.keys[p]] \in Int
  BY <1>3, <1>4, BoundsAreNat DEF TypeOK
<1>6. Spent(s) \in Int /\ Spent(s) <= FillDelay
  <2>1. PICK t : t = Skipping(s)
    OBVIOUS
  <2>2. t.pc = "look" /\ t.todo = s.todo \ {Current(s)}
    BY <2>1 DEF Skipping, Request
  <2>3. QED
    BY <2>2, SpentGrows
<1>7. age[<<s.user, p>>][s.keys[p]] <= FillDelay
  BY <1>4, <1>5, <1>6, BoundsAreNat
<1>8. QED
  BY <1>1, <1>2, <1>3, <1>4, <1>5, <1>7

\* A handler that has made its write, with its purge ahead.
LEMMA WriterInv ==
    ASSUME TypeOK, IInv, NEW r \in Requests, request[r].user \in Users,
           request[r].provider \in Providers, request[r].pc \in {"upsert", "delete"}
    PROVE  /\ RequestInv(AfterUpsert(request[r]))
           /\ RequestInv(AfterDelete(request[r]))
<1> DEFINE s == request[r]
<1>1. s \in Request /\ RequestInv(s) /\ s.todo = {}
  BY DEF TypeOK, IInv, RequestInv, WellFormed
<1>2. PICK t : t = AfterUpsert(s)
  OBVIOUS
<1>3. /\ t.pc = "purge" /\ t.user = s.user /\ t.provider = s.provider
      /\ t.todo = {} /\ t.served = s.served
  BY <1>1, <1>2 DEF AfterUpsert, WithReplaced, Request
<1>4. RequestInv(t)
  BY <1>1, <1>3 DEF RequestInv, WellFormed, SeesTable, Listing, KeysInTime
<1>5. AfterDelete(s) = t
  BY <1>2 DEF AfterDelete, AfterUpsert
<1>6. QED
  BY <1>2, <1>4, <1>5

LEMMA ServeIInv ==
    ASSUME TypeOK, IInv, NEW r \in Requests, Serve(r)
    PROVE  IInv'
<1> DEFINE s == request[r]
<1>1. s \in Request /\ RequestInv(s) /\ WellFormed(s)
  BY DEF TypeOK, IInv, RequestInv
<1>2. RequestInv(Idle) /\ Idle \in Request
  BY IdleInv, IdleIsRequest
<1>3. \A x \in Rows : RowInv(x)
  BY DEF IInv
<1> HIDE DEF s
<1>4. CASE Probe(r)
  <2> DEFINE t == [s EXCEPT !.pc = "upsert", !.left = 0]
  <2>1. s.pc = "probe" /\ UNCHANGED <<table, cache, age>>
    BY <1>4 DEF Probe, s
  <2>2. /\ t.pc = "upsert" /\ t.user = s.user /\ t.provider = s.provider
        /\ t.key = s.key /\ t.todo = s.todo /\ t.served = s.served
    BY <1>1 DEF Request
  <2>3. Become(r, t) \/ Become(r, Idle)
    BY <1>4 DEF Probe, s
  <2> HIDE DEF t
  <2>4. RequestInv(t)
    BY <1>1, <2>1, <2>2 DEF RequestInv, WellFormed, SeesTable, Listing, KeysInTime
  <2>5. QED
    BY <1>2, <2>1, <2>3, <2>4, LocalStep
<1>5. CASE Upsert(r)
  <2>1. s.user \in Users /\ s.provider \in Providers /\ s.key \in Keys /\ s.pc = "upsert"
    BY <1>1, <1>5 DEF Upsert, WellFormed, s
  <2>2. AfterUpsert(s) \in Request /\ RequestInv(AfterUpsert(s))
    BY <2>1, WriterType, WriterInv DEF s
  <2>3. UNCHANGED cache
    BY <1>5 DEF Upsert
  <2>4. CASE WriteAndBecome(r, AfterUpsert(s), s.key)
    BY <2>1, <2>2, <2>3, <2>4, WriteStep DEF s
  <2>5. CASE WriteAndBecome(r, Idle, s.key)
    BY <1>2, <2>1, <2>3, <2>5, WriteStep DEF s
  <2>6. CASE Become(r, Idle) /\ UNCHANGED <<table, sealed, age>>
    BY <1>2, <2>3, <2>6, LocalStep
  <2>7. QED
    BY <1>5, <2>4, <2>5, <2>6 DEF Upsert, WriteFails, s
<1>6. CASE DeleteRow(r)
  <2>1. s.user \in Users /\ s.provider \in Providers /\ s.pc = "delete"
    BY <1>1, <1>6 DEF DeleteRow, WellFormed, s
  <2>2. AfterDelete(s) \in Request /\ RequestInv(AfterDelete(s))
    BY <2>1, WriterType, WriterInv DEF s
  <2>3. UNCHANGED cache
    BY <1>6 DEF DeleteRow
  <2>4. CASE WriteAndBecome(r, AfterDelete(s), NoKey)
    BY <2>1, <2>2, <2>3, <2>4, WriteStep DEF s
  <2>5. CASE WriteAndBecome(r, Idle, NoKey)
    BY <1>2, <2>1, <2>3, <2>5, WriteStep DEF s
  <2>6. CASE Become(r, Idle) /\ UNCHANGED <<table, sealed, age>>
    BY <1>2, <2>3, <2>6, LocalStep
  <2>7. QED
    BY <1>6, <2>4, <2>5, <2>6 DEF DeleteRow, WriteFails, s
<1>7. CASE Purge(r)
  <2>1. /\ cache' = [cache EXCEPT ![Slot(s.user, s.provider)] = NoEntry]
        /\ Become(r, Idle) /\ UNCHANGED <<table, sealed, age>>
    BY <1>7 DEF Purge, s
  <2>2. \A x \in Rows : cache'[x] = NoEntry \/ cache'[x] = cache[x]
    BY <2>1 DEF TypeOK
  <2>3. \A x \in Rows : RowInv(x)'
    BY <1>3, <2>1, <2>2 DEF RowInv
  <2>4. QED
    BY <1>2, <2>1, <2>3, RequestStep
<1>8. CASE ReadKeys(r)
  <2>1. PICK keys : keys = DecryptedKeys(s.user)
    OBVIOUS
  <2>2. /\ s.pc = "keys" /\ UNCHANGED <<table, cache, age>>
        /\ Become(r, [s EXCEPT !.pc = "rows", !.keys = keys, !.todo = ToVisit(keys)])
    BY <1>8, <2>1 DEF ReadKeys, s
  <2>3. RequestInv([s EXCEPT !.pc = "rows", !.keys = keys, !.todo = ToVisit(keys)])
    BY <2>1, <2>2, ReadKeysInv DEF s
  <2>4. QED
    BY <2>2, <2>3, LocalStep
<1>9. CASE Hit(r)
  <2> DEFINE x == Slot(s.user, Current(s))
             e == cache[x]
             item == [user |-> e.user, provider |-> Current(s), key |-> e.key]
  <2>1. /\ s.todo # {} /\ s.pc = "look" /\ e # NoEntry
        /\ Become(r, Serving(s, item)) /\ UNCHANGED <<table, sealed, cache, age>>
    BY <1>9 DEF Hit, UseCache, Live, s
  <2>2. x \in Rows /\ x[1] = s.user
    BY <1>1, <2>1, CurrentKey DEF Slot
  <2>3. item.user = s.user
    BY <1>3, <2>1, <2>2 DEF RowInv
  <2> HIDE DEF item
  <2>4. RequestInv(Serving(s, item))
    BY <1>1, <2>1, <2>3, ServingInv DEF Listing
  <2>5. QED
    BY <2>1, <2>4, LocalStep
<1>10. CASE Miss(r)
  <2> DEFINE t == [s EXCEPT !.pc = "fetch", !.left = FetchLimit]
  <2>1. /\ s.pc = "look" /\ s.todo # {} /\ Become(r, t)
        /\ UNCHANGED <<table, cache, age>>
    BY <1>10 DEF Miss, s
  <2>2. /\ t.pc = "fetch" /\ t.left = FetchLimit /\ t.user = s.user /\ t.todo = s.todo
        /\ t.keys = s.keys /\ t.seen = s.seen /\ t.served = s.served
    BY <1>1 DEF Request
  <2> HIDE DEF t
  <2>3. Spent(t) = Spent(s)
    BY <2>1, <2>2, CatalogAssumption DEF Spent
  <2>4. RequestInv(t)
    BY <1>1, <2>1, <2>2, <2>3 DEF RequestInv, WellFormed, SeesTable, Listing, KeysInTime
  <2>5. QED
    BY <2>1, <2>4, LocalStep
<1>11. CASE FetchAnswers(r)
  <2> DEFINE p == Current(s)
             x == <<s.user, p>>
             k == s.keys[p]
             item == [user |-> s.user, provider |-> p, key |-> k]
  <2>1. /\ s.pc = "fetch" /\ Become(r, Serving(s, item)) /\ UNCHANGED <<table, age>>
        /\ cache' = [cache EXCEPT ![x] = Filled(s.user, k)]
    BY <1>11 DEF FetchAnswers, Slot, s
  <2>2. s.todo # {}
    BY <1>1, <2>1 DEF WellFormed
  <2>3. /\ x \in Rows /\ k \in Keys /\ age[x][k] \in Int /\ age[x][k] <= FillDelay
    BY <1>1, <2>2, CurrentKey
  <2>4. item.user = s.user /\ x[1] = s.user
    OBVIOUS
  <2> HIDE DEF item, x, k
  <2>5. RequestInv(Serving(s, item))
    BY <1>1, <2>1, <2>2, <2>4, ServingInv DEF Listing
  <2>6. ASSUME NEW y \in Rows
        PROVE  RowInv(y)'
    <3>1. CASE y = x
      <4>1. cache'[y] = Filled(s.user, k)
        BY <2>1, <2>3, <3>1 DEF TypeOK
      <4>2. cache'[y].user = y[1] /\ cache'[y].key = k /\ cache'[y].life = TTL
        BY <2>4, <3>1, <4>1 DEF Filled
      <4>3. age[x][k] <= FillDelay + TTL - TTL
        BY <2>3, BoundsAreNat, CatalogAssumption
      <4>4. QED
        BY <1>3, <2>1, <3>1, <4>2, <4>3 DEF RowInv
    <3>2. CASE y # x
      <4>1. cache'[y] = cache[y]
        BY <2>1, <3>2 DEF TypeOK
      <4>2. QED
        BY <1>3, <2>1, <4>1 DEF RowInv
    <3>3. QED
      BY <3>1, <3>2
  <2>7. QED
    BY <2>1, <2>5, <2>6, RequestStep
<1>12. CASE FetchFails(r)
  <2>1. s.pc = "fetch" /\ Become(r, Skipping(s)) /\ UNCHANGED <<table, cache, age>>
    BY <1>12 DEF FetchFails, s
  <2>2. RequestInv(Skipping(s))
    BY <1>1, <2>1, SkippingInv DEF WellFormed, Listing
  <2>3. QED
    BY <2>1, <2>2, LocalStep
<1>13. CASE Respond(r)
  BY <1>2, <1>13, LocalStep DEF Respond
<1>14. CASE KeysArrive(r)
  <2> DEFINE t == [s EXCEPT !.pc = "look"]
  <2>1. s.pc = "rows" /\ UNCHANGED <<table, cache, age>> /\ (Become(r, t) \/ Become(r, Idle))
    BY <1>14 DEF KeysArrive, s
  <2>2. /\ t.pc = "look" /\ t.user = s.user /\ t.todo = s.todo
        /\ t.keys = s.keys /\ t.seen = s.seen /\ t.served = s.served
    BY <1>1 DEF Request
  <2> HIDE DEF t
  <2>3. Spent(t) = Spent(s)
    BY <2>1, <2>2 DEF Spent
  <2>4. RequestInv(t)
    BY <1>1, <2>1, <2>2, <2>3 DEF RequestInv, WellFormed, SeesTable, Listing, KeysInTime
  <2>5. QED
    BY <1>2, <2>1, <2>4, LocalStep
<1>15. QED
  BY <1>4, <1>5, <1>6, <1>7, <1>8, <1>9, <1>10, <1>11, <1>12, <1>13, <1>14 DEF Serve
-----------------------------------------------------------------------------
(* Time.                                                                   *)

\* A tick ages a key by at most one, and one that is in the table, or on its way
\* to a list, not at all.
LEMMA TickAges ==
    ASSUME TypeOK, Tick
    PROVE  \A x \in Rows : \A k \in Keys :
              /\ age[x][k] \in Int /\ age'[x][k] \in Int
              /\ age'[x][k] <= age[x][k] + 1
              /\ age'[x][k] <= AgeCap
              /\ table[x] = k \/ OnItsWay(x, k) => age'[x][k] = 0
<1> SUFFICES ASSUME NEW x \in Rows, NEW k \in Keys
             PROVE  /\ age[x][k] \in Int /\ age'[x][k] \in Int
                    /\ age'[x][k] <= age[x][k] + 1
                    /\ age'[x][k] <= AgeCap
                    /\ table[x] = k \/ OnItsWay(x, k) => age'[x][k] = 0
  OBVIOUS
<1>1. age[x][k] \in 0..AgeCap /\ AgeCap \in Nat
  BY BoundsAreNat DEF TypeOK
<1>2. age'[x][k] = IF table[x] = k \/ OnItsWay(x, k) THEN 0
                   ELSE IF age[x][k] < AgeCap THEN age[x][k] + 1 ELSE AgeCap
  BY DEF Tick
<1>3. QED
  BY <1>1, <1>2

LEMMA TickKeepsRequest ==
    ASSUME TypeOK, Tick, NEW r \in Requests, NEW s \in Request, s = request[r],
           RequestInv(s), MayWait(s), NEW t, t = Elapsed(s)
    PROVE  RequestInv(t)'
<1>1. /\ t.pc = s.pc /\ t.user = s.user /\ t.provider = s.provider /\ t.key = s.key
      /\ t.keys = s.keys /\ t.todo = s.todo /\ t.seen = s.seen /\ t.served = s.served
      /\ s.pc = "fetch" => t.left = s.left - 1
  BY DEF Elapsed, Request
<1>2. UNCHANGED table
  BY DEF Tick
<1>3. s.todo # {} => s.pc \in {"rows", "fetch"}
  BY DEF RequestInv, WellFormed, MayWait
<1>4. KeysInTime(t)'
  <2> SUFFICES ASSUME NEW p \in s.todo
               PROVE  /\ s.keys[p] \in Keys
                      /\ s.keys[p] \in s.seen[p]
                      /\ age'[<<s.user, p>>][s.keys[p]] <= Spent(t)
    BY <1>1 DEF KeysInTime, Spent
  <2>1. /\ s.keys[p] \in Keys
        /\ s.keys[p] \in s.seen[p]
        /\ age[<<s.user, p>>][s.keys[p]] <= Spent(s)
    BY DEF RequestInv, KeysInTime
  <2>2. <<s.user, p>> \in Rows
    BY <1>3 DEF RequestInv, WellFormed, Rows, Request
  <2>3. /\ age[<<s.user, p>>][s.keys[p]] \in Int /\ age'[<<s.user, p>>][s.keys[p]] \in Int
        /\ age'[<<s.user, p>>][s.keys[p]] <= age[<<s.user, p>>][s.keys[p]] + 1
    BY <2>1, <2>2, TickAges
  <2>4. CASE s.pc = "rows"
    <3>1. PICK x : x = <<s.user, p>>
      OBVIOUS
    <3>2. x \in Rows /\ OnItsWay(x, s.keys[p])
      BY <2>2, <2>4, <3>1 DEF OnItsWay
    <3>3. age'[x][s.keys[p]] = 0
      BY <2>1, <3>2, TickAges
    <3>4. t = s /\ Spent(s) \in Int /\ Spent(s) >= 0
      BY <2>4, SpentType DEF Elapsed
    <3>5. QED
      BY <2>1, <3>1, <3>3, <3>4
  <2>5. CASE s.pc = "fetch"
    <3>1. s.left \in Int /\ FetchLimit \in Int /\ t.pc = "fetch" /\ t.left = s.left - 1
      BY <1>1, <2>5, CatalogAssumption DEF Request
    <3>2. PICK spent : spent = (Cardinality(Providers) - Cardinality(s.todo)) * FetchLimit
      OBVIOUS
    <3>3. Spent(s) = spent + (FetchLimit - s.left)
      BY <2>5, <3>2 DEF Spent
    <3>4. Spent(t) = spent + (FetchLimit - (s.left - 1))
      BY <1>1, <3>1, <3>2 DEF Spent
    <3>5. spent \in Int
      <4>1. Cardinality(s.todo) \in Nat
        BY CatalogAssumption, FS_Subset, FS_CardinalityType DEF Request
      <4>2. QED
        BY <3>1, <3>2, <4>1, BoundsAreNat
    <3>6. Spent(t) = Spent(s) + 1 /\ Spent(s) \in Int
      BY <3>1, <3>3, <3>4, <3>5
    <3>7. QED
      BY <2>1, <2>3, <3>6
  <2>6. QED
    BY <1>3, <2>4, <2>5
<1>5. QED
  BY <1>1, <1>2, <1>4 DEF RequestInv, WellFormed, SeesTable, Listing

LEMMA TickKeepsRow ==
    ASSUME TypeOK, Tick, NEW x \in Rows, RowInv(x)
    PROVE  RowInv(x)'
<1>1. UNCHANGED table /\ cache'[x] = OneOlder(cache[x])
  BY DEF Tick
<1>2. ASSUME table[x] # NoKey
      PROVE  age'[x][table[x]] = 0
  BY <1>2, TickAges DEF TypeOK
<1>3. ASSUME cache'[x] # NoEntry
      PROVE  /\ cache'[x].user = x[1]
             /\ age'[x][cache'[x].key] <= FillDelay + TTL - cache'[x].life
  <2> DEFINE e == cache[x]
             f == cache'[x]
  <2>1. e \in Entry
    BY <1>1, <1>3 DEF TypeOK, OneOlder
  <2>2. e # NoEntry
    BY <2>1, NoEntryAssumption
  <2>3. e.key \in Keys /\ e.life \in -1..TTL
    BY <2>1 DEF Entry
  <2>4. e.user = x[1] /\ age[x][e.key] <= FillDelay + TTL - e.life
    BY <2>2 DEF RowInv
  <2>5. /\ age[x][e.key] \in Int /\ age'[x][e.key] \in Int
        /\ age'[x][e.key] <= age[x][e.key] + 1
        /\ age'[x][e.key] <= FillDelay + TTL + 1
    BY <2>3, TickAges DEF AgeCap, StaleBound
  <2>6. FillDelay \in Int /\ TTL \in Nat
    BY BoundsAreNat, CatalogAssumption
  <2>7. CASE e.life < 0
    <3>1. f = e
      BY <1>1, <2>7 DEF OneOlder
    <3>2. e.life = -1
      BY <2>3, <2>6, <2>7
    <3>3. age'[x][e.key] <= FillDelay + TTL - e.life
      BY <2>5, <2>6, <3>2
    <3>4. QED
      BY <2>4, <3>1, <3>3
  <2>8. CASE ~(e.life < 0)
    <3>1. f = [e EXCEPT !.life = @ - 1]
      BY <1>1, <2>2, <2>8 DEF OneOlder
    <3>2. f.user = e.user /\ f.key = e.key /\ f.life = e.life - 1
      BY <2>1, <3>1 DEF Entry
    <3> HIDE DEF e, f
    <3>3. age'[x][e.key] <= FillDelay + TTL - (e.life - 1)
      BY <2>3, <2>4, <2>5, <2>6
    <3>4. QED
      BY <2>4, <3>2, <3>3 DEF f
  <2>9. QED
    BY <2>7, <2>8
<1>4. QED
  BY <1>1, <1>2, <1>3 DEF RowInv

-----------------------------------------------------------------------------
(* The invariant is inductive.                                             *)

LEMMA NextIInv ==
    ASSUME TypeOK, IInv, Next
    PROVE  IInv'
<1>1. ASSUME NEW r \in Requests, NEW u \in Users, NEW p \in Providers, NEW k \in Keys,
             Register(r, u, p, k)
      PROVE  IInv'
  <2> DEFINE t == [Idle EXCEPT !.pc = "probe", !.user = u, !.provider = p, !.key = k,
                               !.left = FetchLimit]
  <2>1. /\ t.pc = "probe" /\ t.user = u /\ t.provider = p /\ t.key = k
        /\ t.todo = {} /\ t.served = {}
    BY DEF Idle
  <2>2. Become(r, t) /\ UNCHANGED <<table, cache, age>>
    BY <1>1 DEF Register
  <2> HIDE DEF t
  <2>3. RequestInv(t)
    BY <2>1 DEF RequestInv, WellFormed, SeesTable, Listing, KeysInTime
  <2>4. QED
    BY <2>2, <2>3, LocalStep
<1>2. ASSUME NEW r \in Requests, NEW u \in Users, NEW p \in Providers, Delete(r, u, p)
      PROVE  IInv'
  <2> DEFINE t == [Idle EXCEPT !.pc = "delete", !.user = u, !.provider = p]
  <2>1. /\ t.pc = "delete" /\ t.user = u /\ t.provider = p
        /\ t.todo = {} /\ t.served = {}
    BY DEF Idle
  <2>2. Become(r, t) /\ UNCHANGED <<table, cache, age>>
    BY <1>2 DEF Delete
  <2> HIDE DEF t
  <2>3. RequestInv(t)
    BY <2>1 DEF RequestInv, WellFormed, SeesTable, Listing, KeysInTime
  <2>4. QED
    BY <2>2, <2>3, LocalStep
<1>3. ASSUME NEW r \in Requests, NEW u \in Users, NEW refresh \in BOOLEAN, List(r, u, refresh)
      PROVE  IInv'
  <2> DEFINE seen == [p \in Providers |-> {table[u, p]} \cup NotYetReplaced(u, p)]
             t == [Idle EXCEPT !.pc = "keys", !.user = u, !.refresh = refresh, !.seen = seen]
  <2>1. \A p \in Providers : table[<<u, p>>] \in seen[p]
    OBVIOUS
  <2>2. Become(r, t) /\ UNCHANGED <<table, cache, age>>
    BY <1>3 DEF List
  <2> HIDE DEF seen
  <2>3. t.pc = "keys" /\ t.user = u /\ t.todo = {} /\ t.served = {} /\ t.seen = seen
    BY DEF Idle
  <2> HIDE DEF t
  <2>4. RequestInv(t)
    BY <2>1, <2>3 DEF RequestInv, WellFormed, SeesTable, Listing, KeysInTime
  <2>5. QED
    BY <2>2, <2>4, LocalStep
<1>4. CASE Cleanup
  <2>1. /\ UNCHANGED <<table, age, request>>
        /\ \A x \in Rows : cache'[x] = NoEntry \/ cache'[x] = cache[x]
    BY <1>4 DEF Cleanup
  <2>2. \A r \in Requests : RequestInv(request[r])'
    BY <2>1 DEF IInv, RequestInv, WellFormed, SeesTable, Listing, KeysInTime, Spent
  <2>3. \A x \in Rows : RowInv(x)'
    BY <2>1 DEF IInv, RowInv
  <2>4. QED
    BY <2>2, <2>3 DEF IInv
<1>5. CASE Tick
  <2>1. ASSUME NEW r \in Requests
        PROVE  RequestInv(request[r])'
    <3>1. /\ request[r] \in Request /\ RequestInv(request[r]) /\ MayWait(request[r])
          /\ request'[r] = Elapsed(request[r])
      BY <1>5, <2>1 DEF Tick, TypeOK, IInv
    <3>2. PICK t : t = request'[r]
      OBVIOUS
    <3>3. RequestInv(t)'
      BY <1>5, <3>1, <3>2, TickKeepsRequest
    <3>4. QED
      BY <3>2, <3>3
  <2>2. \A x \in Rows : RowInv(x)'
    BY <1>5, TickKeepsRow DEF IInv
  <2>3. QED
    BY <2>1, <2>2 DEF IInv
<1>6. ASSUME NEW rotated \in BOOLEAN, Restart(rotated)
      PROVE  IInv'
  <2>1. /\ request' = [r \in Requests |-> Idle] /\ cache' = [x \in Rows |-> NoEntry]
        /\ UNCHANGED <<table, age>>
    BY <1>6 DEF Restart
  <2>2. RequestInv(Idle)'
    BY DEF RequestInv, Idle, WellFormed, SeesTable, Listing, KeysInTime
  <2>3. ASSUME NEW r \in Requests
        PROVE  RequestInv(request[r])'
    <3>1. request'[r] = Idle
      BY <2>1
    <3>2. QED
      BY <2>2, <3>1 DEF RequestInv, WellFormed, SeesTable, Listing, KeysInTime, Spent
  <2>4. \A x \in Rows : RowInv(x)'
    BY <2>1 DEF IInv, RowInv
  <2>5. QED
    BY <2>3, <2>4 DEF IInv
<1>7. QED
  BY <1>1, <1>2, <1>3, <1>4, <1>5, <1>6, ServeIInv DEF Next
LEMMA InvariantStep ==
    ASSUME TypeOK, IInv, [Next]_vars
    PROVE  TypeOK' /\ IInv'
<1>1. CASE Next
  BY <1>1, TypeNext, NextIInv
<1>2. CASE UNCHANGED vars
  BY <1>2 DEF vars, TypeOK, IInv, RequestInv, WellFormed, SeesTable, Listing, KeysInTime,
              Spent, RowInv
<1>3. QED
  BY <1>1, <1>2

\* Types, and the invariant, which ties every key a list holds and every entry
\* of the cache to the table and to time.
THEOREM Invariant == Spec => [](TypeOK /\ IInv)
<1>1. Init => TypeOK /\ IInv
  BY InitIInv
<1>2. TypeOK /\ IInv /\ [Next]_vars => (TypeOK /\ IInv)'
  BY InvariantStep
<1>3. QED
  BY <1>1, <1>2, PTL DEF Spec

\* The catalog is well typed for any number of users, providers and requests.
THEOREM TypeCorrect == Spec => []TypeOK
BY Invariant, PTL

\* Nobody is served, or has cached, models fetched with someone else's key
\* (cache.go:44, ai_model.go:29).
THEOREM IsolationHolds == Spec => []Isolation
<1>1. TypeOK /\ IInv => Isolation
  BY DEF IInv, RequestInv, RowInv, Isolation
<1>2. QED
  BY <1>1, Invariant, PTL

-----------------------------------------------------------------------------
(* What a step serves.                                                     *)

\* A request other than the one that moves is served nothing.
LEMMA OthersServeNothing ==
    ASSUME TypeOK, NEW r \in Requests, NEW s \in Request, NEW q \in Requests,
           s.served \subseteq request[r].served,
           \/ Become(r, s)
           \/ \E u, p, k : request' = Observed([request EXCEPT ![r] = s], u, p, k)
    PROVE  JustServed(q) = {}
<1> DEFINE reqs == [request EXCEPT ![r] = s]
<1>1. reqs[q].served \subseteq request[q].served /\ reqs[q] \in Request
  BY DEF TypeOK
<1>2. CASE Become(r, s)
  BY <1>1, <1>2 DEF Become, JustServed
<1>3. CASE \E u, p, k : request' = Observed(reqs, u, p, k)
  <2>1. PICK u, p, k : request' = Observed(reqs, u, p, k)
    BY <1>3
  <2> HIDE DEF reqs
  <2>2. request'[q] = Seeing(reqs[q], u, p, k)
    BY <2>1 DEF Observed, Seeing
  <2>3. Seeing(reqs[q], u, p, k).served = reqs[q].served
    BY <1>1 DEF Seeing, Request
  <2>4. QED
    BY <1>1, <2>2, <2>3 DEF JustServed
<1>4. QED
  BY <1>2, <1>3

\* The models of a response come from a fetch with the key the list read, or
\* from an entry of the user that is live.
LEMMA WhoServes ==
    ASSUME TypeOK, IInv, [Next]_vars, NEW r \in Requests, NEW item \in JustServed(r)
    PROVE  LET s == request[r]
               x == <<s.user, Current(s)>>
           IN  /\ s.todo # {} /\ item.user = s.user /\ item.provider = Current(s)
               /\ \/ item.key = s.keys[Current(s)]
                  \/ ~s.refresh /\ Live(x) /\ item.key = cache[x].key
<1> DEFINE s == request[r]
           x == <<s.user, Current(s)>>
           Served == /\ s.todo # {} /\ item.user = s.user /\ item.provider = Current(s)
                     /\ \/ item.key = s.keys[Current(s)]
                        \/ ~s.refresh /\ Live(x) /\ item.key = cache[x].key
<1>1. item \in request'[r].served /\ item \notin request[r].served
  BY DEF JustServed
<1>2. Next /\ 0 \in 0..FetchLimit /\ FetchLimit \in 0..FetchLimit
  BY <1>1, CatalogAssumption DEF vars
<1>3. Idle.served = {} /\ Idle \in Request
  BY IdleIsRequest DEF Idle
<1> HIDE DEF Served
<1>4. ASSUME NEW q \in Requests, Serve(q)
      PROVE  Served
  <2> DEFINE v == request[q]
  <2>1. v \in Request /\ WellFormed(v) /\ RequestInv(v)
    BY DEF TypeOK, IInv, RequestInv
  <2>2. ASSUME NEW t \in Request, t.served = v.served \/ t = Idle
        PROVE  /\ ~ Become(q, t)
               /\ ~ \E u, p, k : request' = Observed([request EXCEPT ![q] = t], u, p, k)
    <3>1. t.served \subseteq v.served
      BY <1>3, <2>2
    <3>2. QED
      BY <1>1, <2>1, <3>1, OthersServeNothing DEF JustServed
  <2>3. ASSUME NEW new, v.todo # {}, Become(q, Serving(v, new)), new.user = v.user,
               new.provider = Current(v),
               \/ new.key = v.keys[Current(v)]
               \/ /\ ~v.refresh /\ Live(<<v.user, Current(v)>>)
                  /\ new.key = cache[<<v.user, Current(v)>>].key
        PROVE  Served
    <3>1. q = r
      BY <1>1, <2>3 DEF Become, TypeOK
    <3>2. request'[r] = Serving(s, new)
      BY <2>3, <3>1 DEF Become, TypeOK
    <3>3. Serving(s, new).served = s.served \cup {new}
      BY <2>1, <3>1 DEF Serving, Request
    <3>4. item = new
      BY <1>1, <3>2, <3>3
    <3>5. QED
      BY <2>3, <3>1, <3>4 DEF Served
  <2> HIDE DEF v
  <2>4. CASE Probe(q)
    <3>1. [v EXCEPT !.pc = "upsert", !.left = 0] \in Request
      BY <1>2, <2>1 DEF Request, Pcs
    <3>2. [v EXCEPT !.pc = "upsert", !.left = 0].served = v.served
      BY <2>1 DEF Request
    <3>3. QED
      BY <1>3, <2>2, <2>4, <3>1, <3>2 DEF Probe, v
  <2>5. CASE Upsert(q) \/ DeleteRow(q)
    <3>1. v.user \in Users /\ v.provider \in Providers
      BY <2>1, <2>5 DEF Upsert, DeleteRow, WellFormed, v
    <3>2. AfterUpsert(v) \in Request /\ AfterDelete(v) \in Request
      BY <3>1, WriterType DEF v
    <3>3. AfterUpsert(v).served = v.served /\ AfterDelete(v).served = v.served
      BY <2>1 DEF AfterUpsert, AfterDelete, WithReplaced, Request
    <3>4. PICK t \in {Idle, AfterUpsert(v), AfterDelete(v)} :
             \/ Become(q, t)
             \/ \E u, p, k : request' = Observed([request EXCEPT ![q] = t], u, p, k)
      BY <2>5 DEF Upsert, DeleteRow, WriteFails, WriteAndBecome, v
    <3>5. QED
      BY <1>3, <2>2, <3>2, <3>3, <3>4
  <2>6. CASE Purge(q) \/ Respond(q)
    BY <1>3, <2>2, <2>6 DEF Purge, Respond
  <2>7. CASE ReadKeys(q)
    <3>1. PICK keys : keys = DecryptedKeys(v.user)
      OBVIOUS
    <3>2. PICK t : t = [v EXCEPT !.pc = "rows", !.keys = keys, !.todo = ToVisit(keys)]
      OBVIOUS
    <3>3. t.served = v.served
      BY <2>1, <3>2 DEF Request
    <3>4. v.user \in Users
      BY <2>1, <2>7 DEF ReadKeys, WellFormed, v
    <3>5. keys \in [Providers -> Keys \cup {NoKey}] /\ ToVisit(keys) \subseteq Providers
      BY <3>1, <3>4 DEF TypeOK, Rows, DecryptedKeys, ToVisit
    <3>6. t \in Request
      BY <2>1, <3>2, <3>5 DEF Request, Pcs
    <3>7. Become(q, t)
      BY <2>7, <3>1, <3>2 DEF ReadKeys, v
    <3>8. QED
      BY <2>2, <3>3, <3>6, <3>7
  <2>8. CASE Hit(q)
    <3> DEFINE y == <<v.user, Current(v)>>
               new == [user |-> cache[y].user, provider |-> Current(v), key |-> cache[y].key]
    <3>1. /\ v.todo # {} /\ ~v.refresh /\ Live(y) /\ Become(q, Serving(v, new))
      BY <2>8 DEF Hit, UseCache, Slot, v
    <3>2. y \in Rows /\ y[1] = v.user
      BY <2>1, <3>1, CurrentKey
    <3>3. new.user = v.user /\ new.provider = Current(v) /\ new.key = cache[y].key
      BY <3>1, <3>2 DEF IInv, RowInv, Live
    <3> HIDE DEF new, y
    <3>4. QED
      BY <2>3, <3>1, <3>3 DEF y
  <2>9. CASE Miss(q)
    <3>1. PICK t : t = [v EXCEPT !.pc = "fetch", !.left = FetchLimit]
      OBVIOUS
    <3>2. t \in Request /\ t.served = v.served
      BY <1>2, <2>1, <3>1 DEF Request, Pcs
    <3>3. Become(q, t)
      BY <2>9, <3>1 DEF Miss, v
    <3>4. QED
      BY <2>2, <3>2, <3>3
  <2>10. CASE FetchAnswers(q)
    <3> DEFINE new == [user |-> v.user, provider |-> Current(v), key |-> v.keys[Current(v)]]
    <3>1. v.todo # {} /\ Become(q, Serving(v, new))
      BY <2>1, <2>10 DEF FetchAnswers, WellFormed, v
    <3>2. new.user = v.user /\ new.provider = Current(v) /\ new.key = v.keys[Current(v)]
      OBVIOUS
    <3> HIDE DEF new
    <3>3. QED
      BY <2>3, <3>1, <3>2
  <2>11. CASE FetchFails(q)
    <3>1. Skipping(v) \in Request /\ Skipping(v).served = v.served
      BY <2>1, SkippingType DEF Skipping, Request
    <3>2. QED
      BY <2>2, <2>11, <3>1 DEF FetchFails, v
  <2>12. CASE KeysArrive(q)
    <3>1. PICK t : t = [v EXCEPT !.pc = "look"]
      OBVIOUS
    <3>2. t \in Request /\ t.served = v.served
      BY <2>1, <3>1 DEF Request, Pcs
    <3>3. Become(q, t) \/ Become(q, Idle)
      BY <2>12, <3>1 DEF KeysArrive, v
    <3>4. QED
      BY <1>3, <2>2, <3>2, <3>3
  <2>13. QED
    BY <1>4, <2>4, <2>5, <2>6, <2>7, <2>8, <2>9, <2>10, <2>11, <2>12 DEF Serve
<1>5. ASSUME NEW q \in Requests, NEW t, t.served = {}, Become(q, t)
      PROVE  FALSE
  <2>1. request'[r].served \subseteq request[r].served
    BY <1>5 DEF Become, TypeOK
  <2>2. QED
    BY <1>1, <2>1
<1>6. ASSUME NEW q \in Requests, NEW u \in Users, NEW p \in Providers,
             Delete(q, u, p) \/ \E k \in Keys : Register(q, u, p, k)
      PROVE  FALSE
  <2>1. [Idle EXCEPT !.pc = "delete", !.user = u, !.provider = p].served = {}
    BY DEF Idle
  <2>2. ASSUME NEW k \in Keys
        PROVE  [Idle EXCEPT !.pc = "probe", !.user = u, !.provider = p, !.key = k,
                            !.left = FetchLimit].served = {}
    BY DEF Idle
  <2>3. QED
    BY <1>5, <1>6, <2>1, <2>2 DEF Register, Delete
<1>7. ASSUME NEW q \in Requests, NEW u \in Users, NEW refresh \in BOOLEAN,
             List(q, u, refresh)
      PROVE  FALSE
  <2> DEFINE seen == [p \in Providers |-> {table[u, p]} \cup NotYetReplaced(u, p)]
  <2>1. Become(q, [Idle EXCEPT !.pc = "keys", !.user = u, !.refresh = refresh, !.seen = seen])
    BY <1>7 DEF List
  <2> HIDE DEF seen
  <2>2. [Idle EXCEPT !.pc = "keys", !.user = u, !.refresh = refresh, !.seen = seen].served = {}
    BY DEF Idle
  <2>3. QED
    BY <1>5, <2>1, <2>2
<1>8. ~ Cleanup
  BY <1>1 DEF Cleanup
<1>9. ~ Tick
  <2>1. ASSUME Tick
        PROVE  request'[r].served = request[r].served
    <3>1. request'[r] = Elapsed(request[r])
      BY <2>1 DEF Tick
    <3>2. QED
      BY <3>1 DEF Elapsed, TypeOK, Request
  <2>2. QED
    BY <1>1, <2>1
<1>10. ASSUME NEW rotated \in BOOLEAN, Restart(rotated)
       PROVE  FALSE
  BY <1>1, <1>3, <1>10 DEF Restart
<1> HIDE DEF s, x
<1>11. Served
  <2>1. CASE \E q \in Requests : Serve(q)
    BY <1>4, <2>1
  <2>2. CASE \E q \in Requests, u \in Users : \E refresh \in BOOLEAN : List(q, u, refresh)
    BY <1>7, <2>2
  <2>3. CASE \E q \in Requests, u \in Users :
                \E p \in Providers : (\E k \in Keys : Register(q, u, p, k)) \/ Delete(q, u, p)
    BY <1>6, <2>3
  <2>4. CASE Cleanup \/ Tick \/ \E rotated \in BOOLEAN : Restart(rotated)
    BY <1>8, <1>9, <1>10, <2>4
  <2>5. QED
    BY <1>2, <2>1, <2>2, <2>3, <2>4, Zenon DEF Next
<1>12. QED
  BY <1>11 DEF Served, s, x
-----------------------------------------------------------------------------
(* The properties of a response.                                           *)

\* Its key was in the table, or on its way, no longer ago than StaleBound.
LEMMA ServedInTime ==
    ASSUME TypeOK, IInv, [Next]_vars, NEW r \in Requests, NEW item \in JustServed(r)
    PROVE  age[<<item.user, item.provider>>][item.key] <= StaleBound
<1> DEFINE s == request[r]
           x == <<s.user, Current(s)>>
<1>1. s \in Request /\ RequestInv(s)
  BY DEF TypeOK, IInv
<1>2. /\ s.todo # {} /\ item.user = s.user /\ item.provider = Current(s)
      /\ item.key = s.keys[Current(s)] \/ (Live(x) /\ item.key = cache[x].key)
  BY WhoServes
<1>3. FillDelay \in Nat /\ TTL \in Nat /\ StaleBound = FillDelay + TTL
  BY BoundsAreNat, CatalogAssumption DEF StaleBound
<1> HIDE DEF s
<1>4. x \in Rows
  BY <1>1, <1>2, CurrentKey
<1>5. CASE item.key = s.keys[Current(s)]
  <2>1. age[x][item.key] \in Int /\ age[x][item.key] <= FillDelay
    BY <1>1, <1>2, <1>5, CurrentKey
  <2>2. QED
    BY <1>2, <1>3, <2>1
<1>6. CASE Live(x) /\ item.key = cache[x].key
  <2>1. cache[x] # NoEntry /\ ~(cache[x].life < 0) /\ cache[x] \in Entry
    BY <1>4, <1>6 DEF Live, Expired, TypeOK
  <2>2. cache[x].life \in 0..TTL /\ cache[x].key \in Keys
    BY <1>3, <2>1 DEF Entry
  <2>3. age[x][item.key] <= FillDelay + TTL - cache[x].life
    BY <1>4, <1>6, <2>1 DEF IInv, RowInv
  <2>4. age[x][item.key] \in Int
    BY <1>4, <1>6, <2>2, BoundsAreNat DEF TypeOK
  <2>5. age[x][item.key] <= StaleBound
    BY <1>3, <2>2, <2>3, <2>4
  <2>6. QED
    BY <1>2, <2>5
<1>7. QED
  BY <1>2, <1>5, <1>6

\* Models are not served longer after their key was last in the table, or in an
\* answer of the database still on its way to a list, than a list that has its
\* keys may take to store them plus the life of an entry, however long the
\* database takes (ai_model.go:30-55, cache.go:44).
THEOREM BoundedStalenessHolds == Spec => BoundedStaleness
<1>1. ASSUME TypeOK, IInv, [Next]_vars, NEW r \in Requests, NEW item \in JustServed(r)
      PROVE  age[<<item.user, item.provider>>][item.key] <= StaleBound
  BY <1>1, ServedInTime
<1>2. TypeOK /\ IInv /\ [Next]_vars =>
         [\A r \in Requests : \A item \in JustServed(r) :
             age[item.user, item.provider][item.key] <= StaleBound]_vars
  BY <1>1
<1>3. QED
  BY <1>2, Invariant, PTL DEF Spec, BoundedStaleness

\* The list has seen a key of the provider.
LEMMA ServedRegistered ==
    ASSUME TypeOK, IInv, [Next]_vars, NEW r \in Requests, NEW item \in JustServed(r)
    PROVE  request[r].seen[item.provider] \cap Keys # {}
<1>1. request[r] \in Request /\ RequestInv(request[r])
  BY DEF TypeOK, IInv
<1>2. request[r].todo # {} /\ item.provider = Current(request[r])
  BY WhoServes
<1>3. QED
  BY <1>1, <1>2, CurrentKey

\* The loop runs over the keys, so nothing is served of a provider without one
\* (ai_model.go:38).
THEOREM OnlyRegisteredProvidersHolds == Spec => OnlyRegisteredProviders
<1>1. ASSUME TypeOK, IInv, [Next]_vars, NEW r \in Requests, NEW item \in JustServed(r)
      PROVE  request[r].seen[item.provider] \cap Keys # {}
  BY <1>1, ServedRegistered
<1>2. TypeOK /\ IInv /\ [Next]_vars =>
         [\A r \in Requests : \A item \in JustServed(r) :
             request[r].seen[item.provider] \cap Keys # {}]_vars
  BY <1>1
<1>3. QED
  BY <1>2, Invariant, PTL DEF Spec, OnlyRegisteredProviders

\* With refresh it was fetched with a key the list has seen.
LEMMA ServedFetched ==
    ASSUME TypeOK, IInv, [Next]_vars, NEW r \in Requests, NEW item \in JustServed(r),
           request[r].refresh
    PROVE  item.key \in request[r].seen[item.provider]
<1>1. request[r] \in Request /\ RequestInv(request[r])
  BY DEF TypeOK, IInv
<1>2. /\ request[r].todo # {} /\ item.provider = Current(request[r])
      /\ item.key = request[r].keys[Current(request[r])]
  BY WhoServes
<1>3. QED
  BY <1>1, <1>2, CurrentKey

\* With refresh=true a list serves only what it fetched with a key it has seen
\* (ai_model.go:41).
THEOREM RefreshIsRegularHolds == Spec => RefreshIsRegular
<1>1. ASSUME TypeOK, IInv, [Next]_vars, NEW r \in Requests, NEW item \in JustServed(r),
             request[r].refresh
      PROVE  item.key \in request[r].seen[item.provider]
  BY <1>1, ServedFetched
<1>2. TypeOK /\ IInv /\ [Next]_vars =>
         [\A r \in Requests : \A item \in JustServed(r) :
             request[r].refresh => item.key \in request[r].seen[item.provider]]_vars
  BY <1>1
<1>3. QED
  BY <1>2, Invariant, PTL DEF Spec, RefreshIsRegular

\* The janitor sweeps what Get would have refused anyway (cache.go:50, 98).
THEOREM JanitorInvisibleHolds == Spec => JanitorInvisible
<1>1. ASSUME Cleanup, NEW x \in Rows
      PROVE  Live(x) = Live(x)'
  <2>1. cache'[x] = IF cache[x] # NoEntry /\ Sweepable(cache[x]) THEN NoEntry ELSE cache[x]
    BY <1>1 DEF Cleanup
  <2>2. CASE cache[x] # NoEntry /\ Sweepable(cache[x])
    BY <2>1, <2>2 DEF Live, Sweepable, Expired
  <2>3. CASE ~(cache[x] # NoEntry /\ Sweepable(cache[x]))
    BY <2>1, <2>3 DEF Live, Sweepable, Expired
  <2>4. QED
    BY <2>2, <2>3
<1>2. [Next]_vars => [Cleanup => \A x \in Rows : Live(x) = Live(x)']_vars
  BY <1>1
<1>3. QED
  BY <1>2, PTL DEF Spec, JanitorInvisible
-----------------------------------------------------------------------------
(* One request of a user at a time.                                        *)

\* A user has one request at most.
OnePerUser ==
    /\ \A q \in Requests : request[q].pc = "idle" <=> request[q].user = NoUser
    /\ \A q1, q2 \in Requests :
          request[q1].user = request[q2].user /\ request[q1].pc # "idle" => q1 = q2

PurgeAhead(x) ==
    \E q \in Requests : /\ request[q].pc = "purge"
                        /\ request[q].user = x[1]
                        /\ request[q].provider = x[2]

\* What is cached was fetched with the current key, but between a write and the
\* purge that follows it.
CacheCurrent == \A x \in Rows : cache[x] # NoEntry => cache[x].key = table[x] \/ PurgeAhead(x)

\* A list holds current keys.
KeysCurrent ==
    \A q \in Requests : \A p \in request[q].todo :
        request[q].keys[p] = table[<<request[q].user, p>>]

SerialInv == OnePerUser /\ CacheCurrent /\ KeysCurrent

\* r goes on as s; the rest of every request that matters here stays.
GoesOn(r, s) ==
    \A q \in Requests :
        LET t == IF q = r THEN s ELSE request[q]
        IN  /\ request'[q].pc = t.pc /\ request'[q].user = t.user
            /\ request'[q].provider = t.provider
            /\ request'[q].todo = t.todo /\ request'[q].keys = t.keys
            /\ request'[q].left = t.left

LEMMA BecomeGoesOn ==
    ASSUME TypeOK, NEW r \in Requests, NEW s, Become(r, s)
    PROVE  GoesOn(r, s)
BY DEF TypeOK, Become, GoesOn

LEMMA WriteGoesOn ==
    ASSUME TypeOK, NEW r \in Requests, NEW s \in Request, NEW k, WriteAndBecome(r, s, k)
    PROVE  GoesOn(r, s)
<1> DEFINE u == request[r].user
           p == request[r].provider
<1> SUFFICES ASSUME NEW q \in Requests, NEW t, t = IF q = r THEN s ELSE request[q]
             PROVE  /\ request'[q].pc = t.pc /\ request'[q].user = t.user
                    /\ request'[q].provider = t.provider
                    /\ request'[q].todo = t.todo /\ request'[q].keys = t.keys
                    /\ request'[q].left = t.left
  BY DEF GoesOn
<1>1. t \in Request /\ [request EXCEPT ![r] = s][q] = t
  BY DEF TypeOK
<1>2. request'[q] = Seeing(t, u, p, k)
  <2>1. PICK reqs : reqs = [request EXCEPT ![r] = s]
    OBVIOUS
  <2>2. request' = Observed(reqs, u, p, k)
    BY <2>1 DEF WriteAndBecome
  <2>3. reqs[q] = t
    BY <1>1, <2>1
  <2> HIDE DEF u, p
  <2>4. request'[q] = Seeing(reqs[q], u, p, k)
    BY <2>2 DEF Observed, Seeing
  <2>5. QED
    BY <2>3, <2>4
<1> HIDE DEF u, p
<1>3. QED
  BY <1>1, <1>2 DEF Seeing, Request

LEMMA OnePerUserStays ==
    ASSUME OnePerUser, NEW r \in Requests, NEW s, GoesOn(r, s), request[r].pc # "idle",
           s.pc = "idle" <=> s.user = NoUser,
           s.user = NoUser \/ s.user = request[r].user
    PROVE  OnePerUser'
<1>1. ASSUME NEW q \in Requests
      PROVE  (request'[q].pc = "idle" <=> request'[q].user = NoUser)
  BY DEF OnePerUser, GoesOn
<1>2. ASSUME NEW q1 \in Requests, NEW q2 \in Requests,
             request'[q1].user = request'[q2].user, request'[q1].pc # "idle"
      PROVE  q1 = q2
  BY <1>2 DEF OnePerUser, GoesOn
<1>3. QED
  BY <1>1, <1>2 DEF OnePerUser

LEMMA OnePerUserStarts ==
    ASSUME OnePerUser, ~Overlap, NEW r \in Requests, NEW u \in Users, MayStart(u),
           NEW s, GoesOn(r, s), s.pc # "idle", s.user = u
    PROVE  OnePerUser'
<1>1. u # NoUser /\ \A q \in Requests : request[q].user # u
  BY CatalogAssumption DEF MayStart
<1>2. ASSUME NEW q \in Requests
      PROVE  (request'[q].pc = "idle" <=> request'[q].user = NoUser)
  BY <1>1 DEF OnePerUser, GoesOn
<1>3. ASSUME NEW q1 \in Requests, NEW q2 \in Requests,
             request'[q1].user = request'[q2].user, request'[q1].pc # "idle"
      PROVE  q1 = q2
  BY <1>1, <1>3 DEF OnePerUser, GoesOn
<1>4. QED
  BY <1>2, <1>3 DEF OnePerUser

\* A step of one request, but for its write.
LEMMA SerialStep ==
    ASSUME SerialInv, NEW r \in Requests, NEW s, GoesOn(r, s), OnePerUser',
           UNCHANGED table,
           \A p \in s.todo : s.keys[p] = table[<<s.user, p>>],
           \A x \in Rows :
              \/ cache'[x] = NoEntry
              \/ cache'[x].key = table[x]
              \/ /\ cache[x] # NoEntry /\ cache'[x].key = cache[x].key
                 /\ ~(request[r].pc = "purge" /\ x = <<request[r].user, request[r].provider>>)
    PROVE  SerialInv'
<1>1. KeysCurrent'
  BY DEF SerialInv, KeysCurrent, GoesOn
<1>2. ASSUME NEW x \in Rows, cache'[x] # NoEntry, cache'[x].key # table[x]
      PROVE  PurgeAhead(x)'
  <2>1. /\ cache[x] # NoEntry /\ cache'[x].key = cache[x].key
        /\ ~(request[r].pc = "purge" /\ x = <<request[r].user, request[r].provider>>)
    BY <1>2
  <2>2. PICK q \in Requests : /\ request[q].pc = "purge" /\ request[q].user = x[1]
                              /\ request[q].provider = x[2]
    BY <1>2, <2>1 DEF SerialInv, CacheCurrent, PurgeAhead
  <2>3. x = <<x[1], x[2]>>
    BY DEF Rows
  <2>4. q # r
    BY <2>1, <2>2, <2>3
  <2>5. /\ request'[q].pc = "purge" /\ request'[q].user = x[1]
        /\ request'[q].provider = x[2]
    BY <2>2, <2>4 DEF GoesOn
  <2>6. QED
    BY <2>5 DEF PurgeAhead
<1>3. CacheCurrent'
  BY <1>2 DEF CacheCurrent
<1>4. QED
  BY <1>1, <1>3 DEF SerialInv

\* A write, with the purge ahead.
LEMMA SerialWrite ==
    ASSUME TypeOK, IInv, SerialInv, NEW r \in Requests, NEW k \in Keys \cup {NoKey},
           request[r].pc \in {"upsert", "delete"},
           NEW s \in Request, s.pc = "purge", s.user = request[r].user,
           s.provider = request[r].provider, s.todo = {},
           WriteAndBecome(r, s, k), UNCHANGED cache
    PROVE  SerialInv'
<1> DEFINE u == request[r].user
           p == request[r].provider
<1>1. u \in Users /\ p \in Providers /\ GoesOn(r, s) /\ u # NoUser
  BY WriteGoesOn, CatalogAssumption DEF IInv, RequestInv, WellFormed
<1>2. table' = [table EXCEPT ![<<u, p>>] = k] /\ table \in [Rows -> Keys \cup {NoKey}]
  BY DEF WriteAndBecome, Write, TypeOK
<1>3. OnePerUser'
  BY <1>1, OnePerUserStays DEF SerialInv
<1>4. request'[r].pc = "purge" /\ request'[r].user = u /\ request'[r].provider = p
  BY <1>1 DEF GoesOn
<1> HIDE DEF p
<1>5. ASSUME NEW q \in Requests, NEW i \in request'[q].todo
      PROVE  request'[q].keys[i] = table'[<<request'[q].user, i>>]
  <2>1. q # r
    BY <1>1, <1>5 DEF GoesOn
  <2>2. /\ request'[q].todo = request[q].todo /\ request'[q].keys = request[q].keys
        /\ request'[q].user = request[q].user
    BY <1>1, <2>1 DEF GoesOn
  <2>3. request[q].user # u
    BY <2>1 DEF SerialInv, OnePerUser
  <2>4. <<request[q].user, i>> \in Rows
    BY <1>5, <2>2 DEF IInv, RequestInv, WellFormed, TypeOK, Request, Rows
  <2>5. table'[<<request[q].user, i>>] = table[<<request[q].user, i>>]
    BY <1>2, <2>3, <2>4
  <2>6. request[q].keys[i] = table[<<request[q].user, i>>]
    BY <1>5, <2>2 DEF SerialInv, KeysCurrent
  <2>7. QED
    BY <2>2, <2>5, <2>6
<1>6. ASSUME NEW x \in Rows, cache'[x] # NoEntry, cache'[x].key # table'[x]
      PROVE  PurgeAhead(x)'
  <2>1. CASE x = <<u, p>>
    BY <1>4, <2>1 DEF PurgeAhead
  <2>2. CASE x # <<u, p>>
    <3>1. table'[x] = table[x]
      BY <1>2, <2>2
    <3>2. PICK q \in Requests : /\ request[q].pc = "purge" /\ request[q].user = x[1]
                                /\ request[q].provider = x[2]
      BY <1>6, <3>1 DEF SerialInv, CacheCurrent, PurgeAhead
    <3>3. q # r
      BY <3>2
    <3>4. /\ request'[q].pc = "purge" /\ request'[q].user = x[1]
          /\ request'[q].provider = x[2]
      BY <1>1, <3>2, <3>3 DEF GoesOn
    <3>5. QED
      BY <3>4 DEF PurgeAhead
  <2>3. QED
    BY <2>1, <2>2
<1>7. KeysCurrent' /\ CacheCurrent'
  BY <1>5, <1>6 DEF KeysCurrent, CacheCurrent
<1>8. QED
  BY <1>3, <1>7 DEF SerialInv
\* A step that writes nothing and keeps the keys of a list, if it has any.
LEMMA SerialLocal ==
    ASSUME TypeOK, IInv, SerialInv, NEW r \in Requests, NEW s, Become(r, s),
           request[r].pc \notin {"idle", "purge"},
           UNCHANGED table,
           \/ s = Idle
           \/ /\ s.pc # "idle" /\ s.user = request[r].user
              /\ \A p \in s.todo : s.keys[p] = table[<<s.user, p>>],
           \A x \in Rows : \/ cache'[x] = cache[x] \/ cache'[x] = NoEntry
                           \/ cache'[x].key = table[x]
    PROVE  SerialInv'
<1>1. GoesOn(r, s)
  BY BecomeGoesOn
<1>2. request[r].user \in Users /\ request[r].user # NoUser
  BY CatalogAssumption DEF IInv, RequestInv, WellFormed
<1>3. Idle.pc = "idle" /\ Idle.user = NoUser /\ Idle.todo = {}
  BY DEF Idle
<1>4. OnePerUser'
  BY <1>1, <1>2, <1>3, OnePerUserStays DEF SerialInv
<1>5. \A p \in s.todo : s.keys[p] = table[<<s.user, p>>]
  BY <1>3
<1>6. \A x \in Rows :
         \/ cache'[x] = NoEntry
         \/ cache'[x].key = table[x]
         \/ /\ cache[x] # NoEntry /\ cache'[x].key = cache[x].key
            /\ ~(request[r].pc = "purge" /\ x = <<request[r].user, request[r].provider>>)
  OBVIOUS
<1>7. QED
  BY <1>1, <1>4, <1>5, <1>6, SerialStep

\* A request that begins, with nothing to visit yet.
LEMMA SerialStart ==
    ASSUME TypeOK, SerialInv, ~Overlap, NEW r \in Requests, NEW u \in Users, MayStart(u),
           NEW s, Become(r, s), request[r].pc = "idle", s.pc # "idle", s.user = u, s.todo = {},
           UNCHANGED <<table, cache>>
    PROVE  SerialInv'
<1>1. GoesOn(r, s)
  BY BecomeGoesOn
<1>2. OnePerUser'
  BY <1>1, OnePerUserStarts DEF SerialInv
<1>3. \A x \in Rows :
         \/ cache'[x] = NoEntry
         \/ cache'[x].key = table[x]
         \/ /\ cache[x] # NoEntry /\ cache'[x].key = cache[x].key
            /\ ~(request[r].pc = "purge" /\ x = <<request[r].user, request[r].provider>>)
  OBVIOUS
<1>4. QED
  BY <1>1, <1>2, <1>3, SerialStep

LEMMA SerialServe ==
    ASSUME TypeOK, IInv, SerialInv, ~Unconfirmed, NEW r \in Requests, Serve(r)
    PROVE  SerialInv'
<1> DEFINE s == request[r]
<1>1. /\ s \in Request /\ WellFormed(s) /\ RequestInv(s)
      /\ \A p \in s.todo : s.keys[p] = table[<<s.user, p>>]
  BY DEF TypeOK, IInv, RequestInv, SerialInv, KeysCurrent
<1> HIDE DEF s
<1>2. CASE Probe(r)
  <2>1. PICK t : t = [s EXCEPT !.pc = "upsert", !.left = 0]
    OBVIOUS
  <2>2. t.pc = "upsert" /\ t.user = s.user /\ t.todo = s.todo /\ t.keys = s.keys
    BY <1>1, <2>1 DEF Request
  <2>3. (Become(r, t) \/ Become(r, Idle)) /\ s.pc = "probe" /\ UNCHANGED <<table, cache>>
    BY <1>2, <2>1 DEF Probe, s
  <2>4. QED
    BY <1>1, <2>2, <2>3, SerialLocal DEF s
<1>3. CASE Upsert(r) \/ DeleteRow(r)
  <2>1. /\ s.pc \in {"upsert", "delete"} /\ s.user \in Users /\ s.provider \in Providers
        /\ s.pc = "upsert" => s.key \in Keys
        /\ UNCHANGED cache
    BY <1>1, <1>3 DEF Upsert, DeleteRow, WellFormed, s
  <2>2. PICK t : t = AfterUpsert(s)
    OBVIOUS
  <2>3. t \in Request /\ AfterDelete(s) = t
    BY <2>1, <2>2, WriterType DEF AfterUpsert, AfterDelete, s
  <2>4. t.pc = "purge" /\ t.user = s.user /\ t.provider = s.provider /\ t.todo = {}
    BY <1>1, <2>1, <2>2 DEF AfterUpsert, WithReplaced, Request, WellFormed
  <2>5. \/ Become(r, Idle) /\ UNCHANGED table
        \/ \E k \in Keys \cup {NoKey} : WriteAndBecome(r, t, k)
    BY <1>3, <2>1, <2>2, <2>3 DEF Upsert, DeleteRow, WriteFails, s
  <2>6. CASE Become(r, Idle) /\ UNCHANGED table
    BY <2>1, <2>6, SerialLocal DEF s
  <2>7. CASE \E k \in Keys \cup {NoKey} : WriteAndBecome(r, t, k)
    BY <2>1, <2>3, <2>4, <2>7, SerialWrite DEF s
  <2>8. QED
    BY <2>5, <2>6, <2>7
<1>4. CASE Purge(r)
  <2>1. /\ s.pc = "purge" /\ Become(r, Idle) /\ UNCHANGED table
        /\ cache' = [cache EXCEPT ![<<s.user, s.provider>>] = NoEntry]
    BY <1>4 DEF Purge, Slot, s
  <2>2. GoesOn(r, Idle)
    BY <2>1, BecomeGoesOn
  <2>3. Idle.pc = "idle" /\ Idle.user = NoUser /\ Idle.todo = {}
    BY DEF Idle
  <2>4. OnePerUser'
    BY <2>1, <2>2, <2>3, OnePerUserStays DEF SerialInv, s
  <2>5. ASSUME NEW x \in Rows
        PROVE  \/ cache'[x] = NoEntry
               \/ /\ cache[x] # NoEntry /\ cache'[x].key = cache[x].key
                  /\ ~(s.pc = "purge" /\ x = <<s.user, s.provider>>)
    BY <2>1 DEF TypeOK
  <2>6. QED
    BY <2>1, <2>2, <2>3, <2>4, <2>5, SerialStep DEF s
<1>5. CASE ReadKeys(r)
  <2>1. PICK keys : keys = DecryptedKeys(s.user)
    OBVIOUS
  <2>2. PICK t : t = [s EXCEPT !.pc = "rows", !.keys = keys, !.todo = ToVisit(keys)]
    OBVIOUS
  <2>3. t.pc = "rows" /\ t.user = s.user /\ t.todo = ToVisit(keys) /\ t.keys = keys
    BY <1>1, <2>2 DEF Request
  <2>4. Become(r, t) /\ s.pc = "keys" /\ UNCHANGED <<table, cache>>
    BY <1>5, <2>1, <2>2 DEF ReadKeys, s
  <2>5. \A p \in ToVisit(keys) : keys[p] = table[<<s.user, p>>]
    BY <2>1 DEF ToVisit, DecryptedKeys
  <2>6. QED
    BY <2>3, <2>4, <2>5, SerialLocal DEF s
<1>6. CASE Hit(r)
  <2>1. PICK item : Become(r, Serving(s, item))
    BY <1>6 DEF Hit, s
  <2>2. PICK t : t = Serving(s, item)
    OBVIOUS
  <2>3. t.pc = "look" /\ t.user = s.user /\ t.todo \subseteq s.todo /\ t.keys = s.keys
    BY <1>1, <2>2 DEF Serving, Request
  <2>4. Become(r, t) /\ s.pc = "look" /\ UNCHANGED <<table, cache>>
    BY <1>6, <2>1, <2>2 DEF Hit, s
  <2>5. QED
    BY <1>1, <2>3, <2>4, SerialLocal DEF s
<1>7. CASE Miss(r)
  <2>1. PICK t : t = [s EXCEPT !.pc = "fetch", !.left = FetchLimit]
    OBVIOUS
  <2>2. t.pc = "fetch" /\ t.user = s.user /\ t.todo = s.todo /\ t.keys = s.keys
    BY <1>1, <2>1 DEF Request
  <2>3. Become(r, t) /\ s.pc = "look" /\ UNCHANGED <<table, cache>>
    BY <1>7, <2>1 DEF Miss, s
  <2>4. QED
    BY <1>1, <2>2, <2>3, SerialLocal DEF s
<1>8. CASE FetchAnswers(r)
  <2>1. PICK item : Become(r, Serving(s, item))
    BY <1>8 DEF FetchAnswers, s
  <2>2. PICK t : t = Serving(s, item)
    OBVIOUS
  <2>3. t.pc = "look" /\ t.user = s.user /\ t.todo \subseteq s.todo /\ t.keys = s.keys
    BY <1>1, <2>2 DEF Serving, Request
  <2>4. /\ Become(r, t) /\ s.pc = "fetch" /\ UNCHANGED table
        /\ cache' = [cache EXCEPT ![<<s.user, Current(s)>>] = Filled(s.user, s.keys[Current(s)])]
    BY <1>8, <2>1, <2>2 DEF FetchAnswers, Slot, s
  <2>5. s.keys[Current(s)] = table[<<s.user, Current(s)>>]
    BY <1>1, <2>4, CurrentKey DEF WellFormed
  <2>6. \A x \in Rows : cache'[x] = cache[x] \/ cache'[x].key = table[x]
    BY <2>4, <2>5 DEF TypeOK, Filled
  <2>7. QED
    BY <1>1, <2>3, <2>4, <2>6, SerialLocal DEF s
<1>9. CASE FetchFails(r)
  <2>1. PICK t : t = Skipping(s)
    OBVIOUS
  <2>2. t.pc = "look" /\ t.user = s.user /\ t.todo \subseteq s.todo /\ t.keys = s.keys
    BY <1>1, <2>1 DEF Skipping, Request
  <2>3. Become(r, t) /\ s.pc = "fetch" /\ UNCHANGED <<table, cache>>
    BY <1>9, <2>1 DEF FetchFails, s
  <2>4. QED
    BY <1>1, <2>2, <2>3, SerialLocal DEF s
<1>10. CASE Respond(r)
  BY <1>10, SerialLocal DEF Respond
<1>11. CASE KeysArrive(r)
  <2>1. PICK t : t = [s EXCEPT !.pc = "look"]
    OBVIOUS
  <2>2. t.pc = "look" /\ t.user = s.user /\ t.todo = s.todo /\ t.keys = s.keys
    BY <1>1, <2>1 DEF Request
  <2>3. (Become(r, t) \/ Become(r, Idle)) /\ s.pc = "rows" /\ UNCHANGED <<table, cache>>
    BY <1>11, <2>1 DEF KeysArrive, s
  <2>4. QED
    BY <1>1, <2>2, <2>3, SerialLocal DEF s
<1>12. QED
  BY <1>2, <1>3, <1>4, <1>5, <1>6, <1>7, <1>8, <1>9, <1>10, <1>11 DEF Serve

LEMMA SerialNext ==
    ASSUME TypeOK, IInv, SerialInv, ~Overlap, ~Unconfirmed, [Next]_vars
    PROVE  SerialInv'
<1>1. ASSUME NEW r \in Requests, NEW u \in Users, NEW p \in Providers, NEW k \in Keys,
             Register(r, u, p, k)
      PROVE  SerialInv'
  <2>1. PICK t : t = [Idle EXCEPT !.pc = "probe", !.user = u, !.provider = p, !.key = k,
                                  !.left = FetchLimit]
    OBVIOUS
  <2>2. t.pc = "probe" /\ t.user = u /\ t.todo = {}
    BY <2>1 DEF Idle
  <2>3. QED
    BY <1>1, <2>1, <2>2, SerialStart DEF Register
<1>2. ASSUME NEW r \in Requests, NEW u \in Users, NEW p \in Providers, Delete(r, u, p)
      PROVE  SerialInv'
  <2>1. PICK t : t = [Idle EXCEPT !.pc = "delete", !.user = u, !.provider = p]
    OBVIOUS
  <2>2. t.pc = "delete" /\ t.user = u /\ t.todo = {}
    BY <2>1 DEF Idle
  <2>3. QED
    BY <1>2, <2>1, <2>2, SerialStart DEF Delete
<1>3. ASSUME NEW r \in Requests, NEW u \in Users, NEW refresh \in BOOLEAN, List(r, u, refresh)
      PROVE  SerialInv'
  <2>1. PICK seen : Become(r, [Idle EXCEPT !.pc = "keys", !.user = u, !.refresh = refresh,
                                           !.seen = seen])
    BY <1>3 DEF List
  <2>2. PICK t : t = [Idle EXCEPT !.pc = "keys", !.user = u, !.refresh = refresh, !.seen = seen]
    OBVIOUS
  <2>3. t.pc = "keys" /\ t.user = u /\ t.todo = {}
    BY <2>2 DEF Idle
  <2>4. request[r].pc = "idle" /\ MayStart(u) /\ UNCHANGED <<table, cache>>
    BY <1>3 DEF List
  <2>5. QED
    BY <2>1, <2>2, <2>3, <2>4, SerialStart
<1>4. CASE Cleanup
  <2>1. /\ UNCHANGED <<table, request>>
        /\ \A x \in Rows : cache'[x] = NoEntry \/ cache'[x] = cache[x]
    BY <1>4 DEF Cleanup
  <2>2. QED
    BY <2>1 DEF SerialInv, OnePerUser, CacheCurrent, KeysCurrent, PurgeAhead
<1>5. CASE Tick
  <2>1. ASSUME NEW q \in Requests
        PROVE  /\ request'[q].pc = request[q].pc /\ request'[q].user = request[q].user
               /\ request'[q].provider = request[q].provider
               /\ request'[q].todo = request[q].todo /\ request'[q].keys = request[q].keys
    <3>1. request'[q] = Elapsed(request[q]) /\ request[q] \in Request
      BY <1>5 DEF Tick, TypeOK
    <3>2. QED
      BY <3>1 DEF Elapsed, Request
  <2>2. ASSUME NEW x \in Rows, cache'[x] # NoEntry
        PROVE  cache[x] # NoEntry /\ cache'[x].key = cache[x].key
    <3>1. cache'[x] = OneOlder(cache[x]) /\ cache[x] \in Entry \cup {NoEntry}
      BY <1>5 DEF Tick, TypeOK
    <3>2. QED
      BY <2>2, <3>1 DEF OneOlder, Entry
  <2>3. UNCHANGED table
    BY <1>5 DEF Tick
  <2>4. OnePerUser'
    BY <2>1 DEF SerialInv, OnePerUser
  <2>5. CacheCurrent'
    BY <2>1, <2>2, <2>3 DEF SerialInv, CacheCurrent, PurgeAhead
  <2>6. KeysCurrent'
    BY <2>1, <2>3 DEF SerialInv, KeysCurrent
  <2>7. QED
    BY <2>4, <2>5, <2>6 DEF SerialInv
<1>6. ASSUME NEW rotated \in BOOLEAN, Restart(rotated)
      PROVE  SerialInv'
  <2>1. /\ \A q \in Requests : request'[q] = Idle
        /\ \A x \in Rows : cache'[x] = NoEntry
    BY <1>6 DEF Restart
  <2>2. Idle.pc = "idle" /\ Idle.user = NoUser /\ Idle.todo = {}
    BY DEF Idle
  <2>3. QED
    BY <2>1, <2>2 DEF SerialInv, OnePerUser, CacheCurrent, KeysCurrent
<1>7. CASE UNCHANGED vars
  BY <1>7 DEF vars, SerialInv, OnePerUser, CacheCurrent, KeysCurrent, PurgeAhead
<1>8. QED
  BY <1>1, <1>2, <1>3, <1>4, <1>5, <1>6, <1>7, SerialServe DEF Next

LEMMA SerialInvariant ==
    ASSUME ~Overlap, ~Unconfirmed
    PROVE  Spec => []SerialInv
<1>1. Init => SerialInv
  BY DEF Init, Idle, SerialInv, OnePerUser, CacheCurrent, KeysCurrent
<1>2. TypeOK /\ IInv /\ SerialInv /\ [Next]_vars => SerialInv'
  BY SerialNext
<1>3. QED
  BY <1>1, <1>2, Invariant, PTL DEF Spec

\* While requests are serial, and confirmed, its key is one the list has seen.
LEMMA ServedRegular ==
    ASSUME TypeOK, IInv, SerialInv, [Next]_vars, NEW r \in Requests, NEW item \in JustServed(r)
    PROVE  item.key \in request[r].seen[item.provider]
<1> DEFINE s == request[r]
           p == Current(s)
           x == <<s.user, p>>
<1>1. s \in Request /\ RequestInv(s) /\ WellFormed(s)
  BY DEF TypeOK, IInv, RequestInv
<1>2. /\ s.todo # {} /\ item.provider = p
      /\ item.key = s.keys[p] \/ (Live(x) /\ item.key = cache[x].key)
  BY WhoServes
<1>3. x \in Rows /\ p \in Providers /\ s.keys[p] \in s.seen[p]
  BY <1>1, <1>2, CurrentKey
<1>4. CASE item.key = s.keys[p]
  BY <1>2, <1>3, <1>4
<1>5. CASE Live(x) /\ item.key = cache[x].key
  <2>1. ~ PurgeAhead(x)
    <3>1. SUFFICES ASSUME NEW q \in Requests, request[q].pc = "purge",
                          request[q].user = s.user
                   PROVE  FALSE
      BY DEF PurgeAhead
    <3>2. q = r
      BY <3>1 DEF SerialInv, OnePerUser
    <3>3. QED
      BY <1>1, <1>2, <3>1, <3>2 DEF WellFormed
  <2>2. item.key = table[x]
    BY <1>3, <1>5, <2>1 DEF SerialInv, CacheCurrent, Live
  <2>3. table[x] \in s.seen[p]
    BY <1>1, <1>2, <1>3 DEF RequestInv, SeesTable, Listing, WellFormed
  <2>4. QED
    BY <1>2, <2>2, <2>3
<1>6. QED
  BY <1>2, <1>4, <1>5

\* While nobody's requests overlap and failed writes are not made, a list serves
\* models of keys the user had since it arrived: the purges suffice
\* (user_api_key.go:69, 93).
THEOREM RegularHolds ==
    ASSUME ~Overlap, ~Unconfirmed
    PROVE  Spec => Regular
<1>1. ASSUME TypeOK, IInv, SerialInv, [Next]_vars, NEW r \in Requests, NEW item \in JustServed(r)
      PROVE  item.key \in request[r].seen[item.provider]
  BY <1>1, ServedRegular
<1>2. TypeOK /\ IInv /\ SerialInv /\ [Next]_vars =>
         [\A r \in Requests : \A item \in JustServed(r) :
             item.key \in request[r].seen[item.provider]]_vars
  BY <1>1
<1>3. QED
  BY <1>2, Invariant, SerialInvariant, PTL DEF Spec, Regular

-----------------------------------------------------------------------------
(* Rows sealed under an earlier ENCRYPTION_KEY.                            *)

\* r goes on as s, which has no sealed row left to visit.
LEMMA SealedStep ==
    ASSUME TypeOK, SealedUnused, NEW r \in Requests, NEW s, GoesOn(r, s),
           sealed' \subseteq sealed,
           \A p \in s.todo : <<s.user, p>> \notin sealed,
           \A x \in sealed : cache'[x] = NoEntry
    PROVE  SealedUnused'
<1> SUFFICES ASSUME NEW x \in sealed', NEW q \in Requests, request'[q].user = x[1],
                    x[2] \in request'[q].todo
             PROVE  FALSE
  BY DEF SealedUnused
<1>1. x \in sealed /\ x = <<x[1], x[2]>>
  BY DEF TypeOK, Rows
<1>2. CASE q = r
  <2>1. s.user = x[1] /\ x[2] \in s.todo
    BY <1>2 DEF GoesOn
  <2>2. <<s.user, x[2]>> \notin sealed
    BY <2>1
  <2>3. QED
    BY <1>1, <2>1, <2>2
<1>3. CASE q # r
  BY <1>1, <1>3 DEF GoesOn, SealedUnused
<1>4. QED
  BY <1>2, <1>3

\* A step of r that writes no row, and keeps or loses providers to visit.
LEMMA SealedLocal ==
    ASSUME TypeOK, SealedUnused, NEW r \in Requests, NEW s, Become(r, s),
           UNCHANGED sealed,
           \/ s.todo = {}
           \/ s.user = request[r].user /\ s.todo \subseteq request[r].todo,
           \A x \in sealed : cache'[x] = NoEntry
    PROVE  SealedUnused'
<1>1. GoesOn(r, s)
  BY BecomeGoesOn
<1>2. ASSUME NEW p \in s.todo, <<s.user, p>> \in sealed
      PROVE  FALSE
  <2>1. PICK x : x = <<s.user, p>>
    OBVIOUS
  <2>2. x \in sealed /\ request[r].user = x[1] /\ x[2] \in request[r].todo
    BY <1>2, <2>1
  <2>3. QED
    BY <2>2 DEF SealedUnused
<1>3. QED
  BY <1>1, <1>2, SealedStep

LEMMA SealedServe ==
    ASSUME TypeOK, IInv, SealedUnused, NEW r \in Requests, Serve(r)
    PROVE  SealedUnused'
<1> DEFINE s == request[r]
<1>1. s \in Request /\ WellFormed(s) /\ RequestInv(s)
  BY DEF TypeOK, IInv, RequestInv
<1>2. \A x \in sealed : cache[x] = NoEntry /\ x \in Rows
  BY DEF SealedUnused, TypeOK
<1>3. Idle.todo = {}
  BY DEF Idle
<1> HIDE DEF s
<1>4. CASE Probe(r)
  <2>1. PICK t : t = [s EXCEPT !.pc = "upsert", !.left = 0]
    OBVIOUS
  <2>2. t.user = s.user /\ t.todo = s.todo
    BY <1>1, <2>1 DEF Request
  <2>3. (Become(r, t) \/ Become(r, Idle)) /\ UNCHANGED <<sealed, cache>>
    BY <1>4, <2>1 DEF Probe, s
  <2>4. QED
    BY <1>2, <1>3, <2>2, <2>3, SealedLocal DEF s
<1>5. CASE Upsert(r) \/ DeleteRow(r)
  <2>1. /\ s.pc \in {"upsert", "delete"} /\ s.user \in Users /\ s.provider \in Providers
        /\ UNCHANGED cache
    <3>1. CASE Upsert(r)
      BY <1>1, <3>1 DEF Upsert, WellFormed, s
    <3>2. CASE DeleteRow(r)
      <4>1. s.pc = "delete" /\ UNCHANGED cache
        BY <3>2, Zenon DEF DeleteRow, s
      <4>2. QED
        BY <1>1, <4>1 DEF WellFormed
    <3>3. QED
      BY <1>5, <3>1, <3>2
  <2>2. PICK t : t = AfterUpsert(s)
    OBVIOUS
  <2>3. t \in Request /\ AfterDelete(s) = t
    BY <2>1, <2>2, WriterType DEF AfterUpsert, AfterDelete, s
  <2>4. t.todo = {}
    BY <1>1, <2>1, <2>2 DEF AfterUpsert, WithReplaced, Request, WellFormed
  <2>5. \/ Become(r, Idle) /\ UNCHANGED sealed
        \/ \E k : WriteAndBecome(r, t, k) \/ WriteAndBecome(r, Idle, k)
    <3>1. CASE Upsert(r)
      BY <2>2, <3>1 DEF Upsert, WriteFails, s
    <3>2. CASE DeleteRow(r)
      <4>1. \/ Become(r, Idle) /\ UNCHANGED <<table, sealed, age>>
            \/ WriteAndBecome(r, AfterDelete(s), NoKey)
            \/ WriteAndBecome(r, Idle, NoKey)
        BY <3>2, Zenon DEF DeleteRow, WriteFails, s
      <4>2. QED
        BY <2>3, <4>1, Zenon
    <3>3. QED
      BY <1>5, <3>1, <3>2
  <2>6. CASE Become(r, Idle) /\ UNCHANGED sealed
    BY <1>2, <1>3, <2>1, <2>6, SealedLocal
  <2>7. CASE \E k : WriteAndBecome(r, t, k) \/ WriteAndBecome(r, Idle, k)
    <3>1. PICK k, w : w \in {t, Idle} /\ WriteAndBecome(r, w, k)
      BY <2>7
    <3>2. w \in Request /\ w.todo = {}
      BY <1>3, <2>3, <2>4, <3>1, IdleIsRequest
    <3>3. sealed' \subseteq sealed
      BY <3>1 DEF WriteAndBecome, Write
    <3>4. GoesOn(r, w)
      BY <3>1, <3>2, WriteGoesOn
    <3>5. QED
      BY <1>2, <2>1, <3>2, <3>3, <3>4, SealedStep
  <2>8. QED
    BY <2>5, <2>6, <2>7
<1>6. CASE Purge(r)
  <2>1. /\ Become(r, Idle) /\ UNCHANGED sealed
        /\ cache' = [cache EXCEPT ![<<s.user, s.provider>>] = NoEntry]
    BY <1>6 DEF Purge, Slot, s
  <2>2. \A x \in sealed : cache'[x] = NoEntry
    BY <1>2, <2>1 DEF TypeOK
  <2>3. QED
    BY <1>3, <2>1, <2>2, SealedLocal
<1>7. CASE ReadKeys(r)
  <2>1. PICK keys : keys = DecryptedKeys(s.user)
    OBVIOUS
  <2>2. PICK t : t = [s EXCEPT !.pc = "rows", !.keys = keys, !.todo = ToVisit(keys)]
    OBVIOUS
  <2>3. t.user = s.user /\ t.todo = ToVisit(keys)
    BY <1>1, <2>2 DEF Request
  <2>4. Become(r, t) /\ UNCHANGED <<sealed, cache>>
    BY <1>7, <2>1, <2>2 DEF ReadKeys, s
  <2>5. ASSUME NEW p \in t.todo
        PROVE  <<t.user, p>> \notin sealed
    <3>1. p \in Providers /\ keys[p] # NoKey
      BY <2>3 DEF ToVisit
    <3>2. Decrypts(s.user, p)
      <4>1. keys[p] = IF Decrypts(s.user, p) THEN table[s.user, p] ELSE NoKey
        BY <2>1, <3>1, Zenon DEF DecryptedKeys
      <4>2. QED
        BY <3>1, <4>1, Zenon
    <3>3. QED
      BY <2>3, <3>2 DEF Decrypts
  <2>6. GoesOn(r, t)
    BY <2>4, BecomeGoesOn
  <2>7. QED
    BY <1>2, <2>4, <2>5, <2>6, SealedStep
<1>8. CASE Hit(r)
  <2>1. PICK item : Become(r, Serving(s, item))
    BY <1>8 DEF Hit, s
  <2>2. PICK t : t = Serving(s, item)
    OBVIOUS
  <2>3. t.user = s.user /\ t.todo \subseteq s.todo
    BY <1>1, <2>2 DEF Serving, Request
  <2>4. Become(r, t) /\ UNCHANGED <<sealed, cache>>
    BY <1>8, <2>1, <2>2 DEF Hit, s
  <2>5. QED
    BY <1>2, <2>3, <2>4, SealedLocal DEF s
<1>9. CASE Miss(r)
  <2>1. PICK t : t = [s EXCEPT !.pc = "fetch", !.left = FetchLimit]
    OBVIOUS
  <2>2. t.user = s.user /\ t.todo = s.todo
    BY <1>1, <2>1 DEF Request
  <2>3. Become(r, t) /\ UNCHANGED <<sealed, cache>>
    BY <1>9, <2>1 DEF Miss, s
  <2>4. QED
    BY <1>2, <2>2, <2>3, SealedLocal DEF s
<1>10. CASE FetchAnswers(r)
  <2>1. PICK item : Become(r, Serving(s, item))
    BY <1>10 DEF FetchAnswers, s
  <2>2. PICK t : t = Serving(s, item)
    OBVIOUS
  <2>3. t.user = s.user /\ t.todo \subseteq s.todo
    BY <1>1, <2>2 DEF Serving, Request
  <2>4. PICK x : x = <<s.user, Current(s)>>
    OBVIOUS
  <2>5. /\ Become(r, t) /\ s.pc = "fetch" /\ UNCHANGED sealed
        /\ cache' = [cache EXCEPT ![x] = Filled(s.user, s.keys[Current(s)])]
    BY <1>10, <2>1, <2>2, <2>4 DEF FetchAnswers, Slot, s
  <2>6. x \notin sealed
    <3>1. Current(s) \in s.todo
      BY <1>1, <2>5, CurrentKey DEF WellFormed
    <3>2. x[1] = s.user /\ x[2] \in s.todo
      BY <2>4, <3>1
    <3>3. QED
      BY <3>2 DEF SealedUnused, s
  <2>7. \A y \in sealed : cache'[y] = NoEntry
    BY <1>2, <2>5, <2>6 DEF TypeOK
  <2>8. QED
    BY <2>3, <2>5, <2>7, SealedLocal DEF s
<1>11. CASE FetchFails(r)
  <2>1. PICK t : t = Skipping(s)
    OBVIOUS
  <2>2. t.user = s.user /\ t.todo \subseteq s.todo
    BY <1>1, <2>1 DEF Skipping, Request
  <2>3. Become(r, t) /\ UNCHANGED <<sealed, cache>>
    BY <1>11, <2>1 DEF FetchFails, s
  <2>4. QED
    BY <1>2, <2>2, <2>3, SealedLocal DEF s
<1>12. CASE Respond(r)
  BY <1>2, <1>3, <1>12, SealedLocal DEF Respond
<1>13. CASE KeysArrive(r)
  <2>1. PICK t : t = [s EXCEPT !.pc = "look"]
    OBVIOUS
  <2>2. t.user = s.user /\ t.todo = s.todo
    BY <1>1, <2>1 DEF Request
  <2>3. (Become(r, t) \/ Become(r, Idle)) /\ UNCHANGED <<sealed, cache>>
    BY <1>13, <2>1 DEF KeysArrive, s
  <2>4. QED
    BY <1>2, <1>3, <2>2, <2>3, SealedLocal DEF s
<1>14. QED
  BY <1>4, <1>5, <1>6, <1>7, <1>8, <1>9, <1>10, <1>11, <1>12, <1>13 DEF Serve

LEMMA SealedNext ==
    ASSUME TypeOK, IInv, SealedUnused, [Next]_vars
    PROVE  SealedUnused'
<1>1. Idle.todo = {} /\ \A x \in sealed : cache[x] = NoEntry
  BY DEF Idle, SealedUnused
<1>2. ASSUME NEW r \in Requests, NEW u \in Users, NEW p \in Providers, NEW k \in Keys,
             Register(r, u, p, k)
      PROVE  SealedUnused'
  <2>1. PICK t : t = [Idle EXCEPT !.pc = "probe", !.user = u, !.provider = p, !.key = k,
                                  !.left = FetchLimit]
    OBVIOUS
  <2>2. t.todo = {}
    BY <2>1 DEF Idle
  <2>3. QED
    BY <1>1, <1>2, <2>1, <2>2, SealedLocal DEF Register
<1>3. ASSUME NEW r \in Requests, NEW u \in Users, NEW p \in Providers, Delete(r, u, p)
      PROVE  SealedUnused'
  <2>1. PICK t : t = [Idle EXCEPT !.pc = "delete", !.user = u, !.provider = p]
    OBVIOUS
  <2>2. t.todo = {}
    BY <2>1 DEF Idle
  <2>3. QED
    BY <1>1, <1>3, <2>1, <2>2, SealedLocal DEF Delete
<1>4. ASSUME NEW r \in Requests, NEW u \in Users, NEW refresh \in BOOLEAN, List(r, u, refresh)
      PROVE  SealedUnused'
  <2>1. PICK seen : Become(r, [Idle EXCEPT !.pc = "keys", !.user = u, !.refresh = refresh,
                                           !.seen = seen])
    BY <1>4, Zenon DEF List
  <2>2. PICK t : t = [Idle EXCEPT !.pc = "keys", !.user = u, !.refresh = refresh, !.seen = seen]
    OBVIOUS
  <2>3. t.todo = {}
    BY <2>2 DEF Idle
  <2>4. UNCHANGED <<sealed, cache>>
    BY <1>4, Zenon DEF List
  <2>5. QED
    BY <1>1, <2>1, <2>2, <2>3, <2>4, SealedLocal
<1>5. CASE Cleanup
  <2>1. /\ UNCHANGED <<sealed, request>>
        /\ \A x \in Rows : cache'[x] = NoEntry \/ cache'[x] = cache[x]
    BY <1>5 DEF Cleanup
  <2>2. QED
    BY <2>1 DEF SealedUnused, TypeOK
<1>6. CASE Tick
  <2>1. ASSUME NEW q \in Requests
        PROVE  request'[q].user = request[q].user /\ request'[q].todo = request[q].todo
    <3>1. request'[q] = Elapsed(request[q]) /\ request[q] \in Request
      BY <1>6 DEF Tick, TypeOK
    <3>2. QED
      BY <3>1 DEF Elapsed, Request
  <2>2. ASSUME NEW x \in sealed
        PROVE  cache'[x] = NoEntry
    <3>1. cache'[x] = OneOlder(cache[x]) /\ cache[x] = NoEntry
      BY <1>1, <1>6 DEF Tick, TypeOK
    <3>2. QED
      BY <3>1 DEF OneOlder
  <2>3. UNCHANGED sealed
    BY <1>6 DEF Tick
  <2>4. QED
    BY <2>1, <2>2, <2>3 DEF SealedUnused
<1>7. ASSUME NEW rotated \in BOOLEAN, Restart(rotated)
      PROVE  SealedUnused'
  <2>1. /\ \A q \in Requests : request'[q].todo = {}
        /\ \A x \in Rows : cache'[x] = NoEntry
        /\ sealed' \subseteq Rows
    BY <1>1, <1>7 DEF Restart, TypeOK
  <2>2. QED
    BY <2>1 DEF SealedUnused
<1>8. CASE UNCHANGED vars
  BY <1>8 DEF vars, SealedUnused
<1>9. QED
  BY <1>2, <1>3, <1>4, <1>5, <1>6, <1>7, <1>8, SealedServe DEF Next

\* Whatever requests the restart with a new ENCRYPTION_KEY cut off, no list holds
\* the key of a row sealed under the old one, and none of its models are cached,
\* until the row is written again (user_api_key.go:132).
THEOREM SealedUnusedHolds == Spec => []SealedUnused
<1>1. Init => SealedUnused
  BY DEF Init, SealedUnused
<1>2. TypeOK /\ IInv /\ SealedUnused /\ [Next]_vars => SealedUnused'
  BY SealedNext
<1>3. QED
  BY <1>1, <1>2, Invariant, PTL DEF Spec

-----------------------------------------------------------------------------
(* How a list ends.                                                        *)

\* Steps a list has ahead of it, at most.
Remaining(s) ==
    CASE s.pc = "keys"  -> 2 * Cardinality(Providers) + 3
      [] s.pc = "rows"  -> 2 * Cardinality(s.todo) + 2
      [] s.pc = "look"  -> 2 * Cardinality(s.todo) + 1
      [] s.pc = "fetch" -> 2 * Cardinality(s.todo)
      [] OTHER          -> 0

Advances(s, t) == Remaining(t) < Remaining(s)

LEMMA RemainingFacts ==
    ASSUME NEW s \in Request, WellFormed(s)
    PROVE  /\ Cardinality(s.todo) \in Nat /\ Remaining(s) \in Nat
           /\ Listing(s) => Remaining(s) > 0
           /\ ~Listing(s) => Remaining(s) = 0
<1>1. IsFiniteSet(s.todo) /\ Cardinality(s.todo) \in Nat
  BY CatalogAssumption, FS_Subset, FS_CardinalityType DEF Request
<1>2. s.pc = "fetch" => Cardinality(s.todo) # 0
  BY <1>1, FS_EmptySet DEF WellFormed
<1>3. QED
  BY <1>1, <1>2, BoundsAreNat DEF Remaining, Listing

\* Leaving a provider behind, a list comes closer to its end.
LEMMA LeavingAdvances ==
    ASSUME NEW s \in Request, s.pc \in {"look", "fetch"}, s.todo # {},
           NEW t, t.pc = "look", t.todo = s.todo \ {Current(s)}
    PROVE  Advances(s, t)
<1>1. /\ Cardinality(s.todo) \in Nat
      /\ Cardinality(t.todo) = Cardinality(s.todo) - 1
  BY OneLess DEF Request
<1>2. Remaining(t) = 2 * Cardinality(t.todo) + 1
  BY DEF Remaining
<1>3. Remaining(s) \in {2 * Cardinality(s.todo) + 1, 2 * Cardinality(s.todo)}
  BY DEF Remaining
<1>4. QED
  BY <1>1, <1>2, <1>3 DEF Advances

LEMMA ServeAdvances ==
    ASSUME TypeOK, IInv, NEW r \in Requests, Listing(request[r]), Serve(r)
    PROVE  Advances(request[r], request'[r])
<1> DEFINE s == request[r]
<1>1. s \in Request /\ RequestInv(s) /\ WellFormed(s)
  BY DEF TypeOK, IInv, RequestInv
<1>2. /\ Cardinality(s.todo) \in Nat /\ Remaining(s) \in Nat /\ Remaining(s) > 0
      /\ Listing(s)
  BY <1>1, RemainingFacts
<1>3. \A t : Become(r, t) => request'[r] = t
  BY DEF Become, TypeOK
<1> HIDE DEF s
<1>4. CASE Become(r, Idle)
  <2>1. Remaining(Idle) = 0
    BY DEF Remaining, Idle
  <2>2. QED
    BY <1>2, <1>3, <1>4, <2>1 DEF Advances, s
<1>5. CASE ReadKeys(r)
  <2>1. PICK keys : keys = DecryptedKeys(s.user)
    OBVIOUS
  <2>2. PICK t : t = [s EXCEPT !.pc = "rows", !.keys = keys, !.todo = ToVisit(keys)]
    OBVIOUS
  <2>3. t.pc = "rows" /\ t.todo = ToVisit(keys)
    BY <1>1, <2>2 DEF Request
  <2>4. request'[r] = t /\ s.pc = "keys"
    BY <1>3, <1>5, <2>1, <2>2 DEF ReadKeys, s
  <2>5. /\ Cardinality(t.todo) \in Nat /\ Cardinality(Providers) \in Nat
        /\ Cardinality(t.todo) <= Cardinality(Providers)
    <3>1. t.todo \in SUBSET Providers
      BY <2>3 DEF ToVisit
    <3>2. QED
      BY <3>1, CatalogAssumption, FS_Subset, FS_CardinalityType
  <2>6. /\ Remaining(t) = 2 * Cardinality(t.todo) + 2
        /\ Remaining(s) = 2 * Cardinality(Providers) + 3
    BY <2>3, <2>4 DEF Remaining
  <2>7. QED
    BY <2>4, <2>5, <2>6 DEF Advances, s
<1>6. CASE Hit(r) \/ FetchAnswers(r)
  <2>1. PICK item : Become(r, Serving(s, item))
    BY <1>6 DEF Hit, FetchAnswers, s
  <2>2. s.pc \in {"look", "fetch"} /\ s.todo # {}
    BY <1>1, <1>6 DEF Hit, FetchAnswers, WellFormed, s
  <2>3. PICK t : t = Serving(s, item)
    OBVIOUS
  <2>4. t.pc = "look" /\ t.todo = s.todo \ {Current(s)}
    BY <1>1, <2>3 DEF Serving, Request
  <2>5. QED
    BY <1>1, <1>3, <2>1, <2>2, <2>3, <2>4, LeavingAdvances DEF s
<1>7. CASE FetchFails(r)
  <2>1. PICK t : t = Skipping(s)
    OBVIOUS
  <2>2. s.pc = "fetch" /\ s.todo # {}
    BY <1>1, <1>7 DEF FetchFails, WellFormed, s
  <2>3. t.pc = "look" /\ t.todo = s.todo \ {Current(s)}
    BY <1>1, <2>1 DEF Skipping, Request
  <2>4. request'[r] = t
    BY <1>3, <1>7, <2>1 DEF FetchFails, s
  <2>5. QED
    BY <1>1, <2>2, <2>3, <2>4, LeavingAdvances DEF s
<1>8. CASE Miss(r)
  <2>1. PICK t : t = [s EXCEPT !.pc = "fetch", !.left = FetchLimit]
    OBVIOUS
  <2>2. t.pc = "fetch" /\ t.todo = s.todo
    BY <1>1, <2>1 DEF Request
  <2>3. request'[r] = t /\ s.pc = "look"
    BY <1>3, <1>8, <2>1 DEF Miss, s
  <2>4. QED
    BY <1>2, <2>2, <2>3 DEF Advances, Remaining, s
<1>9. ~Probe(r) /\ ~Upsert(r) /\ ~DeleteRow(r) /\ ~Purge(r)
  <2>1. s.pc \notin {"probe", "upsert", "delete", "purge"}
    BY <1>2 DEF Listing
  <2>2. ~Probe(r) /\ ~Purge(r)
    BY <2>1 DEF Probe, Purge, s
  <2>3. Upsert(r) => s.pc = "upsert"
    BY Zenon DEF Upsert, s
  <2>4. DeleteRow(r) => s.pc = "delete"
    BY Zenon DEF DeleteRow, s
  <2>5. QED
    BY <2>1, <2>2, <2>3, <2>4
<1>10. Respond(r) => Become(r, Idle)
  BY DEF Respond
<1>11. CASE KeysArrive(r) /\ ~Become(r, Idle)
  <2>1. PICK t : t = [s EXCEPT !.pc = "look"]
    OBVIOUS
  <2>2. t.pc = "look" /\ t.todo = s.todo
    BY <1>1, <2>1 DEF Request
  <2>3. request'[r] = t /\ s.pc = "rows"
    BY <1>3, <1>11, <2>1 DEF KeysArrive, s
  <2>4. QED
    BY <1>2, <2>2, <2>3 DEF Advances, Remaining, s
<1>12. QED
  BY <1>4, <1>5, <1>6, <1>7, <1>8, <1>9, <1>10, <1>11, Zenon DEF Serve

\* What the other requests, the janitor and time do leaves a list where it is.
LEMMA OthersLeaveLists ==
    ASSUME TypeOK, IInv, [Next]_vars, NEW r \in Requests, Listing(request[r]), ~Serve(r)
    PROVE  \/ request'[r] = Idle
           \/ /\ request'[r].pc = request[r].pc /\ request'[r].todo = request[r].todo
              /\ Tick \/ request'[r].left = request[r].left
<1> DEFINE Stays == /\ request'[r].pc = request[r].pc /\ request'[r].todo = request[r].todo
                    /\ Tick \/ request'[r].left = request[r].left
<1>1. ASSUME NEW q \in Requests, NEW t, GoesOn(q, t), q # r
      PROVE  Stays
  BY <1>1 DEF GoesOn
<1>2. ASSUME NEW q \in Requests, NEW t, Become(q, t), q # r
      PROVE  Stays
  BY <1>1, <1>2, BecomeGoesOn
<1>3. ASSUME NEW q \in Requests, Serve(q)
      PROVE  Stays
  <2>1. q # r
    BY <1>3
  <2>2. CASE Upsert(q) \/ DeleteRow(q)
    <3>1. WellFormed(request[q]) /\ request[q].pc \in {"upsert", "delete"}
      <4>1. Upsert(q) => request[q].pc = "upsert"
        BY Zenon DEF Upsert
      <4>2. DeleteRow(q) => request[q].pc = "delete"
        BY Zenon DEF DeleteRow
      <4>3. QED
        BY <2>2, <4>1, <4>2 DEF IInv, RequestInv
    <3>2. request[q].user \in Users /\ request[q].provider \in Providers
      BY <3>1 DEF WellFormed
    <3>3. Idle \in Request /\ AfterUpsert(request[q]) \in Request /\ AfterDelete(request[q]) \in Request
      BY <3>2, WriterType, IdleIsRequest
    <3>4. \/ Become(q, Idle)
          \/ \E k : \/ WriteAndBecome(q, Idle, k)
                    \/ WriteAndBecome(q, AfterUpsert(request[q]), k)
                    \/ WriteAndBecome(q, AfterDelete(request[q]), k)
      BY <2>2, Zenon DEF Upsert, DeleteRow, WriteFails
    <3>5. QED
      BY <1>1, <1>2, <2>1, <3>3, <3>4, WriteGoesOn
  <2>3. CASE \E t : Become(q, t)
    BY <1>2, <2>1, <2>3
  <2>4. QED
    BY <1>3, <2>2, <2>3 DEF Serve, Probe, Purge, ReadKeys, KeysArrive, Hit, Miss, FetchAnswers, FetchFails, Respond
<1>4. ASSUME NEW q \in Requests, NEW u \in Users,
             \/ \E p \in Providers : (\E k \in Keys : Register(q, u, p, k)) \/ Delete(q, u, p)
             \/ \E refresh \in BOOLEAN : List(q, u, refresh)
      PROVE  Stays
  <2>1. request[q].pc = "idle" /\ \E t : Become(q, t)
    BY <1>4, Zenon DEF Register, Delete, List
  <2>2. q # r
    BY <2>1 DEF Listing
  <2>3. QED
    BY <1>2, <2>1, <2>2
<1>5. CASE Tick
  <2>1. request'[r] = Elapsed(request[r]) /\ request[r] \in Request
    BY <1>5 DEF Tick, TypeOK
  <2>2. QED
    BY <1>5, <2>1 DEF Elapsed, Request
<1>6. CASE \E rotated \in BOOLEAN : Restart(rotated)
  BY <1>6 DEF Restart
<1>7. CASE Cleanup \/ UNCHANGED vars
  BY <1>7 DEF Cleanup, vars
<1>8. QED
  BY <1>3, <1>4, <1>5, <1>6, <1>7 DEF Next

\* Every step of a list brings it closer to its end, by the count of its steps,
\* and nothing else takes it further away: there is no way for a list to go on
\* for ever other than to be left waiting (ai_model.go:38-55).
THEOREM ListsAdvance ==
    Spec => [][\A r \in Requests : Listing(request[r]) =>
                  /\ Remaining(request'[r]) <= Remaining(request[r])
                  /\ Serve(r) => Remaining(request'[r]) < Remaining(request[r])]_vars
<1>1. ASSUME TypeOK, IInv, [Next]_vars, NEW r \in Requests, Listing(request[r])
      PROVE  /\ Remaining(request'[r]) <= Remaining(request[r])
             /\ Serve(r) => Remaining(request'[r]) < Remaining(request[r])
  <2>1. TypeOK' /\ IInv'
    BY <1>1, InvariantStep
  <2>2. Remaining(request[r]) \in Nat /\ Remaining(request'[r]) \in Nat
    BY <1>1, <2>1, RemainingFacts DEF TypeOK, IInv, RequestInv
  <2>3. CASE Serve(r)
    BY <1>1, <2>2, <2>3, ServeAdvances DEF Advances
  <2>4. CASE ~Serve(r)
    <3>1. CASE request'[r] = Idle
      BY <2>2, <2>4, <3>1 DEF Remaining, Idle
    <3>2. CASE request'[r].pc = request[r].pc /\ request'[r].todo = request[r].todo
      BY <2>2, <2>4, <3>2 DEF Remaining
    <3>3. QED
      BY <1>1, <2>4, <3>1, <3>2, OthersLeaveLists
  <2>5. QED
    BY <2>3, <2>4
<1>2. TypeOK /\ IInv /\ [Next]_vars =>
         [\A r \in Requests : Listing(request[r]) =>
             /\ Remaining(request'[r]) <= Remaining(request[r])
             /\ Serve(r) => Remaining(request'[r]) < Remaining(request[r])]_vars
  BY <1>1
<1>3. QED
  BY <1>2, Invariant, PTL DEF Spec

\* A list that has its keys.
Visiting(s) == s.pc \in {"look", "fetch"}

\* What a step does to the time a list has spent on providers.
LEMMA ServeSpends ==
    ASSUME TypeOK, IInv, NEW r \in Requests, Visiting(request[r]), Serve(r)
    PROVE  \/ request'[r] = Idle
           \/ Visiting(request'[r]) /\ Spent(request[r]) <= Spent(request'[r])
<1> DEFINE s == request[r]
<1>1. s \in Request /\ WellFormed(s) /\ Visiting(s) /\ Spent(s) \in Int
  BY SpentType DEF TypeOK, IInv, RequestInv
<1>2. \A t : Become(r, t) => request'[r] = t
  BY DEF Become, TypeOK
<1>3. ASSUME NEW t, Become(r, t), s.todo # {}, t.pc = "look", t.todo = s.todo \ {Current(s)}
      PROVE  Visiting(request'[r]) /\ Spent(request[r]) <= Spent(request'[r])
  BY <1>1, <1>2, <1>3, SpentGrows DEF Visiting
<1> HIDE DEF s
<1>4. CASE Respond(r)
  BY <1>2, <1>4 DEF Respond
<1>5. CASE Hit(r) \/ FetchAnswers(r)
  <2>1. PICK item : Become(r, Serving(s, item))
    BY <1>5 DEF Hit, FetchAnswers, s
  <2>2. s.todo # {}
    BY <1>1, <1>5 DEF Hit, FetchAnswers, WellFormed, s
  <2>3. PICK t : t = Serving(s, item)
    OBVIOUS
  <2>4. t.pc = "look" /\ t.todo = s.todo \ {Current(s)}
    BY <1>1, <2>3 DEF Serving, Request
  <2>5. QED
    BY <1>3, <2>1, <2>2, <2>3, <2>4
<1>6. CASE FetchFails(r)
  <2>1. PICK t : t = Skipping(s)
    OBVIOUS
  <2>2. s.todo # {} /\ Become(r, t)
    BY <1>1, <1>6, <2>1 DEF FetchFails, WellFormed, s
  <2>3. t.pc = "look" /\ t.todo = s.todo \ {Current(s)}
    BY <1>1, <2>1 DEF Skipping, Request
  <2>4. QED
    BY <1>3, <2>2, <2>3
<1>7. CASE Miss(r)
  <2>1. PICK t : t = [s EXCEPT !.pc = "fetch", !.left = FetchLimit]
    OBVIOUS
  <2>2. s.pc = "look" /\ request'[r] = t
    BY <1>2, <1>7, <2>1 DEF Miss, s
  <2>3. t.pc = "fetch" /\ t.todo = s.todo /\ t.left = FetchLimit
    BY <1>1, <2>1 DEF Request
  <2>4. Spent(t) = Spent(s)
    BY <2>2, <2>3, CatalogAssumption DEF Spent
  <2>5. QED
    BY <1>1, <2>2, <2>3, <2>4 DEF Visiting, s
<1>8. /\ ~Probe(r) /\ ~Upsert(r) /\ ~DeleteRow(r) /\ ~Purge(r)
      /\ ~ReadKeys(r) /\ ~KeysArrive(r)
  <2>1. s.pc \notin {"probe", "upsert", "delete", "purge", "keys", "rows"}
    BY <1>1 DEF Visiting
  <2>2. ~Probe(r) /\ ~Purge(r) /\ ~ReadKeys(r) /\ ~KeysArrive(r)
    BY <2>1 DEF Probe, Purge, ReadKeys, KeysArrive, s
  <2>3. Upsert(r) => s.pc = "upsert"
    BY Zenon DEF Upsert, s
  <2>4. DeleteRow(r) => s.pc = "delete"
    BY Zenon DEF DeleteRow, s
  <2>5. QED
    BY <2>1, <2>2, <2>3, <2>4
<1>9. QED
  BY <1>4, <1>5, <1>6, <1>7, <1>8, Zenon DEF Serve

\* A tick finds a list waiting for a provider, and counts against it.
LEMMA TickSpends ==
    ASSUME TypeOK, IInv, NEW r \in Requests, Visiting(request[r]), Tick
    PROVE  Visiting(request'[r]) /\ Spent(request'[r]) = Spent(request[r]) + 1
<1> DEFINE s == request[r]
           t == request'[r]
<1>1. s \in Request /\ s.pc = "fetch" /\ t = Elapsed(s)
  BY DEF Tick, MayWait, Visiting, TypeOK
<1>2. s.left \in Int /\ FetchLimit \in Int
  BY <1>1, CatalogAssumption DEF Request
<1>3. t.pc = "fetch" /\ t.todo = s.todo /\ t.left = s.left - 1
  BY <1>1 DEF Elapsed, Request
<1> HIDE DEF s, t
<1>4. PICK spent : spent = (Cardinality(Providers) - Cardinality(s.todo)) * FetchLimit
  OBVIOUS
<1>5. Spent(s) = spent + (FetchLimit - s.left) /\ Spent(t) = spent + (FetchLimit - (s.left - 1))
  BY <1>1, <1>3, <1>4 DEF Spent
<1>6. spent \in Int
  <2>1. Cardinality(s.todo) \in Nat
    BY <1>1, CatalogAssumption, FS_Subset, FS_CardinalityType DEF Request
  <2>2. QED
    BY <1>2, <1>4, <2>1, BoundsAreNat
<1>7. t.pc = "fetch" /\ Spent(t) = Spent(s) + 1
  BY <1>2, <1>3, <1>5, <1>6
<1>8. QED
  BY <1>7 DEF Visiting, s, t

\* The time a list may spend is what its providers may take one after the other.
LEMMA SpentBounded ==
    ASSUME NEW s \in Request, Visiting(s), WellFormed(s)
    PROVE  Spent(s) \in 0..FillDelay
<1> DEFINE n == Cardinality(Providers)
           m == Cardinality(s.todo)
           f == FetchLimit
<1>1. n \in Nat /\ m \in Nat /\ m <= n /\ f \in Nat /\ s.left \in 0..f
  BY CatalogAssumption, FS_Subset, FS_CardinalityType DEF Request
<1>2. s.pc = "fetch" => m >= 1
  BY OneLess DEF WellFormed, Request
<1>3. /\ Spent(s) = (n - m) * f + (IF s.pc = "fetch" THEN f - s.left ELSE 0)
      /\ FillDelay = n * f
  BY DEF Spent, FillDelay
<1> HIDE DEF n, m, f
<1>4. (n - m) * f \in Nat /\ n * f = (n - m) * f + m * f /\ m * f \in Nat
  BY <1>1
<1>5. m >= 1 => m * f >= f
  BY <1>1
<1>6. QED
  BY <1>1, <1>2, <1>3, <1>4, <1>5

\* A list answers within FillDelay ticks of getting its keys, one timeout of the
\* HTTP client for each provider, whatever the providers and the other requests
\* do (registry.go:23, ai_model.go:38-55): every tick counts against a budget
\* that is never refilled.
THEOREM ListsAnswerInTime ==
    Spec => [][\A r \in Requests : Visiting(request[r]) =>
                  /\ Spent(request[r]) \in 0..FillDelay
                  /\ \/ request'[r] = Idle
                     \/ /\ Visiting(request'[r])
                        /\ Spent(request'[r]) >= Spent(request[r]) + (IF Tick THEN 1 ELSE 0)]_vars
<1>1. ASSUME TypeOK, IInv, [Next]_vars, NEW r \in Requests, Visiting(request[r])
      PROVE  /\ Spent(request[r]) \in 0..FillDelay
             /\ \/ request'[r] = Idle
                \/ /\ Visiting(request'[r])
                   /\ Spent(request'[r]) >= Spent(request[r]) + (IF Tick THEN 1 ELSE 0)
  <2>1. Spent(request[r]) \in 0..FillDelay /\ Spent(request[r]) \in Int
    BY <1>1, SpentBounded, BoundsAreNat DEF TypeOK, IInv, RequestInv
  <2>2. TypeOK' /\ IInv'
    BY <1>1, InvariantStep
  <2>3. Spent(request'[r]) \in Int
    BY <2>2, SpentType DEF TypeOK
  <2>4. CASE Tick
    BY <1>1, <2>1, <2>4, TickSpends
  <2>5. CASE ~Tick /\ Serve(r)
    BY <1>1, <2>1, <2>3, <2>5, ServeSpends
  <2>6. CASE ~Tick /\ ~Serve(r)
    <3>1. Listing(request[r])
      BY <1>1 DEF Visiting, Listing
    <3>2. \/ request'[r] = Idle
          \/ /\ request'[r].pc = request[r].pc /\ request'[r].todo = request[r].todo
             /\ request'[r].left = request[r].left
      BY <1>1, <2>6, <3>1, OthersLeaveLists
    <3>3. QED
      BY <1>1, <2>1, <2>6, <3>2 DEF Visiting, Spent
  <2>7. QED
    BY <2>1, <2>4, <2>5, <2>6
<1>2. TypeOK /\ IInv /\ [Next]_vars =>
         [\A r \in Requests : Visiting(request[r]) =>
             /\ Spent(request[r]) \in 0..FillDelay
             /\ \/ request'[r] = Idle
                \/ /\ Visiting(request'[r])
                   /\ Spent(request'[r]) >= Spent(request[r]) + (IF Tick THEN 1 ELSE 0)]_vars
  BY <1>1
<1>3. QED
  BY <1>2, Invariant, PTL DEF Spec
=============================================================================
