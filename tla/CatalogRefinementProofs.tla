---------------------- MODULE CatalogRefinementProofs ----------------------
(***************************************************************************)
(* ModelCatalog implements KeyRegister: whatever the cache, the purges and *)
(* the provider calls do, what callers see are reads and writes of         *)
(* registers, with reads that are bounded in their staleness, and regular  *)
(* where KeyRegister says so.                                              *)
(***************************************************************************)
EXTENDS ModelCatalogProofs

\* The keys that are on their way to a list.
Drawn(s) == IF s.pc = "rows" THEN s.keys ELSE Promise!NoKeys

\* The list a request is preparing, and the change it is to acknowledge.
View(s) ==
    IF Listing(s)
    THEN [open |-> TRUE, user |-> s.user, refresh |-> s.refresh,
          drawn |-> Drawn(s), seen |-> s.seen, served |-> s.served]
    ELSE Promise!Closed

Told(s) ==
    IF s.pc = "purge"
    THEN {[user |-> s.user, provider |-> s.provider, key |-> s.replaced]}
    ELSE {}

\* The promise is kept by the step: it takes a step of its own, or none.
Kept == [Promise!Next]_(Promise!kvars)

-----------------------------------------------------------------------------
(* How the abstract variables follow the requests.                         *)

LEMMA Views ==
    /\ Lists = [r \in Requests |-> View(request[r])]
    /\ Changes = [r \in Requests |-> Told(request[r])]
    /\ Lists' = [r \in Requests |-> View(request'[r])]
    /\ Changes' = [r \in Requests |-> Told(request'[r])]
BY DEF Lists, Changes, View, Drawn, Told, Listing, Idle, Promise!Closed, Promise!NoKeys

LEMMA ViewOfNoList ==
    ASSUME NEW s, ~Listing(s)
    PROVE  View(s) = Promise!Closed
BY DEF View

LEMMA IdleView == View(Idle) = Promise!Closed /\ Told(Idle) = {}
BY DEF View, Told, Listing, Idle

\* A step after which the requests in S show nothing, and the others what they
\* showed before.
LEMMA OverStep ==
    ASSUME NEW S \in SUBSET Requests, UNCHANGED <<table, age>>,
           \A q \in S : View(request'[q]) = Promise!Closed /\ Told(request'[q]) = {},
           \A q \in Requests \ S : /\ View(request'[q]) = View(request[q])
                                   /\ Told(request'[q]) = Told(request[q])
    PROVE  Kept
<1>1. Lists' = [q \in Requests |-> IF q \in S THEN Promise!Closed ELSE Lists[q]]
  BY Views
<1>2. Changes' = [q \in Requests |-> IF q \in S THEN {} ELSE Changes[q]]
  BY Views
<1>3. Promise!Over(S)
  BY <1>1, <1>2 DEF Promise!Over
<1>4. QED
  BY <1>3 DEF Kept, Promise!Next

\* A request that goes on shows no more and no less.
LEMMA QuietStep ==
    ASSUME TypeOK, UNCHANGED <<table, age>>, NEW r \in Requests, NEW t, Become(r, t),
           View(t) = View(request[r]), Told(t) = Told(request[r])
    PROVE  Kept
<1>1. \A q \in Requests : /\ View(request'[q]) = View(request[q])
                          /\ Told(request'[q]) = Told(request[q])
  BY DEF Become, TypeOK
<1>2. {} \in SUBSET Requests /\ Requests \ {} = Requests
  OBVIOUS
<1>3. QED
  BY <1>1, <1>2, OverStep

\* A request that ends without having changed anything.
LEMMA EndStep ==
    ASSUME TypeOK, UNCHANGED <<table, age>>, NEW r \in Requests, Become(r, Idle)
    PROVE  Kept
<1>1. request'[r] = Idle /\ \A q \in Requests \ {r} : request'[q] = request[q]
  BY DEF Become, TypeOK
<1>2. {r} \in SUBSET Requests
  OBVIOUS
<1>3. QED
  BY <1>1, <1>2, IdleView, OverStep

-----------------------------------------------------------------------------
(* Writes.                                                                 *)

\* A write is a Put: the open lists of the user may tell.
LEMMA WriteIsPut ==
    ASSUME TypeOK, NEW r \in Requests, NEW s \in Request, NEW k \in Keys \cup {NoKey},
           ~Listing(request[r]), ~Listing(s), WriteAndBecome(r, s, k)
    PROVE  /\ Promise!Put(request[r].user, request[r].provider, k)
           /\ Changes' = [Changes EXCEPT ![r] = Told(s)]
<1> DEFINE u == request[r].user
           p == request[r].provider
           reqs == [request EXCEPT ![r] = s]
<1>1. /\ Write(u, p, k) /\ request' = Observed(reqs, u, p, k)
      /\ reqs \in [Requests -> Request]
      /\ reqs[r] = s /\ \A q \in Requests \ {r} : reqs[q] = request[q]
  BY DEF WriteAndBecome, TypeOK
<1>2. request \in [Requests -> Request]
  BY DEF TypeOK
<1> HIDE DEF u, p, reqs
<1>3. ASSUME NEW q \in Requests
      PROVE  /\ request'[q] = Seeing(reqs[q], u, p, k)
             /\ View(reqs[q]) = View(request[q])
             /\ Told(reqs[q]) = IF q = r THEN Told(s) ELSE Told(request[q])
  BY <1>1, ViewOfNoList DEF Observed, Seeing
<1>4. ASSUME NEW q \in Requests
      PROVE  /\ View(request'[q]) = IF Lists[q].open /\ Lists[q].user = u
                                    THEN [Lists[q] EXCEPT !.seen[p] = @ \cup {k}]
                                    ELSE Lists[q]
             /\ Told(request'[q]) = Told(reqs[q])
  <2> DEFINE t == reqs[q]
  <2>1. t \in Request
    BY <1>1
  <2>2. Lists[q] = View(t) /\ request'[q] = Seeing(t, u, p, k)
    BY <1>3, Views
  <2> HIDE DEF t
  <2>3. CASE Listing(t) /\ t.user = u
    <3>1. PICK v : v = [t EXCEPT !.seen[p] = @ \cup {k}]
      OBVIOUS
    <3>2. /\ v.pc = t.pc /\ v.user = t.user /\ v.refresh = t.refresh
          /\ v.served = t.served /\ v.seen = [t.seen EXCEPT ![p] = @ \cup {k}]
          /\ Drawn(v) = Drawn(t)
      BY <2>1, <3>1 DEF Request, Drawn
    <3>3. request'[q] = v
      BY <2>2, <2>3, <3>1 DEF Seeing
    <3>4. /\ View(t) = [open |-> TRUE, user |-> t.user, refresh |-> t.refresh,
                        drawn |-> Drawn(t), seen |-> t.seen, served |-> t.served]
          /\ View(v) = [open |-> TRUE, user |-> t.user, refresh |-> t.refresh,
                        drawn |-> Drawn(t),
                        seen |-> [t.seen EXCEPT ![p] = @ \cup {k}], served |-> t.served]
      BY <2>3, <3>2 DEF View, Listing
    <3>5. View(t).seen = t.seen /\ View(t).open /\ View(t).user = u
      BY <2>3, <3>4
    <3>6. View(v) = [View(t) EXCEPT !.seen = [t.seen EXCEPT ![p] = @ \cup {k}]]
      <4>1. PICK e : e = [View(t) EXCEPT !.seen = [t.seen EXCEPT ![p] = @ \cup {k}]]
        OBVIOUS
      <4>2. /\ DOMAIN e = {"open", "user", "refresh", "drawn", "seen", "served"}
            /\ e = [x \in DOMAIN e |-> e[x]]
        BY <3>4, <4>1
      <4>3. /\ e.open = TRUE /\ e.user = t.user /\ e.refresh = t.refresh
            /\ e.drawn = Drawn(t)
            /\ e.seen = [t.seen EXCEPT ![p] = @ \cup {k}] /\ e.served = t.served
        BY <3>4, <4>1
      <4>4. View(v) = e
        BY <3>4, <4>2, <4>3
      <4>5. QED
        BY <4>1, <4>4
    <3>7. View(v) = [View(t) EXCEPT !.seen[p] = @ \cup {k}]
      BY <3>5, <3>6, Zenon
    <3>8. Told(v) = {} /\ Told(t) = {}
      BY <2>3, <3>2 DEF Told, Listing
    <3>9. QED
      BY <2>2, <3>3, <3>5, <3>7, <3>8, Zenon DEF t
  <2>4. CASE ~(Listing(t) /\ t.user = u)
    <3>1. request'[q] = t
      BY <2>2, <2>4 DEF Seeing
    <3>2. ~(View(t).open /\ View(t).user = u)
      BY <2>4 DEF View, Promise!Closed
    <3>3. QED
      BY <2>2, <3>1, <3>2 DEF t
  <2>5. QED
    BY <2>3, <2>4
<1>5. Changes' = [Changes EXCEPT ![r] = Told(s)]
  BY <1>3, <1>4, Views
<1>6. Lists' = [q \in Requests |-> IF Lists[q].open /\ Lists[q].user = u
                                   THEN [Lists[q] EXCEPT !.seen[p] = @ \cup {k}]
                                   ELSE Lists[q]]
  BY <1>4, Views
<1>7. Promise!Put(u, p, k)
  BY <1>1, <1>6 DEF Promise!Put, Write
<1>8. QED
  BY <1>5, <1>7 DEF u, p

\* The two ways a write of r goes, and the way it does not.
LEMMA WriteKept ==
    ASSUME TypeOK, IInv, NEW r \in Requests, request[r].pc \in {"upsert", "delete"},
           NEW k \in Keys \cup {NoKey},
           \/ WriteAndBecome(r, AfterUpsert(request[r]), k)
           \/ WriteFails(r, k)
    PROVE  Kept
<1> DEFINE s == request[r]
           u == s.user
           p == s.provider
<1>1. s \in Request /\ u \in Users /\ p \in Providers /\ ~Listing(s) /\ Told(s) = {}
  BY DEF TypeOK, IInv, RequestInv, WellFormed, Listing, Told
<1>2. CASE WriteAndBecome(r, AfterUpsert(s), k)
  <2>1. PICK t : t = AfterUpsert(s)
    OBVIOUS
  <2>2. t \in Request
    BY <1>1, <2>1, WriterType
  <2>3. t.pc = "purge" /\ t.user = u /\ t.provider = p /\ t.replaced = table[u, p]
    BY <1>1, <2>1 DEF AfterUpsert, WithReplaced, Request
  <2>4. /\ ~Listing(t)
        /\ Told(t) = {[user |-> u, provider |-> p, key |-> table[u, p]]}
    BY <2>3 DEF Listing, Told
  <2>5. /\ Promise!Put(u, p, k)
        /\ Changes' = [Changes EXCEPT ![r] = Told(t)]
    BY <1>1, <1>2, <2>1, <2>2, <2>4, WriteIsPut
  <2>6. Changes[r] = {}
    BY <1>1, Views
  <2>7. Promise!Change(r, u, p, k)
    BY <2>4, <2>5, <2>6 DEF Promise!Change
  <2>8. QED
    BY <1>1, <2>7 DEF Kept, Promise!Next
<1>3. CASE WriteAndBecome(r, Idle, k)
  <2>1. ~Listing(Idle) /\ Told(Idle) = {}
    BY IdleView DEF Listing, Idle
  <2>2. /\ Promise!Put(u, p, k)
        /\ Changes' = [Changes EXCEPT ![r] = Told(Idle)]
    BY <1>1, <1>3, <2>1, IdleIsRequest, WriteIsPut
  <2>3. UNCHANGED Changes
    BY <1>1, <2>1, <2>2, Views
  <2>4. Promise!ChangeUnconfirmed(u, p, k)
    BY <2>2, <2>3 DEF Promise!ChangeUnconfirmed
  <2>5. QED
    BY <1>1, <2>4 DEF Kept, Promise!Next
<1>4. CASE Become(r, Idle) /\ UNCHANGED <<table, sealed, age>>
  BY <1>4, EndStep
<1>5. QED
  BY <1>2, <1>3, <1>4 DEF WriteFails

-----------------------------------------------------------------------------
(* Lists.                                                                  *)

\* Writers that are about to purge have yet to acknowledge their change.
LEMMA NotYetReplacedIsOverwritten ==
    ASSUME NEW u, NEW p
    PROVE  NotYetReplaced(u, p) = Promise!Overwritten(u, p)
<1>1. \A w : w \in UNION {Changes[q] : q \in Requests} <=>
               \E q \in Requests : /\ request[q].pc = "purge"
                                   /\ w = [user |-> request[q].user,
                                           provider |-> request[q].provider,
                                           key |-> request[q].replaced]
  BY Views DEF Told
<1>2. ASSUME NEW q \in Requests, request[q].pc = "purge",
             request[q].user = u, request[q].provider = p
      PROVE  request[q].replaced \in Promise!Overwritten(u, p)
  <2>1. PICK w : w = [user |-> u, provider |-> p, key |-> request[q].replaced]
    OBVIOUS
  <2>2. w \in UNION {Changes[o] : o \in Requests}
    BY <1>1, <1>2, <2>1
  <2>3. w.user = u /\ w.provider = p /\ w.key = request[q].replaced
    BY <2>1
  <2>4. QED
    BY <2>2, <2>3 DEF Promise!Overwritten
<1>3. ASSUME NEW k \in Promise!Overwritten(u, p)
      PROVE  k \in NotYetReplaced(u, p)
  <2>1. PICK w \in UNION {Changes[o] : o \in Requests} :
               w.user = u /\ w.provider = p /\ k = w.key
    BY DEF Promise!Overwritten
  <2>2. PICK q \in Requests : /\ request[q].pc = "purge"
                              /\ w = [user |-> request[q].user,
                                      provider |-> request[q].provider,
                                      key |-> request[q].replaced]
    BY <1>1
  <2>3. request[q].user = u /\ request[q].provider = p /\ k = request[q].replaced
    BY <2>1, <2>2
  <2>4. QED
    BY <2>2, <2>3 DEF NotYetReplaced
<1>4. QED
  BY <1>2, <1>3 DEF NotYetReplaced

LEMMA ListKept ==
    ASSUME TypeOK, NEW r \in Requests, NEW u \in Users, NEW refresh \in BOOLEAN,
           List(r, u, refresh)
    PROVE  Kept
<1> DEFINE seen == [p \in Providers |-> {table[u, p]} \cup NotYetReplaced(u, p)]
<1>1. PICK t : t = [Idle EXCEPT !.pc = "keys", !.user = u, !.refresh = refresh,
                                !.seen = seen]
  OBVIOUS
<1>2. /\ t.pc = "keys" /\ t.user = u /\ t.refresh = refresh /\ t.seen = seen
      /\ t.served = {} /\ Drawn(t) = Promise!NoKeys
  BY <1>1 DEF Idle, Drawn
<1>3. seen = [p \in Providers |-> {table[u, p]} \cup Promise!Overwritten(u, p)]
  BY NotYetReplacedIsOverwritten
<1>4. Become(r, t) /\ request[r].pc = "idle" /\ UNCHANGED <<table, age>>
  BY <1>1 DEF List
<1> HIDE DEF seen
<1>5. /\ request'[r] = t
      /\ \A q \in Requests \ {r} : request'[q] = request[q]
  BY <1>4 DEF Become, TypeOK
<1>6. View(request[r]) = Promise!Closed /\ Told(request[r]) = {} /\ Told(t) = {}
  BY <1>2, <1>4 DEF View, Told, Listing
<1>7. View(t) = [open |-> TRUE, user |-> u, refresh |-> refresh,
               drawn |-> Promise!NoKeys, seen |-> seen, served |-> {}]
  BY <1>2 DEF View, Listing
<1>8. Lists' = [Lists EXCEPT ![r] = View(t)] /\ Changes' = Changes
  BY <1>5, <1>6, Views
<1>9. ~Lists[r].open
  BY <1>6, Views DEF Promise!Closed
<1>10. Promise!Open(r, u, refresh)
  BY <1>3, <1>4, <1>7, <1>8, <1>9 DEF Promise!Open
<1>11. QED
  BY <1>10 DEF Kept, Promise!Next

\* Serial, confirmed requests keep SerialInv; otherwise nothing is asked of it.
Serialised == ~Overlap /\ ~Unconfirmed => SerialInv

\* The models that a step adds to a response are the promised ones.
LEMMA ServingKept ==
    ASSUME TypeOK, IInv, Serialised, [Next]_vars, NEW r \in Requests,
           request[r].pc \in {"look", "fetch"}, request[r].todo # {},
           NEW item \in Item, item.user = request[r].user,
           Become(r, Serving(request[r], item)), UNCHANGED <<table, age>>
    PROVE  Kept
<1> DEFINE s == request[r]
           t == Serving(s, item)
<1>1. s \in Request
  BY DEF TypeOK
<1>2. /\ t.pc = "look" /\ t.user = s.user /\ t.refresh = s.refresh
      /\ t.seen = s.seen /\ t.served = s.served \cup {item}
      /\ Drawn(s) = Promise!NoKeys /\ Drawn(t) = Promise!NoKeys
  BY <1>1 DEF Serving, Request, Drawn
<1>3. /\ request'[r] = t
      /\ \A q \in Requests \ {r} : request'[q] = request[q]
  BY DEF Become, TypeOK
<1>4. Listing(s) /\ Told(s) = {} /\ Told(t) = {}
  BY <1>2 DEF Listing, Told
<1>5. /\ View(s) = [open |-> TRUE, user |-> s.user, refresh |-> s.refresh,
                    drawn |-> Promise!NoKeys, seen |-> s.seen, served |-> s.served]
      /\ View(t) = [open |-> TRUE, user |-> s.user, refresh |-> s.refresh,
                    drawn |-> Promise!NoKeys, seen |-> s.seen,
                    served |-> s.served \cup {item}]
  BY <1>2, <1>4 DEF View, Listing
<1>6. Become(r, t)
  OBVIOUS
<1>7. CASE item \in s.served
  <2>1. View(t) = View(s)
    BY <1>5, <1>7
  <2> HIDE DEF t
  <2>2. QED
    BY <1>4, <1>6, <2>1, QuietStep
<1>8. CASE item \notin s.served
  <2>1. item \in JustServed(r)
    BY <1>2, <1>3, <1>8 DEF JustServed
  <2>2. age[<<item.user, item.provider>>][item.key] <= StaleBound
    BY <2>1, ServedInTime
  <2>3. s.seen[item.provider] \cap Keys # {}
    BY <2>1, ServedRegistered
  <2>4. s.refresh \/ (~Overlap /\ ~Unconfirmed) => item.key \in s.seen[item.provider]
    BY <2>1, ServedFetched, ServedRegular DEF Serialised
  <2>5. /\ item.provider \in Providers /\ item.key \in Keys
        /\ item = [user |-> s.user, provider |-> item.provider, key |-> item.key]
    BY DEF Item
  <2>6. Lists[r] = View(s) /\ Lists' = [Lists EXCEPT ![r] = View(t)] /\ Changes' = Changes
    BY <1>3, <1>4, Views
  <2> HIDE DEF t, s
  <2>7. View(t) = [View(s) EXCEPT !.served = s.served \cup {item}]
    <3>1. PICK e : e = [View(s) EXCEPT !.served = s.served \cup {item}]
      OBVIOUS
    <3>2. /\ DOMAIN e = {"open", "user", "refresh", "drawn", "seen", "served"}
          /\ e = [x \in DOMAIN e |-> e[x]]
      BY <1>5, <3>1
    <3>3. /\ e.open = TRUE /\ e.user = s.user /\ e.refresh = s.refresh
          /\ e.drawn = Promise!NoKeys
          /\ e.seen = s.seen /\ e.served = s.served \cup {item}
      BY <1>5, <3>1
    <3>4. View(t) = e
      BY <1>5, <3>2, <3>3
    <3>5. QED
      BY <3>1, <3>4
  <2>8. /\ Lists[r].open /\ Lists[r].user = s.user /\ Lists[r].refresh = s.refresh
        /\ Lists[r].seen = s.seen /\ Lists[r].served = s.served
    BY <1>5, <2>6
  <2>9. Lists' = [Lists EXCEPT ![r].served = @ \cup
                    {[user |-> Lists[r].user, provider |-> item.provider, key |-> item.key]}]
    BY <2>5, <2>6, <2>7, <2>8, Zenon
  <2>10. Promise!Serve(r, item.provider, item.key)
    <3>1. <<Lists[r].user, item.provider>> = <<item.user, item.provider>>
      BY <2>8 DEF s
    <3>2. age[Lists[r].user, item.provider][item.key] <= StaleBound
      BY <2>2, <3>1, Zenon
    <3>3. QED
      BY <2>3, <2>4, <2>6, <2>8, <2>9, <3>2, Zenon DEF Promise!Serve
  <2>11. QED
    BY <2>5, <2>10 DEF Kept, Promise!Next
<1>9. QED
  BY <1>7, <1>8

\* What a list shows changes only in the keys that are on their way to it.
LEMMA DrawnStep ==
    ASSUME TypeOK, NEW r \in Requests, NEW t, Become(r, t), Listing(request[r]),
           Listing(t), t.user = request[r].user, t.refresh = request[r].refresh,
           t.seen = request[r].seen, t.served = request[r].served
    PROVE  /\ Lists[r].open /\ Lists[r].user = request[r].user
           /\ Lists' = [Lists EXCEPT ![r].drawn = Drawn(t)]
           /\ Changes' = Changes
<1> DEFINE s == request[r]
           e == [View(s) EXCEPT !.drawn = Drawn(t)]
<1>1. /\ request'[r] = t
      /\ \A q \in Requests \ {r} : request'[q] = request[q]
  BY DEF Become, TypeOK
<1>2. /\ View(s) = [open |-> TRUE, user |-> s.user, refresh |-> s.refresh,
                    drawn |-> Drawn(s), seen |-> s.seen, served |-> s.served]
      /\ View(t) = [open |-> TRUE, user |-> s.user, refresh |-> s.refresh,
                    drawn |-> Drawn(t), seen |-> s.seen, served |-> s.served]
      /\ Told(s) = {} /\ Told(t) = {}
  BY DEF View, Told, Listing
<1> HIDE DEF s
<1>3. /\ DOMAIN e = {"open", "user", "refresh", "drawn", "seen", "served"}
      /\ e = [x \in DOMAIN e |-> e[x]]
  BY <1>2
<1>4. /\ e.open = TRUE /\ e.user = s.user /\ e.refresh = s.refresh
      /\ e.drawn = Drawn(t) /\ e.seen = s.seen /\ e.served = s.served
  BY <1>2
<1> HIDE DEF e
<1>5. View(t) = e
  BY <1>2, <1>3, <1>4
<1>6. /\ Lists[r] = View(s) /\ Lists' = [Lists EXCEPT ![r] = View(t)]
      /\ Changes' = Changes
  BY <1>1, <1>2, Views DEF s
<1>7. Lists' = [Lists EXCEPT ![r].drawn = Drawn(t)]
  BY <1>5, <1>6, Zenon DEF e
<1>8. Lists[r].open /\ Lists[r].user = s.user
  BY <1>2, <1>6
<1>9. QED
  BY <1>6, <1>7, <1>8, Zenon DEF s

\* PostgreSQL reads rows of the registers; what it cannot open it leaves out.
LEMMA ReadKeysKept ==
    ASSUME TypeOK, IInv, NEW r \in Requests, ReadKeys(r)
    PROVE  Kept
<1> DEFINE s == request[r]
<1>1. s \in Request /\ s.pc = "keys" /\ s.user \in Users
  BY DEF TypeOK, IInv, RequestInv, WellFormed, ReadKeys
<1>2. PICK keys : keys = DecryptedKeys(s.user)
  OBVIOUS
<1>3. PICK t : t = [s EXCEPT !.pc = "rows", !.keys = keys, !.todo = ToVisit(keys)]
  OBVIOUS
<1>4. /\ t.pc = "rows" /\ t.user = s.user /\ t.refresh = s.refresh
      /\ t.seen = s.seen /\ t.served = s.served /\ t.keys = keys
  BY <1>1, <1>3 DEF Request
<1>5. Become(r, t) /\ UNCHANGED <<table, age>>
  BY <1>2, <1>3 DEF ReadKeys
<1>6. Drawn(t) = keys /\ Listing(s) /\ Listing(t)
  BY <1>1, <1>4 DEF Drawn, Listing
<1> HIDE DEF s
<1>7. /\ Lists[r].open /\ Lists[r].user = s.user
      /\ Lists' = [Lists EXCEPT ![r].drawn = keys]
      /\ Changes' = Changes
  BY <1>4, <1>5, <1>6, DrawnStep DEF s
<1>8. keys \in [Providers -> Keys \cup {NoKey}]
  <2>1. \A p \in Providers : table[<<s.user, p>>] \in Keys \cup {NoKey}
    BY <1>1 DEF TypeOK, Rows
  <2>2. \A p \in Providers : keys[p] \in {table[<<s.user, p>>], NoKey}
    BY <1>2 DEF DecryptedKeys
  <2>3. keys = [p \in Providers |-> keys[p]]
    BY <1>2 DEF DecryptedKeys
  <2>4. QED
    BY <2>1, <2>2, <2>3
<1>9. \A p \in Providers : keys[p] \in {table[Lists[r].user, p], NoKey}
  <2>1. \A p \in Providers : keys[p] \in {table[s.user, p], NoKey}
    BY <1>2, Zenon DEF DecryptedKeys
  <2>2. QED
    BY <1>7, <2>1, Zenon
<1>10. Promise!Draw(r)
  BY <1>5, <1>7, <1>8, <1>9, Zenon DEF Promise!Draw
<1>11. QED
  BY <1>10 DEF Kept, Promise!Next

\* The answer of the database arrives, or the list ends with an error.
LEMMA KeysArriveKept ==
    ASSUME TypeOK, NEW r \in Requests, KeysArrive(r)
    PROVE  Kept
<1> DEFINE s == request[r]
<1>1. s \in Request /\ s.pc = "rows" /\ UNCHANGED <<table, age>>
  BY DEF TypeOK, KeysArrive
<1>2. PICK t : t = [s EXCEPT !.pc = "look"]
  OBVIOUS
<1>3. /\ t.pc = "look" /\ t.user = s.user /\ t.refresh = s.refresh
      /\ t.seen = s.seen /\ t.served = s.served
  BY <1>1, <1>2 DEF Request
<1>4. Become(r, t) \/ Become(r, Idle)
  BY <1>2 DEF KeysArrive
<1>5. CASE Become(r, t)
  <2>1. Drawn(t) = Promise!NoKeys /\ Listing(s) /\ Listing(t)
    BY <1>1, <1>3 DEF Drawn, Listing
  <2>2. /\ Lists[r].open
        /\ Lists' = [Lists EXCEPT ![r].drawn = Promise!NoKeys]
        /\ Changes' = Changes
    BY <1>3, <1>5, <2>1, DrawnStep
  <2>3. Promise!Get(r)
    BY <1>1, <2>2 DEF Promise!Get
  <2>4. QED
    BY <2>3 DEF Kept, Promise!Next
<1>6. QED
  BY <1>1, <1>4, <1>5, EndStep

-----------------------------------------------------------------------------
(* Every step.                                                             *)

LEMMA ServeKept ==
    ASSUME TypeOK, IInv, Serialised, [Next]_vars, NEW r \in Requests, Serve(r)
    PROVE  Kept
<1> DEFINE s == request[r]
<1>1. s \in Request /\ RequestInv(s) /\ WellFormed(s)
  BY DEF TypeOK, IInv, RequestInv
<1> HIDE DEF s
\* A list that goes on without serving anything.
<1>2. ASSUME NEW t, Become(r, t), Listing(s), Listing(t), UNCHANGED <<table, age>>,
             s.pc # "rows", t.pc # "rows",
             t.user = s.user, t.refresh = s.refresh, t.seen = s.seen, t.served = s.served
      PROVE  Kept
  BY <1>2, QuietStep DEF View, Drawn, Told, Listing, s
<1>3. CASE Probe(r)
  <2>1. PICK t : t = [s EXCEPT !.pc = "upsert", !.left = 0]
    OBVIOUS
  <2>2. t.pc = "upsert"
    BY <1>1, <2>1 DEF Request
  <2>3. (Become(r, t) \/ Become(r, Idle)) /\ s.pc = "probe" /\ UNCHANGED <<table, age>>
    BY <1>3, <2>1 DEF Probe, s
  <2>4. View(t) = View(s) /\ Told(t) = Told(s)
    BY <2>2, <2>3 DEF View, Told, Listing
  <2>5. QED
    BY <2>3, <2>4, QuietStep, EndStep DEF s
<1>4. CASE Upsert(r)
  <2>1. s.pc = "upsert" /\ s.key \in Keys
    BY <1>1, <1>4 DEF Upsert, WellFormed, s
  <2>2. QED
    BY <1>4, <2>1, WriteKept DEF Upsert, s
<1>5. CASE DeleteRow(r)
  <2>1. AfterDelete(s) = AfterUpsert(s)
    BY DEF AfterDelete, AfterUpsert
  <2>2. QED
    BY <1>5, <2>1, WriteKept, EndStep DEF DeleteRow, s
<1>6. CASE Purge(r) \/ Respond(r)
  BY <1>6, EndStep DEF Purge, Respond
<1>7. CASE ReadKeys(r)
  BY <1>7, ReadKeysKept
<1>8. CASE Hit(r)
  <2> DEFINE y == <<s.user, Current(s)>>
             item == [user |-> cache[y].user, provider |-> Current(s), key |-> cache[y].key]
  <2>1. /\ s.pc = "look" /\ s.todo # {} /\ Live(y) /\ Become(r, Serving(s, item))
        /\ UNCHANGED <<table, age>>
    BY <1>8 DEF Hit, UseCache, Slot, s
  <2>2. y \in Rows /\ y[1] = s.user /\ Current(s) \in Providers
    BY <1>1, <2>1, CurrentKey
  <2>3. cache[y] \in Entry /\ cache[y].user = s.user
    BY <2>1, <2>2 DEF TypeOK, IInv, RowInv, Live
  <2>4. item \in Item /\ item.user = s.user
    BY <2>2, <2>3 DEF Item, Entry
  <2> HIDE DEF item
  <2>5. QED
    BY <2>1, <2>4, ServingKept DEF s
<1>9. CASE Miss(r)
  <2>1. PICK t : t = [s EXCEPT !.pc = "fetch", !.left = FetchLimit]
    OBVIOUS
  <2>2. /\ t.pc = "fetch" /\ t.user = s.user /\ t.refresh = s.refresh
        /\ t.seen = s.seen /\ t.served = s.served
    BY <1>1, <2>1 DEF Request
  <2>3. Become(r, t) /\ s.pc = "look" /\ UNCHANGED <<table, age>>
    BY <1>9, <2>1 DEF Miss, s
  <2>4. QED
    BY <1>2, <2>2, <2>3 DEF Listing
<1>10. CASE FetchAnswers(r)
  <2> DEFINE p == Current(s)
             item == [user |-> s.user, provider |-> p, key |-> s.keys[p]]
  <2>1. /\ s.pc = "fetch" /\ Become(r, Serving(s, item)) /\ UNCHANGED <<table, age>>
    BY <1>10 DEF FetchAnswers, s
  <2>2. s.todo # {}
    BY <1>1, <2>1 DEF WellFormed
  <2>3. item \in Item /\ item.user = s.user
    BY <1>1, <2>2, CurrentKey DEF Item
  <2> HIDE DEF item
  <2>4. QED
    BY <2>1, <2>2, <2>3, ServingKept DEF s
<1>11. CASE FetchFails(r)
  <2>1. PICK t : t = Skipping(s)
    OBVIOUS
  <2>2. /\ t.pc = "look" /\ t.user = s.user /\ t.refresh = s.refresh
        /\ t.seen = s.seen /\ t.served = s.served
    BY <1>1, <2>1 DEF Skipping, Request
  <2>3. Become(r, t) /\ s.pc = "fetch" /\ UNCHANGED <<table, age>>
    BY <1>11, <2>1 DEF FetchFails, s
  <2>4. QED
    BY <1>2, <2>2, <2>3 DEF Listing
<1>12. CASE KeysArrive(r)
  BY <1>12, KeysArriveKept
<1>13. QED
  BY <1>3, <1>4, <1>5, <1>6, <1>7, <1>8, <1>9, <1>10, <1>11, <1>12 DEF Serve

\* The keys on their way are those the lists have drawn and not got.
LEMMA OnItsWayShows ==
    ASSUME NEW x \in Rows, NEW k \in Keys
    PROVE  OnItsWay(x, k) <=> Promise!OnItsWay(x, k)
<1>1. ASSUME NEW q \in Requests
      PROVE  /\ request[q].pc = "rows" /\ request[q].user = x[1] /\ request[q].keys[x[2]] = k
             <=> Lists[q].open /\ Lists[q].user = x[1] /\ Lists[q].drawn[x[2]] = k
  <2>1. Lists[q] = View(request[q]) /\ x[2] \in Providers /\ k # NoKey
    BY Views, CatalogAssumption DEF Rows
  <2>2. Promise!NoKeys[x[2]] = NoKey
    BY <2>1 DEF Promise!NoKeys
  <2>3. CASE request[q].pc = "rows"
    BY <2>1, <2>3 DEF View, Drawn, Listing
  <2>4. CASE request[q].pc # "rows"
    BY <2>1, <2>2, <2>4 DEF View, Drawn, Promise!Closed
  <2>5. QED
    BY <2>3, <2>4
<1>2. QED
  BY <1>1 DEF OnItsWay, Promise!OnItsWay

\* A tick leaves every list as it is and makes replaced keys older.
LEMMA TickKept ==
    ASSUME TypeOK, Tick
    PROVE  Kept
<1>1. ASSUME NEW q \in Requests
      PROVE  View(request'[q]) = View(request[q]) /\ Told(request'[q]) = Told(request[q])
  <2>1. request'[q] = Elapsed(request[q]) /\ request[q] \in Request
    BY DEF Tick, TypeOK
  <2>2. PICK t : t = request'[q]
    OBVIOUS
  <2>3. /\ t.pc = request[q].pc /\ t.user = request[q].user /\ t.refresh = request[q].refresh
        /\ t.provider = request[q].provider /\ t.replaced = request[q].replaced
        /\ t.seen = request[q].seen /\ t.served = request[q].served
        /\ t.keys = request[q].keys
    BY <2>1, <2>2 DEF Elapsed, Request
  <2>4. QED
    BY <2>2, <2>3 DEF View, Drawn, Told, Listing
<1>2. Lists' = Lists /\ Changes' = Changes
  BY <1>1, Views
<1>3. ASSUME NEW x \in Rows, NEW k \in Keys
      PROVE  (IF age[x][k] < AgeCap THEN age[x][k] + 1 ELSE AgeCap)
               = IF age[x][k] <= StaleBound THEN age[x][k] + 1 ELSE age[x][k]
  <2>1. age[x][k] \in 0..AgeCap
    BY DEF TypeOK
  <2>2. QED
    BY <2>1, BoundsAreNat DEF AgeCap
<1>4. age' = [x \in Rows |-> [k \in Keys |->
                 IF table[x] = k \/ Promise!OnItsWay(x, k) THEN 0
                 ELSE IF age[x][k] <= StaleBound THEN age[x][k] + 1 ELSE age[x][k]]]
  BY <1>3, OnItsWayShows DEF Tick
<1>5. Promise!Pass
  BY <1>2, <1>4 DEF Promise!Pass, Tick, Rows
<1>6. QED
  BY <1>5 DEF Kept, Promise!Next

LEMMA NextKept ==
    ASSUME TypeOK, IInv, Serialised, [Next]_vars
    PROVE  Kept
\* A request that begins to register or to delete shows nothing yet.
<1>1. ASSUME NEW r \in Requests, NEW t, Become(r, t), request[r].pc = "idle",
             t.pc \in {"probe", "delete"}, UNCHANGED <<table, age>>
      PROVE  Kept
  <2>1. View(t) = View(request[r]) /\ Told(t) = Told(request[r])
    BY <1>1 DEF View, Told, Listing
  <2>2. QED
    BY <1>1, <2>1, QuietStep
<1>2. ASSUME NEW r \in Requests, NEW u \in Users, NEW p \in Providers, NEW k \in Keys,
             Register(r, u, p, k)
      PROVE  Kept
  <2>1. PICK t : t = [Idle EXCEPT !.pc = "probe", !.user = u, !.provider = p, !.key = k,
                                  !.left = FetchLimit]
    OBVIOUS
  <2>2. t.pc = "probe"
    BY <2>1 DEF Idle
  <2>3. QED
    BY <1>1, <1>2, <2>1, <2>2 DEF Register
<1>3. ASSUME NEW r \in Requests, NEW u \in Users, NEW p \in Providers, Delete(r, u, p)
      PROVE  Kept
  <2>1. PICK t : t = [Idle EXCEPT !.pc = "delete", !.user = u, !.provider = p]
    OBVIOUS
  <2>2. t.pc = "delete"
    BY <2>1 DEF Idle
  <2>3. QED
    BY <1>1, <1>3, <2>1, <2>2 DEF Delete
<1>4. ASSUME UNCHANGED <<table, request, age>>
      PROVE  Kept
  <2>1. {} \in SUBSET Requests
    OBVIOUS
  <2>2. QED
    BY <1>4, <2>1, OverStep
<1>5. ASSUME NEW rotated \in BOOLEAN, Restart(rotated)
      PROVE  Kept
  <2>1. UNCHANGED <<table, age>> /\ \A q \in Requests : request'[q] = Idle
    BY <1>5 DEF Restart
  <2>2. Requests \in SUBSET Requests
    OBVIOUS
  <2>3. QED
    BY <2>1, <2>2, IdleView, OverStep
<1>6. CASE Cleanup \/ UNCHANGED vars
  BY <1>4, <1>6 DEF Cleanup, vars
<1>7. QED
  BY <1>2, <1>3, <1>5, <1>6, ListKept, ServeKept, TickKept DEF Next

LEMMA InitKept == Init => Promise!Init
<1> SUFFICES ASSUME Init PROVE Promise!Init
  OBVIOUS
<1>1. Lists = [r \in Requests |-> Promise!Closed] /\ Changes = [r \in Requests |-> {}]
  BY Views, IdleView DEF Init
<1>2. QED
  BY <1>1 DEF Init, Promise!Init, Rows, AgeCap

\* Keys, cache, purges and lists together implement the registers and the reads
\* of KeyRegister (ai_model.go:28-58, user_api_key.go:50-96, cache.go:37-75).
THEOREM Implements == Spec => ImplementsKeyRegister
<1>1. Init => Promise!Init
  BY InitKept
<1>2. TypeOK /\ IInv /\ Serialised /\ [Next]_vars => [Promise!Next]_(Promise!kvars)
  BY NextKept DEF Kept
<1>3. CASE ~Overlap /\ ~Unconfirmed
  <2>1. Spec => []SerialInv
    BY <1>3, SerialInvariant
  <2>2. SerialInv => Serialised
    BY DEF Serialised
  <2>3. QED
    BY <1>1, <1>2, <2>1, <2>2, Invariant, PTL
      DEF Spec, ImplementsKeyRegister, Promise!Spec
<1>4. CASE ~(~Overlap /\ ~Unconfirmed)
  <2>1. Serialised
    BY <1>4 DEF Serialised
  <2>2. TypeOK /\ IInv /\ [Next]_vars => [Promise!Next]_(Promise!kvars)
    BY <1>2, <2>1
  <2>3. QED
    BY <1>1, <2>2, Invariant, PTL DEF Spec, ImplementsKeyRegister, Promise!Spec
<1>5. QED
  BY <1>3, <1>4
=============================================================================
