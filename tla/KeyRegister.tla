---------------------------- MODULE KeyRegister ----------------------------
(***************************************************************************)
(* What the server promises about API keys and model lists, apart from how *)
(* it keeps them: no cache, no provider calls, no purge.  Every user and   *)
(* provider has a register that holds a key.  A list of models is a read   *)
(* of all registers of its user, spread over time: it draws the keys, gets *)
(* them at any time later, and serves models of each.  It may be stale,    *)
(* but by no more than Bound ticks since the key was held, or drawn by a   *)
(* list that was yet to get it; with refresh, or while Strict, it is a     *)
(* regular read: of a key held since the list arrived, or of one whose     *)
(* replacement had not been acknowledged when it did.                      *)
(***************************************************************************)
EXTENDS Integers

CONSTANTS
    Users, Providers, Keys, NoUser, NoKey,
    Requests,   \* requests that change a register or list the models
    Bound,      \* ticks a list may be behind
    Strict      \* TRUE: every list is a regular read

VARIABLES
    held,       \* the key in each register, or NoKey
    age,        \* ticks since a key was last held, or on its way to a list
    change,     \* change[r]: what r has written, until r is told so
    list        \* list[r]: the list r is preparing

kvars == <<held, age, change, list>>

NoKeys == [p \in Providers |-> NoKey]

Closed == [open |-> FALSE, user |-> NoUser, refresh |-> FALSE, drawn |-> NoKeys,
           seen |-> [p \in Providers |-> {}], served |-> {}]

Init ==
    /\ held = [x \in Users \X Providers |-> NoKey]
    /\ age = [x \in Users \X Providers |-> [k \in Keys |-> Bound + 1]]
    /\ change = [r \in Requests |-> {}]
    /\ list = [r \in Requests |-> Closed]

-----------------------------------------------------------------------------
\* The register of u and p gets k; the lists of u that are open may tell.
Put(u, p, k) ==
    /\ held' = [held EXCEPT ![<<u, p>>] = k]
    /\ age' = IF k = NoKey THEN age ELSE [age EXCEPT ![<<u, p>>][k] = 0]
    /\ list' = [r \in Requests |->
                  IF list[r].open /\ list[r].user = u
                  THEN [list[r] EXCEPT !.seen[p] = @ \cup {k}]
                  ELSE list[r]]

\* The caller is still to be told.
Change(r, u, p, k) ==
    /\ change[r] = {}
    /\ Put(u, p, k)
    /\ change' = [change EXCEPT ![r] =
                    {[user |-> u, provider |-> p, key |-> held[u, p]]}]

\* The caller is told that the change failed.
ChangeUnconfirmed(u, p, k) ==
    /\ Put(u, p, k)
    /\ UNCHANGED change

\* Keys whose replacement is not acknowledged yet.
Overwritten(u, p) ==
    {w.key : w \in {v \in UNION {change[r] : r \in Requests} :
                        v.user = u /\ v.provider = p}}

Open(r, u, refresh) ==
    /\ ~ list[r].open
    /\ list' = [list EXCEPT ![r] =
                  [open |-> TRUE, user |-> u, refresh |-> refresh,
                   drawn |-> NoKeys, served |-> {},
                   seen |-> [p \in Providers |-> {held[u, p]} \cup Overwritten(u, p)]]]
    /\ UNCHANGED <<held, age, change>>

\* The list draws keys that its user's registers hold now, not always all.
Draw(r) ==
    /\ list[r].open
    /\ \E keys \in [Providers -> Keys \cup {NoKey}] :
          /\ \A p \in Providers : keys[p] \in {held[list[r].user, p], NoKey}
          /\ list' = [list EXCEPT ![r].drawn = keys]
    /\ UNCHANGED <<held, age, change>>

\* What it drew has reached it.
Get(r) ==
    /\ list[r].open
    /\ list' = [list EXCEPT ![r].drawn = NoKeys]
    /\ UNCHANGED <<held, age, change>>

\* The models of one provider, those that key k gives access to.
Serve(r, p, k) ==
    LET l == list[r] IN
    /\ l.open
    /\ l.seen[p] \cap Keys # {}
    /\ age[l.user, p][k] <= Bound
    /\ l.refresh \/ Strict => k \in l.seen[p]
    /\ list' = [list EXCEPT ![r].served =
                  @ \cup {[user |-> l.user, provider |-> p, key |-> k]}]
    /\ UNCHANGED <<held, age, change>>

\* The requests in S are answered, or die.
Over(S) ==
    /\ list' = [r \in Requests |-> IF r \in S THEN Closed ELSE list[r]]
    /\ change' = [r \in Requests |-> IF r \in S THEN {} ELSE change[r]]
    /\ UNCHANGED <<held, age>>

OnItsWay(x, k) ==
    \E r \in Requests : /\ list[r].open
                        /\ list[r].user = x[1]
                        /\ list[r].drawn[x[2]] = k

\* Time passes; how old a key is beyond Bound does not matter.
Pass ==
    /\ age' = [x \in Users \X Providers |-> [k \in Keys |->
                 IF held[x] = k \/ OnItsWay(x, k) THEN 0
                 ELSE IF age[x][k] <= Bound THEN age[x][k] + 1 ELSE age[x][k]]]
    /\ UNCHANGED <<held, change, list>>

Next ==
    \/ \E S \in SUBSET Requests : Over(S)
    \/ \E r \in Requests :
          \/ \E u \in Users, refresh \in BOOLEAN : Open(r, u, refresh)
          \/ Draw(r) \/ Get(r)
          \/ \E p \in Providers, k \in Keys : Serve(r, p, k)
    \/ Pass
    \/ \E u \in Users, p \in Providers, k \in Keys \cup {NoKey} :
          ChangeUnconfirmed(u, p, k) \/ \E r \in Requests : Change(r, u, p, k)

Spec == Init /\ [][Next]_kvars
=============================================================================
