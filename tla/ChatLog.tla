------------------------------ MODULE ChatLog ------------------------------
(***************************************************************************)
(* What Create and CreateMessage promise, apart from transactions, locks   *)
(* and connections: a chat appears once, with its updated_at; a message    *)
(* and the touch of its chat's updated_at appear together and once.  A     *)
(* caller that is told "ok" has its row; one that is told "failed" may     *)
(* still have it, now or later.                                            *)
(***************************************************************************)
CONSTANTS Requests, Chats, Never, Absent

VARIABLES
    made,       \* the calls whose chat is stored
    posted,     \* the calls whose message is stored
    touchedBy,  \* per chat the call that set updated_at last
    verdict     \* what the caller was told

lvars == <<made, posted, touchedBy, verdict>>

Init ==
    /\ made = {} /\ posted = {}
    /\ touchedBy \in [Chats -> {Never, Absent}]
    /\ verdict = [r \in Requests |-> "pending"]

\* A row becomes visible, at the latest when its caller is told "ok".
Store(r, c) ==
    /\ r \notin made \cup posted
    /\ verdict[r] # "ok"
    /\ touchedBy' = [touchedBy EXCEPT ![c] = r]
    /\ \/ UNCHANGED verdict
       \/ verdict[r] = "pending" /\ verdict' = [verdict EXCEPT ![r] = "ok"]

Make(r, c) ==
    /\ touchedBy[c] = Absent
    /\ Store(r, c)
    /\ made' = made \cup {r}
    /\ UNCHANGED posted

Post(r, c) ==
    /\ touchedBy[c] # Absent
    /\ Store(r, c)
    /\ posted' = posted \cup {r}
    /\ UNCHANGED made

Fail(r) ==
    /\ verdict[r] = "pending"
    /\ verdict' = [verdict EXCEPT ![r] = "failed"]
    /\ UNCHANGED <<made, posted, touchedBy>>

Next ==
    \E r \in Requests : Fail(r) \/ \E c \in Chats : Make(r, c) \/ Post(r, c)

Spec == Init /\ [][Next]_lvars
=============================================================================
