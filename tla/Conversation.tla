---------------------------- MODULE Conversation ----------------------------
(***************************************************************************)
(* What the server promises about one exchange, apart from how it is made: *)
(* a prompt is stored, then possibly a reply to it, and the caller is told *)
(* at most one verdict.  "ok" settles that both are stored and "refused"   *)
(* that nothing is; after "failed", or when the server died and no verdict *)
(* came, a row may still appear.                                           *)
(***************************************************************************)
CONSTANT Requests

VARIABLES
    asked,      \* requests whose prompt is stored
    answered,   \* requests whose reply is stored
    told        \* the verdict the caller was given

cvars == <<asked, answered, told>>

Verdicts == {"pending", "ok", "refused", "failed"}

ConversationTypeOK ==
    /\ asked \subseteq Requests
    /\ answered \subseteq Requests
    /\ told \in [Requests -> Verdicts]

Init ==
    /\ asked = {}
    /\ answered = {}
    /\ told = [r \in Requests |-> "pending"]

Unsettled(r) == told[r] \in {"pending", "failed"}

Ask(r) ==
    /\ Unsettled(r)
    /\ r \notin asked
    /\ asked' = asked \cup {r}
    /\ UNCHANGED <<answered, told>>

\* A reply that is stored while the caller waits may come with the verdict.
Answer(r) ==
    /\ Unsettled(r)
    /\ r \in asked \ answered
    /\ answered' = answered \cup {r}
    /\ \/ UNCHANGED told
       \/ told[r] = "pending" /\ told' = [told EXCEPT ![r] = "ok"]
    /\ UNCHANGED asked

Refuse(r) ==
    /\ told[r] = "pending"
    /\ r \notin asked
    /\ told' = [told EXCEPT ![r] = "refused"]
    /\ UNCHANGED <<asked, answered>>

Fail(r) ==
    /\ told[r] = "pending"
    /\ told' = [told EXCEPT ![r] = "failed"]
    /\ UNCHANGED <<asked, answered>>

Next == \E r \in Requests : Ask(r) \/ Answer(r) \/ Refuse(r) \/ Fail(r)

Spec == Init /\ [][Next]_cvars
=============================================================================
