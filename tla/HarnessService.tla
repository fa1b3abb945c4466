--------------------------- MODULE HarnessService ---------------------------
(***************************************************************************)
(* What the command queue of a harness promises to those who use it,       *)
(* whatever threads and queue are behind it: a service that is open until  *)
(* it is shut, accepts a request only while it is open, and gives every    *)
(* accepted request exactly one answer.  A request is a public call made   *)
(* by an application thread or a sync hook dispatched by the event loop.   *)
(***************************************************************************)
CONSTANT Requests

VARIABLES
    open,    \* the service accepts requests
    state    \* what became of each request

svars == <<open, state>>

Answers == {"value", "error", "cancelled", "undelivered"}

STypeOK ==
    /\ open \in BOOLEAN
    /\ state \in [Requests -> {"new", "accepted", "refused"} \cup Answers]

SInit == open = TRUE /\ state = [r \in Requests |-> "new"]

Becomes(r, s) == state' = [state EXCEPT ![r] = s] /\ UNCHANGED open

Accept(r) == open /\ state[r] = "new" /\ Becomes(r, "accepted")

Refuse(r) == ~open /\ state[r] = "new" /\ Becomes(r, "refused")

\* The request ran, or whoever made it withdrew it.
Answer(r) ==
    /\ state[r] = "accepted"
    /\ \E a \in {"value", "error", "cancelled"} : Becomes(r, a)

\* Only a service that was shut may drop the result of an accepted request.
Abandon(r) == ~open /\ state[r] = "accepted" /\ Becomes(r, "undelivered")

Shut == open /\ open' = FALSE /\ UNCHANGED state

SNext == Shut \/ \E r \in Requests : Accept(r) \/ Refuse(r) \/ Answer(r) \/ Abandon(r)

\* Once the service is shut, every accepted request gets its answer.
SFairness == \A r \in Requests : WF_svars(~open /\ (Answer(r) \/ Abandon(r)))

SSafety == SInit /\ [][SNext]_svars

SSpec == SSafety /\ SFairness
=============================================================================
