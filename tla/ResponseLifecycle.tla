-------------------------- MODULE ResponseLifecycle --------------------------
(***************************************************************************)
(* What the response store promises, whoever writes to it and whatever     *)
(* crashes: a response is opened once, an idempotency key belongs to at    *)
(* most one response, and a response that was closed stays as it is.       *)
(***************************************************************************)
CONSTANTS
    Responses,  \* response ids
    None,       \* no idempotency key
    KeyOf,      \* response -> the key it was requested with, or None
    Outcomes    \* the statuses a response can be closed with

VARIABLE life   \* response -> "absent", "in_progress" or its outcome

Claimed(r) == KeyOf[r] # None /\ \E q \in Responses : KeyOf[q] = KeyOf[r] /\ life[q] # "absent"

Init == life = [r \in Responses |-> "absent"]

Open(r) ==
    /\ life[r] = "absent"
    /\ ~Claimed(r)
    /\ life' = [life EXCEPT ![r] = "in_progress"]

Close(r, outcome) ==
    /\ life[r] = "in_progress"
    /\ life' = [life EXCEPT ![r] = outcome]

Next == \E r \in Responses : Open(r) \/ \E outcome \in Outcomes : Close(r, outcome)

Spec == Init /\ [][Next]_life
=============================================================================
