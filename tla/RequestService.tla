--------------------------- MODULE RequestService ---------------------------
(* What a transaction processor promises the validator: on a connection it *)
(* serves, a request is answered once, and none is lost but those it cannot *)
(* handle.  When it stops serving it may lose what it has not answered.     *)
CONSTANTS
    Requests,
    BadRequests     \* those that end a worker without an answer

VARIABLES
    serving,        \* from the start of a connection to its shutdown
    open,           \* requests sent and neither answered nor lost
    answered

Init == serving = FALSE /\ open = {} /\ answered = {}

Connect ==
    /\ ~serving
    /\ serving' = TRUE /\ open' = {} /\ answered' = {}

Request(r) ==
    /\ r \notin open \cup answered
    /\ open' = open \cup {r}
    /\ UNCHANGED <<serving, answered>>

Answer(r) ==
    /\ serving /\ r \in open
    /\ open' = open \ {r} /\ answered' = answered \cup {r}
    /\ UNCHANGED serving

Drop(r) ==
    /\ r \in BadRequests /\ r \in open
    /\ open' = open \ {r}
    /\ UNCHANGED <<serving, answered>>

\* The processor shuts down, or has done so.
Lose ==
    /\ serving' = FALSE
    /\ open' \subseteq open
    /\ UNCHANGED answered

Next ==
    \/ Connect \/ Lose
    \/ \E r \in Requests : Request(r) \/ Answer(r) \/ Drop(r)

Spec == Init /\ [][Next]_<<serving, open, answered>>
=============================================================================
