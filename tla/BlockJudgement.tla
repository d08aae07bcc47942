--------------------------- MODULE BlockJudgement ---------------------------
(* What a consensus engine and its validator promise together: every block  *)
(* takes the steps of its judgement one by one, each once, and the chain    *)
(* head moves only to a block that has taken all of them.                   *)
CONSTANT Ids

VARIABLES
    fate,       \* how far the judgement of each block has come
    good,       \* the known blocks whose consensus data is as it should be
    head        \* the chain head

\* The blocks of the chain at startup are committed, the others are not known.
Init ==
    /\ fate \in [Ids -> {"unknown", "committed"}]
    /\ good \subseteq Ids
    /\ head \in Ids /\ fate[head] = "committed"

Moves(id, from, to) ==
    /\ fate[id] = from
    /\ fate' = [fate EXCEPT ![id] = to]

Arrive(id) ==
    /\ Moves(id, "unknown", "new")
    /\ good' \in {good, good \cup {id}}
    /\ UNCHANGED head

\* The engine looks at the consensus data of a new block,
Check(id) == id \in good /\ Moves(id, "new", "checking") /\ UNCHANGED <<good, head>>
Fail(id)  == id \notin good /\ Moves(id, "new", "failed") /\ UNCHANGED <<good, head>>

\* the validator at the rest of it,
Validate(id) ==
    /\ Moves(id, "checking", "valid") \/ Moves(id, "checking", "invalid")
    /\ UNCHANGED <<good, head>>

\* and the engine chooses between it and the chain.
Choose(id) ==
    /\ Moves(id, "valid", "committing") \/ Moves(id, "valid", "ignored")
    /\ UNCHANGED <<good, head>>

Commit(id) ==
    /\ Moves(id, "committing", "committed")
    /\ head' = id
    /\ UNCHANGED good

Next ==
    \E id \in Ids :
       Arrive(id) \/ Check(id) \/ Fail(id) \/ Validate(id) \/ Choose(id) \/ Commit(id)

Spec == Init /\ [][Next]_<<fate, good, head>>
=============================================================================
