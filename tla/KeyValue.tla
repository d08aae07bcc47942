------------------------------ MODULE KeyValue ------------------------------
(* What intkey promises: a bounded integer per name, set once, then moved by*)
(* increments and decrements that stay in range.                            *)
EXTENDS Integers

CONSTANTS Names, MAX_VALUE

VARIABLE values     \* by name, -1 while the name has not been set

Init == values = [n \in Names |-> -1]

Set(n, v) ==
    /\ values[n] = -1
    /\ values' = [values EXCEPT ![n] = v]

Move(n, v) ==
    /\ values[n] # -1
    /\ values' = [values EXCEPT ![n] = v]

Next == \E n \in Names, v \in 0..MAX_VALUE : Set(n, v) \/ Move(n, v)

Spec == Init /\ [][Next]_values
=============================================================================
