----------------------------- MODULE MCFamilies -----------------------------
(* The families on small instances: names that share an address, one that   *)
(* does not, names that are refused, and a whole board for one game.        *)
EXTENDS Families, TLC

CONSTANTS n1, n2, n3, long, a1, a2, g1, g2, barred

\* Below, within and above the range.
Values == {-1, 0, 1, 2, 4}

IntkeyAddress == n1 :> a1 @@ n2 :> a1 @@ n3 :> a2 @@ long :> a2

XoAddress == g1 :> a1 @@ g2 :> a1 @@ barred :> a1

\* The whole board for g1; a space off the board and the middle for the others.
XoSpaces == g1 :> 1..9 @@ g2 :> {0, 5} @@ barred :> {5}

Symmetry == Permutations(Players) \cup Permutations(Customers)
=============================================================================
