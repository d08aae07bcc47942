----------------------- MODULE MCTransactionProcessor -----------------------
(* TransactionProcessor on small instances.                                *)
EXTENDS TransactionProcessor, TLC

Symmetry == Permutations(Workers) \cup Permutations(Requests \ BadRequests)
=============================================================================
