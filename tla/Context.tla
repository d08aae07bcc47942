------------------------------ MODULE Context -------------------------------
(* What a transaction handler sees of the validator through a Context, and *)
(* what the worker makes of the handler's result (processor/context.go,     *)
(* processor/worker.go).  TransactionProcessor models how a call travels;   *)
(* here a call is its reply.                                                *)
(*                                                                         *)
(* The validator (external) gives every transaction a context of its own,  *)
(* runs transactions whose declared addresses meet one after the other, and*)
(* keeps what was written only when the response is OK.  So a handler runs *)
(* in one step of the families' modules, over every combination of replies,*)
(* and one that returns an error changes nothing: it is no step at all.     *)
EXTENDS Integers

\* "lost" stands for every failure of the exchange: the request is not sent, or
\* what comes back has another correlation id (the nil message of a failed
\* receive too), another type or does not unmarshal.
Replies == {"OK", "AUTHORIZATION_ERROR", "lost"}

NoError == "nil"

\* The error of GetState, SetState and DeleteState.
StateError(reply) ==
    CASE reply = "AUTHORIZATION_ERROR" -> "AuthorizationException"
      [] reply = "lost"                -> "error"
      [] OTHER                         -> NoError

\* The replies to the loads of a transaction and to its write: a handler loads
\* first, and makes no further call after a load has failed.
Calls == {c \in [load : Replies, write : Replies] : c.load # "OK" => c.write = "OK"}

NoFailure == [load |-> "OK", write |-> "OK"]

LostCalls == {c \in Calls : "lost" \in {c.load, c.write}}

\* A handler returns the first error it meets.
FirstError(errors) ==
    LET failed == {i \in DOMAIN errors : errors[i] # NoError}
    IN  IF failed = {} THEN NoError
        ELSE errors[CHOOSE i \in failed : \A j \in failed : i <= j]

\* An InvalidTransactionError unless the condition holds.
Require(condition) == IF condition THEN NoError ELSE "InvalidTransactionError"

\* The worker's type switch on the error Apply returned.  A panic is not an
\* error: no goroutine recovers it and the processor ends without a response.
ResponseStatus(err) ==
    CASE err = NoError -> "OK"
      [] err \in {"InvalidTransactionError", "AuthorizationException"} ->
            "INVALID_TRANSACTION"
      [] err \in {"InternalError", "error"} -> "INTERNAL_ERROR"
      [] err = "panic" -> "none"

\* The validator keeps what the transaction wrote (external).
Accepted(err) == ResponseStatus(err) = "OK"
=============================================================================
