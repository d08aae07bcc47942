----------------------------- MODULE Smallbank ------------------------------
(* The smallbank transaction family (examples/smallbank/smallbank_go,       *)
(* handler.go): two unsigned balances per customer.  A customer id hashes to*)
(* an address of its own; the account found there is saved under its id.    *)
EXTENDS Context, FiniteSets

CONSTANTS
    Customers,
    Modulus         \* 2^32, the width of balances and amounts

ASSUME SmallbankAssumption == Modulus \in Nat \ {0} /\ Modulus % 2 = 0

VARIABLE accounts   \* account by customer, for those who have one

Amounts == 0 .. Modulus - 1                             \* uint32
SignedAmounts == -(Modulus \div 2) .. Modulus \div 2 - 1   \* int32

\* Conversion to, and arithmetic in, uint32.
uint32(n) == n % Modulus

\* Go's negation of an int32, which leaves the least value as it is.
Negated(n) == IF n = -(Modulus \div 2) THEN n ELSE -n

\* The error of the loads of a handler: the first, if any.  They all come
\* before its checks, and a stored account always unmarshals.
LoadFailures == {StateError(reply) : reply \in Replies}

\* saveAccount, whose result no handler looks at: all that matters of the reply
\* is whether the validator has recorded the account.
saveAccount(bank, id, account, recorded) ==
    IF recorded
    THEN [c \in DOMAIN bank \cup {id} |-> IF c = id THEN account ELSE bank[c]]
    ELSE bank

\* Apply returned err after it had made the accounts in bank.  The result of
\* saveAccount is nowhere part of err.
Finish(err, bank) == Accepted(err) /\ accounts' = bank

CreateAccount(id, named, savings, checking, load, saved) ==
    Finish(FirstError(<< load,
                         Require(id \notin DOMAIN accounts),
                         Require(named) >>),
           saveAccount(accounts, id,
                       [savings |-> savings, checking |-> checking], saved))

Exists(id) == Require(id \in DOMAIN accounts)

DepositChecking(id, amount, load, saved) ==
    Finish(FirstError(<<load, Exists(id)>>),
           saveAccount(accounts, id,
                       [accounts[id] EXCEPT !.checking = uint32(@ + amount)], saved))

\* No balance is asked for: the subtraction wraps.
WriteCheck(id, amount, load, saved) ==
    Finish(FirstError(<<load, Exists(id)>>),
           saveAccount(accounts, id,
                       [accounts[id] EXCEPT !.checking = uint32(@ - amount)], saved))

\* A slip: the withdrawal is compared with the other balance.
SlipUncovered(id, amount) ==
    amount < 0 /\ uint32(Negated(amount)) > accounts[id].checking

\* A withdrawal that the savings do not cover.
Uncovered(id, amount) ==
    amount < 0 /\ uint32(Negated(amount)) > accounts[id].savings

NewSavings(savings, amount) ==
    uint32(IF amount < 0 THEN savings - uint32(Negated(amount)) ELSE savings + amount)

TransactSavings(id, amount, load, saved) ==
    Finish(FirstError(<< load,
                         Exists(id),
                         Require(id \in DOMAIN accounts => ~Uncovered(id, amount)) >>),
           saveAccount(accounts, id,
                       [accounts[id] EXCEPT !.savings = NewSavings(@, amount)], saved))

\* Both new accounts are made from what was loaded before either is saved.
Transfer(source, dest, newSource, newDest, saved) ==
    saveAccount(saveAccount(accounts, source, newSource, saved[1]),
                dest, newDest, saved[2])

\* A slip: the payment is made whether or not the balance covers it.
SlipSendPayment(source, dest, amount, load, saved) ==
    Finish(FirstError(<< load,
                         Require(source \in DOMAIN accounts /\ dest \in DOMAIN accounts) >>),
           Transfer(source, dest,
                    [accounts[source] EXCEPT !.checking = uint32(@ - amount)],
                    [accounts[dest] EXCEPT !.checking = uint32(@ + amount)],
                    saved))

SendPayment(source, dest, amount, load, saved) ==
    LET both == source \in DOMAIN accounts /\ dest \in DOMAIN accounts
    IN  Finish(FirstError(<< load,
                             Require(both),
                             Require(both => accounts[source].checking >= amount) >>),
               Transfer(source, dest,
                        [accounts[source] EXCEPT !.checking = uint32(@ - amount)],
                        [accounts[dest] EXCEPT !.checking = uint32(@ + amount)],
                        saved))

Amalgamate(source, dest, load, saved) ==
    Finish(FirstError(<< load,
                         Require(source \in DOMAIN accounts /\ dest \in DOMAIN accounts) >>),
           Transfer(source, dest,
                    [accounts[source] EXCEPT !.savings = 0],
                    [accounts[dest] EXCEPT
                        !.checking = uint32(@ + accounts[source].savings)],
                    saved))

\* No account: the partial function with nobody in its domain.
SmallbankInit == accounts = [c \in {} |-> [savings |-> 0, checking |-> 0]]

\* The payload types of smallbank.proto, each with the data of its own type.  A
\* payload that does not unmarshal and one of another type are refused.
SmallbankNext ==
    \/ \E id \in Customers, load \in LoadFailures, saved \in BOOLEAN :
          \/ \E named \in BOOLEAN, savings, checking \in Amounts :
                CreateAccount(id, named, savings, checking, load, saved)
          \/ \E amount \in Amounts : DepositChecking(id, amount, load, saved)
          \/ \E amount \in Amounts : WriteCheck(id, amount, load, saved)
          \/ \E amount \in SignedAmounts : TransactSavings(id, amount, load, saved)
    \/ \E source, dest \in Customers, load \in LoadFailures, saved \in [1..2 -> BOOLEAN] :
          \/ \E amount \in Amounts : SendPayment(source, dest, amount, load, saved)
          \/ Amalgamate(source, dest, load, saved)

SmallbankSpec == SmallbankInit /\ [][SmallbankNext]_accounts
-----------------------------------------------------------------------------
(* Properties.                                                             *)

\* What a customer owns in a bank, 0 without an account.
Worth(bank, c) ==
    IF c \in DOMAIN bank THEN bank[c].savings + bank[c].checking ELSE 0

\* The amount leaves the source and reaches the checking balance of the
\* destination, which loses 2^32 if it overflows; nobody else is affected.
Moved(source, dest, amount) ==
    LET lost == IF accounts[dest].checking + amount < Modulus THEN 0 ELSE Modulus
    IN  /\ Worth(accounts', source) = Worth(accounts, source) - amount
        /\ Worth(accounts', dest) = Worth(accounts, dest) + amount - lost
        /\ \A c \in Customers \ {source, dest} :
              Worth(accounts', c) = Worth(accounts, c)

\* A payment or an amalgamation between two customers whose writes the
\* validator recorded takes exactly the amount from the one, without wrapping,
\* and adds exactly that to what the other owns, unless the checking balance of
\* the other does not hold the sum (applySendPayment, applyAmalgamate).
Conserves(source, dest) ==
    LET saved == <<TRUE, TRUE>> IN
    source # dest =>
       /\ \A amount \in Amounts :
             SendPayment(source, dest, amount, NoError, saved)
             => Moved(source, dest, amount)
       /\ Amalgamate(source, dest, NoError, saved)
          => Moved(source, dest, accounts[source].savings)

TransfersConserve == [][\A source, dest \in Customers : Conserves(source, dest)]_accounts

\* A withdrawal from savings takes the amount that was asked for and never
\* wraps, the least int32 included, whose negation overflows.
Withdraws(id, amount) ==
    (TransactSavings(id, amount, NoError, TRUE) /\ accounts' # accounts)
    => accounts'[id].savings = accounts[id].savings + amount

WithdrawalsExact ==
    [][\A id \in Customers, amount \in {a \in SignedAmounts : a < 0} :
          Withdraws(id, amount)]_accounts
=============================================================================
