--------------------------- MODULE FamiliesProofs ---------------------------
(* Theorems about the transaction families, for any names, addresses, hash, *)
(* customers, players and width of balances.                                *)
EXTENDS Families, FiniteSetTheorems, TLAPS

(* Errors of handlers.                                                      *)

\* A set of natural numbers that is not empty has a least member.
LEMMA LeastIndex ==
    ASSUME NEW S, S \subseteq Nat, S # {}
    PROVE  \E i \in S : \A j \in S : i <= j
<1>1. IsWellFoundedOn(OpToRel(<, Nat), Nat)
  BY NatLessThanWellFounded
<1>2. PICK i \in S : \A j \in S : ~(<<j, i>> \in OpToRel(<, Nat))
  BY <1>1, WFMin, Zenon
<1>3. \A j \in S : ~(j < i)
  BY <1>2, Zenon DEF OpToRel
<1> QED BY <1>3

\* FirstError is NoError exactly when all results are, and is otherwise the
\* result before which there is no error.
LEMMA FirstErrorIs ==
    ASSUME NEW X, NEW e \in Seq(X)
    PROVE  \/ FirstError(e) = NoError /\ \A i \in DOMAIN e : e[i] = NoError
           \/ \E i \in DOMAIN e : /\ FirstError(e) = e[i]
                                  /\ e[i] # NoError
                                  /\ \A j \in DOMAIN e : j < i => e[j] = NoError
<1> DEFINE failed == {i \in DOMAIN e : e[i] # NoError}
           least(i) == \A j \in failed : i <= j
           first == CHOOSE i \in failed : least(i)
<1>1. CASE failed = {}
  BY <1>1 DEF FirstError
<1>2. CASE failed # {}
  <2>1. FirstError(e) = e[first]
    BY <1>2 DEF FirstError
  <2>2. failed \subseteq Nat
    OBVIOUS
  <2>3. \E i \in failed : least(i)
    <3> HIDE DEF failed
    <3> QED BY <1>2, <2>2, LeastIndex, Zenon
  <2>4. first \in failed /\ least(first)
    <3> HIDE DEF failed, least
    <3> QED BY <2>3, Zenon
  <2>5. \A j \in DOMAIN e : j < first => e[j] = NoError
    <3> HIDE DEF first
    <3> QED BY <2>4
  <2> HIDE DEF first
  <2> QED BY <2>1, <2>4, <2>5
<1> QED BY <1>1, <1>2

\* The first error of two sequences of checks, one after the other.
LEMMA FirstErrorConcat ==
    ASSUME NEW X, NEW s \in Seq(X), NEW t \in Seq(X)
    PROVE  FirstError(s \o t) = IF FirstError(s) = NoError THEN FirstError(t) ELSE FirstError(s)
<1> DEFINE e == s \o t
<1>0. e \in Seq(X)
  OBVIOUS
<1>1. /\ DOMAIN e = 1 .. Len(s) + Len(t)
      /\ DOMAIN s = 1 .. Len(s) /\ DOMAIN t = 1 .. Len(t) /\ Len(s) \in Nat /\ Len(t) \in Nat
      /\ \A i \in DOMAIN s : i \in DOMAIN e /\ e[i] = s[i]
      /\ \A i \in DOMAIN t : Len(s) + i \in DOMAIN e /\ e[Len(s) + i] = t[i]
      /\ \A i \in DOMAIN e : i \notin DOMAIN s => i - Len(s) \in DOMAIN t /\ e[i] = t[i - Len(s)]
  OBVIOUS
<1> HIDE DEF e
<1>2. CASE \A i \in DOMAIN s : s[i] = NoError
  <2>1. FirstError(s) = NoError
    BY <1>2, FirstErrorIs
  <2>2. CASE \A i \in DOMAIN t : t[i] = NoError
    <3>1. \A i \in DOMAIN e : e[i] = NoError
      BY <1>1, <1>2, <2>2
    <3> QED BY <1>0, <2>1, <2>2, <3>1, FirstErrorIs, Zenon DEF e
  <2>3. CASE ~\A i \in DOMAIN t : t[i] = NoError
    <3>1. PICK i \in DOMAIN t : /\ FirstError(t) = t[i] /\ t[i] # NoError
                                /\ \A j \in DOMAIN t : j < i => t[j] = NoError
      BY <2>3, FirstErrorIs
    <3>2. ~\A k \in DOMAIN e : e[k] = NoError
      BY <1>1, <3>1
    <3>3. PICK k \in DOMAIN e : /\ FirstError(e) = e[k] /\ e[k] # NoError
                                /\ \A j \in DOMAIN e : j < k => e[j] = NoError
      BY <1>0, <3>2, FirstErrorIs
    <3>4. k = Len(s) + i
      BY <1>1, <1>2, <3>1, <3>3, SMTT(30)
    <3> QED BY <1>1, <2>1, <3>1, <3>3, <3>4 DEF e
  <2> QED BY <2>2, <2>3
<1>3. CASE ~\A i \in DOMAIN s : s[i] = NoError
  <2>1. PICK i \in DOMAIN s : /\ FirstError(s) = s[i] /\ s[i] # NoError
                              /\ \A j \in DOMAIN s : j < i => s[j] = NoError
    BY <1>3, FirstErrorIs
  <2>2. ~\A k \in DOMAIN e : e[k] = NoError
    BY <1>1, <2>1
  <2>3. PICK k \in DOMAIN e : /\ FirstError(e) = e[k] /\ e[k] # NoError
                              /\ \A j \in DOMAIN e : j < k => e[j] = NoError
    BY <1>0, <2>2, FirstErrorIs
  <2>4. k = i
    BY <1>1, <2>1, <2>3
  <2> QED BY <1>1, <2>1, <2>3, <2>4 DEF e
<1> QED BY <1>2, <1>3

\* The first error of a handler that makes one check.
LEMMA FirstErrorOne ==
    ASSUME NEW a
    PROVE  FirstError(<<a>>) = a
<1> DEFINE e == <<a>>
<1>1. e \in Seq({a}) /\ DOMAIN e = 1..1 /\ e[1] = a
  OBVIOUS
<1> HIDE DEF e
<1>2. FirstError(e) = a
  BY <1>1, FirstErrorIs
<1> QED BY <1>2 DEF e

\* The first error of a handler that makes three checks.
LEMMA FirstErrorThree ==
    ASSUME NEW a, NEW b, NEW c
    PROVE  FirstError(<<a, b, c>>) = IF a # NoError THEN a ELSE IF b # NoError THEN b ELSE c
<1> DEFINE e == <<a, b, c>>
<1>1. e \in Seq({a, b, c}) /\ DOMAIN e = 1..3 /\ e[1] = a /\ e[2] = b /\ e[3] = c
  OBVIOUS
<1> HIDE DEF e
<1>2. FirstError(e) = IF a # NoError THEN a ELSE IF b # NoError THEN b ELSE c
  BY <1>1, FirstErrorIs
<1> QED BY <1>2 DEF e

Errors == {"InvalidTransactionError", "InternalError", "AuthorizationException",
           "error", "panic"}

Results == Errors \cup {NoError}

\* The results of a handler's checks are errors that ResponseStatus knows.
LEMMA CheckResults ==
    /\ \A reply : StateError(reply) \in Results
    /\ \A c : Require(c) \in Results
    /\ \A c \in BOOLEAN : Require(c) = NoError <=> c
<1>1. \A reply : StateError(reply) \in Results
  BY Zenon DEF StateError, Results, Errors, NoError
<1>2. \A c : Require(c) \in Results
  BY Zenon DEF Require, Results, Errors, NoError
<1>3. \A c \in BOOLEAN : Require(c) = NoError <=> c
  BY Zenon DEF Require, NoError
<1> QED BY <1>1, <1>2, <1>3

\* A transaction is accepted only when every check passed.
LEMMA AcceptedMeansNoError ==
    ASSUME NEW e \in Seq(Results), Accepted(FirstError(e))
    PROVE  \A i \in DOMAIN e : e[i] = NoError
<1>1. SUFFICES ASSUME FirstError(e) # NoError PROVE FALSE
  BY FirstErrorIs
<1>2. FirstError(e) \in Errors
  BY <1>1, FirstErrorIs DEF Results
<1> QED BY <1>2 DEF Accepted, ResponseStatus, NoError, Errors
-----------------------------------------------------------------------------
(* Intkey.                                                                  *)

\* What a transaction that is applied has passed, and what it stores.
LEMMA AppliedPayload ==
    ASSUME IntkeyTypeOK, NEW p \in Payloads, IntkeyApply(p)
    PROVE  LET a == AddressOf[p.name]
           IN  /\ a \in Addresses
               /\ WellFormed(p)
               /\ Applicable(p, stored[a])
               /\ stored' = [stored EXCEPT ![a] = Updated(p, stored[a])]
<1> DEFINE a == AddressOf[p.name]
<1>1. p.name \in Names /\ a \in Addresses
  BY IntkeyAssumption DEF Payloads
<1>2. PICK calls \in Calls, addressed \in BOOLEAN :
         /\ Accepted(IntkeyError(p, calls, addressed))
         /\ stored' = [stored EXCEPT ![a] = Updated(p, @)]
  BY Zenon DEF IntkeyApply
<1> DEFINE e == << Require(WellFormed(p)),
                   StateError(calls.load),
                   Require(WellFormed(p) => Applicable(p, stored[a])),
                   StateError(calls.write),
                   IF addressed THEN NoError ELSE "InternalError" >>
<1>3. Accepted(FirstError(e))
  BY <1>2, Zenon DEF IntkeyError
<1>4. WellFormed(p) \in BOOLEAN /\ (WellFormed(p) => Applicable(p, stored[a])) \in BOOLEAN
  BY Zenon DEF WellFormed, Applicable
<1>5. e \in Seq(Results) /\ DOMAIN e = 1..5
  <2>1. (IF addressed THEN NoError ELSE "InternalError") \in Results
    BY DEF Results, Errors
  <2> QED BY <2>1, CheckResults
<1>6. e[1] = Require(WellFormed(p))
      /\ e[3] = Require(WellFormed(p) => Applicable(p, stored[a]))
  OBVIOUS
<1> HIDE DEF e
<1>7. e[1] = NoError /\ e[3] = NoError
  BY <1>3, <1>5, AcceptedMeansNoError
<1>8. WellFormed(p) /\ Applicable(p, stored[a])
  BY <1>4, <1>6, <1>7, CheckResults, Zenon
<1> QED BY <1>1, <1>2, <1>8

\* The new value is in range, and the other names at the address keep theirs.
LEMMA UpdatedMap ==
    ASSUME IntkeyTypeOK, NEW p \in Payloads, WellFormed(p),
           NEW map, \A n \in DOMAIN map : map[n] \in 0..MAX_VALUE, Applicable(p, map)
    PROVE  /\ NewValue(p, map) \in 0..MAX_VALUE
           /\ DOMAIN Updated(p, map) = DOMAIN map \cup {p.name}
           /\ Updated(p, map)[p.name] = NewValue(p, map)
           /\ \A n \in DOMAIN map \ {p.name} : Updated(p, map)[n] = map[n]
<1>1. p.value \in Int /\ MAX_VALUE \in Nat /\ p.verb \in Verbs
  BY IntkeyAssumption, Zenon DEF Payloads, WellFormed
<1>2. NewValue(p, map) \in 0..MAX_VALUE
  <2>1. CASE p.verb = "set"
    BY <1>1, <2>1 DEF NewValue, WellFormed
  <2>2. CASE p.verb # "set"
    BY <1>1, <2>2 DEF NewValue, WellFormed, Applicable, Verbs
  <2> QED BY <2>1, <2>2
<1> QED BY <1>2 DEF Updated

\* Every stored map holds names of its own address with values in range.
THEOREM IntkeyTypeCorrect == IntkeySpec => []IntkeyTypeOK
<1>1. IntkeyInit => IntkeyTypeOK
  BY DEF IntkeyInit, IntkeyTypeOK, NoMap
<1>2. IntkeyTypeOK /\ [IntkeyNext]_stored => IntkeyTypeOK'
  <2>1. CASE UNCHANGED stored
    BY <2>1, Zenon DEF IntkeyTypeOK
  <2>2. ASSUME IntkeyTypeOK, NEW p \in Payloads, IntkeyApply(p)
        PROVE  IntkeyTypeOK'
    <3> DEFINE a == AddressOf[p.name]
               map == stored[a]
    <3>1. /\ a \in Addresses
          /\ WellFormed(p)
          /\ Applicable(p, map)
          /\ stored' = [stored EXCEPT ![a] = Updated(p, map)]
      BY <2>2, AppliedPayload
    <3>2. /\ DOMAIN map \subseteq {n \in Names \ LongNames : AddressOf[n] = a}
          /\ \A n \in DOMAIN map : map[n] \in 0..MAX_VALUE
      BY <2>2, <3>1 DEF IntkeyTypeOK
    <3>3. /\ NewValue(p, map) \in 0..MAX_VALUE
          /\ DOMAIN Updated(p, map) = DOMAIN map \cup {p.name}
          /\ Updated(p, map)[p.name] = NewValue(p, map)
          /\ \A n \in DOMAIN map \ {p.name} : Updated(p, map)[n] = map[n]
      BY <2>2, <3>1, <3>2, UpdatedMap, ZenonT(30)
    <3>4. p.name \in Names \ LongNames
      BY <3>1 DEF Payloads, WellFormed
    <3>5. DOMAIN stored' = Addresses
      BY <2>2, <3>1 DEF IntkeyTypeOK
    <3>6. stored'[a] = Updated(p, map)
          /\ \A b \in Addresses \ {a} : stored'[b] = stored[b]
      BY <2>2, <3>1 DEF IntkeyTypeOK
    <3> SUFFICES ASSUME NEW b \in Addresses
                 PROVE  /\ DOMAIN stored'[b] \subseteq {n \in Names \ LongNames : AddressOf[n] = b}
                        /\ \A n \in DOMAIN stored'[b] : stored'[b][n] \in 0..MAX_VALUE
      BY <3>5 DEF IntkeyTypeOK
    <3>7. CASE b = a
      BY <3>2, <3>3, <3>4, <3>6, <3>7
    <3>8. CASE b # a
      BY <2>2, <3>6, <3>8 DEF IntkeyTypeOK
    <3> QED BY <3>7, <3>8
  <2> QED BY <2>1, <2>2 DEF IntkeyNext
<1> QED BY <1>1, <1>2, PTL DEF IntkeySpec

\* Names that hash to one address do not disturb each other: every transaction
\* that changes the maps changes the value of one name, as KeyValue allows, so
\* intkey implements KeyValue whatever the hash.
THEOREM IntkeyRefinesKeyValue == IntkeySpec => IntkeyIsKeyValue
<1>1. IntkeyInit => KV!Init
  BY IntkeyAssumption DEF IntkeyInit, KV!Init, ValueOf, NoMap
<1>2. IntkeyTypeOK /\ [IntkeyNext]_stored => [KV!Next]_ValueOf
  <2>1. CASE UNCHANGED stored
    BY <2>1 DEF ValueOf
  <2>2. ASSUME IntkeyTypeOK, NEW p \in Payloads, IntkeyApply(p)
        PROVE  KV!Next
    <3> DEFINE a == AddressOf[p.name]
               map == stored[a]
               v == NewValue(p, map)
    <3>1. /\ a \in Addresses
          /\ WellFormed(p)
          /\ Applicable(p, map)
          /\ stored' = [stored EXCEPT ![a] = Updated(p, map)]
      BY <2>2, AppliedPayload
    <3>2. \A n \in DOMAIN map : map[n] \in 0..MAX_VALUE
      BY <2>2, <3>1, Zenon DEF IntkeyTypeOK
    <3>3. /\ v \in 0..MAX_VALUE
          /\ DOMAIN Updated(p, map) = DOMAIN map \cup {p.name}
          /\ Updated(p, map)[p.name] = v
          /\ \A n \in DOMAIN map \ {p.name} : Updated(p, map)[n] = map[n]
      BY <2>2, <3>1, <3>2, UpdatedMap, Zenon
    <3>4. p.name \in Names
      BY DEF Payloads
    <3>5. stored'[a] = Updated(p, map)
          /\ \A b \in Addresses \ {a} : stored'[b] = stored[b]
      BY <2>2, <3>1 DEF IntkeyTypeOK
    <3>6. ASSUME NEW n \in Names
          PROVE  ValueOf'[n] = IF n = p.name THEN v ELSE ValueOf[n]
      <4>1. AddressOf[n] \in Addresses
        BY IntkeyAssumption, Zenon
      <4>2. CASE AddressOf[n] = a
        BY <3>3, <3>5, <4>2 DEF ValueOf
      <4>3. CASE AddressOf[n] # a
        BY <3>5, <4>1, <4>3 DEF ValueOf
      <4> QED BY <4>2, <4>3
    <3>7. ValueOf' = [ValueOf EXCEPT ![p.name] = v]
      BY <3>6, Zenon DEF ValueOf
    <3>8. KV!Set(p.name, v) \/ KV!Move(p.name, v)
      BY <3>7 DEF KV!Set, KV!Move
    <3> QED BY <3>3, <3>4, <3>8, Zenon DEF KV!Next
  <2> QED BY <2>1, <2>2 DEF IntkeyNext
<1> QED BY <1>1, <1>2, IntkeyTypeCorrect, PTL DEF IntkeySpec, IntkeyIsKeyValue, KV!Spec

\* The status of a transaction is OK exactly without an error.
LEMMA Statuses ==
    /\ ResponseStatus("error") = "INTERNAL_ERROR"
    /\ \A err \in Errors : ResponseStatus(err) # "OK"
<1>1. ResponseStatus("error") = "INTERNAL_ERROR"
  BY DEF ResponseStatus, NoError
<1>2. ASSUME NEW err \in Errors PROVE ResponseStatus(err) # "OK"
  BY DEF ResponseStatus, NoError, Errors
<1> QED BY <1>1, <1>2

\* A lost reply is the error of the load, or of the write after a good load.
LEMMA LostReplies ==
    ASSUME NEW calls \in LostCalls
    PROVE  \/ StateError(calls.load) = "error"
           \/ StateError(calls.load) = NoError /\ StateError(calls.write) = "error"
<1>1. calls \in Calls /\ (calls.load = "lost" \/ calls.write = "lost")
  BY DEF LostCalls
<1>2. calls.load = "lost" \/ (calls.load = "OK" /\ calls.write = "lost")
  BY <1>1 DEF Calls
<1>3. StateError("lost") = "error" /\ StateError("OK") = NoError
  BY DEF StateError, NoError
<1> QED BY <1>2, <1>3

\* A failed exchange with the validator makes intkey answer INTERNAL_ERROR, or
\* what it would have answered without it, but never OK.
THEOREM IntkeyLossesAreRetried == IntkeySpec => []IntkeyLossesRetried
<1>1. ASSUME NEW p \in Payloads, NEW calls \in LostCalls
      PROVE  ResponseStatus(IntkeyError(p, calls, TRUE)) \in
                {ResponseStatus(IntkeyError(p, NoFailure, TRUE)), "INTERNAL_ERROR"} \ {"OK"}
  <2> DEFINE r == Require(WellFormed(p))
             q == Require(WellFormed(p) => Applicable(p, stored[AddressOf[p.name]]))
             Err(load, write) == FirstError(<<r, load, q, write, NoError>>)
  <2>1. r \in Results /\ q \in Results
    BY CheckResults
  <2>2. /\ IntkeyError(p, calls, TRUE) = Err(StateError(calls.load), StateError(calls.write))
        /\ IntkeyError(p, NoFailure, TRUE) = Err(NoError, NoError)
    <3>1. StateError(NoFailure.load) = NoError /\ StateError(NoFailure.write) = NoError
      BY DEF NoFailure, StateError, NoError
    <3> QED BY <3>1 DEF IntkeyError
  <2> HIDE DEF r, q
  <2>3. ASSUME NEW load, NEW write
        PROVE  Err(load, write) = IF r # NoError THEN r ELSE IF load # NoError THEN load
                                  ELSE IF q # NoError THEN q ELSE write
    <3> DEFINE e == <<r, load, q, write, NoError>>
    <3>1. /\ e \in Seq({r, load, q, write, NoError}) /\ DOMAIN e = 1..5
          /\ e[1] = r /\ e[2] = load /\ e[3] = q /\ e[4] = write /\ e[5] = NoError
      OBVIOUS
    <3> HIDE DEF e
    <3>2. FirstError(e) = IF r # NoError THEN r ELSE IF load # NoError THEN load
                          ELSE IF q # NoError THEN q ELSE write
      BY <3>1, FirstErrorIs
    <3> QED BY <3>2 DEF e
  <2> HIDE DEF Err
  <2>4. "error" # NoError
    BY DEF NoError
  <2>5. \/ IntkeyError(p, calls, TRUE) = "error"
        \/ IntkeyError(p, calls, TRUE) \in Errors
           /\ IntkeyError(p, calls, TRUE) = IntkeyError(p, NoFailure, TRUE)
    BY <2>1, <2>2, <2>3, <2>4, LostReplies, Zenon DEF Results
  <2> QED BY <2>5, Statuses, Zenon
<1>2. IntkeyLossesRetried
  BY <1>1, Zenon DEF IntkeyLossesRetried
<1> QED BY <1>2, PTL
-----------------------------------------------------------------------------
(* Smallbank.                                                               *)

Account == [savings : Amounts, checking : Amounts]

BankOK(bank) ==
    /\ DOMAIN bank \subseteq Customers
    /\ \A c \in DOMAIN bank : bank[c] \in Account

\* The inductive invariant of smallbank.
BankInv == BankOK(accounts)

\* The modulus is positive and even.
LEMMA Width ==
    /\ Modulus \in Nat \ {0}
    /\ Modulus = 2 * (Modulus \div 2)
    /\ Modulus \div 2 \in Nat \ {0}
  BY SmallbankAssumption

\* Arithmetic of uint32: a result in range, wrapped at most once.
LEMMA Wrapped ==
    ASSUME NEW n \in Int
    PROVE  /\ uint32(n) \in Amounts
           /\ n \in Amounts => uint32(n) = n
           /\ n - Modulus \in Amounts => uint32(n) = n - Modulus
           /\ n + Modulus \in Amounts => uint32(n) = n + Modulus
  BY SmallbankAssumption DEF uint32, Amounts

\* saveAccount of an account keeps the bank well typed.
LEMMA Saved ==
    ASSUME NEW bank, BankOK(bank), NEW id \in Customers, NEW account \in Account,
           NEW recorded
    PROVE  BankOK(saveAccount(bank, id, account, recorded))
  BY DEF BankOK, saveAccount

\* What a load can come to is among the results, and may be no error.
LEMMA LoadResults == LoadFailures \subseteq Results /\ NoError \in LoadFailures
<1>1. LoadFailures \subseteq Results
  BY CheckResults DEF LoadFailures
<1>2. StateError("OK") = NoError
  BY DEF StateError, NoError
<1> QED BY <1>1, <1>2 DEF LoadFailures, Replies

\* What a handler with one, or two, checks after its loads has passed.
LEMMA FinishedTwo ==
    ASSUME NEW load \in LoadFailures, NEW c \in BOOLEAN, NEW ACTION bank,
           Finish(FirstError(<<load, Require(c)>>), bank)
    PROVE  c /\ accounts' = bank
<1> DEFINE e == <<load, Require(c)>>
<1>1. e \in Seq(Results) /\ DOMAIN e = 1..2 /\ e[2] = Require(c)
  BY LoadResults, CheckResults
<1>2. Accepted(FirstError(e)) /\ accounts' = bank
  BY Zenon DEF Finish
<1> HIDE DEF e
<1>3. e[2] = NoError
  BY <1>1, <1>2, AcceptedMeansNoError
<1> QED BY <1>1, <1>2, <1>3, CheckResults, Zenon

\* A handler that finishes after a load and two checks passed both checks.
LEMMA FinishedThree ==
    ASSUME NEW load \in LoadFailures, NEW c \in BOOLEAN, NEW d \in BOOLEAN,
           NEW ACTION bank,
           Finish(FirstError(<<load, Require(c), Require(d)>>), bank)
    PROVE  c /\ d /\ accounts' = bank
<1> DEFINE e == <<load, Require(c), Require(d)>>
<1>1. /\ e \in Seq(Results) /\ DOMAIN e = 1..3
      /\ e[2] = Require(c) /\ e[3] = Require(d)
  BY LoadResults, CheckResults
<1>2. Accepted(FirstError(e)) /\ accounts' = bank
  BY Zenon DEF Finish
<1> HIDE DEF e
<1>3. e[2] = NoError /\ e[3] = NoError
  BY <1>1, <1>2, AcceptedMeansNoError
<1> QED BY <1>1, <1>2, <1>3, CheckResults, Zenon

\* The balances of a stored account are amounts.
LEMMA AccountFields ==
    ASSUME NEW bank, BankOK(bank), NEW id \in DOMAIN bank
    PROVE  /\ id \in Customers /\ bank[id] \in Account
           /\ bank[id].savings \in Amounts /\ bank[id].checking \in Amounts
           /\ bank[id].savings \in Int /\ bank[id].checking \in Int
  BY DEF BankOK, Account, Amounts

\* What the operations that were accepted store.
LEMMA Deposited ==
    ASSUME NEW id, NEW amount, NEW load \in LoadFailures, NEW saved,
           DepositChecking(id, amount, load, saved)
    PROVE  /\ id \in DOMAIN accounts
           /\ accounts' = saveAccount(accounts, id,
                 [accounts[id] EXCEPT !.checking = uint32(@ + amount)], saved)
<1> DEFINE bank == saveAccount(accounts, id,
                 [accounts[id] EXCEPT !.checking = uint32(@ + amount)], saved)
           known == id \in DOMAIN accounts
<1>1. Finish(FirstError(<<load, Require(known)>>), bank)
  BY Zenon DEF DepositChecking, Exists
<1>2. known \in BOOLEAN
  OBVIOUS
<1> HIDE DEF bank, known
<1>3. known /\ accounts' = bank
  BY <1>1, <1>2, FinishedTwo
<1> QED BY <1>3 DEF bank, known

\* What a WriteCheck that finishes did to the accounts.
LEMMA Checked ==
    ASSUME NEW id, NEW amount, NEW load \in LoadFailures, NEW saved,
           WriteCheck(id, amount, load, saved)
    PROVE  /\ id \in DOMAIN accounts
           /\ accounts' = saveAccount(accounts, id,
                 [accounts[id] EXCEPT !.checking = uint32(@ - amount)], saved)
<1> DEFINE bank == saveAccount(accounts, id,
                 [accounts[id] EXCEPT !.checking = uint32(@ - amount)], saved)
           known == id \in DOMAIN accounts
<1>1. Finish(FirstError(<<load, Require(known)>>), bank)
  BY Zenon DEF WriteCheck, Exists
<1>2. known \in BOOLEAN
  OBVIOUS
<1> HIDE DEF bank, known
<1>3. known /\ accounts' = bank
  BY <1>1, <1>2, FinishedTwo
<1> QED BY <1>3 DEF bank, known

\* What a CreateAccount that finishes did to the accounts.
LEMMA Created ==
    ASSUME NEW id, NEW named \in BOOLEAN, NEW savings, NEW checking,
           NEW load \in LoadFailures, NEW saved,
           CreateAccount(id, named, savings, checking, load, saved)
    PROVE  accounts' = saveAccount(accounts, id,
                          [savings |-> savings, checking |-> checking], saved)
<1> DEFINE bank == saveAccount(accounts, id,
                          [savings |-> savings, checking |-> checking], saved)
<1>1. Finish(FirstError(<<load, Require(id \notin DOMAIN accounts), Require(named)>>), bank)
  BY Zenon DEF CreateAccount
<1> HIDE DEF bank
<1>2. accounts' = bank
  BY <1>1, FinishedThree, Zenon
<1> QED BY <1>2 DEF bank

\* What a TransactSavings that finishes did to the accounts, and that it was covered.
LEMMA Transacted ==
    ASSUME NEW id, NEW amount, NEW load \in LoadFailures, NEW saved,
           TransactSavings(id, amount, load, saved)
    PROVE  /\ id \in DOMAIN accounts
           /\ ~Uncovered(id, amount)
           /\ accounts' = saveAccount(accounts, id,
                 [accounts[id] EXCEPT !.savings = NewSavings(@, amount)], saved)
<1> DEFINE bank == saveAccount(accounts, id,
                 [accounts[id] EXCEPT !.savings = NewSavings(@, amount)], saved)
           known == id \in DOMAIN accounts
           covered == known => ~Uncovered(id, amount)
<1>1. Finish(FirstError(<<load, Require(known), Require(covered)>>), bank)
  BY Zenon DEF TransactSavings, Exists
<1>2. known \in BOOLEAN /\ covered \in BOOLEAN
  OBVIOUS
<1> HIDE DEF bank, known, covered
<1>3. known /\ covered /\ accounts' = bank
  BY <1>1, <1>2, FinishedThree
<1> QED BY <1>3 DEF bank, known, covered

\* What a SendPayment that finishes did to the accounts, and that it was covered.
LEMMA Paid ==
    ASSUME NEW source, NEW dest, NEW amount, NEW load \in LoadFailures, NEW saved,
           SendPayment(source, dest, amount, load, saved)
    PROVE  /\ source \in DOMAIN accounts /\ dest \in DOMAIN accounts
           /\ accounts[source].checking >= amount
           /\ accounts' = Transfer(source, dest,
                 [accounts[source] EXCEPT !.checking = uint32(@ - amount)],
                 [accounts[dest] EXCEPT !.checking = uint32(@ + amount)], saved)
<1> DEFINE both == source \in DOMAIN accounts /\ dest \in DOMAIN accounts
           covered == both => accounts[source].checking >= amount
           bank == Transfer(source, dest,
                 [accounts[source] EXCEPT !.checking = uint32(@ - amount)],
                 [accounts[dest] EXCEPT !.checking = uint32(@ + amount)], saved)
<1>1. Finish(FirstError(<<load, Require(both), Require(covered)>>), bank)
  BY Zenon DEF SendPayment
<1>2. both \in BOOLEAN /\ covered \in BOOLEAN
  BY Zenon
<1> HIDE DEF bank, covered, both
<1>3. both /\ covered /\ accounts' = bank
  BY <1>1, <1>2, FinishedThree
<1> QED BY <1>3 DEF bank, covered, both

\* What an Amalgamate that finishes did to the accounts.
LEMMA Amalgamated ==
    ASSUME NEW source, NEW dest, NEW load \in LoadFailures, NEW saved,
           Amalgamate(source, dest, load, saved)
    PROVE  /\ source \in DOMAIN accounts /\ dest \in DOMAIN accounts
           /\ accounts' = Transfer(source, dest,
                 [accounts[source] EXCEPT !.savings = 0],
                 [accounts[dest] EXCEPT !.checking = uint32(@ + accounts[source].savings)],
                 saved)
<1> DEFINE both == source \in DOMAIN accounts /\ dest \in DOMAIN accounts
           bank == Transfer(source, dest,
                 [accounts[source] EXCEPT !.savings = 0],
                 [accounts[dest] EXCEPT !.checking = uint32(@ + accounts[source].savings)],
                 saved)
<1>1. Finish(FirstError(<<load, Require(both)>>), bank)
  BY Zenon DEF Amalgamate
<1>2. both \in BOOLEAN
  BY Zenon
<1> HIDE DEF bank, both
<1>3. both /\ accounts' = bank
  BY <1>1, <1>2, FinishedTwo
<1> QED BY <1>3 DEF bank, both

\* Saving the two accounts of a transfer keeps the bank well typed.
LEMMA TransferOK ==
    ASSUME BankOK(accounts), NEW source \in Customers, NEW dest \in Customers,
           NEW newSource \in Account, NEW newDest \in Account, NEW saved
    PROVE  BankOK(Transfer(source, dest, newSource, newDest, saved))
<1> DEFINE first == saveAccount(accounts, source, newSource, saved[1])
<1>1. BankOK(first)
  BY Saved
<1> HIDE DEF first
<1>2. BankOK(saveAccount(first, dest, newDest, saved[2]))
  BY <1>1, Saved
<1> QED BY <1>2 DEF first, Transfer

\* The savings after a TransactSavings are an amount.
LEMMA NewSavingsInRange ==
    ASSUME NEW savings \in Amounts, NEW amount \in SignedAmounts
    PROVE  NewSavings(savings, amount) \in Amounts
<1>1. savings \in Int /\ amount \in Int /\ Negated(amount) \in Int
  BY Width DEF Amounts, SignedAmounts, Negated
<1>2. uint32(Negated(amount)) \in Amounts
  BY <1>1, Wrapped
<1>3. uint32(Negated(amount)) \in Int
  BY <1>2 DEF Amounts
<1>4. (IF amount < 0 THEN savings - uint32(Negated(amount)) ELSE savings + amount) \in Int
  BY <1>1, <1>3, SMTT(30)
<1> QED BY <1>4, Wrapped DEF NewSavings

\* The balances stay within their 32 bits, whatever is paid in, paid out,
\* transferred or lost on the way to the validator.
LEMMA BankHeld == SmallbankSpec => []BankInv
<1>1. SmallbankInit => BankInv
  BY DEF SmallbankInit, BankInv, BankOK
<1>2. BankInv /\ [SmallbankNext]_accounts => BankInv'
  <2> SUFFICES ASSUME BankOK(accounts), [SmallbankNext]_accounts PROVE BankOK(accounts')
    BY DEF BankInv, BankOK
  <2>1. CASE UNCHANGED accounts
    BY <2>1
  <2>2. ASSUME NEW id \in Customers, NEW load \in LoadFailures, NEW saved \in BOOLEAN,
               NEW named \in BOOLEAN, NEW savings \in Amounts, NEW checking \in Amounts,
               CreateAccount(id, named, savings, checking, load, saved)
        PROVE  BankOK(accounts')
    <3>1. [savings |-> savings, checking |-> checking] \in Account
      BY DEF Account
    <3> QED BY <2>2, <3>1, Created, Saved
  <2>3. ASSUME NEW id \in Customers, NEW load \in LoadFailures, NEW saved \in BOOLEAN,
               NEW amount \in Amounts, DepositChecking(id, amount, load, saved)
        PROVE  BankOK(accounts')
    <3> DEFINE new == [accounts[id] EXCEPT !.checking = uint32(@ + amount)]
    <3>1. id \in DOMAIN accounts /\ accounts' = saveAccount(accounts, id, new, saved)
      BY <2>3, Deposited, Zenon
    <3>2. accounts[id] \in Account /\ accounts[id].checking + amount \in Int
      BY <3>1, AccountFields DEF Amounts
    <3>3. new \in Account
      BY <3>2, Wrapped DEF Account
    <3> HIDE DEF new
    <3> QED BY <3>1, <3>3, Saved
  <2>4. ASSUME NEW id \in Customers, NEW load \in LoadFailures, NEW saved \in BOOLEAN,
               NEW amount \in Amounts, WriteCheck(id, amount, load, saved)
        PROVE  BankOK(accounts')
    <3> DEFINE new == [accounts[id] EXCEPT !.checking = uint32(@ - amount)]
    <3>1. id \in DOMAIN accounts /\ accounts' = saveAccount(accounts, id, new, saved)
      BY <2>4, Checked, Zenon
    <3>2. accounts[id] \in Account /\ accounts[id].checking - amount \in Int
      BY <3>1, AccountFields DEF Amounts
    <3>3. new \in Account
      BY <3>2, Wrapped DEF Account
    <3> HIDE DEF new
    <3> QED BY <3>1, <3>3, Saved
  <2>5. ASSUME NEW id \in Customers, NEW load \in LoadFailures, NEW saved \in BOOLEAN,
               NEW amount \in SignedAmounts, TransactSavings(id, amount, load, saved)
        PROVE  BankOK(accounts')
    <3> DEFINE new == [accounts[id] EXCEPT !.savings = NewSavings(@, amount)]
    <3>1. id \in DOMAIN accounts /\ accounts' = saveAccount(accounts, id, new, saved)
      BY <2>5, Transacted
    <3>2. accounts[id] \in Account /\ NewSavings(accounts[id].savings, amount) \in Amounts
      BY <3>1, AccountFields, NewSavingsInRange
    <3>3. new \in Account
      BY <3>2 DEF Account
    <3> HIDE DEF new
    <3> QED BY <3>1, <3>3, Saved
  <2>6. ASSUME NEW source \in Customers, NEW dest \in Customers, NEW load \in LoadFailures,
               NEW saved \in [1..2 -> BOOLEAN], NEW amount \in Amounts,
               SendPayment(source, dest, amount, load, saved)
        PROVE  BankOK(accounts')
    <3> DEFINE newSource == [accounts[source] EXCEPT !.checking = uint32(@ - amount)]
               newDest == [accounts[dest] EXCEPT !.checking = uint32(@ + amount)]
    <3>1. /\ source \in DOMAIN accounts /\ dest \in DOMAIN accounts
          /\ accounts' = Transfer(source, dest, newSource, newDest, saved)
      BY <2>6, Paid, Zenon
    <3>2. /\ accounts[source] \in Account /\ accounts[source].checking - amount \in Int
          /\ accounts[dest] \in Account /\ accounts[dest].checking + amount \in Int
      BY <3>1, AccountFields DEF Amounts
    <3>3. newSource \in Account /\ newDest \in Account
      BY <3>2, Wrapped DEF Account
    <3> HIDE DEF newSource, newDest
    <3> QED BY <3>1, <3>3, TransferOK
  <2>7. ASSUME NEW source \in Customers, NEW dest \in Customers, NEW load \in LoadFailures,
               NEW saved \in [1..2 -> BOOLEAN], Amalgamate(source, dest, load, saved)
        PROVE  BankOK(accounts')
    <3> DEFINE newSource == [accounts[source] EXCEPT !.savings = 0]
               newDest == [accounts[dest] EXCEPT !.checking = uint32(@ + accounts[source].savings)]
    <3>1. /\ source \in DOMAIN accounts /\ dest \in DOMAIN accounts
          /\ accounts' = Transfer(source, dest, newSource, newDest, saved)
      BY <2>7, Amalgamated, Zenon
    <3>2. /\ accounts[source] \in Account /\ 0 \in Amounts
          /\ accounts[dest] \in Account
          /\ accounts[dest].checking + accounts[source].savings \in Int
      BY <3>1, AccountFields, Width DEF Amounts
    <3>3. newSource \in Account /\ newDest \in Account
      BY <3>2, Wrapped, Zenon DEF Account
    <3> HIDE DEF newSource, newDest
    <3> QED BY <3>1, <3>3, TransferOK
  <2> QED BY <2>1, <2>2, <2>3, <2>4, <2>5, <2>6, <2>7, Zenon DEF SmallbankNext
<1> QED BY <1>1, <1>2, PTL DEF SmallbankSpec

\* What was saved last is found again, beside the accounts of the others.
LEMMA TransferResult ==
    ASSUME NEW source, NEW dest, source # dest, NEW newSource, NEW newDest,
           source \in DOMAIN accounts, dest \in DOMAIN accounts
    PROVE  LET bank == Transfer(source, dest, newSource, newDest, <<TRUE, TRUE>>)
           IN  /\ DOMAIN bank = DOMAIN accounts
               /\ bank[source] = newSource /\ bank[dest] = newDest
               /\ \A c \in DOMAIN accounts \ {source, dest} : bank[c] = accounts[c]
  BY DEF Transfer, saveAccount

\* A sum that does not fit is short by the modulus.
LEMMA SumWraps ==
    ASSUME NEW a \in Amounts, NEW b \in Amounts
    PROVE  uint32(a + b) = a + b - (IF a + b < Modulus THEN 0 ELSE Modulus)
<1>1. a \in Nat /\ b \in Nat /\ a < Modulus /\ b < Modulus /\ Modulus \in Nat
  BY Width DEF Amounts
<1>2. CASE a + b < Modulus
  <2>1. a + b \in Amounts
    BY <1>1, <1>2 DEF Amounts
  <2> QED BY <1>1, <1>2, <2>1, Wrapped
<1>3. CASE ~(a + b < Modulus)
  <2>1. (a + b) - Modulus \in Amounts
    BY <1>1, <1>3, SMTT(30) DEF Amounts
  <2> QED BY <1>1, <1>3, <2>1, Wrapped
<1> QED BY <1>2, <1>3

\* A SendPayment both of whose writes are recorded moves the amount.
LEMMA PaymentConserves ==
    ASSUME BankOK(accounts), NEW source \in Customers, NEW dest \in Customers,
           source # dest, NEW amount \in Amounts,
           SendPayment(source, dest, amount, NoError, <<TRUE, TRUE>>)
    PROVE  Moved(source, dest, amount)
<1> DEFINE s == accounts[source]
           t == accounts[dest]
           newSource == [s EXCEPT !.checking = uint32(@ - amount)]
           newDest == [t EXCEPT !.checking = uint32(@ + amount)]
           lost == IF t.checking + amount < Modulus THEN 0 ELSE Modulus
<1>1. /\ source \in DOMAIN accounts /\ dest \in DOMAIN accounts
      /\ s.checking >= amount
      /\ accounts' = Transfer(source, dest, newSource, newDest, <<TRUE, TRUE>>)
  BY LoadResults, Paid, Zenon
<1>2. /\ DOMAIN accounts' = DOMAIN accounts
      /\ accounts'[source] = newSource /\ accounts'[dest] = newDest
      /\ \A c \in DOMAIN accounts \ {source, dest} : accounts'[c] = accounts[c]
  BY <1>1, TransferResult
<1>3. /\ s \in Account /\ s.savings \in Amounts /\ s.checking \in Amounts
      /\ t \in Account /\ t.savings \in Amounts /\ t.checking \in Amounts
  BY <1>1, AccountFields
<1>4. /\ newSource.savings = s.savings /\ newSource.checking = uint32(s.checking - amount)
      /\ newDest.savings = t.savings /\ newDest.checking = uint32(t.checking + amount)
  BY <1>3 DEF Account
<1>5. uint32(t.checking + amount) = t.checking + amount - lost
  BY <1>3, SumWraps
<1>6. /\ s.savings \in Int /\ s.checking \in Int /\ t.savings \in Int /\ t.checking \in Int
      /\ amount \in Int /\ lost \in Int
  BY <1>3, Width DEF Amounts
<1> HIDE DEF newSource, newDest, s, t, lost
<1>7. s.checking - amount \in Amounts /\ s.checking - amount \in Int
  BY <1>1, <1>3, Width DEF Amounts
<1>8. uint32(s.checking - amount) = s.checking - amount
  BY <1>7, Wrapped
<1>9. /\ Worth(accounts', source) = s.savings + (s.checking - amount)
      /\ Worth(accounts', dest) = t.savings + (t.checking + amount - lost)
  BY <1>1, <1>2, <1>4, <1>5, <1>8, ZenonT(30) DEF Worth
<1>10. /\ Worth(accounts, source) = s.savings + s.checking
       /\ Worth(accounts, dest) = t.savings + t.checking
  BY <1>1 DEF Worth, s, t
<1>11. /\ Worth(accounts', source) = Worth(accounts, source) - amount
       /\ Worth(accounts', dest) = Worth(accounts, dest) + amount - lost
  BY <1>6, <1>9, <1>10
<1>12. \A c \in Customers \ {source, dest} : Worth(accounts', c) = Worth(accounts, c)
  BY <1>2, Zenon DEF Worth
<1> QED BY <1>11, <1>12 DEF Moved, lost, t

\* An Amalgamate both of whose writes are recorded moves the savings.
LEMMA AmalgamationConserves ==
    ASSUME BankOK(accounts), NEW source \in Customers, NEW dest \in Customers,
           source # dest, Amalgamate(source, dest, NoError, <<TRUE, TRUE>>)
    PROVE  Moved(source, dest, accounts[source].savings)
<1> DEFINE s == accounts[source]
           t == accounts[dest]
           newSource == [s EXCEPT !.savings = 0]
           newDest == [t EXCEPT !.checking = uint32(@ + s.savings)]
           lost == IF t.checking + s.savings < Modulus THEN 0 ELSE Modulus
<1>1. /\ source \in DOMAIN accounts /\ dest \in DOMAIN accounts
      /\ accounts' = Transfer(source, dest, newSource, newDest, <<TRUE, TRUE>>)
  BY LoadResults, Amalgamated
<1>2. /\ DOMAIN accounts' = DOMAIN accounts
      /\ accounts'[source] = newSource /\ accounts'[dest] = newDest
      /\ \A c \in DOMAIN accounts \ {source, dest} : accounts'[c] = accounts[c]
  BY <1>1, TransferResult
<1>3. /\ s \in Account /\ s.savings \in Amounts /\ s.checking \in Amounts
      /\ t \in Account /\ t.savings \in Amounts /\ t.checking \in Amounts
  BY <1>1, AccountFields
<1>4. /\ newSource.savings = 0 /\ newSource.checking = s.checking
      /\ newDest.savings = t.savings /\ newDest.checking = uint32(t.checking + s.savings)
  BY <1>3 DEF Account
<1>5. uint32(t.checking + s.savings) = t.checking + s.savings - lost
  BY <1>3, SumWraps
<1>6. /\ s.savings \in Int /\ s.checking \in Int /\ t.savings \in Int /\ t.checking \in Int
      /\ lost \in Int
  BY <1>3, Width DEF Amounts
<1> HIDE DEF newSource, newDest, s, t, lost
<1>7. /\ Worth(accounts', source) = 0 + s.checking
      /\ Worth(accounts', dest) = t.savings + (t.checking + s.savings - lost)
  BY <1>1, <1>2, <1>4, <1>5, Zenon DEF Worth
<1>8. /\ Worth(accounts, source) = s.savings + s.checking
      /\ Worth(accounts, dest) = t.savings + t.checking
  BY <1>1 DEF Worth, s, t
<1>9. /\ Worth(accounts', source) = Worth(accounts, source) - s.savings
      /\ Worth(accounts', dest) = Worth(accounts, dest) + s.savings - lost
  BY <1>6, <1>7, <1>8
<1>10. \A c \in Customers \ {source, dest} : Worth(accounts', c) = Worth(accounts, c)
  BY <1>2, Zenon DEF Worth
<1> QED BY <1>9, <1>10 DEF Moved, lost, s, t

\* A transfer, by applySendPayment or applyAmalgamate, that is recorded takes
\* the amount from the one and gives it to the other, short of 2^32 if the
\* balance of the other overflows.
THEOREM TransfersConserved == SmallbankSpec => TransfersConserve
<1>1. BankInv => \A source, dest \in Customers : Conserves(source, dest)
  BY PaymentConserves, AmalgamationConserves DEF Conserves, BankInv
<1> QED BY <1>1, BankHeld, PTL DEF TransfersConserve

\* uint32 of the negation of a negative amount is its absolute value.
LEMMA NegatedWraps ==
    ASSUME NEW amount \in SignedAmounts, amount < 0
    PROVE  uint32(Negated(amount)) = -amount
<1> DEFINE half == Modulus \div 2
<1>1. half \in Nat \ {0} /\ Modulus = 2 * half /\ amount \in Int /\ -half <= amount
  BY Width DEF SignedAmounts
<1> HIDE DEF half
<1>2. CASE amount = -half
  <2>1. Negated(amount) = amount /\ amount + Modulus = -amount /\ amount + Modulus \in Amounts
    BY <1>1, <1>2 DEF Negated, Amounts, half
  <2> QED BY <1>1, <2>1, Wrapped
<1>3. CASE amount # -half
  <2>1. Negated(amount) = -amount /\ -amount \in Amounts /\ -amount \in Int
    BY <1>1, <1>3 DEF Negated, Amounts, half
  <2> QED BY <2>1, Wrapped, SMTT(30)
<1> QED BY <1>2, <1>3

\* transactSavings never wraps on a withdrawal: the savings cover it, also when
\* the amount is the least int32 and its negation overflows.
THEOREM WithdrawalsAreExact == SmallbankSpec => WithdrawalsExact
<1>1. ASSUME BankInv, NEW id \in Customers, NEW amount \in SignedAmounts, amount < 0
      PROVE  Withdraws(id, amount)
  <2> SUFFICES ASSUME TransactSavings(id, amount, NoError, TRUE)
               PROVE  accounts'[id].savings = accounts[id].savings + amount
    BY DEF Withdraws
  <2> DEFINE new == [accounts[id] EXCEPT !.savings = NewSavings(@, amount)]
             savings == accounts[id].savings
  <2>1. /\ id \in DOMAIN accounts /\ ~Uncovered(id, amount)
        /\ accounts' = saveAccount(accounts, id, new, TRUE)
    BY LoadResults, Transacted, Zenon
  <2>2. accounts[id] \in Account /\ savings \in Amounts /\ savings \in Int /\ amount \in Int
    BY <1>1, <2>1, AccountFields, SMTT(30) DEF SignedAmounts, BankInv
  <2>3. new.savings = NewSavings(savings, amount)
    BY <2>2 DEF Account
  <2>4. accounts'[id] = new
    <3> HIDE DEF new
    <3> QED BY <2>1 DEF saveAccount
  <2>5. uint32(Negated(amount)) = -amount
    BY <1>1, NegatedWraps
  <2>6. -amount <= savings
    BY <1>1, <2>1, <2>2, <2>5, SMTT(30) DEF Uncovered
  <2>7. savings + amount \in Amounts /\ savings - (-amount) = savings + amount
    BY <1>1, <2>2, <2>6, Width, SMTT(30) DEF Amounts
  <2>8. NewSavings(savings, amount) = savings + amount
    BY <1>1, <2>2, <2>5, <2>7, Wrapped DEF NewSavings
  <2> QED BY <2>3, <2>4, <2>8
<1>2. BankInv => \A id \in Customers, amount \in {a \in SignedAmounts : a < 0} :
                    Withdraws(id, amount)
  BY <1>1
<1> QED BY <1>2, BankHeld, PTL DEF WithdrawalsExact
-----------------------------------------------------------------------------
(* Xo.                                                                      *)

Letters == {"-", "X", "O"}
States == Ended \cup {"P1-NEXT", "P2-NEXT"}
Game == [board : [1..9 -> Letters], state : States,
         player1 : Players \cup {Nobody}, player2 : Players \cup {Nobody}]

\* The inductive invariant of xo: GamesConsistent, of games that are games.
AddressOK(a, here) ==
    /\ here \in [DOMAIN here -> Game]
    /\ DOMAIN here \subseteq GameNames
    /\ \A n \in DOMAIN here : /\ GameAddressOf[n] = a
                              /\ n \notin BarredNames
                              /\ Consistent(here[n])

XoOK(g) == /\ g = [a \in GameAddresses |-> g[a]]
           /\ \A a \in GameAddresses : AddressOK(a, g[a])

XoInv == XoOK(games)

Marks(board, letter) == {i \in 1..9 : board[i] = letter}

\* The marks of a board are finite in number, at most nine in all, and nine on a full one.
LEMMA Counted ==
    ASSUME NEW board \in [1..9 -> Letters]
    PROVE  /\ \A letter : IsFiniteSet(Marks(board, letter))
           /\ \A letter : Count(board, letter) = Cardinality(Marks(board, letter))
           /\ \A letter : Count(board, letter) \in Nat
           /\ Count(board, "X") + Count(board, "O") <= 9
           /\ (\A i \in 1..9 : board[i] # "-") <=> Count(board, "X") + Count(board, "O") = 9
<1>1. IsFiniteSet(1..9) /\ Cardinality(1..9) = 9
  <2> DEFINE one == 1
             nine == 9
  <2>1. one \in Int /\ nine \in Int /\ ~(one > nine) /\ nine - one + 1 = 9
    OBVIOUS
  <2> HIDE DEF one, nine
  <2>2. IsFiniteSet(one..nine) /\ Cardinality(one..nine) = 9
    BY <2>1, FS_Interval, ZenonT(30)
  <2> QED BY <2>2 DEF one, nine
<1>2. ASSUME NEW letter
      PROVE  /\ IsFiniteSet(Marks(board, letter))
             /\ Count(board, letter) = Cardinality(Marks(board, letter))
             /\ Count(board, letter) \in Nat
  <2>1. Marks(board, letter) \in SUBSET (1..9)
    BY DEF Marks
  <2>2. IsFiniteSet(Marks(board, letter))
    BY <1>1, <2>1, FS_Subset
  <2>3. Count(board, letter) = Cardinality(Marks(board, letter))
    BY DEF Count, Marks
  <2> QED BY <2>2, <2>3, FS_CardinalityType
<1> DEFINE X == Marks(board, "X")
           O == Marks(board, "O")
<1>3. IsFiniteSet(X) /\ IsFiniteSet(O)
  BY <1>2
<1>4. X \cap O = {} /\ X \cup O \in SUBSET (1..9)
  BY DEF Marks
<1>5. (\A i \in 1..9 : board[i] # "-") <=> X \cup O = 1..9
  BY DEF Marks, Letters
<1>6. Count(board, "X") = Cardinality(X) /\ Count(board, "O") = Cardinality(O)
  BY <1>2
<1>7. Cardinality(X) \in Nat /\ Cardinality(O) \in Nat
  BY <1>3, FS_CardinalityType
<1> HIDE DEF X, O
<1>8. Cardinality(X \cup O) = Cardinality(X) + Cardinality(O)
  <2>1. Cardinality(X \cup O) = Cardinality(X) + Cardinality(O) - Cardinality(X \cap O)
    BY <1>3, FS_Union
  <2>2. Cardinality(X \cap O) = 0
    BY <1>4, FS_EmptySet
  <2> QED BY <2>1, <2>2, <1>7
<1>9. /\ Cardinality(X \cup O) <= 9
      /\ Cardinality(X \cup O) = 9 <=> X \cup O = 1..9
  <2> DEFINE all == 1..9
             both == X \cup O
  <2>1. both \in SUBSET all /\ IsFiniteSet(all) /\ Cardinality(all) = 9
    BY <1>1, <1>4
  <2> HIDE DEF all, both
  <2>2. Cardinality(both) <= Cardinality(all) /\ (Cardinality(all) = Cardinality(both) => all = both)
    BY <2>1, FS_Subset
  <2>3. Cardinality(both) <= 9 /\ (Cardinality(both) = 9 <=> both = all)
    BY <2>1, <2>2
  <2> QED BY <2>3 DEF all, both
<1>10. Cardinality(X) + Cardinality(O) <= 9
  BY <1>8, <1>9
<1>11. (\A i \in 1..9 : board[i] # "-") <=> Cardinality(X) + Cardinality(O) = 9
  BY <1>5, <1>8, <1>9, Zenon
<1> QED BY <1>2, <1>6, <1>10, <1>11

\* What a mark on an empty space changes: one more mark of that letter, and
\* nothing for the lines of the other.
LEMMA OneMark ==
    ASSUME NEW board \in [1..9 -> Letters], NEW space \in 1..9, board[space] = "-",
           NEW letter \in {"X", "O"}, NEW other \in {"X", "O"}, letter # other,
           NEW new \in [1..9 -> Letters],
           \A i \in 1..9 : new[i] = IF i = space THEN letter ELSE board[i]
    PROVE  /\ Count(new, letter) = Count(board, letter) + 1
           /\ Count(new, other) = Count(board, other)
           /\ isWin(new, other) <=> isWin(board, other)
<1>3. Marks(new, letter) = Marks(board, letter) \cup {space}
  BY DEF Marks
<1>4. space \notin Marks(board, letter)
  BY DEF Marks
<1>5. Marks(new, other) = Marks(board, other)
  BY DEF Marks
<1>6. Cardinality(Marks(new, letter)) = Cardinality(Marks(board, letter)) + 1
  BY <1>3, <1>4, Counted, FS_AddElement, ZenonT(30)
<1>7. \A i \in 1..9 : new[i] = other <=> board[i] = other
  OBVIOUS
<1>8. \A win \in Wins : win \subseteq 1..9
  BY DEF Wins
<1>9. isWin(new, other) <=> isWin(board, other)
  BY <1>7, <1>8 DEF isWin
<1> QED BY <1>5, <1>6, <1>9, Counted, SMTT(30)

\* A new game is a game, and consistent.
LEMMA NewGameConsistent == NewGame \in Game /\ Consistent(NewGame)
<1>1. NewGame \in Game
  BY DEF NewGame, Game, Letters, States
<1>2. \A letter \in {"X", "O"} : Count(NewGame.board, letter) = 0
  <2> SUFFICES ASSUME NEW letter \in {"X", "O"} PROVE Count(NewGame.board, letter) = 0
    OBVIOUS
  <2>1. {i \in 1..9 : NewGame.board[i] = letter} = {}
    BY DEF NewGame
  <2> QED BY <2>1, FS_EmptySet DEF Count
<1>3. \A letter \in {"X", "O"} : ~isWin(NewGame.board, letter)
  BY DEF isWin, Wins, NewGame
<1>4. NewGame.state = "P1-NEXT" /\ NewGame.player1 = Nobody /\ NewGame.player2 = Nobody
  BY Zenon DEF NewGame
<1> QED BY <1>1, <1>2, <1>3, <1>4 DEF Consistent

\* A mark on an empty space of a game that has not ended.
LEMMA TakenConsistent ==
    ASSUME NEW game \in Game, Consistent(game), NEW player \in Players,
           NEW space \in 1..9, game.board[space] = "-", game.state \notin Ended
    PROVE  /\ Taken(game, player, space) \in Game
           /\ Consistent(Taken(game, player, space))
           /\ \E letter \in {"X", "O"} :
                 Taken(game, player, space).board = [game.board EXCEPT ![space] = letter]
<1> DEFINE seated == Seated(game, player)
           marked == Marked(seated, space)
           taken == Judged(marked)
           letter == IF game.state = "P1-NEXT" THEN "X" ELSE "O"
           other == IF game.state = "P1-NEXT" THEN "O" ELSE "X"
           board == [game.board EXCEPT ![space] = letter]
           x == Count(game.board, "X")
           o == Count(game.board, "O")
           xx == Count(board, "X")
           oo == Count(board, "O")
<1>1. seated \in Game /\ seated.board = game.board /\ seated.state = game.state
  BY DEF Seated, Game
<1>2. /\ seated.player1 = IF game.player1 = Nobody THEN player ELSE game.player1
      /\ seated.player2 = IF game.player1 # Nobody /\ game.player2 = Nobody
                          THEN player ELSE game.player2
  BY DEF Seated, Game
<1>3. game.state \in {"P1-NEXT", "P2-NEXT"} /\ game.board \in [1..9 -> Letters]
  BY DEF Game, States
<1>4. /\ marked \in Game /\ marked.board = board
      /\ marked.state = IF game.state = "P1-NEXT" THEN "P2-NEXT" ELSE "P1-NEXT"
      /\ marked.player1 = seated.player1 /\ marked.player2 = seated.player2
  <2> HIDE DEF seated
  <2> QED BY <1>1, <1>3, Zenon DEF Marked, Game, Letters, States
<1>5. /\ board \in [1..9 -> Letters]
      /\ Count(board, letter) = Count(game.board, letter) + 1
      /\ Count(board, other) = Count(game.board, other)
      /\ isWin(board, other) <=> isWin(game.board, other)
  <2>1. letter \in {"X", "O"} /\ other \in {"X", "O"} /\ letter # other
    OBVIOUS
  <2> DEFINE old == game.board
  <2>2. /\ old \in [1..9 -> Letters] /\ old[space] = "-"
        /\ board \in [1..9 -> Letters]
        /\ \A i \in 1..9 : board[i] = IF i = space THEN letter ELSE old[i]
    BY <1>3, ZenonT(30) DEF Letters
  <2> HIDE DEF letter, other, old, board
  <2>3. /\ Count(board, letter) = Count(old, letter) + 1
        /\ Count(board, other) = Count(old, other)
        /\ isWin(board, other) <=> isWin(old, other)
    BY <2>1, <2>2, OneMark, SMTT(30)
  <2> QED BY <2>2, <2>3 DEF old
<1>6. /\ x \in Nat /\ o \in Nat /\ xx \in Nat /\ oo \in Nat /\ xx + oo <= 9
      /\ (\A i \in 1..9 : board[i] # "-") <=> xx + oo = 9
  <2> HIDE DEF board
  <2> QED BY <1>3, <1>5, Counted
<1>7. /\ taken \in Game /\ taken.board = board
      /\ taken.player1 = marked.player1 /\ taken.player2 = marked.player2
      /\ taken.state = IF isWin(board, "X") THEN "P1-WIN"
                       ELSE IF isWin(board, "O") THEN "P2-WIN"
                       ELSE IF \A i \in 1..9 : board[i] # "-" THEN "TIE"
                       ELSE marked.state
  <2> HIDE DEF marked, board
  <2> QED BY <1>4 DEF Judged, Game, States, Ended
<1>8. player # Nobody
  BY XoAssumption, Zenon
<1>9. /\ game.state = "P1-NEXT" => x = o /\ ~isWin(game.board, "X") /\ ~isWin(game.board, "O") /\ x < 5
      /\ game.state = "P2-NEXT" => x = o + 1 /\ ~isWin(game.board, "X") /\ ~isWin(game.board, "O") /\ x < 5
      /\ game.player1 = Nobody <=> x = 0
      /\ game.player2 = Nobody <=> o = 0
  BY DEF Consistent
<1>10. /\ taken.player1 = IF game.player1 = Nobody THEN player ELSE game.player1
       /\ taken.player2 = IF game.player1 # Nobody /\ game.player2 = Nobody
                          THEN player ELSE game.player2
  <2> HIDE DEF taken, marked, seated, board
  <2> QED BY <1>2, <1>4, <1>7
<1>11. Taken(game, player, space) = taken
  BY Zenon DEF Taken
<1> HIDE DEF taken, xx, oo, x, o, board, marked, seated, letter, other
<1>12. CASE game.state = "P1-NEXT"
  <2>1. letter = "X" /\ other = "O"
    BY <1>12, Zenon DEF letter, other
  <2>2. xx = x + 1 /\ oo = o /\ ~isWin(board, "O") /\ x = o /\ x < 5
    BY <1>5, <1>9, <1>12, <2>1, Zenon DEF xx, oo, x, o
  <2>3. marked.state = "P2-NEXT"
    BY <1>4, <1>12, Zenon
  <2>4. taken.player1 # Nobody /\ (taken.player2 = Nobody <=> oo = 0)
    BY <1>6, <1>8, <1>9, <1>10, <2>2, Zenon
  <2>5. /\ taken.state \in {"P1-WIN", "TIE", "P2-NEXT"}
        /\ taken.state = "P1-WIN" <=> isWin(board, "X")
        /\ taken.state = "TIE" => xx + oo = 9
        /\ taken.state = "P2-NEXT" => xx + oo # 9
    BY <1>6, <1>7, <2>2, <2>3, ZenonT(30)
  <2>6. xx = oo + 1 /\ xx # 0 /\ (xx + oo = 9 => xx = 5 /\ oo = 4) /\ (xx + oo # 9 => xx < 5)
    BY <1>6, <2>2, SMTT(30)
  <2>7. Consistent(taken)
    BY <1>7, <2>2, <2>4, <2>5, <2>6, Zenon DEF Consistent, xx, oo
  <2> QED BY <1>7, <1>11, <2>1, <2>7, Zenon DEF board
<1>13. CASE game.state = "P2-NEXT"
  <2>1. letter = "O" /\ other = "X"
    BY <1>13, ZenonT(30) DEF letter, other
  <2>2. oo = o + 1 /\ xx = x /\ ~isWin(board, "X") /\ x = o + 1 /\ x < 5
    BY <1>5, <1>9, <1>13, <2>1, Zenon DEF xx, oo, x, o
  <2>3. marked.state = "P1-NEXT"
    BY <1>4, <1>13, Zenon
  <2>4. taken.player2 # Nobody /\ taken.player1 # Nobody
    BY <1>6, <1>8, <1>9, <1>10, <2>2, SMTT(30)
  <2>5. xx = oo /\ xx # 0 /\ xx < 5 /\ xx + oo # 9
    BY <1>6, <2>2
  <2>6. /\ taken.state \in {"P2-WIN", "P1-NEXT"}
        /\ taken.state = "P2-WIN" <=> isWin(board, "O")
    BY <1>6, <1>7, <2>2, <2>3, <2>5, Zenon
  <2>7. Consistent(taken)
    BY <1>7, <2>2, <2>4, <2>5, <2>6, Zenon DEF Consistent, xx, oo
  <2> QED BY <1>7, <1>11, <2>1, <2>7, Zenon DEF board
<1> QED BY <1>3, <1>12, <1>13, Zenon

\* The error of Apply: of the load, else of the checks, else of the write.
LEMMA XoErrorIs ==
    ASSUME NEW name \in GameNames, NEW errors \in Seq(Results), NEW calls
    PROVE  XoError(name, errors, calls) =
              IF FromBytes(name) # NoError THEN FromBytes(name)
              ELSE IF StateError(calls.load) # NoError THEN StateError(calls.load)
              ELSE IF Malformed(At(name)) THEN "InternalError"
              ELSE IF FirstError(errors) # NoError THEN FirstError(errors)
              ELSE StateError(calls.write)
<1> DEFINE a == FromBytes(name)
           b == StateError(calls.load)
           c == IF Malformed(At(name)) THEN "InternalError" ELSE NoError
           w == StateError(calls.write)
           load == <<a, b, c>>
<1>1. XoError(name, errors, calls) = FirstError((load \o errors) \o <<w>>)
  BY Zenon DEF XoError, LoadErrors
<1>2. a \in Results /\ b \in Results /\ c \in Results /\ w \in Results
  <2>1. c \in Results
    BY DEF Results, Errors
  <2>2. a \in Results
    BY CheckResults DEF FromBytes
  <2> QED BY <2>1, <2>2, CheckResults
<1>3. c = NoError <=> ~Malformed(At(name))
  BY DEF NoError
<1> HIDE DEF a, b, c, w
<1>4. load \in Seq(Results) /\ <<w>> \in Seq(Results) /\ load \o errors \in Seq(Results)
  BY <1>2
<1>5. FirstError(load) = IF a # NoError THEN a ELSE IF b # NoError THEN b ELSE c
  BY FirstErrorThree
<1>6. FirstError(<<w>>) = w
  BY FirstErrorOne
<1> DEFINE last == <<w>>
           most == load \o errors
<1> HIDE DEF load, last
<1>7. FirstError(most) = IF FirstError(load) = NoError THEN FirstError(errors) ELSE FirstError(load)
  BY <1>4, FirstErrorConcat
<1> HIDE DEF most
<1>8. FirstError(most \o last) = IF FirstError(most) = NoError THEN FirstError(last) ELSE FirstError(most)
  BY <1>4, FirstErrorConcat, Zenon DEF most, last
<1>9. XoError(name, errors, calls) = FirstError(most \o last)
  BY <1>1, Zenon DEF most, last
<1>10. FirstError(last) = w
  BY <1>6 DEF last
<1>11. XoError(name, errors, calls) =
          IF a # NoError THEN a ELSE IF b # NoError THEN b ELSE IF c # NoError THEN c
          ELSE IF FirstError(errors) # NoError THEN FirstError(errors) ELSE w
  BY <1>5, <1>7, <1>8, <1>9, <1>10, ZenonT(30)
<1> QED BY <1>3, <1>11 DEF a, b, c, w

\* The first error of a list of results is a result.
LEMMA FirstErrorResult ==
    ASSUME NEW e \in Seq(Results)
    PROVE  FirstError(e) \in Results
<1>1. NoError \in Results
  BY DEF Results
<1> QED BY <1>1, FirstErrorIs

\* What a transaction that is accepted has passed.
LEMMA XoAccepted ==
    ASSUME NEW name \in GameNames, NEW errors \in Seq(Results), NEW calls,
           Accepted(XoError(name, errors, calls))
    PROVE  /\ name \notin BarredNames
           /\ \A i \in DOMAIN errors : errors[i] = NoError
<1>1. /\ FromBytes(name) \in Results /\ StateError(calls.load) \in Results
      /\ StateError(calls.write) \in Results /\ FirstError(errors) \in Results
      /\ "InternalError" \in Errors
  BY CheckResults, FirstErrorResult DEF FromBytes, Errors
<1>2. XoError(name, errors, calls) \notin Errors
  BY Statuses, ZenonT(30) DEF Accepted
<1>3. FromBytes(name) = NoError /\ FirstError(errors) = NoError
  BY <1>1, <1>2, XoErrorIs DEF Results
<1>4. name \notin BarredNames
  BY <1>3, CheckResults, Zenon DEF FromBytes
<1> QED BY <1>3, <1>4, FirstErrorIs, Zenon

\* The checks of the three xo handlers come to results.
LEMMA TakeResults ==
    ASSUME NEW name, NEW player, NEW space
    PROVE  /\ CreateErrors(name) \in Seq(Results)
           /\ DeleteErrors(name) \in Seq(Results)
           /\ TakeErrors(name, player, space) \in Seq(Results)
<1>1. CreateErrors(name) \in Seq(Results) /\ DeleteErrors(name) \in Seq(Results)
  BY CheckResults DEF CreateErrors, DeleteErrors
<1> DEFINE game == At(name)[name]
           a == Require(game.state \notin Ended)
           b == IF space \notin 1..9 THEN "panic" ELSE NoError
           c == Require(space \in 1..9 => game.board[space] = "-")
           d == Require(HasTurn(Seated(game, player), player))
           f == displayTake(name)
           z == Require(FALSE)
<1>2. /\ a \in Results /\ c \in Results /\ d \in Results /\ z \in Results
  BY CheckResults, Zenon
<1>3. b \in Results /\ f \in Results
  BY DEF Results, Errors, displayTake
<1>4. TakeErrors(name, player, space) = IF name \in DOMAIN At(name) THEN <<a, b, c, d, f>> ELSE <<z>>
  BY Zenon DEF TakeErrors
<1> HIDE DEF a, b, c, d, f, z
<1>5. <<a, b, c, d, f>> \in Seq(Results) /\ <<z>> \in Seq(Results)
  BY <1>2, <1>3, SMTT(30)
<1> QED BY <1>1, <1>4, <1>5, Zenon

\* What the three actions of xo have checked, and what they store.
LEMMA CreateStep ==
    ASSUME NEW name \in GameNames, NEW calls, Create(name, calls)
    PROVE  /\ name \notin BarredNames /\ name \notin DOMAIN At(name)
           /\ games' = [games EXCEPT ![GameAddressOf[name]] = SetGame(name, NewGame)]
<1> DEFINE e == CreateErrors(name)
           fresh == name \notin DOMAIN At(name)
<1>1. /\ Accepted(XoError(name, e, calls))
      /\ games' = [games EXCEPT ![GameAddressOf[name]] = SetGame(name, NewGame)]
  BY Zenon DEF Create, ApplyXo
<1>2. e \in Seq(Results) /\ e = <<Require(fresh)>>
  BY TakeResults, Zenon DEF CreateErrors
<1>3. fresh \in BOOLEAN
  OBVIOUS
<1> HIDE DEF e, fresh
<1>4. name \notin BarredNames /\ e[1] = NoError
  <2>1. 1 \in DOMAIN e
    BY <1>2
  <2> QED BY <1>1, <1>2, <2>1, XoAccepted, Zenon
<1>5. fresh
  BY <1>2, <1>3, <1>4, CheckResults, ZenonT(30)
<1> QED BY <1>1, <1>4, <1>5 DEF fresh

\* What a Delete that finishes found and did.
LEMMA DeleteStep ==
    ASSUME NEW name \in GameNames, NEW calls, Delete(name, calls)
    PROVE  /\ name \in DOMAIN At(name)
           /\ games' = [games EXCEPT ![GameAddressOf[name]] = DeleteGame(name)]
<1> DEFINE e == DeleteErrors(name)
           known == name \in DOMAIN At(name)
<1>1. /\ Accepted(XoError(name, e, calls))
      /\ games' = [games EXCEPT ![GameAddressOf[name]] = DeleteGame(name)]
  BY Zenon DEF Delete, ApplyXo
<1>2. e \in Seq(Results) /\ e = <<Require(known)>>
  BY TakeResults, Zenon DEF DeleteErrors
<1>3. known \in BOOLEAN
  OBVIOUS
<1> HIDE DEF e, known
<1>4. e[1] = NoError
  <2>1. 1 \in DOMAIN e
    BY <1>2
  <2> QED BY <1>1, <1>2, <2>1, XoAccepted, Zenon
<1>5. known
  BY <1>2, <1>3, <1>4, CheckResults, Zenon
<1> QED BY <1>1, <1>5 DEF known

\* What a Take that finishes found and did.
LEMMA TakeStep ==
    ASSUME NEW name \in GameNames, NEW player \in Players, NEW space \in Int, NEW calls,
           Take(name, player, space, calls)
    PROVE  /\ name \in DOMAIN At(name)
           /\ name \notin BarredNames
           /\ At(name)[name].state \notin Ended
           /\ space \in 1..9
           /\ At(name)[name].board[space] = "-"
           /\ games' = [games EXCEPT ![GameAddressOf[name]] =
                                        SetGame(name, Taken(At(name)[name], player, space))]
<1> DEFINE e == TakeErrors(name, player, space)
           known == name \in DOMAIN At(name)
           game == At(name)[name]
           going == game.state \notin Ended
           inside == space \in 1..9
           free == inside => game.board[space] = "-"
           turn == HasTurn(Seated(game, player), player)
           b == IF space \notin 1..9 THEN "panic" ELSE NoError
           f == displayTake(name)
<1>1. /\ Accepted(XoError(name, e, calls))
      /\ games' = [games EXCEPT ![GameAddressOf[name]] =
                                   SetGame(name, Taken(game, player, space))]
  BY Zenon DEF Take, ApplyXo
<1>2. e \in Seq(Results)
  BY TakeResults
<1>3. e = IF known THEN <<Require(going), b, Require(free), Require(turn), f>>
          ELSE <<Require(FALSE)>>
  BY Zenon DEF TakeErrors
<1>4. going \in BOOLEAN /\ free \in BOOLEAN
  OBVIOUS
<1>5. b = NoError => inside
  BY Zenon DEF NoError
<1> HIDE DEF e, going, free, turn, b, f, known
<1>6. name \notin BarredNames /\ \A i \in DOMAIN e : e[i] = NoError
  BY <1>1, <1>2, XoAccepted, Zenon
<1>7. known
  <2> SUFFICES ASSUME ~known PROVE FALSE
    OBVIOUS
  <2> DEFINE z == Require(FALSE)
  <2>1. e = <<z>>
    BY <1>3, Zenon
  <2>2. z # NoError
    BY CheckResults, Zenon
  <2> HIDE DEF z
  <2> QED BY <1>6, <2>1, <2>2
<1>8. Require(going) = NoError /\ b = NoError /\ Require(free) = NoError
  <2> DEFINE p == Require(going)
             q == Require(free)
             r == Require(turn)
  <2>1. e = <<p, b, q, r, f>>
    BY <1>3, <1>7, Zenon
  <2> HIDE DEF p, q, r
  <2>2. p = NoError /\ b = NoError /\ q = NoError
    BY <1>6, <2>1
  <2> QED BY <2>2 DEF p, q
<1>9. going /\ free /\ inside
  BY <1>4, <1>5, <1>8, CheckResults, Zenon
<1> QED BY <1>1, <1>6, <1>7, <1>9 DEF known, going, free

\* The games of the address of a name.
LEMMA AddressGames ==
    ASSUME XoOK(games), NEW name \in GameNames
    PROVE  /\ GameAddressOf[name] \in GameAddresses
           /\ At(name) = games[GameAddressOf[name]]
           /\ AddressOK(GameAddressOf[name], At(name))
BY XoAssumption DEF XoOK, At

\* A consistent game stored at the address of its name.
LEMMA GameStored ==
    ASSUME XoOK(games), NEW name \in GameNames \ BarredNames,
           NEW game \in Game, Consistent(game)
    PROVE  AddressOK(GameAddressOf[name], SetGame(name, game))
<1> DEFINE here == At(name)
           new == SetGame(name, game)
<1>1. AddressOK(GameAddressOf[name], here)
  BY AddressGames, Zenon
<1>2. /\ DOMAIN new = DOMAIN here \cup {name}
      /\ new = [n \in DOMAIN new |-> new[n]]
      /\ \A n \in DOMAIN new : new[n] = IF n = name THEN game ELSE here[n]
  BY DEF SetGame
<1> HIDE DEF here, new
<1>3. AddressOK(GameAddressOf[name], new)
  <2>1. DOMAIN new \subseteq GameNames
    BY <1>1, <1>2 DEF AddressOK
  <2>2. \A n \in DOMAIN new : new[n] \in Game
    BY <1>1, <1>2 DEF AddressOK
  <2>3. \A n \in DOMAIN new : Consistent(new[n])
    BY <1>1, <1>2 DEF AddressOK
  <2>4. \A n \in DOMAIN new : GameAddressOf[n] = GameAddressOf[name] /\ n \notin BarredNames
    BY <1>1, <1>2 DEF AddressOK
  <2>5. new \in [DOMAIN new -> Game]
    BY <1>2, <2>2
  <2> QED BY <2>1, <2>3, <2>4, <2>5, SMTT(30) DEF AddressOK
<1> QED BY <1>3, Zenon DEF new

\* Deleting a game leaves the other games of its address as they were.
LEMMA GameDeleted ==
    ASSUME XoOK(games), NEW name \in GameNames
    PROVE  AddressOK(GameAddressOf[name], DeleteGame(name))
<1> DEFINE here == At(name)
           new == DeleteGame(name)
<1>1. AddressOK(GameAddressOf[name], here)
  BY AddressGames
<1>2. /\ DOMAIN new = DOMAIN here \ {name}
      /\ new = [n \in DOMAIN new |-> new[n]]
      /\ \A n \in DOMAIN new : new[n] = here[n]
  BY DEF DeleteGame
<1> HIDE DEF here, new
<1>3. AddressOK(GameAddressOf[name], new)
  <2>1. DOMAIN new \subseteq GameNames
    BY <1>1, <1>2, Zenon DEF AddressOK
  <2>2. new \in [DOMAIN new -> Game]
    BY <1>1, <1>2, ZenonT(30) DEF AddressOK
  <2>3. \A n \in DOMAIN new : Consistent(new[n])
    BY <1>1, <1>2 DEF AddressOK
  <2>4. \A n \in DOMAIN new : GameAddressOf[n] = GameAddressOf[name] /\ n \notin BarredNames
    BY <1>1, <1>2 DEF AddressOK
  <2> QED BY <2>1, <2>2, <2>3, <2>4, Zenon DEF AddressOK
<1> QED BY <1>3 DEF new

\* Storing well-formed games at one address keeps all the games well formed.
LEMMA AddressStored ==
    ASSUME XoOK(games), NEW a \in GameAddresses, NEW new, AddressOK(a, new),
           games' = [games EXCEPT ![a] = new]
    PROVE  XoOK(games')
BY SMTT(30) DEF XoOK

\* The game a Take stores is consistent, and one mark was added to its board.
LEMMA TakenStored ==
    ASSUME XoOK(games), NEW name \in GameNames, NEW player \in Players, NEW space \in Int,
           NEW calls, Take(name, player, space, calls)
    PROVE  /\ Taken(At(name)[name], player, space) \in Game
           /\ Consistent(Taken(At(name)[name], player, space))
           /\ \E letter \in {"X", "O"} : Taken(At(name)[name], player, space).board =
                                         [At(name)[name].board EXCEPT ![space] = letter]
<1> DEFINE here == At(name)
           game == here[name]
<1>1. /\ name \in DOMAIN here /\ game.state \notin Ended /\ space \in 1..9
      /\ game.board[space] = "-"
  BY TakeStep, SMTT(30)
<1>2. AddressOK(GameAddressOf[name], here)
  BY AddressGames
<1>3. game \in Game /\ Consistent(game)
  <2> HIDE DEF here
  <2> QED BY <1>1, <1>2 DEF AddressOK
<1> HIDE DEF game
<1>4. /\ Taken(game, player, space) \in Game
      /\ Consistent(Taken(game, player, space))
      /\ \E letter \in {"X", "O"} :
            Taken(game, player, space).board = [game.board EXCEPT ![space] = letter]
  BY <1>1, <1>3, TakenConsistent, Zenon
<1> QED BY <1>4, Zenon DEF game

\* Every reachable set of games is well formed and consistent.
LEMMA XoInvariant == XoSpec => []XoInv
<1>1. XoInit => XoInv
  <2> DEFINE none == [n \in {} |-> NewGame]
  <2>1. \A a : AddressOK(a, none)
    BY DEF AddressOK
  <2> HIDE DEF none
  <2>2. games = [a \in GameAddresses |-> none] => XoOK(games)
    BY <2>1, ZenonT(30) DEF XoOK
  <2> QED BY <2>2 DEF XoInit, XoInv, none
<1>2. XoInv /\ [XoNext]_games => XoInv'
  <2> SUFFICES ASSUME XoOK(games), [XoNext]_games PROVE XoOK(games')
    BY DEF XoInv
  <2>1. CASE UNCHANGED games
    BY <2>1
  <2>2. ASSUME NEW name \in GameNames, NEW calls, Create(name, calls)
        PROVE  XoOK(games')
    <3>1. AddressOK(GameAddressOf[name], SetGame(name, NewGame))
      BY <2>2, CreateStep, GameStored, NewGameConsistent, Zenon
    <3>2. /\ GameAddressOf[name] \in GameAddresses
          /\ games' = [games EXCEPT ![GameAddressOf[name]] = SetGame(name, NewGame)]
      BY <2>2, CreateStep, AddressGames, ZenonT(30)
    <3> QED BY <3>1, <3>2, AddressStored, Zenon
  <2>3. ASSUME NEW name \in GameNames, NEW calls, Delete(name, calls)
        PROVE  XoOK(games')
    BY <2>3, DeleteStep, GameDeleted, AddressGames, AddressStored, ZenonT(30)
  <2>4. ASSUME NEW name \in GameNames, NEW calls, NEW player \in Players,
               NEW space \in Int, Take(name, player, space, calls)
        PROVE  XoOK(games')
    <3> DEFINE taken == Taken(At(name)[name], player, space)
    <3>1. /\ taken \in Game /\ Consistent(taken) /\ name \notin BarredNames
          /\ games' = [games EXCEPT ![GameAddressOf[name]] = SetGame(name, taken)]
      <4>1. taken \in Game /\ Consistent(taken)
        BY <2>4, TakenStored, Zenon
      <4>2. /\ name \notin BarredNames
            /\ games' = [games EXCEPT ![GameAddressOf[name]] = SetGame(name, taken)]
        BY <2>4, TakeStep, Zenon
      <4> QED BY <4>1, <4>2
    <3> HIDE DEF taken
    <3>2. AddressOK(GameAddressOf[name], SetGame(name, taken))
      BY <3>1, GameStored
    <3> QED BY <3>1, <3>2, AddressGames, AddressStored, ZenonT(30)
  <2> QED BY <2>1, <2>2, <2>3, <2>4, XoAssumption, Zenon DEF XoNext
<1> QED BY <1>1, <1>2, PTL DEF XoSpec

\* Every game stored is one that can be read back at its address, and its
\* state agrees with its board and its players, whatever names collide.
THEOREM GamesAreConsistent == XoSpec => []GamesConsistent
<1>1. XoInv => GamesConsistent
  BY ZenonT(30) DEF XoInv, XoOK, AddressOK, GamesConsistent
<1> QED BY <1>1, XoInvariant, PTL

\* What is left where the games of one name changed.
LEMMA LegalChange ==
    ASSUME NEW a, NEW name,
           \A n : n # name => /\ n \in DOMAIN games[a] <=> n \in DOMAIN games'[a]
                              /\ n \in DOMAIN games[a] => games'[a][n] = games[a][n],
           name \notin DOMAIN games[a] /\ name \in DOMAIN games'[a]
              => games'[a][name] = NewGame,
           /\ name \in DOMAIN games[a] /\ name \in DOMAIN games'[a]
           /\ games'[a][name] # games[a][name]
           => /\ games[a][name].state \notin Ended
              /\ Cardinality(Moves(games[a][name], games'[a][name])) = 1
              /\ \A i \in Moves(games[a][name], games'[a][name]) :
                    games[a][name].board[i] = "-"
    PROVE  Legal(a)
<1> DEFINE kept    == DOMAIN games[a] \cap DOMAIN games'[a]
           changed == {n \in kept : games'[a][n] # games[a][n]}
           came    == DOMAIN games'[a] \ kept
           went    == DOMAIN games[a] \ kept
           all     == changed \cup came \cup went
<1>1. all \in SUBSET {name}
  BY Zenon
<1>2. Cardinality(all) <= 1
  <2> HIDE DEF all
  <2>1. IsFiniteSet({name}) /\ Cardinality({name}) = 1
    BY FS_Singleton, Zenon
  <2> QED BY <1>1, <2>1, FS_Subset, ZenonT(30)
<1>3. \A n \in changed : /\ games[a][n].state \notin Ended
                         /\ Cardinality(Moves(games[a][n], games'[a][n])) = 1
                         /\ \A i \in Moves(games[a][n], games'[a][n]) :
                               games[a][n].board[i] = "-"
  <2>1. \A n \in changed : n = name
    BY Zenon
  <2> QED BY <2>1, Zenon
<1>4. \A n \in came : games'[a][n] = NewGame
  OBVIOUS
<1> QED BY <1>2, <1>3, <1>4, Zenon DEF Legal

\* A step of xo creates or deletes one game, or adds one mark to an empty space
\* of one game that has not ended, and leaves every other game as it was.
THEOREM MovesAreLegal == XoSpec => MovesLegal
<1>1. XoInv /\ [XoNext]_games => [\A a \in GameAddresses : Legal(a)]_games
  <2> SUFFICES ASSUME XoOK(games), XoNext, NEW a \in GameAddresses PROVE Legal(a)
    BY DEF XoInv
  <2>1. DOMAIN games = GameAddresses
    BY Zenon DEF XoOK
  <2>2. ASSUME NEW name \in GameNames, NEW new,
               games' = [games EXCEPT ![GameAddressOf[name]] = new],
               a # GameAddressOf[name]
        PROVE  Legal(a)
    <3>1. games'[a] = games[a]
      BY <2>1, <2>2, Zenon
    <3> QED BY <3>1, LegalChange
  <2>3. ASSUME NEW name \in GameNames, NEW calls, Create(name, calls),
               a = GameAddressOf[name]
        PROVE  Legal(a)
    <3>1. games'[a] = SetGame(name, NewGame) /\ games[a] = At(name)
          /\ name \notin DOMAIN games[a]
      BY <2>1, <2>3, CreateStep, ZenonT(30) DEF At
    <3>2. /\ DOMAIN games'[a] = DOMAIN games[a] \cup {name}
          /\ games'[a][name] = NewGame
          /\ \A n \in DOMAIN games[a] : games'[a][n] = games[a][n]
      BY <3>1, Zenon DEF SetGame
    <3> QED BY <3>1, <3>2, LegalChange, Zenon
  <2>4. ASSUME NEW name \in GameNames, NEW calls, Delete(name, calls),
               a = GameAddressOf[name]
        PROVE  Legal(a)
    <3>1. games'[a] = DeleteGame(name) /\ games[a] = At(name)
      BY <2>1, <2>4, DeleteStep, ZenonT(30) DEF At
    <3>2. /\ DOMAIN games'[a] = DOMAIN games[a] \ {name}
          /\ \A n \in DOMAIN games[a] \ {name} : games'[a][n] = games[a][n]
      BY <3>1, Zenon DEF DeleteGame
    <3> QED BY <3>2, LegalChange
  <2>5. ASSUME NEW name \in GameNames, NEW calls, NEW player \in Players,
               NEW space \in Int, Take(name, player, space, calls),
               a = GameAddressOf[name]
        PROVE  Legal(a)
    <3> DEFINE game == games[a][name]
               taken == Taken(game, player, space)
    <3>1. /\ games'[a] = SetGame(name, taken) /\ games[a] = At(name)
          /\ name \in DOMAIN games[a]
          /\ game.state \notin Ended /\ space \in 1..9 /\ game.board[space] = "-"
      <4>1. /\ name \in DOMAIN At(name)
            /\ At(name)[name].state \notin Ended
            /\ space \in 1..9
            /\ At(name)[name].board[space] = "-"
            /\ games' = [games EXCEPT ![a] = SetGame(name, Taken(At(name)[name], player, space))]
        BY <2>5, TakeStep, Zenon
      <4>2. games[a] = At(name)
        BY <2>5, ZenonT(30) DEF At
      <4> QED BY <2>1, <4>1, <4>2, Zenon
    <3>2. \E letter \in {"X", "O"} : taken.board = [game.board EXCEPT ![space] = letter]
      BY <2>5, <3>1, TakenStored, SMTT(30)
    <3>3. DOMAIN game.board = 1..9
      <4>1. AddressOK(a, games[a])
        BY Zenon DEF XoOK
      <4>2. game \in Game
        BY <3>1, <4>1, Zenon DEF AddressOK
      <4> HIDE DEF game
      <4> QED BY <4>2 DEF Game
    <3> HIDE DEF game, taken
    <3>4. /\ DOMAIN games'[a] = DOMAIN games[a]
          /\ games'[a][name] = taken
          /\ \A n \in DOMAIN games[a] \ {name} : games'[a][n] = games[a][n]
      BY <3>1, Zenon DEF SetGame
    <3>5. Moves(game, taken) = {space}
      BY <3>1, <3>2, <3>3 DEF Moves
    <3>6. Cardinality(Moves(game, taken)) = 1
      BY <3>5, FS_Singleton, ZenonT(30)
    <3>7. \A i \in Moves(game, taken) : game.board[i] = "-"
      BY <3>1, <3>5, ZenonT(30)
    <3> QED BY <3>1, <3>4, <3>6, <3>7, LegalChange, Zenon DEF game
  <2> QED
    <3>1. PICK name \in GameNames, calls \in Calls :
             \/ Create(name, calls)
             \/ Delete(name, calls)
             \/ \E player \in Players, space \in Int : Take(name, player, space, calls)
      BY XoAssumption DEF XoNext
    <3>2. CASE a = GameAddressOf[name]
      BY <2>3, <2>4, <2>5, <3>1, <3>2, ZenonT(30)
    <3>3. CASE a # GameAddressOf[name]
      BY <2>2, <3>1, <3>3, CreateStep, DeleteStep, TakeStep, Zenon
    <3> QED BY <3>2, <3>3, ZenonT(30)
<1> QED BY <1>1, XoInvariant, PTL DEF XoSpec, MovesLegal

\* A failed exchange makes xo answer INTERNAL_ERROR, or what it would have
\* answered without it, but never OK.
THEOREM XoLossesAreRetried == XoSpec => []XoLossesRetried
<1>1. ASSUME NEW name \in GameNames, NEW calls \in LostCalls, NEW errors \in Seq(Results)
      PROVE  ResponseStatus(XoError(name, errors, calls)) \in
                {ResponseStatus(XoError(name, errors, NoFailure)), "INTERNAL_ERROR"} \ {"OK"}
  <2>1. StateError(NoFailure.load) = NoError /\ StateError(NoFailure.write) = NoError
    BY DEF NoFailure, StateError, NoError
  <2>2. /\ FromBytes(name) \in Results /\ FirstError(errors) \in Results
        /\ "InternalError" \in Errors /\ "error" # NoError
    BY CheckResults, FirstErrorResult, SMTT(30) DEF FromBytes, Errors, NoError
  <2>3. \/ XoError(name, errors, calls) = "error"
        \/ XoError(name, errors, calls) \in Errors
           /\ XoError(name, errors, calls) = XoError(name, errors, NoFailure)
    BY <2>1, <2>2, LostReplies, XoErrorIs, ZenonT(30) DEF Results
  <2> QED BY <2>3, Statuses
<1>2. XoLossesRetried
  BY <1>1, TakeResults DEF XoLossesRetried
<1> QED BY <1>2, PTL
-----------------------------------------------------------------------------
(* A processor of one family.                                               *)

\* Every behaviour of Families is one of each family, so that the theorems
\* above are about what the composition does.
LEMMA FamilySteps == Spec => IntkeySpec /\ SmallbankSpec /\ XoSpec
<1>1. Init => IntkeyInit /\ SmallbankInit /\ XoInit
  BY DEF Init
<1>2. [Next]_vars => [IntkeyNext]_stored /\ [SmallbankNext]_accounts /\ [XoNext]_games
  BY Zenon DEF Next, vars, NoopApply
<1> QED BY <1>1, <1>2, PTL DEF Spec, IntkeySpec, SmallbankSpec, XoSpec
=============================================================================
