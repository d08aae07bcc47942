------------------------------- MODULE Intkey -------------------------------
(* The intkey transaction family (examples/intkey_go, handler.go): integers *)
(* by name, stored at the address the name hashes to as a map that holds    *)
(* every name of that address.                                              *)
EXTENDS Context

CONSTANTS
    Names,          \* names a payload may carry
    LongNames,      \* those of more than MAX_NAME_LENGTH characters
    Addresses,
    AddressOf,      \* the address a name hashes to; names may collide
    MAX_VALUE,
    PayloadValues   \* the integers a payload may carry

ASSUME IntkeyAssumption ==
    /\ LongNames \subseteq Names
    /\ AddressOf \in [Names -> Addresses]
    /\ MAX_VALUE \in Nat
    /\ PayloadValues \subseteq Int

VARIABLE stored     \* collision map by address, empty where there is no data

Verbs == {"set", "inc", "dec"}

\* A payload that is nil or does not decode leaves Apply as one with a verb of
\* no meaning does.
Payloads == [verb : Verbs \cup {"other"}, name : Names, value : PayloadValues]

\* The checks before any state is read.
WellFormed(p) ==
    /\ p.name \notin LongNames
    /\ p.value >= 0
    /\ p.value <= MAX_VALUE
    /\ p.verb \in Verbs

NewValue(p, map) ==
    CASE p.verb = "inc" -> map[p.name] + p.value
      [] p.verb = "dec" -> map[p.name] - p.value
      [] OTHER          -> p.value

\* A slip: the result of inc is not compared with MAX_VALUE.
SlipApplicable(p, map) ==
    IF p.verb = "set"
    THEN p.name \notin DOMAIN map
    ELSE p.name \in DOMAIN map /\ NewValue(p, map) >= 0

\* The checks against the map that was read.
Applicable(p, map) ==
    IF p.verb = "set"
    THEN p.name \notin DOMAIN map
    ELSE /\ p.name \in DOMAIN map
         /\ NewValue(p, map) >= 0
         /\ NewValue(p, map) <= MAX_VALUE

\* A slip: the other names of the address are not written back.
SlipUpdated(p, map) == [n \in {p.name} |-> NewValue(p, map)]

\* The map that is encoded and written back, with the other names it held.
Updated(p, map) ==
    [n \in DOMAIN map \cup {p.name} |->
        IF n = p.name THEN NewValue(p, map) ELSE map[n]]

\* A slip: the error of the write is dropped.
SlipIntkeyError(p, calls, addressed) ==
    FirstError(<< Require(WellFormed(p)),
                  StateError(calls.load),
                  Require(WellFormed(p) => Applicable(p, stored[AddressOf[p.name]])) >>)

\* The last check is of an OK that names no address.
IntkeyError(p, calls, addressed) ==
    FirstError(<< Require(WellFormed(p)),
                  StateError(calls.load),
                  Require(WellFormed(p) => Applicable(p, stored[AddressOf[p.name]])),
                  StateError(calls.write),
                  IF addressed THEN NoError ELSE "InternalError" >>)

IntkeyApply(p) ==
    \E calls \in Calls, addressed \in BOOLEAN :
       /\ Accepted(IntkeyError(p, calls, addressed))
       /\ stored' = [stored EXCEPT ![AddressOf[p.name]] = Updated(p, @)]

NoMap == [n \in {} |-> 0]

IntkeyInit == stored = [a \in Addresses |-> NoMap]

IntkeyNext == \E p \in Payloads : IntkeyApply(p)

IntkeySpec == IntkeyInit /\ [][IntkeyNext]_stored
-----------------------------------------------------------------------------
(* Properties.                                                             *)

\* A map holds names of its own address only, with values a client may see.
IntkeyTypeOK ==
    /\ DOMAIN stored = Addresses
    /\ \A a \in Addresses :
          /\ DOMAIN stored[a] \subseteq {n \in Names \ LongNames : AddressOf[n] = a}
          /\ \A n \in DOMAIN stored[a] : stored[a][n] \in 0..MAX_VALUE

\* Validators must agree on every transaction, so a lost exchange, which is one
\* node's own affair, may delay the verdict (INTERNAL_ERROR: the validator tries
\* again) but never change it.
IntkeyLossesRetried ==
    \A p \in Payloads, calls \in LostCalls :
       ResponseStatus(IntkeyError(p, calls, TRUE)) \in
          {ResponseStatus(IntkeyError(p, NoFailure, TRUE)), "INTERNAL_ERROR"} \ {"OK"}

\* The value a client sees under a name, -1 for none.
ValueOf ==
    [n \in Names |-> IF n \in DOMAIN stored[AddressOf[n]]
                     THEN stored[AddressOf[n]][n] ELSE -1]

KV == INSTANCE KeyValue WITH values <- ValueOf

\* Seen by name, the maps at the addresses are one independent integer per
\* name: names that hash to one address do not disturb each other, a name is
\* set once and stays, and no value leaves 0..MAX_VALUE.
IntkeyIsKeyValue == KV!Spec
=============================================================================
