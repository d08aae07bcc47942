------------------------------ MODULE Families ------------------------------
(* The example transaction families.  A processor registers the handler of  *)
(* one family (examples/*/main.go), so an execution applies transactions of *)
(* one family from the start.                                               *)
EXTENDS Intkey, Smallbank, Xo

VARIABLE family

vars == <<family, stored, accounts, games>>

Init ==
    /\ family \in {"intkey", "smallbank", "xo", "noop"}
    /\ IntkeyInit
    /\ SmallbankInit
    /\ XoInit

\* The noop family's Apply returns nil and makes no call.
NoopApply == UNCHANGED <<stored, accounts, games>>

Next ==
    /\ UNCHANGED family
    /\ \/ family = "intkey"    /\ IntkeyNext    /\ UNCHANGED <<accounts, games>>
       \/ family = "smallbank" /\ SmallbankNext /\ UNCHANGED <<stored, games>>
       \/ family = "xo"        /\ XoNext        /\ UNCHANGED <<stored, accounts>>
       \/ family = "noop"      /\ NoopApply

Spec == Init /\ [][Next]_vars
=============================================================================
