------------------------------ MODULE Purchases ------------------------------
(***************************************************************************)
(* What the payment code of NeuroBox promises, whatever provider is used   *)
(* and however often its notifications arrive: a purchase the customer has *)
(* paid for is granted (credits or unlimited days) at most once, and no    *)
(* other purchase is granted.  Payments is shown to implement it.          *)
(***************************************************************************)
EXTENDS Integers

CONSTANT Payments   \* payment ids of all providers

VARIABLES
    paid,     \* payments the provider has the customer's money for
    granted   \* granted[p]: times the purchase was handed out

vars == <<paid, granted>>

Init == paid = {} /\ granted = [p \in Payments |-> 0]

Pay(p) == p \notin paid /\ paid' = paid \cup {p} /\ UNCHANGED granted

Grant(p) ==
    /\ p \in paid
    /\ granted[p] = 0
    /\ granted' = [granted EXCEPT ![p] = 1]
    /\ UNCHANGED paid

Next == \E p \in Payments : Pay(p) \/ Grant(p)

Spec == Init /\ [][Next]_vars

=============================================================================
