---------------------------- MODULE HandlerRules ----------------------------
(***************************************************************************)
(* What the proofs about Generation need to know of the programs of the    *)
(* handlers, as rules about one step of a program at a time.  TLC checks   *)
(* them of the programs of Handlers; the proofs conclude from them what    *)
(* any number of updates can do that interleave, fail and are run again.   *)
(*                                                                         *)
(* Each of the four constants is a set of ways for every handler, a way    *)
(* being what is left of a program after some of its steps.                *)
(***************************************************************************)
EXTENDS Generation

CONSTANTS
    Ways,          \* all the ways a run of the handler may come to
    NoSpend,       \* those on which nothing is spent any more
    NoRefund,      \* those on which nothing is given back but what is spent first
    NoReturn       \* those that answer or give back before they return

Op(p) == Head(p).op
Arg(p) == Head(p).arg

\* How a run may go on after the first step of a way, when that has failed, and
\* at all.  A handler that raises does not go on.
Wrong(p) == {Head(p).fails[how] : how \in DOMAIN Head(p).fails}
Onward(p) == IF p = <<>> \/ Op(p) = "raise" THEN {} ELSE {Tail(p)} \cup Wrong(p)

\* A way and what it comes to; a step has the failures that Generation asks for.
WaysClosed(h) ==
    /\ Programs[h] \subseteq Ways[h]
    /\ \A p \in Ways[h] \ {<<>>} :
        /\ Onward(p) \subseteq Ways[h]
        /\ Op(p) = "lock" => "busy" \in DOMAIN Head(p).fails
        /\ Op(p) = "take" => "gone" \in DOMAIN Head(p).fails
        /\ Op(p) = "spend" => {"refused", "exc"} \subseteq DOMAIN Head(p).fails

\* A heavy handler spends on its own bucket, raises when the purchase raises, and
\* gives back with the policy's rollback.
HeavyRule(h, b) ==
    \A p \in Ways[h] \ {<<>>} :
        /\ Op(p) = "spend" =>
            /\ Arg(p) = b
            /\ Head(p).fails["exc"] # <<>> /\ Op(Head(p).fails["exc"]) = "raise"
        /\ Op(p) = "giveback" => Arg(p) \in {"refund", "guard"}

\* Nothing is given back twice: after it was, nothing is until the next purchase.
\* Only the documents are given back without asking who paid.
RefundRule(h) ==
    /\ Programs[h] \subseteq NoRefund[h]
    /\ \A p \in NoRefund[h] \ {<<>>} :
        /\ Op(p) # "giveback"
        /\ Op(p) # "spend" => Onward(p) \subseteq NoRefund[h]
        /\ Op(p) = "spend" => Wrong(p) \subseteq NoRefund[h]
    /\ \A p \in Ways[h] \ {<<>>} : Op(p) = "giveback" =>
        /\ Tail(p) \in NoRefund[h]
        /\ Arg(p) = "price" => h \in Documents

\* Whoever has paid is not left without an answer or the price.
DeliveryRule(h) ==
    /\ <<>> \notin NoReturn[h]
    /\ \A p \in Ways[h] \ {<<>>} : Op(p) = "spend" => Tail(p) \in NoReturn[h]
    /\ \A p \in NoReturn[h] : Op(p) # "raise" =>
        /\ Wrong(p) \subseteq NoReturn[h]
        /\ \/ Op(p) \in {"reply", "giveback"}
           \/ Op(p) = "call" /\ h \in LoseAnswer
           \/ Tail(p) \in NoReturn[h]

\* What waits under the key is taken and deleted before it is paid for, and it is
\* paid for once.
TakeRule(h) ==
    /\ \A p \in NoSpend[h] \ {<<>>} : Op(p) # "spend" /\ Onward(p) \subseteq NoSpend[h]
    /\ \A p \in Programs[h] \ NoSpend[h] : p # <<>> /\ Op(p) = "take"
    /\ \A p \in Ways[h] \ NoSpend[h] :
        /\ p # <<>>
        /\ Op(p) = "take" =>
            /\ Head(p).fails["gone"] \in NoSpend[h]
            /\ Tail(p) \notin NoSpend[h] => Op(Tail(p)) = "drop"
        /\ Op(p) = "drop" => Wrong(p) \subseteq NoSpend[h]
        /\ Op(p) = "spend" => Onward(p) \subseteq NoSpend[h]
        /\ Op(p) # "take" =>
            \A q \in Onward(p) \ NoSpend[h] : Op(q) \notin {"take", "drop"}

ASSUME HandlersAssumption ==
    \A h \in DOMAIN Programs :
        /\ WaysClosed(h)
        /\ \A b \in HeavyBuckets : h \in Heavy[b] => HeavyRule(h, b)
        /\ h # "handle_text" => RefundRule(h)
        /\ h \notin KeepPrice => DeliveryRule(h)
        /\ h \in Takers => TakeRule(h)

=============================================================================
