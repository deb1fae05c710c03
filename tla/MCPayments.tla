------------------------------ MODULE MCPayments ------------------------------
(***************************************************************************)
(* Small instances of Payments for TLC.  The safety instance has one       *)
(* payment of each provider and two calls in flight besides the loop; the  *)
(* liveness instance two card payments of one customer, a batch of one and *)
(* one call besides the loop.                                              *)
(***************************************************************************)
EXTENDS Payments

CONSTANTS u1, c1, c2, x1, s1, h1, h2

MCUsers == {u1}
OneCard == {c1}
TwoCards == {c1, c2}
OneInvoice == {x1}
OneCharge == {s1}
OneHandler == {h1}
TwoHandlers == {h1, h2}
MCOwner == [p \in Payments |-> u1]
Nothing == {}

=============================================================================
