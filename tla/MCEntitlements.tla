---------------------------- MODULE MCEntitlements ----------------------------
(***************************************************************************)
(* A small instance of Entitlements for TLC: two users, two calls in       *)
(* flight, a promo code for one of them.                                   *)
(***************************************************************************)
EXTENDS Entitlements, TLC

CONSTANTS u1, u2, t1, t2

MCUsers == {u1, u2}
MCTasks == {t1, t2}
MCSymmetry == Permutations(MCUsers) \cup Permutations(MCTasks)

=============================================================================
