------------------------------ MODULE MCCredits ------------------------------
(***************************************************************************)
(* A small instance of Credits for TLC: one user with a row and one who    *)
(* writes to the bot for the first time, two calls in flight.              *)
(***************************************************************************)
EXTENDS Credits

CONSTANTS u1, u2, t1, t2

MCUsers == {u1, u2}
MCFounders == {u1}
MCTasks == {t1, t2}
MCPrices == {1, 3}
MCAmounts == {2}
MCThresholds == {1}

=============================================================================
