---------------------------- MODULE CreditAccount ----------------------------
(***************************************************************************)
(* What shared/domain/credits.py promises about the credit balances of     *)
(* NeuroBox users, whatever the tasks, transactions and row locks that     *)
(* implement it: every committed change of a balance is one indivisible    *)
(* operation on the balance as it stands at that moment.  The module is    *)
(* the abstract counterpart of Credits, which is shown to implement it.    *)
(***************************************************************************)
EXTENDS Integers

CONSTANTS
    Users,      \* Telegram user ids
    DailyFree,  \* settings.free_daily_credits
    Prices,     \* costs a spend may have
    Amounts,    \* amounts a credit or a claw-back may have
    RefereeCr   \* REFEREE_CR, the gift to a newcomer who came by referral

VARIABLES
    accounts,   \* users that have a row
    bought,     \* bought[u]: credits_bought
    free        \* free[u]: credits_free_today

vars == <<accounts, bought, free>>

Init ==
    /\ accounts \in SUBSET Users
    /\ bought = [u \in Users |-> 0]
    /\ free = [u \in Users |-> IF u \in accounts THEN DailyFree ELSE 0]

\* The free balance a spend starts from: what is left of it, or the whole
\* allowance when the spend is the first one of its day.
Allowances(u) == {free[u], DailyFree}

\* A spend on a model that only bought credits pay for.
DebitBought(u, c) ==
    /\ bought[u] >= c
    /\ bought' = [bought EXCEPT ![u] = @ - c]
    /\ \E f \in Allowances(u) : free' = [free EXCEPT ![u] = f]
    /\ UNCHANGED accounts

\* A spend on a free model: free credits first, bought credits for the rest.
DebitMixed(u, c) ==
    /\ \E f \in Allowances(u) :
          /\ f + bought[u] >= c
          /\ IF f >= c
               THEN /\ free' = [free EXCEPT ![u] = f - c]
                    /\ UNCHANGED bought
               ELSE /\ free' = [free EXCEPT ![u] = 0]
                    /\ bought' = [bought EXCEPT ![u] = @ - (c - f)]
    /\ UNCHANGED accounts

Credit(u, a) ==
    /\ bought' = [bought EXCEPT ![u] = @ + a]
    /\ UNCHANGED <<accounts, free>>

\* A claw-back takes what it can and never leaves a debt.
Claw(u, a) ==
    /\ bought' = [bought EXCEPT ![u] = IF a <= @ THEN @ - a ELSE 0]
    /\ UNCHANGED <<accounts, free>>

\* The daily allowance is put back to its full value, never added up.
Refresh(u) ==
    /\ free' = [free EXCEPT ![u] = DailyFree]
    /\ UNCHANGED <<accounts, bought>>

Open(u) ==
    /\ u \notin accounts
    /\ accounts' = accounts \cup {u}
    /\ free' = [free EXCEPT ![u] = DailyFree]
    /\ UNCHANGED bought

\* A newcomer and the friend who brought them are credited together or not at
\* all; the size of the friend's bonus is left open here.
OpenReferred(u, r) ==
    /\ u \notin accounts
    /\ r \in accounts
    /\ accounts' = accounts \cup {u}
    /\ free' = [free EXCEPT ![u] = DailyFree]
    /\ bought'[r] >= bought[r]
    /\ bought' = [bought EXCEPT ![u] = RefereeCr, ![r] = bought'[r]]

Next ==
    \E u \in Users :
        \/ \E c \in Prices : DebitBought(u, c) \/ DebitMixed(u, c)
        \/ \E a \in Amounts : Credit(u, a) \/ Claw(u, a)
        \/ Refresh(u)
        \/ Open(u)
        \/ \E r \in Users : OpenReferred(u, r)

Spec == Init /\ [][Next]_vars

=============================================================================
