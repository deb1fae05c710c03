---------------------------- MODULE AdminLedger ----------------------------
(***************************************************************************)
(* The three panels from which an administrator changes a balance: the     *)
(* backend API (src/services/backend/services/admin.py), the web panel     *)
(* (src/services/admin/routes_ops.py) and the bot's own commands           *)
(* (src/services/bot/handlers/admin/users.py).  Each deducts in its own    *)
(* way, all of them from a row they read without locking it, while the     *)
(* customer goes on spending and buying.                                   *)
(*                                                                         *)
(* One row of users is modelled, and what the journal, credit_transactions *)
(* says of it.                                                             *)
(***************************************************************************)
EXTENDS Integers

CONSTANTS
    Opening,        \* the balance bought before the behaviour starts
    FreeDaily,      \* settings.free_daily_credits
    Amounts,        \* what an administrator adds or deducts, a customer spends
    MaxChanges      \* bound: changes of the row

ASSUME LedgerAssumption ==
    /\ {Opening, FreeDaily, MaxChanges} \subseteq Nat
    /\ Amounts \subseteq Nat \ {0}

Panels == {"backend", "web", "bot"}
Fields == {"bought", "free"}

VARIABLES
    bought,         \* credits_bought
    free,           \* credits_free_today
    journal,        \* the sum of the rows in credit_transactions
    deduction,      \* the deduction each panel has read the row for
    changes,        \* counts the changes of the row
    stale,          \* history: fields that changed between a panel's two statements
    gap             \* history: changes that no row of the journal records

adminVars == <<bought, free, journal, deduction, changes, stale, gap>>

NoDeduction == [amount |-> 0, bought |-> 0, free |-> 0]

AdminInit ==
    /\ bought = Opening
    /\ free = FreeDaily
    /\ journal = 0
    /\ deduction = [p \in Panels |-> NoDeduction]
    /\ changes = 0
    /\ stale = [p \in Panels |-> {}]
    /\ gap = 0

\* Seeded fault: nothing stops at zero.
AsItIs(n) == n

AtLeastZero(n) == IF n > 0 THEN n ELSE 0

Changed == changes < MaxChanges /\ changes' = changes + 1

-----------------------------------------------------------------------------
(* The customer, and additions: relative updates of a locked row *)

\* spend takes the free credits first.
CustomerSpends(n) ==
    /\ bought + free >= n
    /\ Changed
    /\ bought' = bought - AtLeastZero(n - free)
    /\ free' = AtLeastZero(free - n)
    /\ journal' = journal - n
    /\ UNCHANGED <<deduction, stale, gap>>

\* add_credits, which the backend and the bot call and every purchase too, and
\* the web panel's UPDATE with its row of the journal.
CreditsAdded(n) ==
    /\ Changed
    /\ bought' = bought + n
    /\ journal' = journal + n
    /\ UNCHANGED <<free, deduction, stale, gap>>

\* A purchase in test mode is credited at each tap, and no payment is recorded.
cb_pay_test(n) == CreditsAdded(n)

\* The free credits of a new day have no row.
NewDay ==
    /\ Changed
    /\ free' = FreeDaily
    /\ gap' = gap + (FreeDaily - free)
    /\ UNCHANGED <<bought, journal, deduction, stale>>

-----------------------------------------------------------------------------
(* Deductions: a SELECT, and later an UPDATE *)

\* Seeded fault: the backend deducts more than there is.
CoversAnything(row, n) == TRUE

\* deduct_credits_from_user refuses what the balance does not cover.
Covers(row, n) == n <= row.bought + row.free

ReadRow(panel, n) ==
    LET row == [amount |-> n, bought |-> bought, free |-> free] IN
    /\ deduction[panel] = NoDeduction
    /\ changes < MaxChanges
    /\ panel = "backend" => Covers(row, n)
    /\ deduction' = [deduction EXCEPT ![panel] = row]
    /\ UNCHANGED <<bought, free, journal, changes, stale, gap>>

Deducting(panel) ==
    LET row == deduction[panel] IN
    /\ row # NoDeduction
    /\ Changed
    /\ deduction' = [deduction EXCEPT ![panel] = NoDeduction]
    /\ stale' = [stale EXCEPT ![panel] = @ \cup
                    {f \in Fields : row[f] # [bought |-> bought, free |-> free][f]}]

\* deduct_credits_from_user: the free credits become a constant, the bought
\* ones are decreased.
BackendDeducts ==
    LET row == deduction["backend"] IN
    /\ Deducting("backend")
    /\ free' = AtLeastZero(row.free - row.amount)
    /\ bought' = bought - AtLeastZero(row.amount - row.free)
    /\ journal' = journal - row.amount
    /\ UNCHANGED gap

\* Seeded fault: the deduction of the web panel leaves no row.
UnjournalledDeduction(row) == 0

\* sub_credits journals the amount that was asked for, also when it stops at
\* zero.
WebDeduction(row) == row.amount

WebDeducts ==
    LET row == deduction["web"] IN
    /\ Deducting("web")
    /\ bought' = AtLeastZero(row.bought - row.amount)
    /\ journal' = journal - WebDeduction(row)
    /\ gap' = gap + AtLeastZero(row.amount - row.bought)
    /\ UNCHANGED free

\* credit_amount writes no row of the journal.
BotDeducts ==
    LET row == deduction["bot"] IN
    /\ Deducting("bot")
    /\ bought' = AtLeastZero(row.bought - row.amount)
    /\ gap' = gap + (AtLeastZero(row.bought - row.amount) - row.bought)
    /\ UNCHANGED <<free, journal>>

AdminNext ==
    \/ NewDay
    \/ BackendDeducts \/ WebDeducts \/ BotDeducts
    \/ \E n \in Amounts :
        \/ CustomerSpends(n)
        \/ CreditsAdded(n) \/ cb_pay_test(n)
        \/ \E p \in Panels : ReadRow(p, n)

AdminSpec == AdminInit /\ [][AdminNext]_adminVars

-----------------------------------------------------------------------------
(* Properties *)

\* The row and the journal have integer values; free credits and what a panel
\* has read and accepted are never negative.
AdminTypeOK ==
    /\ {bought, journal, gap} \subseteq Int
    /\ {free, changes} \subseteq Nat
    /\ deduction \in [Panels -> [amount : Amounts \cup {0}, bought : Int, free : Nat]]
    /\ stale \in [Panels -> SUBSET Fields]

\* The journal and the changes known to have no row explain the balance: a
\* purchase or a charge is lost from the row only when a panel writes the very
\* field that changed after it was read (user_action and credit_amount write
\* credits_bought, deduct_credits_from_user writes credits_free_today).
JournalExplains ==
    \/ bought + free = Opening + FreeDaily + journal + gap
    \/ "bought" \in stale["web"] \cup stale["bot"]
    \/ "free" \in stale["backend"]

\* A customer owes credits only after the backend deducted from a row that had
\* changed since its balance was compared with the amount
\* (deduct_credits_from_user; the other panels stop at zero).
OwesOnlyIfRaced == bought >= 0 \/ stale["backend"] # {}

=============================================================================
