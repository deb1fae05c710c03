------------------------------- MODULE Credits -------------------------------
(***************************************************************************)
(* The credit ledger of shared/domain/credits.py at the grain of its       *)
(* PostgreSQL transactions (READ COMMITTED) and of the awaits between      *)
(* them.  Bot handlers, the webhook service and the worker run the same    *)
(* functions concurrently: each call in flight is a task.                  *)
(*                                                                         *)
(* A SELECT ... FOR UPDATE is a step that takes the row lock and copies    *)
(* the row into the task's local variables; the UPDATE and the COMMIT that *)
(* follow are the step that writes and releases.  A transaction made of    *)
(* one relative UPDATE (credits_bought + :n) is a single step that waits   *)
(* for the lock.  A plain SELECT does not wait, and an UPDATE that writes  *)
(* a constant after it overwrites whatever was committed in between.       *)
(*                                                                         *)
(* The bypass read of spend_credits (admin, QA, trial, unlimited, 48h) is  *)
(* a free choice: entitlements and the usage policy are not this module.   *)
(***************************************************************************)
EXTENDS Integers, FiniteSets

CONSTANTS
    Users,            \* Telegram user ids
    Founders,         \* users that have a row at the start
    Tasks,            \* calls that can be in flight at a time
    NoTask,           \* the row lock is free
    NoUser,           \* /start without a (valid) referral code
    NoEntry,          \* no balance:{id} key in Redis
    DailyFree,        \* settings.free_daily_credits
    Prices,           \* costs of a spend
    Amounts,          \* amounts credited, refunded or clawed back
    RefereeCr,        \* REFEREE_CR
    ReferrerCr,       \* REFERRER_CR
    LevelThresholds,  \* the friend counts of REFERRAL_LEVELS
    MaxDay,           \* bound: calendar days
    MaxCalls          \* bound: calls made

ASSUME CreditsAssumption ==
    /\ IsFiniteSet(Users)
    /\ Founders \subseteq Users
    /\ NoUser \notin Users
    /\ NoTask \notin Tasks
    /\ DailyFree \in Nat
    /\ Prices \subseteq Nat \ {0}
    /\ Amounts \subseteq Nat \ {0}
    /\ RefereeCr \in Nat
    /\ ReferrerCr \in Nat
    /\ LevelThresholds \subseteq Nat
    /\ IsFiniteSet(LevelThresholds)
    /\ MaxDay \in Nat \ {0}
    /\ MaxCalls \in Nat

VARIABLES
    accounts,    \* users that have a row in the table users
    bought,      \* users.credits_bought
    free,        \* users.credits_free_today
    resetDay,    \* users.credits_free_reset
    refCount,    \* users.referral_count
    referredBy,  \* users.referred_by
    ledger,      \* sums of the user's rows in credit_transactions, by kind
    cache,       \* the Redis key balance:{id}
    lock,        \* transaction that holds the row lock or has inserted the row
    pc,          \* where a task is in its call
    job,         \* arguments of a task's call
    snap,        \* the row as the task read it
    today,       \* date.today()
    calls,       \* calls made so far
    gifted,      \* history: promo and referral credits (they have no ledger row)
    fromFree,    \* history: free credits spent
    issued,      \* history: free credits issued, less those that lapsed
    usedToday    \* history: free credits spent since midnight

rows == <<accounts, bought, free, resetDay, refCount, referredBy, ledger>>
books == <<gifted, fromFree, issued, usedToday>>
locals == <<pc, job, snap>>
vars == <<rows, books, cache, lock, locals, today, calls>>

Kinds == {"spendFree", "spendPaid", "deduct", "add", "balance", "touch", "create"}
NoJob == [kind |-> "touch", user |-> NoUser, amount |-> 0, ref |-> NoUser]
NoSnap == [bought |-> 0, free |-> 0, resetDay |-> 0, refCount |-> 0]

\* The row whose lock a call takes: the referrer's when a user is created.
LockedRow(t) == IF job[t].kind = "create" THEN job[t].ref ELSE job[t].user

Row(u) == [bought |-> bought[u], free |-> free[u],
           resetDay |-> resetDay[u], refCount |-> refCount[u]]

\* get_referral_level: every threshold reached adds half of the base bonus.
Level(n) == Cardinality({m \in LevelThresholds : n >= m})
ReferrerBonus(n) == ReferrerCr + (ReferrerCr * Level(n)) \div 2

Init ==
    /\ accounts = Founders
    /\ bought = [u \in Users |-> 0]
    /\ free = [u \in Users |-> IF u \in Founders THEN DailyFree ELSE 0]
    /\ resetDay = [u \in Users |-> 1]
    /\ refCount = [u \in Users |-> 0]
    /\ referredBy = [u \in Users |-> NoUser]
    /\ ledger = [u \in Users |-> [added |-> 0, charged |-> 0, clawed |-> 0]]
    /\ cache = [u \in Users |-> NoEntry]
    /\ lock = [u \in Users |-> NoTask]
    /\ pc = [t \in Tasks |-> "idle"]
    /\ job = [t \in Tasks |-> NoJob]
    /\ snap = [t \in Tasks |-> NoSnap]
    /\ today = 1
    /\ calls = 0
    /\ gifted = [u \in Users |-> 0]
    /\ fromFree = [u \in Users |-> 0]
    /\ issued = [u \in Users |-> free[u]]
    /\ usedToday = [u \in Users |-> 0]

-----------------------------------------------------------------------------
(* Calls: a handler enters one of the functions of credits.py.             *)

Call(t, kind, u, a, r, label) ==
    /\ pc[t] = "idle"
    /\ calls < MaxCalls
    /\ calls' = calls + 1
    /\ job' = [job EXCEPT ![t] = [kind |-> kind, user |-> u, amount |-> a, ref |-> r]]
    /\ pc' = [pc EXCEPT ![t] = label]
    /\ UNCHANGED <<rows, books, cache, lock, snap, today>>

\* spend_credits(u, model): the usage policy let the request through.
CallSpend(t, u, kind, c) == u \in accounts /\ Call(t, kind, u, c, NoUser, "lock")

\* deduct_credits_refund(u, amount), for a payment the provider refunded.
CallDeduct(t, u, a) == u \in accounts /\ Call(t, "deduct", u, a, NoUser, "lock")

\* get_balance(u) when Redis has no entry; with one it returns that entry.
CallBalance(t, u) ==
    /\ u \in accounts
    /\ cache[u] = NoEntry
    /\ Call(t, "balance", u, 0, NoUser, "read")

\* get_or_create_user(u) for a user who has a row.
CallTouch(t, u) == u \in accounts /\ Call(t, "touch", u, 0, NoUser, "read")

\* get_or_create_user(u) that found no row: r is the owner of the code, if any.
CallCreate(t, u, r) ==
    /\ u \notin accounts
    /\ r \in accounts \cup {NoUser}
    /\ Call(t, "create", u, 0, r, "insert")

\* The call goes on, or it is over and its local variables are gone.
Goto(t, label) == pc' = [pc EXCEPT ![t] = label] /\ UNCHANGED job
Return(t) ==
    /\ pc' = [pc EXCEPT ![t] = "idle"]
    /\ job' = [job EXCEPT ![t] = NoJob]
    /\ snap' = [snap EXCEPT ![t] = NoSnap]

-----------------------------------------------------------------------------
(* spend_credits, deduct_credits_refund and the creation of a referred     *)
(* user read the row they change under its lock.                           *)

\* An entitlement bypasses the charge: spend_credits returns cost 0.
SpendBypass(t) ==
    /\ pc[t] = "lock"
    /\ job[t].kind \in {"spendFree", "spendPaid"}
    /\ Return(t)
    /\ UNCHANGED <<rows, books, cache, lock, today, calls>>

\* The end of a transaction gives up every lock it holds.
Release(t) == lock' = [u \in Users |-> IF lock[u] = t THEN NoTask ELSE lock[u]]

\* Seeded fault: the SELECT lost its FOR UPDATE.
LockRowUnlocked(t) ==
    /\ pc[t] = "lock"
    /\ lock' = [lock EXCEPT ![LockedRow(t)] = t]
    /\ snap' = [snap EXCEPT ![t] = Row(LockedRow(t))]
    /\ Goto(t, "write")
    /\ UNCHANGED <<rows, books, cache, today, calls>>

\* SELECT ... FOR UPDATE
LockRow(t) ==
    /\ pc[t] = "lock"
    /\ lock[LockedRow(t)] = NoTask
    /\ lock' = [lock EXCEPT ![LockedRow(t)] = t]
    /\ snap' = [snap EXCEPT ![t] = Row(LockedRow(t))]
    /\ Goto(t, "write")
    /\ UNCHANGED <<rows, books, cache, today, calls>>

\* Seeded fault: a new day adds the allowance to what is left.
FreeAtHandAddsUp(t) == IF snap[t].resetDay < today THEN snap[t].free + DailyFree ELSE snap[t].free

\* The free balance spend_credits works with: reset when the row is of an
\* earlier day.
FreeAtHand(t) == IF snap[t].resetDay < today THEN DailyFree ELSE snap[t].free

\* What a spend takes from the free and from the bought balance.
FreePart(t) ==
    IF job[t].kind = "spendPaid" THEN 0
    ELSE IF FreeAtHand(t) >= job[t].amount THEN job[t].amount ELSE FreeAtHand(t)
BoughtPart(t) == job[t].amount - FreePart(t)

\* UPDATE users, INSERT the ledger row, COMMIT.
SpendWrite(t) ==
    LET u == job[t].user IN
    /\ pc[t] = "write"
    /\ job[t].kind \in {"spendFree", "spendPaid"}
    /\ snap[t].bought >= BoughtPart(t)
    /\ bought' = [bought EXCEPT ![u] = snap[t].bought - BoughtPart(t)]
    /\ free' = [free EXCEPT ![u] = FreeAtHand(t) - FreePart(t)]
    /\ resetDay' = [resetDay EXCEPT ![u] = today]
    /\ ledger' = [ledger EXCEPT ![u].charged = @ + job[t].amount]
    /\ fromFree' = [fromFree EXCEPT ![u] = @ + FreePart(t)]
    /\ usedToday' = [usedToday EXCEPT ![u] = @ + FreePart(t)]
    /\ issued' = [issued EXCEPT ![u] = @ + (FreeAtHand(t) - snap[t].free)]
    /\ Release(t)
    /\ Goto(t, "invalidate")
    /\ UNCHANGED <<accounts, refCount, referredBy, gifted, cache, snap, today, calls>>

\* "need_bought_credits" or "insufficient": nothing is written.
SpendRefuse(t) ==
    /\ pc[t] = "write"
    /\ job[t].kind \in {"spendFree", "spendPaid"}
    /\ snap[t].bought < BoughtPart(t)
    /\ Release(t)
    /\ Return(t)
    /\ UNCHANGED <<rows, books, cache, today, calls>>

\* Seeded fault: the claw-back is not limited to the balance.
DeductibleInFull(t) == job[t].amount

Deductible(t) == IF job[t].amount <= snap[t].bought THEN job[t].amount ELSE snap[t].bought

\* Takes back what is there; with nothing there it returns without writing.
DeductWrite(t) ==
    LET u == job[t].user IN
    /\ pc[t] = "write"
    /\ job[t].kind = "deduct"
    /\ IF Deductible(t) <= 0
         THEN /\ Return(t)
              /\ UNCHANGED <<bought, ledger>>
         ELSE /\ bought' = [bought EXCEPT ![u] = snap[t].bought - Deductible(t)]
              /\ ledger' = [ledger EXCEPT ![u].clawed = @ + Deductible(t)]
              /\ Goto(t, "invalidate")
              /\ UNCHANGED snap
    /\ Release(t)
    /\ UNCHANGED <<accounts, free, resetDay, refCount, referredBy, books,
                   cache, today, calls>>

NewRow(u) ==
    /\ accounts' = accounts \cup {u}
    /\ free' = [free EXCEPT ![u] = DailyFree]
    /\ issued' = [issued EXCEPT ![u] = DailyFree]
    /\ resetDay' = [resetDay EXCEPT ![u] = today]

\* INSERT of a user who came without a code.
CreateAlone(t) ==
    LET u == job[t].user IN
    /\ pc[t] = "insert"
    /\ job[t].ref = NoUser
    /\ u \notin accounts
    /\ lock[u] = NoTask
    /\ NewRow(u)
    /\ Return(t)
    /\ UNCHANGED <<bought, refCount, referredBy, ledger, gifted, fromFree, usedToday,
                   cache, lock, today, calls>>

\* Seeded fault: the INSERT became an upsert.
UpsertReferred(t) ==
    LET u == job[t].user IN
    /\ pc[t] = "insert"
    /\ job[t].ref # NoUser
    /\ lock[u] = NoTask
    /\ lock' = [lock EXCEPT ![u] = t]
    /\ Goto(t, "lock")
    /\ UNCHANGED <<rows, books, cache, snap, today, calls>>

\* INSERT of a referred user, not yet committed: another INSERT of the same key
\* waits for the end of this transaction, which goes on to lock the referrer.
InsertReferred(t) ==
    LET u == job[t].user IN
    /\ pc[t] = "insert"
    /\ job[t].ref # NoUser
    /\ u \notin accounts
    /\ lock[u] = NoTask
    /\ lock' = [lock EXCEPT ![u] = t]
    /\ Goto(t, "lock")
    /\ UNCHANGED <<rows, books, cache, snap, today, calls>>

\* The referrer's bonus and the COMMIT of both rows.
CreateReferred(t) ==
    LET u == job[t].user
        r == job[t].ref
        n == snap[t].refCount + 1 IN
    /\ pc[t] = "write"
    /\ job[t].kind = "create"
    /\ NewRow(u)
    /\ referredBy' = [referredBy EXCEPT ![u] = r]
    /\ refCount' = [refCount EXCEPT ![r] = n]
    /\ bought' = [bought EXCEPT ![u] = RefereeCr, ![r] = snap[t].bought + ReferrerBonus(n)]
    /\ gifted' = [gifted EXCEPT ![u] = @ + RefereeCr, ![r] = @ + ReferrerBonus(n)]
    /\ Release(t)
    /\ Return(t)
    /\ UNCHANGED <<ledger, fromFree, usedToday, cache, today, calls>>

\* Two first messages of one user: the second INSERT violates the primary key
\* and its transaction is rolled back.
CreateConflict(t) ==
    /\ pc[t] = "insert"
    /\ job[t].user \in accounts
    /\ Return(t)
    /\ UNCHANGED <<rows, books, cache, lock, today, calls>>

-----------------------------------------------------------------------------
(* Transactions of one relative UPDATE.                                    *)

\* add_credits and refund_credits.
AddCredits(t, u, a) ==
    /\ pc[t] = "idle"
    /\ calls < MaxCalls
    /\ calls' = calls + 1
    /\ u \in accounts
    /\ lock[u] = NoTask
    /\ bought' = [bought EXCEPT ![u] = @ + a]
    /\ ledger' = [ledger EXCEPT ![u].added = @ + a]
    /\ job' = [job EXCEPT ![t] = [kind |-> "add", user |-> u, amount |-> a, ref |-> NoUser]]
    /\ pc' = [pc EXCEPT ![t] = "invalidate"]
    /\ UNCHANGED <<accounts, free, resetDay, refCount, referredBy, books,
                   cache, lock, snap, today>>

\* The balance part of apply_promocode: no ledger row and no invalidation.
PromoCredit(u, a) ==
    /\ calls < MaxCalls
    /\ calls' = calls + 1
    /\ u \in accounts
    /\ lock[u] = NoTask
    /\ bought' = [bought EXCEPT ![u] = @ + a]
    /\ gifted' = [gifted EXCEPT ![u] = @ + a]
    /\ UNCHANGED <<accounts, free, resetDay, refCount, referredBy, ledger, fromFree,
                   issued, usedToday, cache, lock, locals, today>>

-----------------------------------------------------------------------------
(* get_balance and get_or_create_user read without a lock and put the free *)
(* allowance back when the row they read is of an earlier day.             *)

\* get_balance goes on to fill the cache with row s, get_or_create_user returns.
AfterRead(t, s) ==
    IF job[t].kind = "balance"
      THEN Goto(t, "fill") /\ snap' = [snap EXCEPT ![t] = s]
      ELSE Return(t)

\* Plain SELECT.
ReadRow(t) ==
    LET u == job[t].user IN
    /\ pc[t] = "read"
    /\ IF resetDay[u] < today
         THEN Goto(t, "reset") /\ snap' = [snap EXCEPT ![t] = Row(u)]
         ELSE AfterRead(t, Row(u))
    /\ UNCHANGED <<rows, books, cache, lock, today, calls>>

\* Seeded fault: the reset adds the allowance instead of replacing it.
ResetFreeAddsUp(t) ==
    LET u == job[t].user IN
    /\ pc[t] = "reset"
    /\ lock[u] = NoTask
    /\ free' = [free EXCEPT ![u] = @ + DailyFree]
    /\ resetDay' = [resetDay EXCEPT ![u] = today]
    /\ issued' = [issued EXCEPT ![u] = @ + DailyFree]
    /\ AfterRead(t, [snap[t] EXCEPT !.free = DailyFree])
    /\ UNCHANGED <<accounts, bought, refCount, referredBy, ledger, gifted, fromFree,
                   usedToday, cache, lock, today, calls>>

\* UPDATE users SET credits_free_today = :daily, credits_free_reset = :today
ResetFree(t) ==
    LET u == job[t].user IN
    /\ pc[t] = "reset"
    /\ lock[u] = NoTask
    /\ free' = [free EXCEPT ![u] = DailyFree]
    /\ resetDay' = [resetDay EXCEPT ![u] = today]
    /\ issued' = [issued EXCEPT ![u] = @ + (DailyFree - free[u])]
    /\ AfterRead(t, [snap[t] EXCEPT !.free = DailyFree])
    /\ UNCHANGED <<accounts, bought, refCount, referredBy, ledger, gifted, fromFree,
                   usedToday, cache, lock, today, calls>>

\* _balance_cache_set, after the transaction is over.
FillCache(t) ==
    /\ pc[t] = "fill"
    /\ cache' = [cache EXCEPT ![job[t].user] =
                    [bought |-> snap[t].bought, free |-> snap[t].free]]
    /\ Return(t)
    /\ UNCHANGED <<rows, books, lock, today, calls>>

\* _balance_cache_invalidate, after the commit.
Invalidate(t) ==
    /\ pc[t] = "invalidate"
    /\ cache' = [cache EXCEPT ![job[t].user] = NoEntry]
    /\ Return(t)
    /\ UNCHANGED <<rows, books, lock, today, calls>>

-----------------------------------------------------------------------------
(* The environment.                                                        *)

\* BALANCE_CACHE_TTL
CacheExpire(u) ==
    /\ cache[u] # NoEntry
    /\ cache' = [cache EXCEPT ![u] = NoEntry]
    /\ UNCHANGED <<rows, books, lock, locals, today, calls>>

\* The process dies, the task is cancelled, a statement raises or (between the
\* commit and the end of the call) Redis fails: the open transaction is rolled
\* back, the rest of the call does not happen.
Abort(t) ==
    /\ pc[t] # "idle"
    /\ Release(t)
    /\ Return(t)
    /\ UNCHANGED <<rows, books, cache, today, calls>>

Midnight ==
    /\ today < MaxDay
    /\ today' = today + 1
    /\ usedToday' = [u \in Users |-> 0]
    /\ UNCHANGED <<rows, gifted, fromFree, issued, cache, lock, locals, calls>>

TaskCalls(t) ==
    \E u \in Users :
        \/ \E c \in Prices, k \in {"spendFree", "spendPaid"} : CallSpend(t, u, k, c)
        \/ \E a \in Amounts : CallDeduct(t, u, a) \/ AddCredits(t, u, a)
        \/ CallBalance(t, u)
        \/ CallTouch(t, u)
        \/ \E r \in Users \cup {NoUser} : CallCreate(t, u, r)

TaskSteps(t) ==
    \/ SpendBypass(t) \/ LockRow(t) \/ SpendWrite(t) \/ SpendRefuse(t) \/ DeductWrite(t)
    \/ CreateAlone(t) \/ InsertReferred(t) \/ CreateReferred(t) \/ CreateConflict(t)
    \/ ReadRow(t) \/ ResetFree(t) \/ FillCache(t) \/ Invalidate(t)
    \/ Abort(t)

Next ==
    \/ \E t \in Tasks : TaskCalls(t) \/ TaskSteps(t)
    \/ \E u \in Users : CacheExpire(u) \/ \E a \in Amounts : PromoCredit(u, a)
    \/ Midnight

Spec == Init /\ [][Next]_vars

-----------------------------------------------------------------------------
(* Properties.                                                             *)

Labels == {"idle", "lock", "write", "insert", "read", "reset", "fill", "invalidate"}
Rows == [bought : Int, free : 0..DailyFree, resetDay : 0..MaxDay, refCount : Nat]
Entries == [added : Nat, charged : Nat, clawed : Nat]
Jobs == [kind : Kinds, user : Users \cup {NoUser}, amount : Nat, ref : Users \cup {NoUser}]

\* Every variable has its type; the free balance stays between 0 and the
\* daily allowance (an allowance replaces the one before, it is not added).
TypeOK ==
    /\ accounts \in SUBSET Users
    /\ bought \in [Users -> Int]
    /\ free \in [Users -> 0..DailyFree]
    /\ resetDay \in [Users -> 0..MaxDay]
    /\ refCount \in [Users -> Nat]
    /\ referredBy \in [Users -> Users \cup {NoUser}]
    /\ ledger \in [Users -> Entries]
    /\ cache \in [Users -> [bought : Int, free : 0..DailyFree] \cup {NoEntry}]
    /\ lock \in [Users -> Tasks \cup {NoTask}]
    /\ pc \in [Tasks -> Labels]
    /\ job \in [Tasks -> Jobs]
    /\ snap \in [Tasks -> Rows]
    /\ today \in 1..MaxDay
    /\ calls \in Nat
    /\ gifted \in [Users -> Nat]
    /\ fromFree \in [Users -> Nat]
    /\ issued \in [Users -> Int]
    /\ usedToday \in [Users -> Nat]

\* A task between its SELECT ... FOR UPDATE and its COMMIT holds the lock of the
\* row, and what it read is still what the row says: no other transaction, the
\* unlocked daily reset of get_balance included, commits in between.
NoLostUpdate ==
    \A t \in Tasks :
        pc[t] = "write" =>
            /\ LockedRow(t) \in Users
            /\ lock[LockedRow(t)] = t
            /\ snap[t] = Row(LockedRow(t))

\* Concurrent spends, refund claw-backs, bonuses and daily resets never drive
\* the bought balance below zero.
NoOverdraft == \A u \in Users : bought[u] >= 0

\* The balances follow from the books, for every interleaving and crash: the
\* bought balance is what the ledger rows and the gifts added, less what was
\* clawed back and charged beyond the free credits; the free balance is what
\* was issued and not spent.
BooksBalance ==
    \A u \in Users :
        /\ bought[u] = ledger[u].added + gifted[u] - ledger[u].clawed
                          - (ledger[u].charged - fromFree[u])
        /\ free[u] = issued[u] - fromFree[u]

\* The referrer is credited once per friend: referral_count is the number of
\* rows that name the user in referred_by, however many first messages of one
\* friend are handled at a time.
ReferralCount ==
    \A r \in Users : refCount[r] = Cardinality({u \in Users : referredBy[u] = r})

\* The transactions implement indivisible operations on the balances.
Account == INSTANCE CreditAccount
Linearizable == Account!Spec

\* guide.py promises DailyFree free credits a day: no user spends more of them
\* between two midnights.
DailyAllowance == \A u \in Users : usedToday[u] <= DailyFree

=============================================================================
