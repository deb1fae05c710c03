---------------------------- MODULE Entitlements ----------------------------
(***************************************************************************)
(* What credits.py hands out besides paid credits: the daily login bonus,  *)
(* the trial, 48 hours of full access, unlimited days and promo codes.     *)
(*                                                                         *)
(* All but the promo codes are a plain SELECT followed by an UPDATE of     *)
(* constants computed from what was read: no lock is taken in between, so  *)
(* two calls of one user can read the same row.  apply_promocode holds the *)
(* lock of the promo row from its SELECT ... FOR UPDATE to its COMMIT.     *)
(* Time is counted in days; a call computes with the day of its SELECT.    *)
(***************************************************************************)
EXTENDS Integers, FiniteSets

CONSTANTS
    Users,          \* Telegram user ids
    Tasks,          \* calls that can be in flight at a time
    NoUser,
    NoTask,         \* the lock of the promo row is free
    FullDays,       \* FULL_ACCESS_48H_HOURS, in days
    UnlimitedDays,  \* UNLIMITED_DAYS
    MaxUses,        \* promocodes.max_uses
    MaxDay,         \* bound: calendar days
    MaxCalls        \* bound: calls made

ASSUME EntitlementsAssumption ==
    /\ IsFiniteSet(Users)
    /\ NoUser \notin Users
    /\ NoTask \notin Tasks
    /\ FullDays \in Nat \ {0}
    /\ UnlimitedDays \in Nat \ {0}
    /\ MaxUses \in Nat
    /\ MaxDay \in Nat \ {0}
    /\ MaxCalls \in Nat

VARIABLES
    trialAt,        \* users.trial_started_at; 0 is NULL
    fullEnds,       \* users.full_access_48h_ends_at; 0 is NULL
    unlimitedEnds,  \* users.unlimited_ends_at; 0 is NULL
    lastBonus,      \* users.last_daily_bonus_date; 0 is NULL
    streak,         \* users.login_streak
    promoUses,      \* users with a row in promo_uses for the code
    promoCount,     \* promocodes.used_count
    promoLock,      \* the transaction that holds the lock of the promo row
    pc,             \* where a call is
    job,            \* its function, its user and the values it is about to write
    today,
    calls,          \* calls made so far
    bonuses,        \* history: bonuses[u][d], times u was credited the bonus of day d
    claimed,        \* history: days whose bonus u's row was ever marked with
    promoPaid,      \* history: times the code's credits were added to u
    firstTrial,     \* history: day the trial was first started
    firstFull,      \* history: day the full access was first activated
    extensions      \* history: commits of set_unlimited_until

windows == <<trialAt, fullEnds, unlimitedEnds, firstTrial, firstFull, extensions>>
login == <<lastBonus, streak, bonuses, claimed>>
promo == <<promoUses, promoCount, promoLock, promoPaid>>
vars == <<windows, login, promo, pc, job, today, calls>>

Kinds == {"none", "bonus", "trial", "full", "extend", "promo"}
NoJob == [kind |-> "none", user |-> NoUser, day |-> 0, val |-> 0]

Init ==
    /\ trialAt = [u \in Users |-> 0]
    /\ fullEnds = [u \in Users |-> 0]
    /\ unlimitedEnds = [u \in Users |-> 0]
    /\ lastBonus = [u \in Users |-> 0]
    /\ streak = [u \in Users |-> 0]
    /\ promoUses = {}
    /\ promoCount = 0
    /\ promoLock = NoTask
    /\ pc = [t \in Tasks |-> "idle"]
    /\ job = [t \in Tasks |-> NoJob]
    /\ today = 1
    /\ calls = 0
    /\ bonuses = [u \in Users |-> [d \in 1..MaxDay |-> 0]]
    /\ claimed = [u \in Users |-> {}]
    /\ promoPaid = [u \in Users |-> 0]
    /\ firstTrial = [u \in Users |-> 0]
    /\ firstFull = [u \in Users |-> 0]
    /\ extensions = [u \in Users |-> 0]

\* A call starts with its SELECT and keeps what it will write.
Begin(t, kind, u, val) ==
    /\ pc[t] = "idle"
    /\ calls < MaxCalls
    /\ calls' = calls + 1
    /\ job' = [job EXCEPT ![t] = [kind |-> kind, user |-> u, day |-> today, val |-> val]]
    /\ pc' = [pc EXCEPT ![t] = "write"]

Writing(t, kind) == pc[t] = "write" /\ job[t].kind = kind

Return(t) ==
    /\ pc' = [pc EXCEPT ![t] = "idle"]
    /\ job' = [job EXCEPT ![t] = NoJob]

-----------------------------------------------------------------------------
(* try_grant_daily_login_bonus                                             *)

\* Seeded fault: the streak grows with every bonus, whenever the last one was.
NextStreakAlways(u) == streak[u] + 1

\* A bonus on the day after the last one continues the streak.
NextStreak(u) == IF lastBonus[u] # 0 /\ lastBonus[u] = today - 1 THEN streak[u] + 1 ELSE 1

BonusRead(t, u) ==
    /\ lastBonus[u] < today
    /\ Begin(t, "bonus", u, NextStreak(u))
    /\ UNCHANGED <<windows, login, promo, today>>

\* UPDATE of the date and the streak, COMMIT.
BonusMark(t) ==
    LET u == job[t].user IN
    /\ Writing(t, "bonus")
    /\ lastBonus' = [lastBonus EXCEPT ![u] = job[t].day]
    /\ streak' = [streak EXCEPT ![u] = job[t].val]
    /\ claimed' = [claimed EXCEPT ![u] = @ \cup {job[t].day}]
    /\ pc' = [pc EXCEPT ![t] = "credit"]
    /\ UNCHANGED <<windows, bonuses, promo, job, today, calls>>

\* add_credits, in a transaction of its own.
BonusCredit(t) ==
    /\ pc[t] = "credit"
    /\ bonuses' = [bonuses EXCEPT ![job[t].user][job[t].day] = @ + 1]
    /\ Return(t)
    /\ UNCHANGED <<windows, lastBonus, streak, claimed, promo, today, calls>>

-----------------------------------------------------------------------------
(* start_trial and activate_48h_full_access                                *)

\* Seeded fault: a trial that is over can be started again.
TrialReadAgain(t, u) ==
    /\ trialAt[u] < today
    /\ Begin(t, "trial", u, today)
    /\ UNCHANGED <<windows, login, promo, today>>

TrialRead(t, u) ==
    /\ trialAt[u] = 0
    /\ Begin(t, "trial", u, today)
    /\ UNCHANGED <<windows, login, promo, today>>

TrialWrite(t) ==
    LET u == job[t].user IN
    /\ Writing(t, "trial")
    /\ trialAt' = [trialAt EXCEPT ![u] = job[t].val]
    /\ firstTrial' = [firstTrial EXCEPT ![u] = IF @ = 0 THEN today ELSE @]
    /\ Return(t)
    /\ UNCHANGED <<fullEnds, unlimitedEnds, firstFull, extensions, login, promo, today, calls>>

FullRead(t, u) ==
    /\ fullEnds[u] = 0
    /\ Begin(t, "full", u, today + FullDays)
    /\ UNCHANGED <<windows, login, promo, today>>

FullWrite(t) ==
    LET u == job[t].user IN
    /\ Writing(t, "full")
    /\ fullEnds' = [fullEnds EXCEPT ![u] = job[t].val]
    /\ firstFull' = [firstFull EXCEPT ![u] = IF @ = 0 THEN today ELSE @]
    /\ Return(t)
    /\ UNCHANGED <<trialAt, unlimitedEnds, firstTrial, extensions, login, promo, today, calls>>

-----------------------------------------------------------------------------
(* set_unlimited_until, and what the admin panels do to the same column.   *)

\* Seeded fault: the base is the sum of the end and of the present day.
ExtensionBaseSum(u) == unlimitedEnds[u] + today

\* A running subscription is extended from its end.
ExtensionBase(u) == IF unlimitedEnds[u] > today THEN unlimitedEnds[u] ELSE today

ExtendRead(t, u) ==
    /\ Begin(t, "extend", u, ExtensionBase(u) + UnlimitedDays)
    /\ UNCHANGED <<windows, login, promo, today>>

ExtendWrite(t) ==
    LET u == job[t].user IN
    /\ Writing(t, "extend")
    /\ unlimitedEnds' = [unlimitedEnds EXCEPT ![u] = job[t].val]
    /\ extensions' = [extensions EXCEPT ![u] = @ + 1]
    /\ Return(t)
    /\ UNCHANGED <<trialAt, fullEnds, firstTrial, firstFull, login, promo, today, calls>>

\* The web panel sets the end, whatever it was.
AdminSet(u) ==
    /\ calls < MaxCalls
    /\ calls' = calls + 1
    /\ unlimitedEnds' = [unlimitedEnds EXCEPT ![u] = today + UnlimitedDays]
    /\ UNCHANGED <<trialAt, fullEnds, firstTrial, firstFull, extensions, login, promo,
                   pc, job, today>>

\* unlimited_ends_at = NULL
AdminRemove(u) ==
    /\ unlimitedEnds[u] # 0
    /\ unlimitedEnds' = [unlimitedEnds EXCEPT ![u] = 0]
    /\ UNCHANGED <<trialAt, fullEnds, firstTrial, firstFull, extensions, login, promo,
                   pc, job, today, calls>>

-----------------------------------------------------------------------------
(* apply_promocode                                                         *)

PromoBegin(t, u) ==
    /\ Begin(t, "promo", u, 0)
    /\ UNCHANGED <<windows, login, promo, today>>

\* Seeded fault: the SELECT lost its FOR UPDATE.
PromoLockUnlocked(t) ==
    /\ Writing(t, "promo")
    /\ pc' = [pc EXCEPT ![t] = "promo"]
    /\ job' = [job EXCEPT ![t].val = promoCount]
    /\ UNCHANGED <<windows, login, promo, today, calls>>

\* SELECT ... FOR UPDATE
PromoLock(t) ==
    /\ Writing(t, "promo")
    /\ promoLock = NoTask
    /\ promoLock' = t
    /\ pc' = [pc EXCEPT ![t] = "promo"]
    /\ job' = [job EXCEPT ![t].val = promoCount]
    /\ UNCHANGED <<windows, login, promoUses, promoCount, promoPaid, today, calls>>

PromoUnlock(t) == promoLock' = IF promoLock = t THEN NoTask ELSE promoLock

\* The code is used up, or the user has used it.
PromoRefuse(t) ==
    /\ pc[t] = "promo"
    /\ job[t].val >= MaxUses \/ job[t].user \in promoUses
    /\ PromoUnlock(t)
    /\ Return(t)
    /\ UNCHANGED <<windows, login, promoUses, promoCount, promoPaid, today, calls>>

\* Seeded fault: max_uses is not looked at.
PromoApplyUnlimited(t) ==
    LET u == job[t].user IN
    /\ pc[t] = "promo"
    /\ u \notin promoUses
    /\ promoCount' = job[t].val + 1
    /\ promoUses' = promoUses \cup {u}
    /\ promoPaid' = [promoPaid EXCEPT ![u] = @ + 1]
    /\ PromoUnlock(t)
    /\ Return(t)
    /\ UNCHANGED <<windows, login, today, calls>>

\* used_count, the row of promo_uses and the credits in one COMMIT.
PromoApply(t) ==
    LET u == job[t].user IN
    /\ pc[t] = "promo"
    /\ job[t].val < MaxUses
    /\ u \notin promoUses
    /\ promoCount' = job[t].val + 1
    /\ promoUses' = promoUses \cup {u}
    /\ promoPaid' = [promoPaid EXCEPT ![u] = @ + 1]
    /\ PromoUnlock(t)
    /\ Return(t)
    /\ UNCHANGED <<windows, login, today, calls>>

-----------------------------------------------------------------------------
\* The process dies, the task is cancelled or a statement raises: the open
\* transaction is rolled back and the rest of the call does not happen.
Abort(t) ==
    /\ pc[t] # "idle"
    /\ PromoUnlock(t)
    /\ Return(t)
    /\ UNCHANGED <<windows, login, promoUses, promoCount, promoPaid, today, calls>>

Midnight ==
    /\ today < MaxDay
    /\ today' = today + 1
    /\ UNCHANGED <<windows, login, promo, pc, job, calls>>

Reads(t, u) ==
    BonusRead(t, u) \/ TrialRead(t, u) \/ FullRead(t, u) \/ ExtendRead(t, u) \/ PromoBegin(t, u)

Writes(t) ==
    \/ BonusMark(t) \/ BonusCredit(t) \/ TrialWrite(t) \/ FullWrite(t) \/ ExtendWrite(t)
    \/ PromoLock(t) \/ PromoRefuse(t) \/ PromoApply(t)

Next ==
    \/ \E t \in Tasks : Writes(t) \/ Abort(t) \/ \E u \in Users : Reads(t, u)
    \/ \E u \in Users : AdminSet(u) \/ AdminRemove(u)
    \/ Midnight

Spec == Init /\ [][Next]_vars

-----------------------------------------------------------------------------
(* Properties.                                                             *)

\* Every variable has its type; a code is never used beyond max_uses.
TypeOK ==
    /\ \A f \in {trialAt, fullEnds, unlimitedEnds, lastBonus, streak,
                 promoPaid, firstTrial, firstFull, extensions} : f \in [Users -> Nat]
    /\ promoUses \in SUBSET Users
    /\ promoCount \in 0..MaxUses
    /\ promoLock \in Tasks \cup {NoTask}
    /\ pc \in [Tasks -> {"idle", "write", "credit", "promo"}]
    /\ job \in [Tasks -> [kind : Kinds, user : Users \cup {NoUser},
                          day : 0..MaxDay, val : Nat]]
    /\ today \in 1..MaxDay
    /\ calls \in 0..MaxCalls
    /\ bonuses \in [Users -> [1..MaxDay -> Nat]]
    /\ claimed \in [Users -> SUBSET (1..MaxDay)]

\* A streak of n days, in the row or about to be paid for, stands for n days in a
\* row on each of which the user came: neither a race of two logins nor a write
\* that is late by a day makes a streak longer than it was.
StreakEarned ==
    LET Earned(u, d, n) == d - n + 1 >= 1 /\ (d - n + 1)..d \subseteq claimed[u] IN
    /\ \A u \in Users : streak[u] > 0 => Earned(u, lastBonus[u], streak[u])
    /\ \A t \in Tasks : pc[t] = "credit" => Earned(job[t].user, job[t].day, job[t].val)

\* However many taps race, the trial and the 48 hours run from the first
\* activation at the latest: an activation that comes late never prolongs the
\* access the first one gave, and access that ran out does not come back.
WindowOnce ==
    \A u \in Users :
        /\ trialAt[u] <= firstTrial[u]
        /\ fullEnds[u] # 0 => fullEnds[u] <= firstFull[u] + FullDays

\* Nobody has more unlimited days ahead than were sold or given, whatever the
\* extensions, the admin's changes and the removals do to one another.
NotOversold ==
    \A u \in Users : unlimitedEnds[u] <= today + UnlimitedDays * (extensions[u] + 1)

\* A promo code is used at most max_uses times and once per user, used_count is
\* the number of its uses, and every use is paid exactly once.
PromoOnce ==
    /\ promoCount = Cardinality(promoUses)
    /\ promoCount <= MaxUses
    /\ \A u \in Users : promoPaid[u] = IF u \in promoUses THEN 1 ELSE 0

\* guide.py promises the login bonus once a day.
BonusOncePerDay == \A u \in Users, d \in 1..MaxDay : bonuses[u][d] <= 1

\* The docstring of set_unlimited_until: a subscription that is active is extended
\* from the date it ends.
ExtendedFromEnd ==
    [][\A u \in Users :
          extensions'[u] > extensions[u] /\ unlimitedEnds[u] > today
              => unlimitedEnds'[u] >= unlimitedEnds[u] + UnlimitedDays]_vars

=============================================================================
