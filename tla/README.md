# NeuroBox in TLA+

NeuroBox is a Telegram bot that sells access to text, image, video, music and
speech models for credits (CR). This directory specifies it as TLA+ modules: the
balances, payments and entitlements, what happens to a customer's request from
the middlewares to the refund, and the services around them. TLC checks the
modules on small instances, TLAPS proves the main results for all of them. Paths
such as `shared/domain/credits.py` are relative to the repository's root.
`PROJECT.json` maps every definition to the lines it models.

## 1. The system

Several processes share one PostgreSQL database and one Redis:

* the **bot** (`services/bot`, aiogram): one asyncio process; every update is a
  task, and updates of one user are handled concurrently;
* the **backend** (`services/backend`, FastAPI): payment webhooks, admin API;
* the **worker** (`services/worker`): video queue, statistics, alerts;
* the **admin panel** (`services/admin`, Flask): SQL statements of its own.

They all go through the functions of `shared/domain`. PostgreSQL runs READ
COMMITTED: a `SELECT ... FOR UPDATE` and an `UPDATE` wait for the row lock and
see the last committed row, a plain `SELECT` waits for nothing.

| Component | State | Operations | Talks to | What makes it correct | Module, status |
|---|---|---|---|---|---|
| Credit ledger (`shared/domain/credits.py`) | `users.credits_*`, `referral_count`, `credit_transactions`, Redis `balance:{id}` | spend, add, refund, claw back, read balance, get or create a user with the referral bonus | everything | no lost update, no overdraft, books balance, a bonus per friend | Credits, proved |
| Payments (`yookassa.py`, `cryptobot.py`, `handlers/balance.py`, `routers/webhooks.py`) | `payments`, Redis `payment_lock:{id}`, the providers | create, notify, return, reconcile, cancel, refund | ledger, entitlements, provider APIs | granted once, for money only; paid is settled | Payments, proved; liveness checked |
| Entitlements (`credits.py`) | bonus date and streak, trial, 48 h, unlimited end, `promocodes`, `promo_uses` | login bonus, start trial, activate, extend, redeem | ledger, payments, admin | windows open once, nothing oversold, codes used once | Entitlements, proved |
| Usage policy (`credits.py` 565-789) | Redis cooldowns and daily counters | enforce, roll back | spend, handlers | caps hold, every increment is kept or rolled back | UsagePolicy, proved |
| Generation (`handlers/*`) | `gen_lock`, cooldowns, pending pictures | lock, spend, call, answer, refund, run again | ledger, policy, providers | charged and answered or charged and refunded; refunds never exceed charges | Generation with Handlers, proved |
| Menus that wait for a message (`docgen.py`, `audiogen.py`, `transcribe.py`, `modes.py`) | Redis keys of 300 s, an FSM state | choose, filter, serve | generation | a choice serves one message | Dispatch, proved |
| Middlewares (`bot/middlewares`) | ban cache, rate counters | look up, count, pass on, run again | every handler | a ban takes hold, the rate holds | Gatekeeper, proved; the reruns in Generation |
| Worker, video queue (`worker/jobs/video_generate.py`, `push_task`) | Redis list | push, pop, make, deliver, refund | ledger, providers | one video or one refund for a copy, nothing lost in silence | VideoQueue, proved |
| Admin balance changes (backend, web panel, bot) | same row as the ledger | add, deduct | ledger | the journal explains the balance, no debt | AdminLedger, proved |
| Providers (`shared/providers`) | breaker of the process, jobs at fal.ai | ask, submit, poll, fetch, repeat | generation | shut in an outage only; nothing made for a price that is given back | Breaker, Providers, proved |
| Reminders, alerts (`bot/main.py`, `alerts.py`, `chat_service.py`) | `reminders`, marks | select, send, mark | - | no reminder twice, repeats have a cause | Notices, proved |
| Chat history (`chat_service.py`) | `chat_messages` | append, prune, clear | text handlers | the newest messages are kept | Chat, proved |
| Board (`board_service.py`, `board.py`) | posts, likes, comments, dialogue | like, comment, pin, publish, delete | - | counters true, limits hold | Board, proved |
| Statistics, analytics, pages of the panels, texts, settings, schema, deployment | - | - | - | - | not modelled: reading, wording, I/O |

What is hard here: read-then-write without a lock, sequences of transactions
that a crash can cut, Redis commands that interleave, handlers that the
middlewares run again, notifications and pushes that are lost or repeated, and
several paths that settle the same payment. The hazards, with their lines, are
in `PROJECT.json`.

## 2. The modules

```
CreditAccount   <-- implemented by --  Credits       <-- MCCredits, CreditsProof
Purchases       <-- implemented by --  Payments      <-- MCPayments, PaymentsProof
                                       Entitlements  <-- MCEntitlements, EntitlementsProof

Generation <-- HandlerRules, GenerationProof
     HandlerRules, Handlers  <-- MCGeneration \
     UsagePolicy                               >-- MCRequests
     Gatekeeper, Dispatch                     /
UsagePolicyProof, GenerationProof  <-- RequestsProof (over MCRequests)

VideoQueue, Breaker, Providers, AdminLedger, Notices, Board, Chat  <-- MCServices
ProvidersProof (VideoQueue, Breaker, Providers)  <-- ServicesProof (over MCServices)
```

### Value

**Credits** - the ledger. Each call in flight is a task with a program counter
(`pc`), its arguments (`job`) and the row it has read (`snap`). A step is
what happens between two awaits that another transaction can separate:
`LockRow` (SELECT FOR UPDATE), `SpendWrite`/`DeductWrite`/`CreateReferred`
(UPDATE and COMMIT), `ReadRow` (plain SELECT), `ResetFree` (the daily reset of
`get_balance` and `get_or_create_user`), `FillCache`, `Invalidate`. A
transaction of one relative UPDATE (`AddCredits`, `PromoCredit`) is one step.
`Abort` is a crash, a cancellation or an error anywhere in a call: the open
transaction is rolled back, the rest of the call never happens; `get_session`
does that. The user's `/start` with a referral code locks the referrer's row while
it holds its own uncommitted one. The history variables `gifted`,
`fromFree`, `issued` and `usedToday` record what no column records. Whether an
entitlement bypasses the charge is left open (`SpendBypass`). The provider's
result, and the refund that follows a failure, is any `AddCredits`.

**CreditAccount** - the abstract balances: each change is one indivisible
operation on the balance as it stands.

**Payments** - the four paths from the customer's money to the grant. `record`
is `payments.status`, `provider` the provider's own status, and a call goes
through `check` (ask the provider), `read` (the row), `insert` (CryptoBot and
Stars), `confirm` (pending to confirmed, under the row's lock) and `grant` (a
transaction of its own). The reconcile loop is one more worker that takes a
batch of the oldest pending card payments. `Crash` can end a call anywhere, `CheckFails` is a provider's API
that does not answer, `CreateUnrecorded` an INSERT that fails while the customer
still gets the link. What a grant adds (credits or unlimited days) is the
business of Credits and Entitlements.

**Purchases** - what the customer is promised: one grant per paid purchase.

**Entitlements** - every operation but the promo codes is a read step and a
write step with values computed from the read; `apply_promocode` holds the lock
of the promo row. `AdminSet` and `AdminRemove` are what the web panel and
the bot's admin menu write into `unlimited_ends_at` behind the domain's back.
Time is in days; trial and 48 hours are compared by their start and end only.

### The requests of a user

**UsagePolicy** - `enforce_usage_policy` and `_rollback_policy_usage` for one user
and one bucket of models, from `spend_credits` to the refund. Every Redis command
is a step (SET NX of the cooldown, INCR, DECR, GET, DELETE), and so is each of
the two queries that read the user's tier: the policy asks once, `spend_credits`
again, and a trial may begin or end in between. Redis may be down (the policy
lets through), a request may die anywhere. `raced` counts the increments that
fall between another request's decrement and its delete.

**Handlers** - each of the handlers that spend, as a set of programs: sequences
of steps (lock, spend, call, answer, refund) with, for every way in which a step
goes wrong, the program that continues. A program is read off the code's order
of statements and its `try`/`except` structure; wording and reads are left out.
It also holds the handlers with flaws of their own: the ones that answer an
error and keep the price, the ones that refund before or after telling.

**Generation** - runs those programs for updates of one user. It has the lock of
`store.py` (SET NX with a time limit, and an unconditional DELETE), cooldowns,
the picture that waits under a key, four kinds of users as `spend_credits` treats
them, and the middlewares' reruns: both call the handler inside the `try`
whose `except` calls it again, up to four times for one update (`attempts`; two
for an administrator). Prices are counted (`net`), the balance is Credits'.

**HandlerRules** - what the proofs about Generation use of the programs, as rules
about one step at a time: a heavy handler spends on its own bucket and raises
when the purchase raises; after a refund none follows before the next purchase;
after a purchase no way returns before an answer or a refund; what is taken is
deleted before it is paid for. `Ways` are the programs and all that is left of them
after any number of steps; `NoSpend`, `NoRefund` and `NoReturn` are the ways from
which something never happens any more. `HandlersAssumption` states the rules,
MCGeneration computes the four constants for the programs of Handlers, and TLC
evaluates the assumption: a handler that breaks a rule (a refund
that is missing on one error path, a key that is read and kept) makes it false.

**Dispatch** - which handler gets a message: the routers in the order of
`main.py`, the filters that GET and then DELETE the key of a menu before the
kind of the message is looked at.

**Gatekeeper** - the ban check with its cached verdict and the rate limit, with
a clock; administrators, Telegram's "forbidden" and the deletion of the account
block and unblock meanwhile; every call to Redis or the database may fail. `countedAt`
records when an update was counted; the rate limit is about the updates in a window.

### Services

**VideoQueue** - the bot pushes a task, the client of Redis may repeat the push
or lose its answer, the worker pops, makes, delivers or refunds; the bot makes
the video itself when the push seemed to fail; either process may die.

**Breaker** - the circuit breaker of the text provider: requests that overlap,
answers in any order, time. The failures it keeps are a set of answers, each with its time
and number, as two failures of one moment count twice.

**Providers** - one call of every other provider, as a table of what each client
does: repeats, submission, polling, deadline. A job goes on at the provider
when nobody waits for it.

**AdminLedger** - the balance as three panels change it, each with a SELECT and a
later UPDATE, beside a customer whose spends are one step. That they are is what
CreditAccount's refinement shows of Credits. `journal` is the sum of
`credit_transactions`, `gap` what is known not to be recorded there.

**Notices** - reminders (marked, then sent) and top-up reminders and alerts
(sent, then marked) with any number of processes that may die.

**Board** - likes, comments, pins, the dialogue that writes a post.
**Chat** - appends, the two statements of a prune, clearing; ids are drawn before
the row is visible.

The modules of MCRequests share no variable, and neither do those of MCServices.
Each of the two runs is a disjoint union: `focus` names the module that moves,
the others stay in one initial state. Their state spaces add up instead of
multiplying; what they do to each other is inside the modules, as the actions
with which a module lets its surroundings act (a changed tier, a block, a lost
push).

Operators with a comment "Seeded fault" are plausible bugs of the code. No
specification uses them; they serve to show that each property can fail.

## 3. The runs

| Run | Question | Properties | Result |
|---|---|---|---|
| credits | do concurrent calls and crashes keep the balances right? | TypeOK, NoLostUpdate, NoOverdraft, BooksBalance, ReferralCount, Linearizable | holds, 446 709 states |
| allowance | is the free allowance spent once a day? | DailyAllowance | violated |
| payments | is a purchase granted exactly once, and only for money? | TypeOK, ExactlyOnce, GrantedForMoney | holds, 844 925 states |
| payments_live | is a recorded and paid card payment settled without any notification? | PaidSettled | holds, 93 158 states |
| paid_credited | ... and is it then always credited? | PaidCredited | violated |
| refunded_once | is a refund deducted once? | RefundedOnce | violated |
| entitlements | what do the unlocked bonus, trial and extension still guarantee, and are promo codes safe? | TypeOK, StreakEarned, WindowOnce, NotOversold, PromoOnce | holds, 1 247 210 states |
| bonus_once_per_day | is the login bonus credited once a day? | BonusOncePerDay | violated |
| extended_from_end | does an extension start at the end of a running subscription? | ExtendedFromEnd | violated |
| requests | is every request charged and answered, or given back, within caps, locks and limits? | RequestsTypeOK; Exclusion, ChargedDelivered, NothingMinted, HeavyOnce, TakenOnce, RetryAllowed; CapUnlessRaced, CounterExact, CountedOrCharged; ChoiceServesOne; RateHolds, BlocksTakeHold | holds, 1.54 million states |
| services | do queue, providers, panels, loops, board and history keep what they promise? | ServicesTypeOK; OneOutcomePerCopy, NoSilentLoss; ShutInOutage, NothingWasted; JournalExplains, OwesOnlyIfRaced; ReminderFate, NudgedOnce; CountersTrue, LimitsHold; NewestKept | holds, 785 000 states |
| one_charge | is a chat message charged once? | OneCharge | violated |

The violated properties are promises of the documentation or of a docstring that
the code does not keep; `PROJECT.json` quotes them under "findings".

* `DailyAllowance`: `get_balance` sees yesterday's row, a spend resets and uses
  today's credits, and the reset of `get_balance` puts them back.
* `PaidCredited`: the call dies between the commit of `confirmed` and the grant.
  `PaidSettled` says that this is the *only* way to lose a recorded payment.
* `RefundedOnce`: `process_refund_webhook` has no memory of earlier deliveries.
* `BonusOncePerDay`: two `/start` both read that today's bonus is due.
* `ExtendedFromEnd`: a change of the end date between an extension's read and
  its write is overwritten. `NotOversold` says that the error is never in the
  customer's favour beyond the days that were given.
* `OneCharge`: Telegram refuses the message that carries the answer, the handler
  raises, the middlewares call it again, and the lock of the first run is free.

Many properties that hold name the exception they allow, because the code has
it: `raced`, `overruns`, `stale`, `undone`, `hasty`, `swallowed` and their like
record the one interleaving in which the promise fails, so that the property
says that nothing else breaks it. `ChargedDelivered` lists the handlers that keep
the price without an answer (`KeepPrice`, `LoseAnswer`), `NothingMinted` those
that can refund twice or refund what was not paid.

**Bounds.** *credits*: one user with a row and one newcomer, two tasks, four
calls, two days, prices 1 and 3 with an allowance of 2 (a spend within the
allowance, one beyond it), credits of 2, one referral level. Two tasks are enough for every
read-write race of the code, which involves pairs of transactions on one row; four
calls let a race be set up (credit, spend) and observed; the second day is the
reset. *payments*: one payment of each provider, two calls beside the loop,
three deliveries, one fault; a race for a payment needs two calls, a refund needs
a third delivery. *payments_live*: two cards and a batch of one, so that an
older payment stands before the paid one. *entitlements*: two users, two tasks, four calls,
three days (streak of three), a code of one use wanted by both.
*requests*: every handler alone, called up to four times for a user who pays and
up to twice for the other kinds, which covers every error path; five pairs of
handlers that share the lock, a cooldown or a pending picture (`MCScenarios`),
with one lock that expires under its holder. What more updates could do is
proved. Usage policy: three requests and a cap of one, as
the race of a decrement with its delete needs a request that leaves, one that
enters and one that is refused. Dispatch: two messages (a text and any other,
or two recordings), two choices. Gatekeeper: three events with a limit of two,
a window of two ticks and a verdict of one, four ticks: a window begins, is
exceeded and ends, a verdict is stored and outlives a change. *services*: two orders, two
copies of a push; three requests against a threshold of two, six ticks
(outage, cooldown, reopening); three changes of a balance (one makes a
panel's row stale, two deduct); two processes, two reminders, two alerts, one
failure; three taps by two customers, one pin; three answers against a history
of two; two polls and two repeats of each call.

Bounds that occur in guards only: `MaxDay`, `MaxCalls`, `MaxDeliveries`,
`MaxFaults`, `MaxOverruns`, `MaxCoolings`, `MaxBlind`, `MaxSwitches`, `MaxLapses`,
`MaxClock`, `MaxBlocks`, `MaxFailures`, `MaxChoices`, `MaxAnswers`, `MaxChanges`,
`MaxComments`, `MaxClears`, `MaxCopies`. `MaxClock` and `MaxFailures` name the same
kind of bound in several modules and have one value in a run.
Deadlock checking is off in all runs: a bot nobody writes to is idle. The
run *entitlements* permutes users and tasks, *requests* numbers calls and events in the
order in which they come.

**Fairness.** Only `FairSpec` of Payments states any. Steps of a call in flight
are weakly fair (asyncio goes on with a task, or it is killed, which is
`Crash`). The loop's steps are weakly fair as `payment_reconcile_loop` is an endless loop that
catches every exception; its sleep is not modelled. YooKassa gives up a payment
nobody pays (`Expire`), which the batch depends on: without that, 25 payments left open forever
would keep every later one from its turn. No notification is ever assumed to
arrive. Faults are bounded by `MaxFaults`: a provider that never answers settles nothing.

## 4. The proofs

For every value of the constants that meets the assumption of its module
(finite sets, natural numbers, null values outside the sets they stand beside,
kinds of notices that do not overlap, handler programs that keep the rules of
HandlerRules):

* **CreditsProof.** `Safety`: `Spec => []Protocol`, where `Protocol` is TypeOK,
  NoLostUpdate and `CallsConsistent` (a call's arguments fit the place it has
  reached; a task that has inserted a user holds that user's key). This is
  inductive on its own. On top of it `Accounting` (NoOverdraft, BooksBalance,
  ReferralCount and `NoRow`: a user without a row has no history) is inductive
  relative to `Protocol`; only seven actions touch the balances (`Movements`).
  From these: `TypeCorrect`, `LostUpdateFree`, `OverdraftFree`,
  `BooksAlwaysBalance`, `ReferralsCountedOnce`. NoLostUpdate is what makes the
  rest go through: a constant computed from `snap` is the constant a relative
  update would have written. `Refines` is the step simulation of CreditAccount.
* **PaymentsProof.** `Invariance`: `IInv` is TypeOK, ExactlyOnce and
  `CallsConsistent` (from `read` on, a call's payment is one the provider calls
  succeeded; that status never changes again). ExactlyOnce alone is not inductive: a `Grant` needs to know that the granting
  call is the only one, and the refinement needs the money. `TypeCorrect`,
  `GrantExactlyOnce`, and `Refines`: `Confirm`/`Grant` implement Purchases.
* **EntitlementsProof.** All of the invariants of Entitlements. The values that a
  call carries from its read to its write are what needs an invariant: a streak
  lacks the day of the call until it is marked (`CallStands`), an activation in
  flight is no later than the first (`CallOnce`: the columns are never reset, so
  whoever read 0 read it before the first write), an extension in flight is
  covered by the count it will raise (`CallSold`), and whoever has read the promo
  row holds its lock and finds it as it was (`CallLocks`).
* **UsagePolicyProof.** The cap is not inductive: the counter must be tied to the
  requests that hold a use of the day. `Ledger` says that their number is at most
  `counter + raced`, and at most `raced` while a delete is on its way, since
  whoever enters then is swept away. With `Consistent` (what a request holds and has
  seen at its stage) that gives `CapHolds`, `CounterIsExact`, `FreeIsCounted`, for any number of
  requests, any limit and any number of changes of tier.
* **GenerationProof.** `LockExcludes` and `GenTypeCorrect`, for any programs. A
  DELETE that does not ask whose key it deletes makes `Exclusion` not inductive; what
  counts is `|inside \ {lock}| <= overruns`, the updates inside without the key.
  The other five use the programs through `HandlersAssumption` only. `OnItsWay` says
  that whoever runs is on a way of its handler; `EveryMove` sums up the steps as five
  things that can happen to an update (`Stays`, `Starts`, `Walks`, `Buys`,
  `IsRepaid`), and each invariant is proved against these. `NothingMinted` is
  not inductive, as a refund may follow: `Solvent` says that the price is due whenever the way ahead
  can still give it back. `ChargedDelivered` speaks of the end of a run: `NotLeft` keeps
  whoever has paid on the ways that cannot return yet. `TakenOnce` needs `Taking`
  (a purchase waits for what was taken, and nothing can be taken after it), `RetryAllowed`
  needs `Repeatable` (a cooldown of one's own is behind a purchase that is due, or the
  handler is about to raise), and `HeavyOnce` a count: what two requests have paid, and
  the others whose refund would delete the cooldown, is covered by the
  cooldown, those that ran out, and the blind requests (`Covered`). A refund deletes a
  cooldown whoever has set it since, which is why the others count.
* **RequestsProof.** `BansTakeHold` is an action property. `InTime` bounds the
  stay of an update in the middlewares; `Fresh` bounds how long a verdict that
  contradicts the row can live, on its way into the cache, in it and out of it.
  `RateLimitHolds`: every update of the window is one of the counter's hits, since each
  hit keeps the key for as long as the window (`Counter`). `ChoicesServeOne`: a
  choice that waits and a message whose filter has read it make one (`Paid`).
* **ProvidersProof.** `CopiesEndOnce` and `NothingLostSilently` from an account of each
  order (`Account`): the copies that were pushed are the videos, the refunds and
  what is still open in the queue, with the worker and in the bot. `ShutExactlyInOutage`: the
  failures the breaker keeps are those of the current outage (`KeepsOutage`), and
  it is open for the last complete one (`OpenFor`). `NothingIsWasted`: the
  job at the provider is accounted for at each phase of a call (`CallInv`).
* **ServicesProof.** `JournalAlwaysExplains` and `OwesOnlyAfterRace`, for any
  amounts: what the backend has accepted was covered by the row it read
  (`DeductionAccepted`). `RemindersSentOnce`: a reminder that is held is marked, held by
  one process and not sent yet (`RemindersClaimed`). `NudgesRepeatedForCause`:
  `Budget` counts the processes that are about to send a notice as if they had.
  `CountersAreTrue` and `LimitsAreKept`: a tap that takes a like back is the
  only one and the like is there (`LikesTrue`); a count that admits a pin was below the limit
  (`PinsLimited`); there is room for a post as long as the dialogue can publish
  one (`DialogueHolds`). `NewestAreKept`: above every cutoff on its way and every message that
  is gone there are enough newer ones (`Enough`), and newer ones are never taken by that prune.

Each module's theorems are about its own specification. `Parts` (in RequestsProof and in
ServicesProof) shows that the composition behaves as each of its modules does, and
`RequestsSafe` and `ServicesSafe` conclude all the properties of the two runs for
the specifications that the runs check, for every value of the constants.

The theorems are about calls of the functions the modules model. CreditsProof
does not cover the panels that UPDATE `credits_bought` themselves: AdminLedger
shows what they can break.

Only model-checked: PaidSettled and its fairness (liveness and ENABLED are
beyond the prover), that the violated properties fail, and `HandlersAssumption`, which is
a statement about the programs of Handlers and no theorem. Everything else the
passing runs check is proved. No module declares a
RECURSIVE operator, and nothing is proved by induction over data.

## 5. Not modelled, and the plan

Abstractions of the modelled parts: providers of payments tell the truth, so
that the checks of amount, currency and signature are left out; the lifetime
totals of `users` (`credits_total_spent`, `total_payments_rub`) and the texts sent
to users are left out; `date.today()` is one clock for all processes. Credits'
cache steps are modelled but the cache is for display, and no property is
claimed of a stale entry. Generation takes the cooldown of a bucket as one key of
the user and leaves the daily counters to UsagePolicy. VideoQueue has one worker,
as the deployment has.

Not modelled, as there is no state that another part depends on: queries and
pages of the panels and the backend API beyond balance changes, blocking and
subscriptions; daily statistics; analytics and telemetry; menus and texts;
settings; schema declarations; deployment scripts. Six provider clients are
imported by nothing (`falai_image`, `falai_photo`, `google_image`, `google_veo`,
`midjourney_image`, `xai_image`), and the worker's requeue and dead letters
are not reached by the tasks the bot pushes.

Seen while modelling, in the models where they belong, and no property of a run:

* the rate limit's EXPIRE is refreshed at every hit, so that a busy customer's
  window never ends by itself (`redis/store.py`);
* a voice message or video note never reaches `transcribe` for the menu that
  promised it, as the voice router comes first (`transcribe.py:306`);
* the breaker's docstring speaks of one probe after the cooldown; every call
  passes then. Its failures are swallowed, so `@retry` never fires;
* `gen_lock` says that it yields TRUE without Redis (`store.py:63`); it yields
  FALSE;
* an INSERT of the alerts casts `:properties::jsonb`, which a driver with
  named parameters is unlikely to accept: alerts would then never be marked;
* a board ban is asked for when a post is begun only; a post that is edited and
  whose photo is skipped keeps the old photo;
* `handle_video` gives credits back and leaves its cooldown; partial results of
  `cmd_img4` keep the full price;
* `handle_audio_text` imports a function that does not exist for its music
  branch (`audiogen.py:375`);
* a song is waited for 180 s and polled for 420 s;
* `payment_lock` is read and then set (`balance.py:309`), which costs a second
  payment row but grants nothing twice.

Next: an abstract specification of a request (charged and answered, charged and
refunded, or neither) that Generation implements but for the named exceptions; action
properties for the promo codes and the ban cache beside the invariants they have.
