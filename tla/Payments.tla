------------------------------ MODULE Payments ------------------------------
(***************************************************************************)
(* Buying credits: YooKassa (cards), CryptoBot and Telegram Stars.         *)
(*                                                                         *)
(* The bot creates a payment at the provider and a row in the table        *)
(* payments; four paths lead from the customer's money to the grant: the   *)
(* provider's notification, the customer's return by /start pay, the       *)
(* reconcile loop of the bot and, for Stars, the successful_payment        *)
(* message.  Each path is a sequence of awaits: ask the provider, read the *)
(* row, flip it from pending to confirmed in a transaction of its own,     *)
(* and then, in another transaction, grant.  A path can die between any    *)
(* two of them, and any number of paths can be under way for one payment.  *)
(*                                                                         *)
(* The providers are the environment; they report a payment truthfully,    *)
(* and deliver a notification any number of times, or never.               *)
(***************************************************************************)
EXTENDS Integers, FiniteSets

CONSTANTS
    Users,          \* Telegram user ids
    Cards,          \* YooKassa payment ids
    Invoices,       \* crypto_... payment ids
    StarCharges,    \* stars_... payment ids
    Owner,          \* Owner[p]: the customer of payment p
    Handlers,       \* calls that can be in flight at a time, besides the loop
    Loop,           \* payment_reconcile_loop of the bot
    NoPayment,
    NoUser,
    BatchSize,      \* settings.payment_reconcile_batch_size
    MaxDeliveries,  \* bound: notifications and returns handled
    MaxFaults       \* bound: deaths of a call and errors of an API or the database

Payments == Cards \cup Invoices \cup StarCharges
Workers == Handlers \cup {Loop}

ASSUME PaymentsAssumption ==
    /\ Cards \cap Invoices = {} /\ Cards \cap StarCharges = {} /\ Invoices \cap StarCharges = {}
    /\ IsFiniteSet(Payments)
    /\ Owner \in [Payments -> Users]
    /\ NoPayment \notin Payments
    /\ NoUser \notin Users
    /\ Loop \notin Handlers
    /\ IsFiniteSet(Workers)
    /\ BatchSize \in Nat \ {0}
    /\ MaxDeliveries \in Nat
    /\ MaxFaults \in Nat

VARIABLES
    provider,    \* the provider's status of a payment
    refunded,    \* payments the provider has refunded
    shown,       \* payments whose link or invoice the customer has
    record,      \* payments.status
    createdAt,   \* rank of payments.created_at among the cards; 0 without a row
    payLock,     \* users whose Redis key payment_lock:{id} is set
    pc,          \* where a call is
    job,         \* the call's path, user, payment and, in the loop, the rest of its batch
    granted,     \* granted[p]: times credits or days were granted
    deducted,    \* deducted[p]: times credits were taken back for a refund
    lost,        \* history: payments whose call died between confirming and granting
    deliveries,  \* notifications and returns so far
    faults       \* faults so far

external == <<provider, refunded, shown>>
table == <<record, createdAt>>
effects == <<granted, deducted, lost>>
vars == <<external, table, payLock, pc, job, effects, deliveries, faults>>

Paths == {"none", "create", "webhook", "return", "reconcile", "crypto", "stars", "refund"}
NoJob == [path |-> "none", user |-> NoUser, pay |-> NoPayment, todo |-> {}]

Init ==
    /\ provider = [p \in Payments |-> "none"]
    /\ refunded = {}
    /\ shown = {}
    /\ record = [p \in Payments |-> "none"]
    /\ createdAt = [p \in Payments |-> 0]
    /\ payLock = {}
    /\ pc = [w \in Workers |-> "idle"]
    /\ job = [w \in Workers |-> NoJob]
    /\ granted = [p \in Payments |-> 0]
    /\ deducted = [p \in Payments |-> 0]
    /\ lost = {}
    /\ deliveries = 0
    /\ faults = 0

Pending(p) == record[p] = "pending"
Fault == faults < MaxFaults /\ faults' = faults + 1

-----------------------------------------------------------------------------
(* The control of a call.                                                  *)

Begin(w, path, u, p, label) ==
    /\ pc[w] = "idle"
    /\ w # Loop
    /\ job' = [job EXCEPT ![w] = [path |-> path, user |-> u, pay |-> p, todo |-> {}]]
    /\ pc' = [pc EXCEPT ![w] = label]

Goto(w, label) == pc' = [pc EXCEPT ![w] = label] /\ UNCHANGED job

\* A call is over; the reconcile loop goes on with the rest of its batch.
Done(w) ==
    IF job[w].path = "reconcile" /\ job[w].todo # {}
      THEN /\ pc' = [pc EXCEPT ![w] = "next"]
           /\ job' = [job EXCEPT ![w].pay = NoPayment]
      ELSE /\ pc' = [pc EXCEPT ![w] = "idle"]
           /\ job' = [job EXCEPT ![w] = NoJob]

-----------------------------------------------------------------------------
(* cb_pay_yookassa: create the payment at YooKassa, then the row.          *)

\* r.get(payment_lock): a second tap while the key is set is refused.
CreateBegin(w, u) ==
    /\ u \notin payLock
    /\ Begin(w, "create", u, NoPayment, "lock")
    /\ UNCHANGED <<external, table, payLock, effects, deliveries, faults>>

\* r.set(payment_lock, ex=15)
CreateLock(w) ==
    /\ pc[w] = "lock"
    /\ payLock' = payLock \cup {job[w].user}
    /\ Goto(w, "open")
    /\ UNCHANGED <<external, table, effects, deliveries, faults>>

\* Not configured, unavailable or an error of the API; or the payment is open but
\* the answer is lost or has no link, and the customer never sees it.
CreateRefused(w) ==
    /\ pc[w] \in {"open", "record"}
    /\ Done(w)
    /\ UNCHANGED <<external, table, payLock, effects, deliveries, faults>>

\* POST /payments
CreateOpen(w, p) ==
    /\ pc[w] = "open"
    /\ p \in Cards
    /\ Owner[p] = job[w].user
    /\ provider[p] = "none"
    /\ provider' = [provider EXCEPT ![p] = "open"]
    /\ job' = [job EXCEPT ![w].pay = p]
    /\ pc' = [pc EXCEPT ![w] = "record"]
    /\ UNCHANGED <<refunded, shown, table, payLock, effects, deliveries, faults>>

\* create_payment_record, then the link.
CreateRecord(w) ==
    LET p == job[w].pay IN
    /\ pc[w] = "record"
    /\ record[p] = "none"
    /\ record' = [record EXCEPT ![p] = "pending"]
    /\ createdAt' = [createdAt EXCEPT ![p] = Cardinality({q \in Cards : record[q] # "none"}) + 1]
    /\ shown' = shown \cup {p}
    /\ Done(w)
    /\ UNCHANGED <<provider, refunded, payLock, effects, deliveries, faults>>

\* The INSERT failed: the customer is told so and gets the link all the same.
CreateUnrecorded(w) ==
    /\ pc[w] = "record"
    /\ Fault
    /\ shown' = shown \cup {job[w].pay}
    /\ Done(w)
    /\ UNCHANGED <<provider, refunded, table, payLock, effects, deliveries>>

\* The key expires after 15 seconds, whether the creation is over or not.
PayLockExpires(u) ==
    /\ u \in payLock
    /\ payLock' = payLock \ {u}
    /\ UNCHANGED <<external, table, pc, job, effects, deliveries, faults>>

\* cb_pay_crypto and the Stars invoice: a link, and no row before the money.
Invoice(p) ==
    /\ p \in Invoices \cup StarCharges
    /\ provider[p] = "none"
    /\ provider' = [provider EXCEPT ![p] = "open"]
    /\ shown' = shown \cup {p}
    /\ UNCHANGED <<refunded, table, payLock, pc, job, effects, deliveries, faults>>

-----------------------------------------------------------------------------
(* The providers and the customers.                                        *)

Pay(p) ==
    /\ p \in shown
    /\ provider[p] = "open"
    /\ provider' = [provider EXCEPT ![p] = "succeeded"]
    /\ UNCHANGED <<refunded, shown, table, payLock, pc, job, effects, deliveries, faults>>

\* YooKassa gives up a payment nobody completes.
Expire(p) ==
    /\ p \in Cards
    /\ provider[p] = "open"
    /\ provider' = [provider EXCEPT ![p] = "canceled"]
    /\ UNCHANGED <<refunded, shown, table, payLock, pc, job, effects, deliveries, faults>>

\* The merchant gives the money back; the payment's status stays succeeded.
Refund(p) ==
    /\ p \in Cards \ refunded
    /\ provider[p] = "succeeded"
    /\ refunded' = refunded \cup {p}
    /\ UNCHANGED <<provider, shown, table, payLock, pc, job, effects, deliveries, faults>>

-----------------------------------------------------------------------------
(* The four paths.  A notification can arrive at any time after its event. *)

Deliver == deliveries < MaxDeliveries /\ deliveries' = deliveries + 1

\* payment.succeeded
SucceededWebhook(w, p) ==
    /\ p \in Cards /\ provider[p] = "succeeded"
    /\ Deliver
    /\ Begin(w, "webhook", Owner[p], p, "check")
    /\ UNCHANGED <<external, table, payLock, effects, faults>>

Cancel(p) == record' = IF Pending(p) THEN [record EXCEPT ![p] = "canceled"] ELSE record

\* payment.canceled: one UPDATE ... WHERE status = 'pending'.
CanceledWebhook(p) ==
    /\ p \in Cards /\ provider[p] = "canceled"
    /\ Deliver
    /\ Cancel(p)
    /\ UNCHANGED <<external, createdAt, payLock, pc, job, effects, faults>>

\* refund.succeeded
RefundWebhook(w, p) ==
    /\ p \in refunded
    /\ Deliver
    /\ Begin(w, "refund", Owner[p], p, "refund")
    /\ UNCHANGED <<external, table, payLock, effects, faults>>

\* invoice_paid of CryptoBot
InvoicePaid(w, p) ==
    /\ p \in Invoices /\ provider[p] = "succeeded"
    /\ Deliver
    /\ Begin(w, "crypto", Owner[p], p, "check")
    /\ UNCHANGED <<external, table, payLock, effects, faults>>

\* successful_payment of Telegram
StarsPaid(w, p) ==
    /\ p \in StarCharges /\ provider[p] = "succeeded"
    /\ Deliver
    /\ Begin(w, "stars", Owner[p], p, "insert")
    /\ UNCHANGED <<external, table, payLock, effects, faults>>

\* /start pay: the customer's last pending card payment.
CustomerReturns(w, p) ==
    /\ p \in Cards /\ Pending(p)
    /\ \A q \in Cards : Pending(q) /\ Owner[q] = Owner[p] => createdAt[q] <= createdAt[p]
    /\ Deliver
    /\ Begin(w, "return", Owner[p], p, "check")
    /\ UNCHANGED <<external, table, payLock, effects, faults>>

\* Seeded fault: the query of the loop lists every provider's payments.
BatchOfAll ==
    {p \in Payments : /\ Pending(p)
                      /\ Cardinality({q \in Payments : /\ Pending(q)
                                                       /\ createdAt[q] < createdAt[p]}) < BatchSize}

\* The oldest pending card payments, at most BatchSize of them.
Batch ==
    {p \in Cards : /\ Pending(p)
                   /\ Cardinality({q \in Cards : Pending(q) /\ createdAt[q] < createdAt[p]}) < BatchSize}

\* The loop wakes up and lists a batch.
ReconcileBegin ==
    /\ pc[Loop] = "idle"
    /\ Batch # {}
    /\ job' = [job EXCEPT ![Loop].path = "reconcile", ![Loop].todo = Batch]
    /\ pc' = [pc EXCEPT ![Loop] = "next"]
    /\ UNCHANGED <<external, table, payLock, effects, deliveries, faults>>

\* The next payment of the batch, in order of creation.
ReconcileNext(p) ==
    /\ pc[Loop] = "next"
    /\ p \in job[Loop].todo
    /\ \A q \in job[Loop].todo : createdAt[p] <= createdAt[q]
    /\ job' = [job EXCEPT ![Loop].pay = p, ![Loop].todo = @ \ {p}]
    /\ pc' = [pc EXCEPT ![Loop] = "poll"]
    /\ UNCHANGED <<external, table, payLock, effects, deliveries, faults>>

\* Seeded fault: the loop only cleans up canceled payments.
ReconcileCancels ==
    LET p == job[Loop].pay IN
    /\ pc[Loop] = "poll"
    /\ Done(Loop)
    /\ IF provider[p] = "canceled" THEN Cancel(p) ELSE UNCHANGED record
    /\ UNCHANGED <<external, createdAt, payLock, effects, deliveries, faults>>

\* get_payment in the loop: succeeded, canceled, or nothing to do yet.
ReconcilePoll ==
    LET p == job[Loop].pay IN
    /\ pc[Loop] = "poll"
    /\ \/ provider[p] = "succeeded" /\ Goto(Loop, "check") /\ UNCHANGED record
       \/ provider[p] = "canceled" /\ Done(Loop) /\ Cancel(p)
       \/ provider[p] = "open" /\ Done(Loop) /\ UNCHANGED record
    /\ UNCHANGED <<external, createdAt, payLock, effects, deliveries, faults>>

\* Seeded fault: any answer of the provider counts as paid.
CheckAnswered(w) ==
    /\ pc[w] = "check"
    /\ Goto(w, IF job[w].path = "return" THEN "confirm" ELSE "read")
    /\ UNCHANGED <<external, table, payLock, effects, deliveries, faults>>

\* get_payment or get_crypto_invoice: only a payment the provider calls paid
\* goes on.
Check(w) ==
    LET p == job[w].pay IN
    /\ pc[w] = "check"
    /\ \/ /\ provider[p] = "succeeded"
          /\ Goto(w, IF job[w].path = "return" THEN "confirm" ELSE "read")
       \/ provider[p] # "succeeded" /\ Done(w)
    /\ UNCHANGED <<external, table, payLock, effects, deliveries, faults>>

\* The provider's API does not answer: the call ends without an effect.
CheckFails(w) ==
    /\ pc[w] \in {"poll", "check"}
    /\ Fault
    /\ Done(w)
    /\ UNCHANGED <<external, table, payLock, effects, deliveries>>

\* get_payment_by_yookassa_id: no row, no grant (cards); confirmed already
\* (crypto, which has no row before this point).
Read(w) ==
    LET p == job[w].pay IN
    /\ pc[w] = "read"
    /\ \/ job[w].path = "crypto" /\ record[p] = "confirmed" /\ Done(w)
       \/ job[w].path = "crypto" /\ record[p] # "confirmed" /\ Goto(w, "insert")
       \/ job[w].path # "crypto" /\ record[p] = "none" /\ Done(w)
       \/ job[w].path # "crypto" /\ record[p] # "none" /\ Goto(w, "confirm")
    /\ UNCHANGED <<external, table, payLock, effects, deliveries, faults>>

\* create_payment_record, ON CONFLICT DO NOTHING.  The Stars handler stops when
\* there was a row, the CryptoBot handler goes on.
Insert(w) ==
    LET p == job[w].pay IN
    /\ pc[w] = "insert"
    /\ IF record[p] = "none"
         THEN record' = [record EXCEPT ![p] = "pending"] /\ Goto(w, "confirm")
         ELSE /\ UNCHANGED record
              /\ IF job[w].path = "stars" THEN Done(w) ELSE Goto(w, "confirm")
    /\ UNCHANGED <<external, createdAt, payLock, effects, deliveries, faults>>

\* Seeded fault: the SELECT lost its status = 'pending'.
ConfirmAgain(w) ==
    LET p == job[w].pay IN
    /\ pc[w] = "confirm"
    /\ record' = [record EXCEPT ![p] = "confirmed"]
    /\ Goto(w, "grant")
    /\ UNCHANGED <<external, createdAt, payLock, effects, deliveries, faults>>

\* confirm_payment_record: SELECT ... WHERE status = 'pending' FOR UPDATE, UPDATE,
\* COMMIT.  Whoever finds the row confirmed or canceled stops.
Confirm(w) ==
    LET p == job[w].pay IN
    /\ pc[w] = "confirm"
    /\ IF Pending(p)
         THEN record' = [record EXCEPT ![p] = "confirmed"] /\ Goto(w, "grant")
         ELSE UNCHANGED record /\ Done(w)
    /\ UNCHANGED <<external, createdAt, payLock, effects, deliveries, faults>>

\* add_credits or set_unlimited_until, a transaction of its own.
Grant(w) ==
    /\ pc[w] = "grant"
    /\ granted' = [granted EXCEPT ![job[w].pay] = @ + 1]
    /\ Done(w)
    /\ UNCHANGED <<external, table, payLock, deducted, lost, deliveries, faults>>

\* process_refund_webhook: a refund of a payment that is not confirmed is
\* answered with 200 and forgotten.
RefundRead(w) ==
    /\ pc[w] = "refund"
    /\ IF record[job[w].pay] = "confirmed" THEN Goto(w, "deduct") ELSE Done(w)
    /\ UNCHANGED <<external, table, payLock, effects, deliveries, faults>>

\* deduct_credits_refund
Deduct(w) ==
    /\ pc[w] = "deduct"
    /\ deducted' = [deducted EXCEPT ![job[w].pay] = @ + 1]
    /\ Done(w)
    /\ UNCHANGED <<external, table, payLock, granted, lost, deliveries, faults>>

\* The process dies, the call is cancelled or a statement raises.  In the loop
\* the exception ends the batch.
Crash(w) ==
    /\ pc[w] # "idle"
    /\ Fault
    /\ lost' = IF pc[w] = "grant" THEN lost \cup {job[w].pay} ELSE lost
    /\ pc' = [pc EXCEPT ![w] = "idle"]
    /\ job' = [job EXCEPT ![w] = NoJob]
    /\ UNCHANGED <<external, table, payLock, granted, deducted, deliveries>>

Requests(w) ==
    \/ \E u \in Users : CreateBegin(w, u)
    \/ \E p \in Payments : \/ SucceededWebhook(w, p) \/ RefundWebhook(w, p)
                           \/ InvoicePaid(w, p) \/ StarsPaid(w, p)
                           \/ CustomerReturns(w, p)

\* What a call does once it is under way.
Steps(w) ==
    \/ CreateLock(w) \/ CreateRefused(w) \/ CreateRecord(w)
    \/ \E p \in Cards : CreateOpen(w, p)
    \/ Check(w) \/ Read(w) \/ Insert(w) \/ Confirm(w) \/ Grant(w)
    \/ RefundRead(w) \/ Deduct(w)

ReconcileSteps == ReconcileBegin \/ (\E p \in Cards : ReconcileNext(p)) \/ ReconcilePoll

Environment(p) == Invoice(p) \/ Pay(p) \/ Expire(p) \/ Refund(p)

Next ==
    \/ \E w \in Handlers : Requests(w)
    \/ \E w \in Workers : Steps(w) \/ CreateUnrecorded(w) \/ CheckFails(w) \/ Crash(w)
    \/ ReconcileSteps
    \/ \E p \in Payments : Environment(p) \/ CanceledWebhook(p)
    \/ \E u \in Users : PayLockExpires(u)

Spec == Init /\ [][Next]_vars

\* A call that is under way goes on, the loop keeps waking up, and a payment the
\* customer never completes is given up by YooKassa.
Fairness ==
    /\ \A w \in Handlers : WF_vars(Steps(w))
    /\ WF_vars(Steps(Loop) \/ ReconcileSteps)
    /\ \A p \in Cards : WF_vars(Pay(p) \/ Expire(p))

FairSpec == Spec /\ Fairness

-----------------------------------------------------------------------------
(* Properties.                                                             *)

Labels == {"idle", "lock", "open", "record", "next", "poll", "check", "read",
           "insert", "confirm", "grant", "refund", "deduct"}
Jobs == [path : Paths, user : Users \cup {NoUser},
         pay : Payments \cup {NoPayment}, todo : SUBSET Cards]

\* Every variable has its type; the loop's batch holds card payments only.
TypeOK ==
    /\ provider \in [Payments -> {"none", "open", "succeeded", "canceled"}]
    /\ refunded \in SUBSET Cards
    /\ shown \in SUBSET Payments
    /\ record \in [Payments -> {"none", "pending", "confirmed", "canceled"}]
    /\ createdAt \in [Payments -> Nat]
    /\ payLock \in SUBSET Users
    /\ pc \in [Workers -> Labels]
    /\ job \in [Workers -> Jobs]
    /\ granted \in [Payments -> Nat]
    /\ deducted \in [Payments -> Nat]
    /\ lost \in SUBSET Payments
    /\ deliveries \in Nat
    /\ faults \in Nat

Granting(w, p) == pc[w] = "grant" /\ job[w].pay = p

\* A confirmed payment is granted, or about to be granted by exactly one call,
\* or its call died: of the notifications, returns and reconcile rounds that
\* race for a payment, one makes the grant and none forgets it.
ExactlyOnce ==
    \A p \in Payments :
        LET takers == {w \in Workers : Granting(w, p)} IN
        /\ \A v, w \in takers : v = w
        /\ record[p] # "confirmed" => granted[p] = 0 /\ takers = {} /\ p \notin lost
        /\ record[p] = "confirmed" =>
              \/ granted[p] = 1 /\ takers = {} /\ p \notin lost
              \/ granted[p] = 0 /\ takers # {} /\ p \notin lost
              \/ granted[p] = 0 /\ takers = {} /\ p \in lost

\* Money is granted for at most once, and nothing is granted without money.
Promise == INSTANCE Purchases WITH paid <- {p \in Payments : provider[p] = "succeeded"}
GrantedForMoney == Promise!Spec

\* A card payment that has a row and is paid for is granted in the end, even if
\* every notification is lost, unless the granting call dies half-way: the
\* reconcile loop finds it, behind whatever older payments are pending.
PaidSettled ==
    \A p \in Cards :
        provider[p] = "succeeded" /\ Pending(p) ~> granted[p] = 1 \/ p \in lost

\* balance.py tells the customer that the credits come automatically after the
\* payment.
PaidCredited ==
    \A p \in Cards : provider[p] = "succeeded" /\ Pending(p) ~> granted[p] = 1

\* docs/SERVICES.md calls the YooKassa webhook idempotent: one refund takes
\* credits back once, however often it is reported.
RefundedOnce == \A p \in Payments : deducted[p] <= 1

=============================================================================
