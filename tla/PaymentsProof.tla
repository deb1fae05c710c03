---------------------------- MODULE PaymentsProof ----------------------------
(***************************************************************************)
(* Proofs about Payments, for every set of payments, users and calls in    *)
(* flight.  The invariant adds to ExactlyOnce what a call knows of its     *)
(* payment: from "read" on, the provider has called it paid.               *)
(***************************************************************************)
EXTENDS Payments, TLAPS, FiniteSetTheorems

\* The payment a call works for, by the place it has reached.
CallsConsistent ==
    \A w \in Workers :
        /\ pc[w] \in {"record", "poll"} => job[w].pay \in Cards
        /\ pc[w] \in {"check", "read", "insert", "confirm", "grant", "refund", "deduct"}
              => job[w].pay \in Payments
        /\ pc[w] \in {"read", "insert", "confirm", "grant"}
              => provider[job[w].pay] = "succeeded"
        /\ pc[w] \in {"lock", "open"} => job[w].user \in Users

IInv == TypeOK /\ CallsConsistent /\ ExactlyOnce

Statuses == {"none", "pending", "confirmed", "canceled"}

-----------------------------------------------------------------------------
(* Lemmas on the records of the calls.                                     *)

LEMMA JobTypes ==
    /\ NoJob \in Jobs
    /\ \A j \in Jobs, p \in Payments \cup {NoPayment} : [j EXCEPT !.pay = p] \in Jobs
    /\ \A path \in Paths, u \in Users, p \in Payments \cup {NoPayment} :
          [path |-> path, user |-> u, pay |-> p, todo |-> {}] \in Jobs
  BY DEF NoJob, Jobs, Paths

LEMMA DoneTypes ==
    ASSUME TypeOK, NEW w \in Workers, Done(w)
    PROVE  /\ pc' \in [Workers -> Labels] /\ job' \in [Workers -> Jobs]
           /\ pc'[w] \in {"idle", "next"}
           /\ \A v \in Workers \ {w} : pc'[v] = pc[v] /\ job'[v] = job[v]
<1>1. CASE job[w].path = "reconcile" /\ job[w].todo # {}
  <2>1. job' = [job EXCEPT ![w] = [job[w] EXCEPT !.pay = NoPayment]]
    BY <1>1 DEF Done, TypeOK
  <2>2. [job[w] EXCEPT !.pay = NoPayment] \in Jobs
    BY JobTypes DEF TypeOK
  <2> QED
    BY <1>1, <2>1, <2>2 DEF Done, TypeOK, Labels
<1>2. CASE ~(job[w].path = "reconcile" /\ job[w].todo # {})
  BY <1>2, JobTypes DEF Done, TypeOK, Labels
<1> QED
  BY <1>1, <1>2

LEMMA GotoTypes ==
    ASSUME TypeOK, NEW w \in Workers, NEW label \in Labels, Goto(w, label)
    PROVE  /\ pc' \in [Workers -> Labels] /\ job' \in [Workers -> Jobs]
           /\ pc'[w] = label /\ job'[w] = job[w]
           /\ \A v \in Workers \ {w} : pc'[v] = pc[v] /\ job'[v] = job[v]
  BY DEF Goto, TypeOK

LEMMA BeginTypes ==
    ASSUME TypeOK, NEW w \in Workers, NEW path \in Paths, NEW u \in Users,
           NEW p \in Payments \cup {NoPayment}, NEW label \in Labels,
           Begin(w, path, u, p, label)
    PROVE  /\ pc' \in [Workers -> Labels] /\ job' \in [Workers -> Jobs]
           /\ pc[w] = "idle" /\ pc'[w] = label /\ job'[w].pay = p /\ job'[w].user = u
           /\ \A v \in Workers \ {w} : pc'[v] = pc[v] /\ job'[v] = job[v]
<1>1. [path |-> path, user |-> u, pay |-> p, todo |-> {}] \in Jobs
  BY JobTypes
<1> QED
  BY <1>1 DEF Begin, TypeOK

-----------------------------------------------------------------------------
(* Steps that neither confirm nor grant.                                   *)

\* A step that leaves the outcome of every payment alone, moves no call into
\* or out of "grant" and keeps what the calls know, keeps the invariant.
LEMMA Quiet ==
    ASSUME IInv, TypeOK', CallsConsistent',
           UNCHANGED <<granted, lost>>,
           \A p \in Payments : record'[p] = record[p]
                                  \/ (record[p] # "confirmed" /\ record'[p] # "confirmed"),
           \A w \in Workers, p \in Payments : Granting(w, p)' <=> Granting(w, p)
    PROVE  ExactlyOnce'
<1> SUFFICES ASSUME NEW p \in Payments
             PROVE  LET takers == {w \in Workers : Granting(w, p)'} IN
                    /\ \A v, w \in takers : v = w
                    /\ record'[p] # "confirmed" => granted'[p] = 0 /\ takers = {} /\ p \notin lost'
                    /\ record'[p] = "confirmed" =>
                          \/ granted'[p] = 1 /\ takers = {} /\ p \notin lost'
                          \/ granted'[p] = 0 /\ takers # {} /\ p \notin lost'
                          \/ granted'[p] = 0 /\ takers = {} /\ p \in lost'
  BY DEF ExactlyOnce
<1>1. {w \in Workers : Granting(w, p)'} = {w \in Workers : Granting(w, p)}
  OBVIOUS
<1>2. record'[p] = "confirmed" <=> record[p] = "confirmed"
  OBVIOUS
<1> QED
  BY <1>1, <1>2 DEF IInv, ExactlyOnce

LEMMA InitInv == Init => IInv
<1> SUFFICES ASSUME Init
             PROVE  IInv
  OBVIOUS
<1>1. TypeOK
  BY JobTypes DEF Init, TypeOK, Labels
<1>2. CallsConsistent /\ ExactlyOnce
  BY DEF Init, CallsConsistent, ExactlyOnce, Granting
<1> QED
  BY <1>1, <1>2 DEF IInv

\* What CallsConsistent says of one call.
CallConsistent(w) ==
    /\ pc[w] \in {"record", "poll"} => job[w].pay \in Cards
    /\ pc[w] \in {"check", "read", "insert", "confirm", "grant", "refund", "deduct"}
          => job[w].pay \in Payments
    /\ pc[w] \in {"read", "insert", "confirm", "grant"}
          => provider[job[w].pay] = "succeeded"
    /\ pc[w] \in {"lock", "open"} => job[w].user \in Users

\* A step of one call that is not at "grant" before or after it.
LEMMA QuietCall ==
    ASSUME IInv, TypeOK', NEW w \in Workers,
           pc[w] # "grant", pc'[w] # "grant",
           \A v \in Workers \ {w} : pc'[v] = pc[v] /\ job'[v] = job[v],
           \A p \in Payments : provider[p] = "succeeded" => provider'[p] = "succeeded",
           \A p \in Payments : record'[p] = record[p]
                                  \/ (record[p] # "confirmed" /\ record'[p] # "confirmed"),
           UNCHANGED <<granted, lost>>,
           CallConsistent(w)'
    PROVE  IInv'
<1>1. CallsConsistent'
  <2> SUFFICES ASSUME NEW v \in Workers
               PROVE  CallConsistent(v)'
    BY DEF CallsConsistent, CallConsistent
  <2>1. CASE v = w
    BY <2>1
  <2>2. CASE v # w
    BY <2>2 DEF IInv, CallsConsistent, CallConsistent
  <2> QED
    BY <2>1, <2>2
<1>2. \A v \in Workers, p \in Payments : Granting(v, p)' <=> Granting(v, p)
  BY DEF Granting
<1> QED
  BY <1>1, <1>2, Quiet DEF IInv

\* A step of the environment: no call moves.
LEMMA QuietWorld ==
    ASSUME IInv, TypeOK', UNCHANGED <<pc, job, granted, lost>>,
           \A p \in Payments : provider[p] = "succeeded" => provider'[p] = "succeeded",
           \A p \in Payments : record'[p] = record[p]
                                  \/ (record[p] # "confirmed" /\ record'[p] # "confirmed")
    PROVE  IInv'
<1>1. CallsConsistent'
  BY DEF IInv, CallsConsistent
<1>2. \A v \in Workers, p \in Payments : Granting(v, p)' <=> Granting(v, p)
  BY DEF Granting
<1> QED
  BY <1>1, <1>2, Quiet DEF IInv

\* Canceling a payment spares the confirmed ones.
LEMMA CancelSpares ==
    ASSUME TypeOK, NEW p \in Payments, Cancel(p)
    PROVE  /\ record' \in [Payments -> Statuses]
           /\ \A q \in Payments : record'[q] = record[q]
                                     \/ (record[q] # "confirmed" /\ record'[q] # "confirmed")
  BY DEF TypeOK, Cancel, Pending, Statuses

LEMMA CreationStep ==
    ASSUME IInv, NEW w \in Workers,
           \/ CreateLock(w) \/ CreateRefused(w) \/ CreateRecord(w) \/ CreateUnrecorded(w)
           \/ \E u \in Users : CreateBegin(w, u)
           \/ \E p \in Cards : CreateOpen(w, p)
    PROVE  IInv'
<1> USE DEF external, table, effects
<1> TypeOK /\ CallConsistent(w)
  BY DEF IInv, CallsConsistent, CallConsistent
<1>1. CASE CreateLock(w)
  <2>1. Goto(w, "open") /\ pc[w] = "lock" /\ payLock' = payLock \cup {job[w].user}
    BY <1>1 DEF CreateLock
  <2>2. TypeOK'
    BY <1>1, <2>1, GotoTypes DEF CreateLock, TypeOK, CallConsistent, Labels
  <2>3. CallConsistent(w)'
    BY <2>1, GotoTypes DEF CallConsistent, Labels
  <2> QED
    BY <1>1, <2>1, <2>2, <2>3, GotoTypes, QuietCall DEF CreateLock, Labels
<1>2. CASE CreateRefused(w)
  <2>1. Done(w) /\ pc[w] \in {"open", "record"}
    BY <1>2 DEF CreateRefused
  <2>2. TypeOK'
    BY <1>2, <2>1, DoneTypes DEF CreateRefused, TypeOK
  <2>3. CallConsistent(w)'
    BY <2>1, DoneTypes DEF CallConsistent
  <2> QED
    BY <1>2, <2>1, <2>2, <2>3, DoneTypes, QuietCall DEF CreateRefused
<1>3. CASE CreateRecord(w)
  <2> DEFINE p == job[w].pay
             n == Cardinality({q \in Cards : record[q] # "none"}) + 1
  <2>1. Done(w) /\ pc[w] = "record" /\ p \in Cards /\ record[p] = "none"
    BY <1>3 DEF CreateRecord, CallConsistent
  <2>2. p \in Payments /\ n \in Nat
    <3>1. IsFiniteSet({q \in Cards : record[q] # "none"})
      BY PaymentsAssumption, FS_Subset DEF Payments
    <3> QED
      BY <2>1, <3>1, FS_CardinalityType DEF Payments
  <2>3. /\ record' = [record EXCEPT ![p] = "pending"]
        /\ createdAt' = [createdAt EXCEPT ![p] = n]
        /\ shown' = shown \cup {p}
        /\ UNCHANGED <<provider, refunded, payLock, effects, deliveries, faults>>
    BY <1>3 DEF CreateRecord
  <2> HIDE DEF p, n
  <2>4. TypeOK'
    BY <2>1, <2>2, <2>3, DoneTypes DEF TypeOK
  <2>5. CallConsistent(w)'
    BY <2>1, DoneTypes DEF CallConsistent
  <2>6. \A q \in Payments : record'[q] = record[q]
                               \/ (record[q] # "confirmed" /\ record'[q] # "confirmed")
    BY <2>1, <2>2, <2>3 DEF TypeOK
  <2> QED
    BY <2>1, <2>3, <2>4, <2>5, <2>6, DoneTypes, QuietCall
<1>4. CASE CreateUnrecorded(w)
  <2>1. Done(w) /\ pc[w] = "record" /\ job[w].pay \in Payments
    BY <1>4 DEF CreateUnrecorded, CallConsistent, Payments
  <2>2. TypeOK'
    BY <1>4, <2>1, DoneTypes DEF CreateUnrecorded, Fault, TypeOK
  <2>3. CallConsistent(w)'
    BY <2>1, DoneTypes DEF CallConsistent
  <2> QED
    BY <1>4, <2>1, <2>2, <2>3, DoneTypes, QuietCall DEF CreateUnrecorded
<1>5. ASSUME NEW u \in Users, CreateBegin(w, u)
      PROVE  IInv'
  <2>1. Begin(w, "create", u, NoPayment, "lock")
    BY <1>5 DEF CreateBegin
  <2>2. TypeOK'
    BY <1>5, <2>1, BeginTypes DEF CreateBegin, TypeOK, Labels, Paths
  <2>3. CallConsistent(w)'
    BY <2>1, BeginTypes DEF CallConsistent, Labels, Paths
  <2> QED
    BY <1>5, <2>1, <2>2, <2>3, BeginTypes, QuietCall DEF CreateBegin, Labels, Paths
<1>6. ASSUME NEW p \in Cards, CreateOpen(w, p)
      PROVE  IInv'
  <2>1. /\ p \in Payments /\ pc[w] = "open" /\ provider[p] = "none"
        /\ provider' = [provider EXCEPT ![p] = "open"]
        /\ job' = [job EXCEPT ![w] = [job[w] EXCEPT !.pay = p]]
        /\ pc' = [pc EXCEPT ![w] = "record"]
        /\ UNCHANGED <<refunded, shown, table, payLock, effects, deliveries, faults>>
    BY <1>6 DEF CreateOpen, Payments
  <2>2. [job[w] EXCEPT !.pay = p] \in Jobs
    BY <2>1, JobTypes DEF TypeOK
  <2>3. TypeOK'
    BY <2>1, <2>2 DEF TypeOK, Labels
  <2>4. CallConsistent(w)'
    <3>1. job'[w].pay = p /\ pc'[w] = "record"
      BY <2>1 DEF TypeOK, Jobs
    <3> QED
      BY <3>1 DEF CallConsistent
  <2>5. \A q \in Payments : provider[q] = "succeeded" => provider'[q] = "succeeded"
    BY <2>1 DEF TypeOK
  <2>6. pc'[w] # "grant" /\ \A v \in Workers \ {w} : pc'[v] = pc[v] /\ job'[v] = job[v]
    BY <2>1 DEF TypeOK
  <2> QED
    BY <2>1, <2>3, <2>4, <2>5, <2>6, QuietCall
<1> QED
  BY <1>1, <1>2, <1>3, <1>4, <1>5, <1>6

LEMMA WorldStep ==
    ASSUME IInv,
           \/ \E p \in Payments : Environment(p) \/ CanceledWebhook(p)
           \/ \E u \in Users : PayLockExpires(u)
    PROVE  IInv'
<1> USE DEF external, table, effects
<1> TypeOK
  BY DEF IInv
<1>1. ASSUME NEW p \in Payments, Environment(p)
      PROVE  IInv'
  <2>1. /\ TypeOK' /\ UNCHANGED <<record, pc, job, granted, lost>>
        /\ \A q \in Payments : provider[q] = "succeeded" => provider'[q] = "succeeded"
    BY <1>1 DEF Environment, Invoice, Pay, Expire, Refund, TypeOK
  <2> QED
    BY <2>1, QuietWorld
<1>2. ASSUME NEW p \in Payments, CanceledWebhook(p)
      PROVE  IInv'
  <2>1. /\ record' \in [Payments -> Statuses]
        /\ \A q \in Payments : record'[q] = record[q]
                                  \/ (record[q] # "confirmed" /\ record'[q] # "confirmed")
    BY <1>2, CancelSpares DEF CanceledWebhook
  <2>2. TypeOK'
    BY <1>2, <2>1 DEF CanceledWebhook, Deliver, TypeOK, Statuses
  <2> QED
    BY <1>2, <2>1, <2>2, QuietWorld DEF CanceledWebhook
<1>3. ASSUME NEW u \in Users, PayLockExpires(u)
      PROVE  IInv'
  <2>1. TypeOK'
    BY <1>3 DEF PayLockExpires, TypeOK
  <2> QED
    BY <1>3, <2>1, QuietWorld DEF PayLockExpires
<1> QED
  BY <1>1, <1>2, <1>3

\* A notification or a return starts a call that knows its payment.
LEMMA RequestStep ==
    ASSUME IInv, NEW w \in Workers, NEW p \in Payments,
           \/ SucceededWebhook(w, p) \/ RefundWebhook(w, p) \/ InvoicePaid(w, p)
           \/ StarsPaid(w, p) \/ CustomerReturns(w, p)
    PROVE  IInv'
<1> USE DEF external, table, effects
<1> TypeOK
  BY DEF IInv
<1> Owner[p] \in Users
  BY PaymentsAssumption
<1>1. ASSUME NEW path \in Paths, NEW label \in {"check", "refund", "insert"},
             Begin(w, path, Owner[p], p, label), Deliver,
             label = "insert" => provider[p] = "succeeded",
             UNCHANGED <<external, table, payLock, effects, faults>>
      PROVE  IInv'
  <2> label \in Labels /\ p \in Payments \cup {NoPayment}
    BY DEF Labels
  <2>1. TypeOK'
    BY <1>1, BeginTypes DEF Deliver, TypeOK
  <2>2. CallConsistent(w)'
    BY <1>1, BeginTypes DEF CallConsistent
  <2>3. pc[w] # "grant" /\ pc'[w] # "grant"
    BY <1>1, BeginTypes
  <2> QED
    BY <1>1, <2>1, <2>2, <2>3, BeginTypes, QuietCall
<1> QED
  BY <1>1 DEF SucceededWebhook, RefundWebhook, InvoicePaid, StarsPaid, CustomerReturns, Paths

LEMMA ReconcileStep ==
    ASSUME IInv, ReconcileSteps
    PROVE  IInv'
<1> USE DEF external, table, effects
<1> TypeOK /\ CallConsistent(Loop) /\ Loop \in Workers
  BY DEF IInv, CallsConsistent, CallConsistent, Workers
<1>1. CASE ReconcileBegin
  <2>1. [job[Loop] EXCEPT !.path = "reconcile", !.todo = Batch] \in Jobs
    BY DEF TypeOK, Jobs, Paths, Batch
  <2>2. /\ job' = [job EXCEPT ![Loop] = [job[Loop] EXCEPT !.path = "reconcile", !.todo = Batch]]
        /\ pc[Loop] = "idle" /\ pc' = [pc EXCEPT ![Loop] = "next"]
    BY <1>1 DEF ReconcileBegin
  <2>3. TypeOK'
    BY <1>1, <2>1, <2>2 DEF ReconcileBegin, TypeOK, Labels
  <2>4. CallConsistent(Loop)'
    BY <2>2 DEF CallConsistent, TypeOK
  <2> QED
    BY <1>1, <2>2, <2>3, <2>4, QuietCall DEF ReconcileBegin, TypeOK
<1>2. ASSUME NEW p \in Cards, ReconcileNext(p)
      PROVE  IInv'
  <2>1. [job[Loop] EXCEPT !.pay = p, !.todo = @ \ {p}] \in Jobs
    BY DEF TypeOK, Jobs, Payments
  <2>2. /\ job' = [job EXCEPT ![Loop] = [job[Loop] EXCEPT !.pay = p, !.todo = @ \ {p}]]
        /\ pc[Loop] = "next" /\ pc' = [pc EXCEPT ![Loop] = "poll"]
    BY <1>2 DEF ReconcileNext
  <2>3. TypeOK'
    BY <1>2, <2>1, <2>2 DEF ReconcileNext, TypeOK, Labels
  <2>4. job'[Loop].pay = p
    BY <2>2 DEF TypeOK, Jobs
  <2>5. CallConsistent(Loop)'
    BY <2>2, <2>4 DEF CallConsistent, TypeOK
  <2> QED
    BY <1>2, <2>2, <2>3, <2>5, QuietCall DEF ReconcileNext, TypeOK
<1>3. CASE ReconcilePoll
  <2> DEFINE p == job[Loop].pay
  <2>1. pc[Loop] = "poll" /\ p \in Cards /\ p \in Payments /\ "check" \in Labels
    BY <1>3 DEF ReconcilePoll, CallConsistent, Payments, Labels
  <2>2. UNCHANGED <<external, createdAt, payLock, effects, deliveries, faults>>
    BY <1>3 DEF ReconcilePoll
  <2>3. CASE Goto(Loop, "check") /\ UNCHANGED record
    <3>1. TypeOK'
      BY <2>1, <2>2, <2>3, GotoTypes DEF TypeOK
    <3>2. CallConsistent(Loop)'
      BY <2>1, <2>3, GotoTypes DEF CallConsistent
    <3> QED
      BY <2>1, <2>2, <2>3, <3>1, <3>2, GotoTypes, QuietCall
  <2>4. CASE Done(Loop) /\ (Cancel(p) \/ UNCHANGED record)
    <3>1. /\ record' \in [Payments -> Statuses]
          /\ \A q \in Payments : record'[q] = record[q]
                                    \/ (record[q] # "confirmed" /\ record'[q] # "confirmed")
      BY <2>1, <2>4, CancelSpares DEF TypeOK, Statuses
    <3>2. TypeOK'
      BY <2>2, <2>4, <3>1, DoneTypes DEF TypeOK, Statuses
    <3>3. CallConsistent(Loop)'
      BY <2>4, DoneTypes DEF CallConsistent
    <3> QED
      BY <2>1, <2>2, <2>4, <3>1, <3>2, <3>3, DoneTypes, QuietCall
  <2> QED
    BY <1>3, <2>3, <2>4 DEF ReconcilePoll
<1> QED
  BY <1>1, <1>2, <1>3 DEF ReconcileSteps

\* The reads of a call, the row of a payment without one, and refunds.
LEMMA ReadingStep ==
    ASSUME IInv, NEW w \in Workers,
           Check(w) \/ CheckFails(w) \/ Read(w) \/ Insert(w) \/ RefundRead(w) \/ Deduct(w)
    PROVE  IInv'
<1> USE DEF external, table, effects
<1> TypeOK /\ CallConsistent(w)
  BY DEF IInv, CallsConsistent, CallConsistent
<1> DEFINE p == job[w].pay
<1>labels. {"read", "insert", "confirm", "deduct"} \subseteq Labels
  BY DEF Labels
\* Every such step goes on to another label, with what it then knows, or ends.
<1>1. ASSUME TypeOK', UNCHANGED <<provider, granted, lost>>, pc[w] # "grant",
             \A q \in Payments : record'[q] = record[q]
                                    \/ (record[q] # "confirmed" /\ record'[q] # "confirmed"),
             \/ Done(w)
             \/ \E l \in {"read", "insert", "confirm"} :
                   Goto(w, l) /\ p \in Payments /\ provider[p] = "succeeded"
             \/ Goto(w, "deduct") /\ p \in Payments
      PROVE  IInv'
  <2>1. CASE Done(w)
    <3>1. CallConsistent(w)'
      BY <2>1, DoneTypes DEF CallConsistent
    <3> QED
      BY <1>1, <2>1, <3>1, DoneTypes, QuietCall
  <2>2. ASSUME NEW l \in {"read", "insert", "confirm", "deduct"}, Goto(w, l), p \in Payments,
               l # "deduct" => provider[p] = "succeeded"
        PROVE  IInv'
    <3>1. CallConsistent(w)'
      BY <1>1, <1>labels, <2>2, GotoTypes DEF CallConsistent
    <3> QED
      BY <1>1, <1>labels, <2>2, <3>1, GotoTypes, QuietCall
  <2> QED
    BY <1>1, <2>1, <2>2
<1>2. CASE Check(w)
  <2>1. TypeOK'
    BY <1>2, <1>labels, GotoTypes, DoneTypes DEF Check, TypeOK
  <2> QED
    BY <1>1, <1>2, <2>1 DEF Check, CallConsistent
<1>3. CASE CheckFails(w)
  <2>1. TypeOK'
    BY <1>3, DoneTypes DEF CheckFails, Fault, TypeOK
  <2> QED
    BY <1>1, <1>3, <2>1 DEF CheckFails
<1>4. CASE Read(w)
  <2>1. TypeOK'
    BY <1>4, <1>labels, GotoTypes, DoneTypes DEF Read, TypeOK
  <2> QED
    BY <1>1, <1>4, <2>1 DEF Read, CallConsistent
<1>5. CASE Insert(w)
  <2>1. p \in Payments /\ provider[p] = "succeeded" /\ pc[w] = "insert"
    BY <1>5 DEF Insert, CallConsistent
  <2>2. Goto(w, "confirm") \/ Done(w)
    BY <1>5 DEF Insert
  <2>3. /\ record' \in [Payments -> Statuses]
        /\ \A q \in Payments : record'[q] = record[q]
                                  \/ (record[q] # "confirmed" /\ record'[q] # "confirmed")
    BY <1>5, <2>1 DEF Insert, TypeOK, Statuses
  <2>4. TypeOK'
    BY <1>5, <1>labels, <2>2, <2>3, GotoTypes, DoneTypes DEF Insert, TypeOK, Statuses
  <2> QED
    BY <1>1, <1>5, <2>1, <2>2, <2>3, <2>4 DEF Insert
<1>6. CASE RefundRead(w)
  <2>1. TypeOK'
    BY <1>6, <1>labels, GotoTypes, DoneTypes DEF RefundRead, TypeOK
  <2> QED
    BY <1>1, <1>6, <2>1 DEF RefundRead, CallConsistent
<1>7. CASE Deduct(w)
  <2>1. TypeOK'
    BY <1>7, DoneTypes DEF Deduct, TypeOK, CallConsistent
  <2> QED
    BY <1>1, <1>7, <2>1 DEF Deduct
<1> QED
  BY <1>2, <1>3, <1>4, <1>5, <1>6, <1>7

-----------------------------------------------------------------------------
(* The steps that decide the outcome of a payment.                         *)

\* Of the calls that race for a pending row one confirms it.
LEMMA ConfirmStep ==
    ASSUME IInv, NEW w \in Workers, Confirm(w)
    PROVE  IInv'
<1> USE DEF external, table, effects
<1> TypeOK /\ CallConsistent(w) /\ ExactlyOnce
  BY DEF IInv, CallsConsistent, CallConsistent
<1> DEFINE p == job[w].pay
<1>1. /\ pc[w] = "confirm" /\ p \in Payments /\ provider[p] = "succeeded"
      /\ UNCHANGED <<provider, granted, lost>>
  BY DEF Confirm, CallConsistent
<1>2. CASE ~Pending(p)
  <2>1. Done(w) /\ UNCHANGED record
    BY <1>2 DEF Confirm
  <2>2. TypeOK'
    BY <2>1, DoneTypes DEF Confirm, TypeOK
  <2>3. CallConsistent(w)'
    BY <2>1, DoneTypes DEF CallConsistent
  <2> QED
    BY <1>1, <2>1, <2>2, <2>3, DoneTypes, QuietCall
<1>3. CASE Pending(p)
  <2>1. Goto(w, "grant") /\ record' = [record EXCEPT ![p] = "confirmed"] /\ "grant" \in Labels
    BY <1>3 DEF Confirm, Labels
  <2>2. TypeOK'
    BY <1>1, <2>1, GotoTypes DEF Confirm, TypeOK
  <2>3. CallsConsistent'
    BY <1>1, <2>1, GotoTypes DEF IInv, CallsConsistent
  <2>4. \A v \in Workers, q \in Payments :
           Granting(v, q)' <=> Granting(v, q) \/ (v = w /\ q = p)
    BY <1>1, <2>1, GotoTypes DEF Granting
  <2>5. ExactlyOnce'
    <3> SUFFICES ASSUME NEW q \in Payments
                 PROVE  LET takers == {v \in Workers : Granting(v, q)'} IN
                        /\ \A u, v \in takers : u = v
                        /\ record'[q] # "confirmed" => granted'[q] = 0 /\ takers = {} /\ q \notin lost'
                        /\ record'[q] = "confirmed" =>
                              \/ granted'[q] = 1 /\ takers = {} /\ q \notin lost'
                              \/ granted'[q] = 0 /\ takers # {} /\ q \notin lost'
                              \/ granted'[q] = 0 /\ takers = {} /\ q \in lost'
      BY DEF ExactlyOnce
    <3>1. CASE q = p
      <4>1. granted[q] = 0 /\ {v \in Workers : Granting(v, q)} = {} /\ q \notin lost
        BY <1>3, <3>1 DEF ExactlyOnce, Pending
      <4>2. {v \in Workers : Granting(v, q)'} = {w}
        BY <2>4, <3>1, <4>1
      <4>3. record'[q] = "confirmed"
        BY <1>1, <2>1, <3>1 DEF TypeOK
      <4> QED
        BY <1>1, <4>1, <4>2, <4>3
    <3>2. CASE q # p
      <4>1. {v \in Workers : Granting(v, q)'} = {v \in Workers : Granting(v, q)}
        BY <2>4, <3>2
      <4>2. record'[q] = record[q]
        BY <1>1, <2>1, <3>2 DEF TypeOK
      <4> QED
        BY <1>1, <4>1, <4>2 DEF ExactlyOnce
    <3> QED
      BY <3>1, <3>2
  <2> QED
    BY <2>2, <2>3, <2>5 DEF IInv
<1> QED
  BY <1>2, <1>3

\* The call that confirmed grants, or dies and leaves the payment in lost.
LEMMA SettleStep ==
    ASSUME IInv, NEW w \in Workers, Grant(w) \/ Crash(w)
    PROVE  IInv'
<1> USE DEF external, table, effects
<1> TypeOK /\ CallConsistent(w) /\ ExactlyOnce
  BY DEF IInv, CallsConsistent, CallConsistent
<1> DEFINE p == job[w].pay
<1>0. /\ pc' \in [Workers -> Labels] /\ job' \in [Workers -> Jobs]
      /\ pc'[w] \in {"idle", "next"}
      /\ \A v \in Workers \ {w} : pc'[v] = pc[v] /\ job'[v] = job[v]
  <2>1. CASE Grant(w)
    BY <2>1, DoneTypes DEF Grant
  <2>2. CASE Crash(w)
    BY <2>2, JobTypes DEF Crash, TypeOK, Labels
  <2> QED
    BY <2>1, <2>2
<1>1. CASE pc[w] = "grant"
  <2>1. p \in Payments /\ Granting(w, p) /\ UNCHANGED <<provider, record>>
    BY <1>1 DEF CallConsistent, Granting, Grant, Crash
  <2>2. record[p] = "confirmed" /\ granted[p] = 0 /\ p \notin lost
        /\ {v \in Workers : Granting(v, p)} = {w}
    BY <2>1 DEF ExactlyOnce
  <2>3. \/ granted' = [granted EXCEPT ![p] = 1] /\ UNCHANGED lost
        \/ lost' = lost \cup {p} /\ UNCHANGED granted
    BY <1>1, <2>1, <2>2 DEF Grant, Crash, TypeOK
  <2>4. TypeOK'
    BY <1>0, <2>1, <2>3 DEF TypeOK, Grant, Crash, Fault
  <2>5. CallsConsistent'
    BY <1>0, <2>1 DEF IInv, CallsConsistent
  <2>6. \A v \in Workers, q \in Payments : Granting(v, q)' <=> Granting(v, q) /\ v # w
    BY <1>0 DEF Granting
  <2>7. ExactlyOnce'
    <3> SUFFICES ASSUME NEW q \in Payments
                 PROVE  LET takers == {v \in Workers : Granting(v, q)'} IN
                        /\ \A u, v \in takers : u = v
                        /\ record'[q] # "confirmed" => granted'[q] = 0 /\ takers = {} /\ q \notin lost'
                        /\ record'[q] = "confirmed" =>
                              \/ granted'[q] = 1 /\ takers = {} /\ q \notin lost'
                              \/ granted'[q] = 0 /\ takers # {} /\ q \notin lost'
                              \/ granted'[q] = 0 /\ takers = {} /\ q \in lost'
      BY DEF ExactlyOnce
    <3>1. CASE q = p
      <4>1. {v \in Workers : Granting(v, q)'} = {}
        BY <2>2, <2>6, <3>1
      <4>2. \/ granted'[q] = 1 /\ q \notin lost'
            \/ granted'[q] = 0 /\ q \in lost'
        BY <2>1, <2>2, <2>3, <3>1 DEF TypeOK
      <4> QED
        BY <2>1, <2>2, <3>1, <4>1, <4>2
    <3>2. CASE q # p
      <4>1. ~Granting(w, q)
        BY <2>1, <3>2 DEF Granting
      <4>2. {v \in Workers : Granting(v, q)'} = {v \in Workers : Granting(v, q)}
        BY <2>6, <4>1
      <4>3. granted'[q] = granted[q] /\ (q \in lost' <=> q \in lost)
        BY <2>1, <2>3, <3>2 DEF TypeOK
      <4> QED
        BY <2>1, <4>2, <4>3 DEF ExactlyOnce
    <3> QED
      BY <3>1, <3>2
  <2> QED
    BY <2>4, <2>5, <2>7 DEF IInv
<1>2. CASE pc[w] # "grant"
  <2>1. Crash(w) /\ UNCHANGED <<provider, record, granted, lost>>
    BY <1>2 DEF Grant, Crash
  <2>2. TypeOK'
    BY <1>0, <2>1 DEF TypeOK, Crash, Fault
  <2>3. CallConsistent(w)'
    BY <1>0 DEF CallConsistent
  <2> QED
    BY <1>0, <1>2, <2>1, <2>2, <2>3, QuietCall
<1> QED
  BY <1>1, <1>2

LEMMA StepInv == IInv /\ [Next]_vars => IInv'
<1> SUFFICES ASSUME IInv, [Next]_vars
             PROVE  IInv'
  OBVIOUS
<1>1. ASSUME NEW w \in Handlers, Requests(w)
      PROVE  IInv'
  BY <1>1, CreationStep, RequestStep DEF Requests, Workers
<1>2. ASSUME NEW w \in Workers, Steps(w) \/ CreateUnrecorded(w) \/ CheckFails(w) \/ Crash(w)
      PROVE  IInv'
  BY <1>2, CreationStep, ReadingStep, ConfirmStep, SettleStep DEF Steps
<1>3. CASE UNCHANGED vars
  <2>1. TypeOK' /\ CallsConsistent'
    BY <1>3 DEF vars, external, table, effects, IInv, TypeOK, CallsConsistent
  <2>2. ExactlyOnce'
    BY <1>3 DEF vars, external, table, effects, IInv, ExactlyOnce, Granting
  <2> QED
    BY <2>1, <2>2 DEF IInv
<1> QED
  BY <1>1, <1>2, <1>3, ReconcileStep, WorldStep DEF Next

-----------------------------------------------------------------------------
(* Theorems.                                                               *)

THEOREM Invariance == Spec => []IInv
<1>1. IInv /\ [Next]_vars => IInv'
  BY StepInv
<1> QED
  BY InitInv, <1>1, PTL DEF Spec

\* The types hold, for every number of payments and calls.
THEOREM TypeCorrect == Spec => []TypeOK
<1>1. IInv => TypeOK
  BY DEF IInv
<1> QED
  BY Invariance, <1>1, PTL

\* Whatever notifications, returns, reconcile rounds and crashes race for a
\* payment, a confirmed payment is granted exactly once, or its call died.
THEOREM GrantExactlyOnce == Spec => []ExactlyOnce
<1>1. IInv => ExactlyOnce
  BY DEF IInv
<1> QED
  BY Invariance, <1>1, PTL

Paid == {p \in Payments : provider[p] = "succeeded"}

\* Every step is a payment, a grant of a payment, or nothing to the promise.
LEMMA StepRefines == IInv /\ [Next]_vars => [Promise!Next]_(Promise!vars)
<1> SUFFICES ASSUME IInv, [Next]_vars
             PROVE  Promise!Next \/ UNCHANGED <<Paid, granted>>
  BY DEF Promise!vars, Paid
<1> USE DEF external, table, effects
<1>1. ASSUME NEW p \in Payments, Pay(p)
      PROVE  Promise!Next
  <2>1. p \notin Paid /\ Paid' = Paid \cup {p} /\ UNCHANGED granted
    BY <1>1 DEF Pay, Paid, IInv, TypeOK
  <2> QED
    BY <2>1 DEF Promise!Next, Promise!Pay, Paid
<1>2. ASSUME NEW w \in Workers, Grant(w)
      PROVE  Promise!Next
  <2> DEFINE p == job[w].pay
  <2>1. p \in Payments /\ p \in Paid /\ Granting(w, p)
    BY <1>2 DEF Grant, IInv, CallsConsistent, Granting, Paid
  <2>2. granted[p] = 0
    BY <2>1 DEF IInv, ExactlyOnce
  <2>3. granted' = [granted EXCEPT ![p] = 1] /\ Paid' = Paid
    BY <1>2, <2>1, <2>2 DEF Grant, Paid, IInv, TypeOK
  <2> QED
    BY <2>1, <2>2, <2>3 DEF Promise!Next, Promise!Grant, Paid
<1>3. ASSUME NEW w \in Workers, NEW p \in Cards, CreateOpen(w, p)
      PROVE  UNCHANGED <<Paid, granted>>
  BY <1>3 DEF CreateOpen, Paid, IInv, TypeOK
<1>4. ASSUME NEW p \in Payments, Environment(p), ~Pay(p)
      PROVE  UNCHANGED <<Paid, granted>>
  BY <1>4 DEF Environment, Invoice, Expire, Refund, Paid, IInv, TypeOK
<1>5. ASSUME NEW w \in Workers,
             \/ Check(w) \/ CheckFails(w) \/ Read(w) \/ Insert(w) \/ RefundRead(w) \/ Deduct(w)
             \/ Confirm(w) \/ Crash(w)
             \/ CreateLock(w) \/ CreateRefused(w) \/ CreateRecord(w) \/ CreateUnrecorded(w)
      PROVE  UNCHANGED <<provider, granted>>
  BY <1>5 DEF Check, CheckFails, Read, Insert, RefundRead, Deduct, Confirm, Crash,
              CreateLock, CreateRefused, CreateRecord, CreateUnrecorded
<1>6. ASSUME NEW w \in Handlers, Requests(w)
      PROVE  UNCHANGED <<provider, granted>>
  BY <1>6 DEF Requests, CreateBegin, SucceededWebhook, RefundWebhook, InvoicePaid, StarsPaid,
              CustomerReturns
<1>7. ASSUME \/ ReconcileSteps
             \/ \E p \in Payments : CanceledWebhook(p)
             \/ \E u \in Users : PayLockExpires(u)
             \/ UNCHANGED vars
      PROVE  UNCHANGED <<provider, granted>>
  BY <1>7 DEF ReconcileSteps, ReconcileBegin, ReconcileNext, ReconcilePoll, CanceledWebhook,
              PayLockExpires, vars
<1>8. UNCHANGED <<provider, granted>> => UNCHANGED <<Paid, granted>>
  BY DEF Paid
<1> QED
  BY <1>1, <1>2, <1>3, <1>4, <1>5, <1>6, <1>7, <1>8 DEF Next, Steps

\* Purchases are granted at most once and only for money, for every provider.
THEOREM Refines == Spec => GrantedForMoney
<1>1. Init => Promise!Init
  BY DEF Init, Promise!Init
<1>2. IInv /\ [Next]_vars => [Promise!Next]_(Promise!vars)
  BY StepRefines
<1> QED
  BY Invariance, <1>1, <1>2, PTL DEF Spec, GrantedForMoney, Promise!Spec

=============================================================================
