---------------------------- MODULE CreditsProof ----------------------------
(***************************************************************************)
(* Proofs about Credits, for every set of users, tasks, prices and         *)
(* amounts.  The inductive invariant comes in two layers: what the tasks   *)
(* and the locks guarantee (Protocol), and, on top of it, the accounting.  *)
(***************************************************************************)
EXTENDS Credits, TLAPS, FiniteSetTheorems

Spends == {"spendFree", "spendPaid"}

\* The arguments of a call fit the place it has reached, and a transaction that
\* has inserted a user holds the key of that user.
CallsConsistent ==
    \A t \in Tasks :
        /\ pc[t] \in {"lock", "write"} => job[t].kind \in Spends \cup {"deduct", "create"}
        /\ pc[t] = "insert" => job[t].kind = "create"
        /\ pc[t] \in {"read", "reset", "fill", "invalidate"} => job[t].kind # "create"
        /\ pc[t] # "idle" =>
              /\ job[t].user \in Users
              /\ job[t].kind # "create" => job[t].user \in accounts
              /\ job[t].kind \in Spends => job[t].amount \in Prices
              /\ job[t].kind = "deduct" => job[t].amount \in Amounts
              /\ job[t].kind = "create" => job[t].ref \in accounts \cup {NoUser}
        /\ pc[t] \in {"lock", "write"} /\ job[t].kind = "create" =>
              /\ job[t].ref # NoUser
              /\ job[t].user \notin accounts
              /\ lock[job[t].user] = t

\* A user without a row has no history.
NoRow ==
    \A u \in Users \ accounts :
        bought[u] = 0 /\ fromFree[u] = 0 /\ referredBy[u] = NoUser

Protocol == TypeOK /\ CallsConsistent /\ NoLostUpdate

Accounting == NoRow /\ NoOverdraft /\ BooksBalance /\ ReferralCount

-----------------------------------------------------------------------------
(* Lemmas on the helpers.                                                  *)

\* The bonus of a referrer is a natural number.
LEMMA BonusType ==
    ASSUME NEW n \in Nat
    PROVE  ReferrerBonus(n) \in Nat
<1>1. IsFiniteSet({m \in LevelThresholds : n >= m})
  BY CreditsAssumption, FS_Subset
<1>2. Level(n) \in Nat
  BY <1>1, FS_CardinalityType DEF Level
<1>3. ReferrerCr * Level(n) \in Nat
  BY <1>2, CreditsAssumption
<1>4. (ReferrerCr * Level(n)) \div 2 \in Nat
  BY <1>3
<1> QED
  BY <1>4, CreditsAssumption DEF ReferrerBonus

\* A spend takes no more from the free balance than there is, and its two parts
\* make up its cost.
LEMMA Parts ==
    ASSUME TypeOK, NEW t \in Tasks
    PROVE  /\ FreeAtHand(t) \in 0..DailyFree
           /\ FreePart(t) \in Nat
           /\ FreePart(t) <= FreeAtHand(t)
           /\ BoughtPart(t) \in Nat
           /\ FreePart(t) + BoughtPart(t) = job[t].amount
<1>1. snap[t].free \in 0..DailyFree /\ job[t].amount \in Nat
  BY DEF TypeOK, Rows, Jobs
<1>2. FreeAtHand(t) \in 0..DailyFree
  BY <1>1, CreditsAssumption DEF FreeAtHand
<1>3. FreePart(t) \in Nat /\ FreePart(t) <= FreeAtHand(t) /\ FreePart(t) <= job[t].amount
  BY <1>1, <1>2, CreditsAssumption DEF FreePart
<1> QED
  BY <1>1, <1>2, <1>3 DEF BoughtPart

-----------------------------------------------------------------------------
(* The protocol.                                                           *)

\* The records of the task variables have their types.
LEMMA NullTypes == NoSnap \in Rows /\ NoJob \in Jobs
  BY CreditsAssumption DEF NoSnap, NoJob, Rows, Jobs, Kinds

LEMMA RecordTypes ==
    /\ NoSnap \in Rows
    /\ NoJob \in Jobs
    /\ TypeOK => \A u \in Users : Row(u) \in Rows
    /\ \A s \in Rows : /\ s.bought \in Int /\ s.free \in 0..DailyFree
                       /\ s.refCount \in Nat
                       /\ [s EXCEPT !.free = DailyFree] \in Rows
                       /\ [bought |-> s.bought, free |-> s.free]
                              \in [bought : Int, free : 0..DailyFree]
    /\ \A k \in Kinds, u \in Users, a \in Nat, r \in Users \cup {NoUser} :
          [kind |-> k, user |-> u, amount |-> a, ref |-> r] \in Jobs
    /\ \A j \in Jobs : j.amount \in Nat
  BY CreditsAssumption DEF TypeOK, NoSnap, NoJob, Row, Rows, Jobs, Kinds

\* An entry of the ledger grows by a natural number.
LEMMA EntryTypes ==
    ASSUME NEW e \in Entries, NEW n \in Nat
    PROVE  /\ [e EXCEPT !.added = @ + n] \in Entries
           /\ [e EXCEPT !.charged = @ + n] \in Entries
           /\ [e EXCEPT !.clawed = @ + n] \in Entries
  BY DEF Entries

\* What a task reads has its type.
LEMMA TaskTypes ==
    ASSUME TypeOK, NEW t \in Tasks
    PROVE  /\ snap[t] \in Rows
           /\ snap[t].bought \in Int
           /\ snap[t].refCount \in Nat
           /\ job[t].amount \in Nat
           /\ Deductible(t) \in Int
  BY DEF TypeOK, Rows, Jobs, Deductible

LEMMA InitProtocol == Init => Protocol
<1> SUFFICES ASSUME Init
             PROVE  Protocol
  OBVIOUS
<1>1. TypeOK
  <2>1. free \in [Users -> 0..DailyFree] /\ issued \in [Users -> Int]
    BY CreditsAssumption DEF Init
  <2>2. resetDay \in [Users -> 0..MaxDay] /\ today \in 1..MaxDay
    BY CreditsAssumption DEF Init
  <2>3. job \in [Tasks -> Jobs] /\ snap \in [Tasks -> Rows]
    BY RecordTypes DEF Init
  <2> QED
    BY <2>1, <2>2, <2>3, CreditsAssumption DEF Init, TypeOK, Labels, Entries
<1>2. CallsConsistent /\ NoLostUpdate
  BY DEF Init, CallsConsistent, NoLostUpdate
<1> QED
  BY <1>1, <1>2 DEF Protocol

LEMMA StepProtocol == Protocol /\ [Next]_vars => Protocol'
<1> SUFFICES ASSUME Protocol, [Next]_vars
             PROVE  TypeOK' /\ CallsConsistent' /\ NoLostUpdate'
  BY DEF Protocol
<1> TypeOK /\ CallsConsistent /\ NoLostUpdate
  BY DEF Protocol
<1> DEFINE Goal == TypeOK' /\ CallsConsistent' /\ NoLostUpdate'
<1> USE CreditsAssumption
     DEF TypeOK, Spends, Kinds, Labels, Row, LockedRow, rows, books, locals, Goto, Return
<1>1. ASSUME NEW t \in Tasks, NEW u \in Users, NEW a \in Nat, NEW r \in accounts \cup {NoUser},
             NEW kind \in Kinds, NEW label \in Labels,
             Call(t, kind, u, a, r, label),
             label = "lock" => kind \in Spends \cup {"deduct"},
             label = "insert" <=> kind = "create",
             kind # "create" => u \in accounts,
             label \in {"lock", "insert", "read"},
             kind \in Spends => a \in Prices, kind = "deduct" => a \in Amounts
      PROVE  Goal
  <2>1. TypeOK'
    BY <1>1, RecordTypes DEF Call
  <2>2. CallsConsistent' /\ NoLostUpdate'
    BY <1>1 DEF Call, CallsConsistent, NoLostUpdate
  <2> QED
    BY <2>1, <2>2
<1>2. ASSUME NEW t \in Tasks, NEW u \in Users, NEW a \in Amounts, AddCredits(t, u, a)
      PROVE  Goal
  <2>1. TypeOK'
    <3>1. a \in Nat /\ [kind |-> "add", user |-> u, amount |-> a, ref |-> NoUser] \in Jobs
      BY RecordTypes
    <3>2. bought' \in [Users -> Int]
      BY <1>2, <3>1 DEF AddCredits
    <3>3. ledger' \in [Users -> Entries]
      BY <1>2, <3>1, EntryTypes DEF AddCredits
    <3>4. job' \in [Tasks -> Jobs] /\ pc' \in [Tasks -> Labels]
      BY <1>2, <3>1 DEF AddCredits
    <3> QED
      BY <1>2, <3>2, <3>3, <3>4 DEF AddCredits
  <2>2. CallsConsistent' /\ NoLostUpdate'
    BY <1>2 DEF AddCredits, CallsConsistent, NoLostUpdate
  <2> QED
    BY <2>1, <2>2
<1>3. ASSUME NEW t \in Tasks, TaskCalls(t)
      PROVE  Goal
  <2>1. ASSUME NEW u \in Users, NEW c \in Prices, NEW k \in Spends, CallSpend(t, u, k, c)
        PROVE  Goal
    BY <1>1, <2>1 DEF CallSpend
  <2>2. ASSUME NEW u \in Users, NEW a \in Amounts, CallDeduct(t, u, a)
        PROVE  Goal
    BY <1>1, <2>2 DEF CallDeduct
  <2>3. ASSUME NEW u \in Users, CallBalance(t, u) \/ CallTouch(t, u)
        PROVE  Goal
    BY <1>1, <2>3 DEF CallBalance, CallTouch
  <2>4. ASSUME NEW u \in Users, NEW r \in Users \cup {NoUser}, CallCreate(t, u, r)
        PROVE  Goal
    BY <1>1, <2>4 DEF CallCreate
  <2> QED
    BY <1>2, <1>3, <2>1, <2>2, <2>3, <2>4 DEF TaskCalls
<1>4. ASSUME NEW t \in Tasks, SpendBypass(t)
      PROVE  Goal
  <2>1. TypeOK'
    BY <1>4, RecordTypes DEF SpendBypass, CallsConsistent
  <2>2. CallsConsistent' /\ NoLostUpdate'
    BY <1>4 DEF SpendBypass, CallsConsistent, NoLostUpdate
  <2> QED
    BY <2>1, <2>2
<1>5. ASSUME NEW t \in Tasks, LockRow(t)
      PROVE  Goal
  <2>1. TypeOK'
    BY <1>5, RecordTypes DEF LockRow, CallsConsistent
  <2>2. CallsConsistent' /\ NoLostUpdate'
    BY <1>5 DEF LockRow, CallsConsistent, NoLostUpdate
  <2> QED
    BY <2>1, <2>2
<1>6. ASSUME NEW t \in Tasks, SpendWrite(t)
      PROVE  Goal
  <2> DEFINE u == job[t].user
  <2>1. u \in Users /\ snap[t] \in Rows /\ snap[t].free = free[u] /\ snap[t].bought = bought[u]
    BY <1>6 DEF SpendWrite, CallsConsistent, NoLostUpdate
  <2>2. /\ bought[u] - BoughtPart(t) \in Int
        /\ FreeAtHand(t) - FreePart(t) \in 0..DailyFree
        /\ fromFree[u] + FreePart(t) \in Nat
        /\ usedToday[u] + FreePart(t) \in Nat
        /\ issued[u] + (FreeAtHand(t) - free[u]) \in Int
    BY <2>1, Parts, RecordTypes
  <2>3. TypeOK'
    <3>1. bought' \in [Users -> Int] /\ free' \in [Users -> 0..DailyFree]
      BY <1>6, <2>1, <2>2 DEF SpendWrite
    <3>2. ledger' \in [Users -> Entries]
      BY <1>6, <2>1, TaskTypes, EntryTypes DEF SpendWrite
    <3>3. resetDay' \in [Users -> 0..MaxDay]
      BY <1>6, <2>1 DEF SpendWrite
    <3>4. /\ fromFree' \in [Users -> Nat] /\ usedToday' \in [Users -> Nat]
          /\ issued' \in [Users -> Int]
      BY <1>6, <2>1, <2>2 DEF SpendWrite
    <3>5. lock' \in [Users -> Tasks \cup {NoTask}] /\ pc' \in [Tasks -> Labels]
      BY <1>6 DEF SpendWrite, Release
    <3> QED
      BY <1>6, <3>1, <3>2, <3>3, <3>4, <3>5 DEF SpendWrite
  <2>4. CallsConsistent' /\ NoLostUpdate'
    BY <1>6, <2>1 DEF SpendWrite, Release, CallsConsistent, NoLostUpdate
  <2> QED
    BY <2>3, <2>4
<1>7. ASSUME NEW t \in Tasks, SpendRefuse(t)
      PROVE  Goal
  <2>1. TypeOK'
    BY <1>7, RecordTypes DEF SpendRefuse, Release
  <2>2. CallsConsistent' /\ NoLostUpdate'
    BY <1>7 DEF SpendRefuse, Release, CallsConsistent, NoLostUpdate
  <2> QED
    BY <2>1, <2>2
<1>8. ASSUME NEW t \in Tasks, CreateConflict(t)
      PROVE  Goal
  <2>1. TypeOK'
    BY <1>8, RecordTypes DEF CreateConflict, Release
  <2>2. CallsConsistent' /\ NoLostUpdate'
    BY <1>8 DEF CreateConflict, Release, CallsConsistent, NoLostUpdate
  <2> QED
    BY <2>1, <2>2
<1>9. ASSUME NEW t \in Tasks, Abort(t)
      PROVE  Goal
  <2>1. TypeOK'
    BY <1>9, RecordTypes DEF Abort, Release
  <2>2. CallsConsistent' /\ NoLostUpdate'
    BY <1>9 DEF Abort, Release, CallsConsistent, NoLostUpdate
  <2> QED
    BY <2>1, <2>2
<1>10. ASSUME NEW t \in Tasks, DeductWrite(t)
      PROVE  Goal
  <2> DEFINE u == job[t].user
  <2>1. u \in Users /\ snap[t] \in Rows /\ Deductible(t) \in Int /\ snap[t].bought \in Int
    BY <1>10, TaskTypes DEF DeductWrite, CallsConsistent
  <2>2. CASE Deductible(t) <= 0
    <3>1. /\ Return(t) /\ Release(t)
          /\ UNCHANGED <<rows, books, cache, today, calls>>
      BY <1>10, <2>2 DEF DeductWrite
    <3>2. TypeOK'
      BY <3>1, RecordTypes DEF Release
    <3>3. CallsConsistent' /\ NoLostUpdate'
      BY <3>1 DEF Release, CallsConsistent, NoLostUpdate
    <3> QED
      BY <3>2, <3>3
  <2>3. CASE Deductible(t) > 0
    <3>1. TypeOK'
      <4>1. bought' \in [Users -> Int]
        BY <1>10, <2>1, <2>3 DEF DeductWrite
      <4>2. ledger' \in [Users -> Entries]
        <5>1. Deductible(t) \in Nat
          BY <2>1, <2>3
        <5>2. ledger' = [ledger EXCEPT ![u].clawed = @ + Deductible(t)]
          BY <1>10, <2>1, <2>3 DEF DeductWrite
        <5>3. [ledger[u] EXCEPT !.clawed = @ + Deductible(t)] \in Entries
          BY <2>1, <5>1, EntryTypes
        <5> QED
          BY <2>1, <5>2, <5>3
      <4>3. /\ lock' \in [Users -> Tasks \cup {NoTask}] /\ pc' \in [Tasks -> Labels]
            /\ UNCHANGED <<snap, job>>
        BY <1>10, <2>1, <2>3 DEF DeductWrite, Release
      <4> QED
        BY <1>10, <4>1, <4>2, <4>3 DEF DeductWrite
    <3>2. CallsConsistent' /\ NoLostUpdate'
      BY <1>10, <2>1, <2>3 DEF DeductWrite, Release, CallsConsistent, NoLostUpdate
    <3> QED
      BY <3>1, <3>2
  <2> QED
    BY <2>1, <2>2, <2>3
<1>11. ASSUME NEW t \in Tasks, CreateAlone(t)
      PROVE  Goal
  <2>1. TypeOK'
    BY <1>11, RecordTypes DEF CreateAlone, NewRow, CallsConsistent
  <2>2. CallsConsistent' /\ NoLostUpdate'
    BY <1>11 DEF CreateAlone, NewRow, CallsConsistent, NoLostUpdate
  <2> QED
    BY <2>1, <2>2
<1>12. ASSUME NEW t \in Tasks, InsertReferred(t)
      PROVE  Goal
  <2>1. TypeOK'
    BY <1>12, RecordTypes DEF InsertReferred, NewRow, CallsConsistent
  <2>2. CallsConsistent' /\ NoLostUpdate'
    BY <1>12 DEF InsertReferred, NewRow, CallsConsistent, NoLostUpdate
  <2> QED
    BY <2>1, <2>2
<1>13. ASSUME NEW t \in Tasks, CreateReferred(t)
      PROVE  Goal
  <2> DEFINE u == job[t].user
             r == job[t].ref
             n == snap[t].refCount + 1
  <2>1. u \in Users \ accounts /\ r \in accounts /\ n \in Nat /\ snap[t].bought \in Int
    BY <1>13, TaskTypes DEF CreateReferred, CallsConsistent
  <2>2. /\ ReferrerBonus(n) \in Nat
        /\ snap[t].bought + ReferrerBonus(n) \in Int
        /\ gifted[r] + ReferrerBonus(n) \in Nat
        /\ gifted[u] + RefereeCr \in Nat
    BY <2>1, BonusType
  <2> HIDE DEF n
  <2>3. TypeOK'
    <3>1. bought' \in [Users -> Int] /\ gifted' \in [Users -> Nat]
      BY <1>13, <2>1, <2>2 DEF CreateReferred, n
    <3>2. refCount' \in [Users -> Nat] /\ referredBy' \in [Users -> Users \cup {NoUser}]
      BY <1>13, <2>1 DEF CreateReferred, n
    <3>3. /\ accounts' \in SUBSET Users /\ free' \in [Users -> 0..DailyFree]
          /\ issued' \in [Users -> Int] /\ resetDay' \in [Users -> 0..MaxDay]
      BY <1>13, <2>1 DEF CreateReferred, NewRow
    <3>4. /\ lock' \in [Users -> Tasks \cup {NoTask}] /\ pc' \in [Tasks -> Labels]
          /\ job' \in [Tasks -> Jobs] /\ snap' \in [Tasks -> Rows]
      BY <1>13, RecordTypes DEF CreateReferred, Release
    <3> QED
      BY <1>13, <3>1, <3>2, <3>3, <3>4 DEF CreateReferred
  <2>4. CallsConsistent' /\ NoLostUpdate'
    BY <1>13, <2>1 DEF CreateReferred, NewRow, Release, CallsConsistent, NoLostUpdate
  <2> QED
    BY <2>3, <2>4
<1>14. ASSUME NEW t \in Tasks, ReadRow(t)
      PROVE  Goal
  <2>1. job[t].user \in Users /\ Row(job[t].user) \in Rows
    BY <1>14, RecordTypes DEF ReadRow, CallsConsistent
  <2> HIDE DEF Row
  <2>2. TypeOK'
    <3>1. pc' \in [Tasks -> Labels] /\ job' \in [Tasks -> Jobs] /\ snap' \in [Tasks -> Rows]
      <4>1. CASE resetDay[job[t].user] < today
        BY <1>14, <2>1, <4>1 DEF ReadRow
      <4>2. CASE ~(resetDay[job[t].user] < today)
        <5>1. CASE job[t].kind = "balance"
          BY <1>14, <2>1, <4>2, <5>1 DEF ReadRow, AfterRead
        <5>2. CASE job[t].kind # "balance"
          BY <1>14, <4>2, <5>2, NullTypes DEF ReadRow, AfterRead
        <5> QED
          BY <5>1, <5>2
      <4> QED
        BY <4>1, <4>2
    <3> QED
      BY <1>14, <3>1 DEF ReadRow
  <2>3. CallsConsistent' /\ NoLostUpdate'
    BY <1>14 DEF ReadRow, AfterRead, CallsConsistent, NoLostUpdate, Row
  <2> QED
    BY <2>2, <2>3
<1>15. ASSUME NEW t \in Tasks, ResetFree(t)
      PROVE  Goal
  <2>1. job[t].user \in Users /\ [snap[t] EXCEPT !.free = DailyFree] \in Rows
    BY <1>15, RecordTypes DEF ResetFree, CallsConsistent
  <2>2. TypeOK'
    <3>1. pc' \in [Tasks -> Labels] /\ job' \in [Tasks -> Jobs] /\ snap' \in [Tasks -> Rows]
      <4>1. CASE job[t].kind = "balance"
        BY <1>15, <2>1, <4>1 DEF ResetFree, AfterRead
      <4>2. CASE job[t].kind # "balance"
        BY <1>15, <4>2, NullTypes DEF ResetFree, AfterRead
      <4> QED
        BY <4>1, <4>2
    <3>2. /\ free' \in [Users -> 0..DailyFree] /\ resetDay' \in [Users -> 0..MaxDay]
          /\ issued' \in [Users -> Int]
      BY <1>15, <2>1 DEF ResetFree
    <3> QED
      BY <1>15, <3>1, <3>2 DEF ResetFree
  <2>3. CallsConsistent' /\ NoLostUpdate'
    BY <1>15, <2>1 DEF ResetFree, AfterRead, CallsConsistent, NoLostUpdate
  <2> QED
    BY <2>2, <2>3
<1>16. ASSUME NEW t \in Tasks, FillCache(t)
      PROVE  Goal
  <2>1. TypeOK'
    BY <1>16, RecordTypes DEF FillCache
  <2>2. CallsConsistent' /\ NoLostUpdate'
    BY <1>16 DEF FillCache, CallsConsistent, NoLostUpdate
  <2> QED
    BY <2>1, <2>2
<1>17. ASSUME NEW t \in Tasks, Invalidate(t)
      PROVE  Goal
  <2>1. TypeOK'
    BY <1>17, RecordTypes DEF Invalidate
  <2>2. CallsConsistent' /\ NoLostUpdate'
    BY <1>17 DEF Invalidate, CallsConsistent, NoLostUpdate
  <2> QED
    BY <2>1, <2>2
<1>18. ASSUME NEW u \in Users, CacheExpire(u)
      PROVE  Goal
  BY <1>18 DEF CacheExpire, CallsConsistent, NoLostUpdate
<1>19. ASSUME NEW u \in Users, NEW a \in Amounts, PromoCredit(u, a)
      PROVE  Goal
  BY <1>19 DEF PromoCredit, CallsConsistent, NoLostUpdate
<1>20. CASE Midnight
  BY <1>20 DEF Midnight, CallsConsistent, NoLostUpdate
<1>21. CASE UNCHANGED vars
  BY <1>21 DEF vars, CallsConsistent, NoLostUpdate
<1> QED
  BY <1>3, <1>4, <1>5, <1>6, <1>7, <1>8, <1>9, <1>10, <1>11, <1>12, <1>13, <1>14, <1>15, <1>16, <1>17, <1>18, <1>19, <1>20, <1>21 DEF Next, TaskSteps

\* The tasks' locks, the row each one read and the types hold in every state.
THEOREM Safety == Spec => []Protocol
<1>1. Protocol /\ [Next]_vars => Protocol'
  BY StepProtocol
<1> QED
  BY InitProtocol, <1>1, PTL DEF Spec

\* Every variable keeps its type, and the free balance the range of the daily
\* allowance, in every behaviour.
THEOREM TypeCorrect == Spec => []TypeOK
<1>1. Protocol => TypeOK
  BY DEF Protocol
<1> QED
  BY Safety, <1>1, PTL

\* No transaction commits between another one's SELECT ... FOR UPDATE and its
\* COMMIT on the same row.
THEOREM LostUpdateFree == Spec => []NoLostUpdate
<1>1. Protocol => NoLostUpdate
  BY DEF Protocol
<1> QED
  BY Safety, <1>1, PTL

-----------------------------------------------------------------------------
(* Accounting: only seven actions touch the balances or the books.         *)

Balances == <<accounts, bought, free, refCount, referredBy, ledger, gifted, fromFree, issued>>

LEMMA Movements ==
    ASSUME [Next]_vars
    PROVE  \/ UNCHANGED Balances
           \/ \E t \in Tasks :
                 \/ SpendWrite(t) \/ DeductWrite(t) \/ CreateAlone(t)
                 \/ CreateReferred(t) \/ ResetFree(t)
                 \/ \E u \in Users, a \in Amounts : AddCredits(t, u, a)
           \/ \E u \in Users, a \in Amounts : PromoCredit(u, a)
<1> USE DEF Balances, rows, books
<1>1. CASE UNCHANGED vars
  BY <1>1 DEF vars
<1>2. CASE Midnight
  BY <1>2 DEF Midnight
<1>3. ASSUME NEW u \in Users, CacheExpire(u)
      PROVE  UNCHANGED Balances
  BY <1>3 DEF CacheExpire
<1>4. ASSUME NEW t \in Tasks, NEW kind, NEW u, NEW a, NEW r, NEW label,
             Call(t, kind, u, a, r, label)
      PROVE  UNCHANGED Balances
  BY <1>4 DEF Call
<1>5. ASSUME NEW t \in Tasks, TaskCalls(t)
      PROVE  \/ UNCHANGED Balances
             \/ \E u \in Users, a \in Amounts : AddCredits(t, u, a)
  BY <1>4, <1>5 DEF TaskCalls, CallSpend, CallDeduct, CallBalance, CallTouch, CallCreate
<1>6. ASSUME NEW t \in Tasks, TaskSteps(t)
      PROVE  \/ UNCHANGED Balances
             \/ SpendWrite(t) \/ DeductWrite(t) \/ CreateAlone(t)
             \/ CreateReferred(t) \/ ResetFree(t)
  BY <1>6 DEF TaskSteps, SpendBypass, LockRow, SpendRefuse, InsertReferred, CreateConflict,
              ReadRow, FillCache, Invalidate, Abort
<1> QED
  BY <1>1, <1>2, <1>3, <1>5, <1>6 DEF Next

LEMMA InitAccounting == Init => Accounting
<1> SUFFICES ASSUME Init
             PROVE  Accounting
  OBVIOUS
<1>1. \A u \in Users : free[u] \in Int
  BY CreditsAssumption DEF Init
<1>2. NoRow /\ NoOverdraft /\ BooksBalance
  BY <1>1 DEF Init, NoRow, NoOverdraft, BooksBalance
<1>3. ASSUME NEW r \in Users
      PROVE  refCount[r] = Cardinality({u \in Users : referredBy[u] = r})
  <2>1. {u \in Users : referredBy[u] = r} = {}
    BY CreditsAssumption DEF Init
  <2> QED
    BY <2>1, FS_EmptySet DEF Init
<1> QED
  BY <1>2, <1>3 DEF Accounting, ReferralCount

\* A referral adds one row that names the referrer, and none to anyone else.
LEMMA OneMoreFriend ==
    ASSUME TypeOK, ReferralCount, NEW u \in Users, NEW r \in Users, u # r,
           referredBy[u] = NoUser,
           referredBy' = [referredBy EXCEPT ![u] = r],
           refCount' = [refCount EXCEPT ![r] = refCount[r] + 1]
    PROVE  ReferralCount'
<1> SUFFICES ASSUME NEW s \in Users
             PROVE  refCount'[s] = Cardinality({v \in Users : referredBy'[v] = s})
  BY DEF ReferralCount
<1> DEFINE Friends == {v \in Users : referredBy[v] = s}
<1>1. refCount[s] = Cardinality(Friends) /\ IsFiniteSet(Friends) /\ u \notin Friends
  BY CreditsAssumption, FS_Subset DEF ReferralCount
<1>2. CASE s = r
  <2>1. {v \in Users : referredBy'[v] = s} = Friends \cup {u}
    BY <1>2 DEF TypeOK
  <2>2. Cardinality(Friends \cup {u}) = Cardinality(Friends) + 1
    BY <1>1, FS_AddElement
  <2> QED
    BY <1>1, <1>2, <2>1, <2>2 DEF TypeOK
<1>3. CASE s # r
  <2>1. {v \in Users : referredBy'[v] = s} = Friends
    BY <1>1, <1>3 DEF TypeOK
  <2> QED
    BY <1>1, <1>3, <2>1 DEF TypeOK
<1> QED
  BY <1>2, <1>3

LEMMA StepAccounting == Protocol /\ Accounting /\ [Next]_vars => Accounting'
<1> SUFFICES ASSUME TypeOK, CallsConsistent, NoLostUpdate,
                    NoRow, NoOverdraft, BooksBalance, ReferralCount, [Next]_vars
             PROVE  NoRow' /\ NoOverdraft' /\ BooksBalance' /\ ReferralCount'
  BY DEF Protocol, Accounting
<1> DEFINE Money == NoRow' /\ NoOverdraft' /\ BooksBalance'
<1> USE DEF NoRow, NoOverdraft, BooksBalance, books
<1>types. /\ \A u \in Users : /\ bought[u] \in Int /\ free[u] \in Int /\ fromFree[u] \in Int
                              /\ issued[u] \in Int /\ gifted[u] \in Int
                              /\ ledger[u].added \in Int /\ ledger[u].charged \in Int
                              /\ ledger[u].clawed \in Int
          /\ bought \in [Users -> Int] /\ free \in [Users -> 0..DailyFree]
          /\ ledger \in [Users -> Entries] /\ gifted \in [Users -> Nat]
          /\ fromFree \in [Users -> Nat] /\ issued \in [Users -> Int]
          /\ DailyFree \in Nat
  BY CreditsAssumption DEF TypeOK, Entries
<1>1. CASE UNCHANGED Balances
  BY <1>1 DEF Balances, ReferralCount
<1>2. ASSUME NEW t \in Tasks, SpendWrite(t)
      PROVE  Money /\ ReferralCount'
  <2> DEFINE u == job[t].user
             c == job[t].amount
  <2>1. /\ u \in Users
        /\ snap[t].bought = bought[u] /\ snap[t].free = free[u]
    BY <1>2 DEF SpendWrite, CallsConsistent, NoLostUpdate, LockedRow, Row, TypeOK
  <2>2. /\ bought[u] >= BoughtPart(t)
        /\ bought' = [bought EXCEPT ![u] = bought[u] - BoughtPart(t)]
        /\ free' = [free EXCEPT ![u] = FreeAtHand(t) - FreePart(t)]
        /\ fromFree' = [fromFree EXCEPT ![u] = fromFree[u] + FreePart(t)]
        /\ issued' = [issued EXCEPT ![u] = issued[u] + (FreeAtHand(t) - free[u])]
        /\ UNCHANGED <<accounts, refCount, referredBy, gifted>>
    BY <1>2, <2>1 DEF SpendWrite
  <2>3. ledger' = [ledger EXCEPT ![u].charged = @ + c]
    BY <1>2 DEF SpendWrite
  <2>4. u \in accounts
    BY <1>2 DEF SpendWrite, CallsConsistent
  <2>5. /\ FreeAtHand(t) \in Int /\ FreePart(t) \in Int /\ BoughtPart(t) \in Nat
        /\ FreePart(t) + BoughtPart(t) = c /\ c \in Int
    BY Parts, TaskTypes
  <2>6. \A v \in Users : /\ ledger'[v].added = ledger[v].added
                         /\ ledger'[v].clawed = ledger[v].clawed
                         /\ ledger'[v].charged = ledger[v].charged + IF v = u THEN c ELSE 0
    BY <1>types, <2>1, <2>3, <2>5 DEF Entries
  <2>7. NoRow' /\ NoOverdraft'
    BY <1>types, <2>1, <2>2, <2>4, <2>5
  <2>8. BooksBalance'
    <3> SUFFICES ASSUME NEW v \in Users
                 PROVE  /\ bought'[v] = ledger'[v].added + gifted'[v] - ledger'[v].clawed
                                           - (ledger'[v].charged - fromFree'[v])
                        /\ free'[v] = issued'[v] - fromFree'[v]
      OBVIOUS
    <3> HIDE DEF u, c
    <3>1. CASE v = u
      <4>1. /\ bought'[v] = bought[u] - BoughtPart(t)
            /\ free'[v] = FreeAtHand(t) - FreePart(t)
            /\ fromFree'[v] = fromFree[u] + FreePart(t)
            /\ issued'[v] = issued[u] + (FreeAtHand(t) - free[u])
            /\ gifted'[v] = gifted[u]
            /\ ledger'[v].added = ledger[u].added
            /\ ledger'[v].clawed = ledger[u].clawed
            /\ ledger'[v].charged = ledger[u].charged + c
        BY <1>types, <2>1, <2>2, <2>6, <3>1
      <4>2. /\ bought[u] = ledger[u].added + gifted[u] - ledger[u].clawed
                              - (ledger[u].charged - fromFree[u])
            /\ free[u] = issued[u] - fromFree[u]
        BY <2>1
      <4> QED
        BY <1>types, <2>1, <2>5, <4>1, <4>2
    <3>2. CASE v # u
      BY <1>types, <2>1, <2>2, <2>6, <3>2
    <3> QED
      BY <3>1, <3>2
  <2> QED
    BY <2>2, <2>7, <2>8 DEF ReferralCount
<1>3. ASSUME NEW t \in Tasks, DeductWrite(t)
      PROVE  Money /\ ReferralCount'
  <2> DEFINE u == job[t].user
             d == Deductible(t)
  <2>1. u \in accounts /\ u \in Users /\ snap[t].bought = bought[u] /\ d \in Int
    BY <1>3, TaskTypes DEF DeductWrite, CallsConsistent, NoLostUpdate, LockedRow, Row, TypeOK
  <2>2. CASE d <= 0
    <3>1. UNCHANGED Balances
      BY <1>3, <2>2 DEF DeductWrite, Balances
    <3> QED
      BY <3>1 DEF Balances, ReferralCount
  <2>3. CASE d > 0
    <3>1. /\ bought' = [bought EXCEPT ![u] = bought[u] - d]
          /\ ledger' = [ledger EXCEPT ![u].clawed = @ + d]
          /\ UNCHANGED <<accounts, free, refCount, referredBy, gifted, fromFree, issued>>
      BY <1>3, <2>1, <2>3 DEF DeductWrite
    <3>2. d <= bought[u]
      BY <2>1, TaskTypes DEF Deductible
    <3>3. \A v \in Users : /\ ledger'[v].added = ledger[v].added
                           /\ ledger'[v].charged = ledger[v].charged
                           /\ ledger'[v].clawed = ledger[v].clawed + IF v = u THEN d ELSE 0
      BY <1>types, <2>1, <3>1 DEF Entries
    <3>4. Money
      BY <1>types, <2>1, <3>1, <3>2, <3>3
    <3> QED
      BY <3>1, <3>4 DEF ReferralCount
  <2> QED
    BY <2>1, <2>2, <2>3
<1>4. ASSUME NEW t \in Tasks, CreateAlone(t)
      PROVE  Money /\ ReferralCount'
  <2>1. job[t].user \in Users
    BY <1>4 DEF CreateAlone, CallsConsistent
  <2>2. UNCHANGED <<bought, refCount, referredBy, ledger, gifted, fromFree>>
    BY <1>4 DEF CreateAlone
  <2>3. Money
    BY <1>4, <1>types, <2>1, <2>2 DEF CreateAlone, NewRow
  <2> QED
    BY <2>2, <2>3 DEF ReferralCount
<1>5. ASSUME NEW t \in Tasks, CreateReferred(t)
      PROVE  Money /\ ReferralCount'
  <2> DEFINE u == job[t].user
             r == job[t].ref
             b == ReferrerBonus(snap[t].refCount + 1)
  <2>1. /\ u \in Users \ accounts /\ r \in accounts /\ r \in Users /\ u # r
        /\ snap[t].bought = bought[r] /\ snap[t].refCount = refCount[r]
    BY <1>5, TaskTypes DEF CreateReferred, CallsConsistent, NoLostUpdate, LockedRow, Row, TypeOK
  <2>2. b \in Nat
    BY TaskTypes, BonusType
  <2>3. /\ bought' = [bought EXCEPT ![u] = RefereeCr, ![r] = bought[r] + b]
        /\ gifted' = [gifted EXCEPT ![u] = @ + RefereeCr, ![r] = @ + b]
        /\ accounts' = accounts \cup {u}
        /\ free' = [free EXCEPT ![u] = DailyFree]
        /\ issued' = [issued EXCEPT ![u] = DailyFree]
        /\ referredBy' = [referredBy EXCEPT ![u] = r]
        /\ refCount' = [refCount EXCEPT ![r] = refCount[r] + 1]
        /\ UNCHANGED <<ledger, fromFree>>
    BY <1>5, <2>1 DEF CreateReferred, NewRow
  <2>4. RefereeCr \in Nat /\ bought[u] = 0 /\ fromFree[u] = 0 /\ referredBy[u] = NoUser
    BY <2>1, CreditsAssumption
  <2> HIDE DEF b
  <2>5. ASSUME NEW v \in Users
        PROVE  /\ bought'[v] = IF v = u THEN RefereeCr
                               ELSE IF v = r THEN bought[v] + b ELSE bought[v]
               /\ gifted'[v] = IF v = u THEN gifted[v] + RefereeCr
                               ELSE IF v = r THEN gifted[v] + b ELSE gifted[v]
               /\ free'[v] = IF v = u THEN DailyFree ELSE free[v]
               /\ issued'[v] = IF v = u THEN DailyFree ELSE issued[v]
               /\ referredBy'[v] = IF v = u THEN r ELSE referredBy[v]
    BY <1>types, <2>1, <2>3 DEF TypeOK
  <2> HIDE DEF u, r
  <2>6. NoRow' /\ NoOverdraft' /\ BooksBalance'
    <3>1. NoRow'
      BY <2>1, <2>3, <2>5
    <3>2. NoOverdraft'
      BY <1>types, <2>2, <2>4, <2>5
    <3>3. ASSUME NEW v \in Users
          PROVE  /\ bought'[v] = ledger[v].added + gifted'[v] - ledger[v].clawed
                                    - (ledger[v].charged - fromFree[v])
                 /\ free'[v] = issued'[v] - fromFree[v]
      <4>1. /\ bought[v] = ledger[v].added + gifted[v] - ledger[v].clawed
                              - (ledger[v].charged - fromFree[v])
            /\ free[v] = issued[v] - fromFree[v]
        OBVIOUS
      <4>2. CASE v = u
        <5>1. /\ bought'[v] = RefereeCr /\ gifted'[v] = gifted[v] + RefereeCr
              /\ free'[v] = DailyFree /\ issued'[v] = DailyFree
              /\ bought[v] = 0 /\ fromFree[v] = 0
          BY <2>4, <2>5, <4>2
        <5>2. /\ gifted[v] \in Int /\ ledger[v].added \in Int
              /\ ledger[v].charged \in Int /\ ledger[v].clawed \in Int
          BY <1>types
        <5> DEFINE a == ledger[v].added
                   g == gifted[v]
                   k == ledger[v].clawed
                   c == ledger[v].charged
        <5>3. 0 = a + g - k - (c - 0)
          BY <4>1, <5>1
        <5>4. RefereeCr \in Int /\ a \in Int /\ g \in Int /\ k \in Int /\ c \in Int
          BY <2>4, <5>2
        <5> HIDE DEF a, g, k, c
        <5>5. RefereeCr = a + (g + RefereeCr) - k - (c - 0)
          BY <5>3, <5>4
        <5> QED
          BY <1>types, <5>1, <5>5 DEF a, g, k, c
      <4>3. CASE v = r
        BY <1>types, <2>1, <2>2, <2>5, <4>1, <4>3
      <4>4. CASE v # u /\ v # r
        BY <2>5, <4>1, <4>4
      <4> QED
        BY <4>2, <4>3, <4>4
    <3> QED
      BY <2>3, <3>1, <3>2, <3>3
  <2>7. ReferralCount'
    BY <2>1, <2>3, <2>4, OneMoreFriend DEF u, r
  <2> QED
    BY <2>6, <2>7
<1>6. ASSUME NEW t \in Tasks, NEW u \in Users, NEW a \in Amounts, AddCredits(t, u, a)
      PROVE  Money /\ ReferralCount'
  <2>1. a \in Nat /\ u \in accounts
    BY <1>6, CreditsAssumption DEF AddCredits
  <2>2. /\ bought' = [bought EXCEPT ![u] = bought[u] + a]
        /\ ledger' = [ledger EXCEPT ![u].added = @ + a]
        /\ UNCHANGED <<accounts, free, refCount, referredBy, gifted, fromFree, issued>>
    BY <1>6 DEF AddCredits
  <2>3. \A v \in Users : /\ ledger'[v].clawed = ledger[v].clawed
                         /\ ledger'[v].charged = ledger[v].charged
                         /\ ledger'[v].added = ledger[v].added + IF v = u THEN a ELSE 0
    BY <1>types, <2>1, <2>2 DEF Entries
  <2>4. Money
    BY <1>types, <2>1, <2>2, <2>3
  <2> QED
    BY <2>2, <2>4 DEF ReferralCount
<1>7. ASSUME NEW u \in Users, NEW a \in Amounts, PromoCredit(u, a)
      PROVE  Money /\ ReferralCount'
  <2>1. a \in Nat /\ u \in accounts
    BY <1>7, CreditsAssumption DEF PromoCredit
  <2>2. /\ bought' = [bought EXCEPT ![u] = bought[u] + a]
        /\ gifted' = [gifted EXCEPT ![u] = gifted[u] + a]
        /\ UNCHANGED <<accounts, free, refCount, referredBy, ledger, fromFree, issued>>
    BY <1>7 DEF PromoCredit
  <2>3. Money
    BY <1>types, <2>1, <2>2
  <2> QED
    BY <2>2, <2>3 DEF ReferralCount
<1>8. ASSUME NEW t \in Tasks, ResetFree(t)
      PROVE  Money /\ ReferralCount'
  <2> DEFINE u == job[t].user
  <2>1. u \in accounts /\ u \in Users
    BY <1>8 DEF ResetFree, CallsConsistent, TypeOK
  <2>2. /\ free' = [free EXCEPT ![u] = DailyFree]
        /\ issued' = [issued EXCEPT ![u] = issued[u] + (DailyFree - free[u])]
        /\ UNCHANGED <<accounts, bought, refCount, referredBy, ledger, gifted, fromFree>>
    BY <1>8 DEF ResetFree
  <2>3. Money
    BY <1>types, <2>1, <2>2
  <2> QED
    BY <2>2, <2>3 DEF ReferralCount
<1> QED
  BY Movements, <1>1, <1>2, <1>3, <1>4, <1>5, <1>6, <1>7, <1>8

LEMMA Invariance == Spec => [](Protocol /\ Accounting)
<1>1. Init => Protocol /\ Accounting
  BY InitProtocol, InitAccounting
<1>2. Protocol /\ Accounting /\ [Next]_vars => (Protocol /\ Accounting)'
  BY StepProtocol, StepAccounting
<1> QED
  BY <1>1, <1>2, PTL DEF Spec

\* No bought balance is ever negative.
THEOREM OverdraftFree == Spec => []NoOverdraft
<1>1. Protocol /\ Accounting => NoOverdraft
  BY DEF Accounting
<1> QED
  BY Invariance, <1>1, PTL

\* Both balances always follow from the ledger, the gifts and the allowance.
THEOREM BooksAlwaysBalance == Spec => []BooksBalance
<1>1. Protocol /\ Accounting => BooksBalance
  BY DEF Accounting
<1> QED
  BY Invariance, <1>1, PTL

\* referral_count is the number of users that name the referrer.
THEOREM ReferralsCountedOnce == Spec => []ReferralCount
<1>1. Protocol /\ Accounting => ReferralCount
  BY DEF Accounting
<1> QED
  BY Invariance, <1>1, PTL

-----------------------------------------------------------------------------
(* Refinement: each movement is one operation of CreditAccount.            *)

LEMMA StepRefines ==
    Protocol /\ Accounting /\ [Next]_vars => [Account!Next]_(Account!vars)
<1> SUFFICES ASSUME TypeOK, CallsConsistent, NoLostUpdate, NoRow, [Next]_vars
             PROVE  Account!Next \/ UNCHANGED Account!vars
  BY DEF Protocol, Accounting
<1> USE DEF Account!vars
<1>types. /\ bought \in [Users -> Int] /\ free \in [Users -> 0..DailyFree]
          /\ DailyFree \in Nat
  BY CreditsAssumption DEF TypeOK
<1>1. CASE UNCHANGED Balances
  BY <1>1 DEF Balances
<1>2. ASSUME NEW t \in Tasks, SpendWrite(t)
      PROVE  Account!Next
  <2> DEFINE u == job[t].user
             c == job[t].amount
             f == FreeAtHand(t)
  <2>1. /\ u \in Users /\ c \in Prices
        /\ snap[t].bought = bought[u] /\ snap[t].free = free[u]
        /\ job[t].kind \in Spends
    BY <1>2 DEF SpendWrite, CallsConsistent, NoLostUpdate, LockedRow, Row, TypeOK, Spends
  <2>2. /\ bought[u] >= BoughtPart(t)
        /\ bought' = [bought EXCEPT ![u] = bought[u] - BoughtPart(t)]
        /\ free' = [free EXCEPT ![u] = f - FreePart(t)]
        /\ UNCHANGED accounts
    BY <1>2, <2>1 DEF SpendWrite
  <2>3. f \in {free[u], DailyFree} /\ f \in Int /\ c \in Int
    BY <2>1, Parts, TaskTypes DEF FreeAtHand
  <2>4. CASE job[t].kind = "spendPaid"
    <3>1. FreePart(t) = 0 /\ BoughtPart(t) = c
      BY <2>3, <2>4 DEF FreePart, BoughtPart
    <3>2. Account!DebitBought(u, c)
      <4> HIDE DEF u, c, f
      <4>1. bought[u] >= c /\ bought' = [bought EXCEPT ![u] = bought[u] - c]
        BY <2>2, <3>1
      <4>2. free' = [free EXCEPT ![u] = f]
        BY <2>2, <2>3, <3>1
      <4> QED
        BY <2>2, <2>3, <4>1, <4>2 DEF Account!DebitBought, Account!Allowances
    <3> QED
      BY <2>1, <3>2 DEF Account!Next
  <2>5. CASE job[t].kind = "spendFree"
    <3>1. FreePart(t) = (IF f >= c THEN c ELSE f) /\ BoughtPart(t) = c - FreePart(t)
      BY <2>5 DEF FreePart, BoughtPart
    <3> HIDE DEF u, c, f
    <3>2. CASE f >= c
      <4>1. bought' = bought /\ free' = [free EXCEPT ![u] = f - c]
        BY <1>types, <2>1, <2>2, <2>3, <3>1, <3>2
      <4>2. f + bought[u] >= c
        BY <1>types, <2>1, <2>2, <2>3, <3>1, <3>2
      <4> QED
        BY <2>1, <2>2, <2>3, <3>2, <4>1, <4>2
           DEF Account!Next, Account!DebitMixed, Account!Allowances
    <3>3. CASE ~(f >= c)
      <4>1. bought' = [bought EXCEPT ![u] = bought[u] - (c - f)] /\ free' = [free EXCEPT ![u] = 0]
        BY <1>types, <2>1, <2>2, <2>3, <3>1, <3>3
      <4>2. f + bought[u] >= c
        BY <1>types, <2>1, <2>2, <2>3, <3>1, <3>3
      <4> QED
        BY <2>1, <2>2, <2>3, <3>3, <4>1, <4>2
           DEF Account!Next, Account!DebitMixed, Account!Allowances
    <3> QED
      BY <3>2, <3>3
  <2> QED
    BY <2>1, <2>4, <2>5 DEF Spends
<1>3. ASSUME NEW t \in Tasks, DeductWrite(t)
      PROVE  Account!Next \/ UNCHANGED Account!vars
  <2> DEFINE u == job[t].user
             a == job[t].amount
             d == Deductible(t)
  <2>1. /\ u \in Users /\ a \in Amounts /\ a \in Int
        /\ snap[t].bought = bought[u] /\ bought[u] \in Int
    BY <1>3, <1>types, TaskTypes DEF DeductWrite, CallsConsistent, NoLostUpdate, LockedRow, Row, TypeOK
  <2>2. CASE d <= 0
    BY <1>3, <2>2 DEF DeductWrite
  <2>3. CASE ~(d <= 0)
    <3>1. /\ bought' = [bought EXCEPT ![u] = bought[u] - d]
          /\ UNCHANGED <<accounts, free>>
      BY <1>3, <2>1, <2>3 DEF DeductWrite
    <3>2. bought[u] - d = IF a <= bought[u] THEN bought[u] - a ELSE 0
      BY <2>1 DEF Deductible
    <3>3. Account!Claw(u, a)
      BY <3>1, <3>2 DEF Account!Claw
    <3> QED
      BY <2>1, <3>3 DEF Account!Next
  <2> QED
    BY <2>2, <2>3
<1>4. ASSUME NEW t \in Tasks, CreateAlone(t)
      PROVE  Account!Next
  <2>1. job[t].user \in Users /\ Account!Open(job[t].user)
    BY <1>4 DEF CreateAlone, NewRow, CallsConsistent, Account!Open
  <2> QED
    BY <2>1 DEF Account!Next
<1>5. ASSUME NEW t \in Tasks, CreateReferred(t)
      PROVE  Account!Next
  <2> DEFINE u == job[t].user
             r == job[t].ref
             b == ReferrerBonus(snap[t].refCount + 1)
  <2>1. /\ u \in Users /\ u \notin accounts /\ r \in accounts /\ r \in Users /\ u # r
        /\ snap[t].bought = bought[r]
    BY <1>5, TaskTypes DEF CreateReferred, CallsConsistent, NoLostUpdate, LockedRow, Row, TypeOK
  <2>2. b \in Nat
    BY TaskTypes, BonusType
  <2>3. /\ bought' = [bought EXCEPT ![u] = RefereeCr, ![r] = bought[r] + b]
        /\ accounts' = accounts \cup {u}
        /\ free' = [free EXCEPT ![u] = DailyFree]
    BY <1>5, <2>1 DEF CreateReferred, NewRow
  <2> HIDE DEF b
  <2>4. bought'[r] = bought[r] + b
    BY <1>types, <2>1, <2>3
  <2>5. bought'[r] >= bought[r]
    BY <1>types, <2>1, <2>2, <2>4
  <2>6. bought' = [bought EXCEPT ![u] = RefereeCr, ![r] = bought'[r]]
    BY <2>3, <2>4
  <2>7. Account!OpenReferred(u, r)
    BY <2>1, <2>3, <2>5, <2>6 DEF Account!OpenReferred
  <2> QED
    BY <2>1, <2>7 DEF Account!Next
<1>6. ASSUME NEW t \in Tasks, NEW u \in Users, NEW a \in Amounts, AddCredits(t, u, a)
      PROVE  Account!Next
  BY <1>6 DEF AddCredits, Account!Next, Account!Credit
<1>7. ASSUME NEW u \in Users, NEW a \in Amounts, PromoCredit(u, a)
      PROVE  Account!Next
  BY <1>7 DEF PromoCredit, Account!Next, Account!Credit
<1>8. ASSUME NEW t \in Tasks, ResetFree(t)
      PROVE  Account!Next
  <2>1. job[t].user \in Users /\ Account!Refresh(job[t].user)
    BY <1>8 DEF ResetFree, CallsConsistent, Account!Refresh
  <2> QED
    BY <2>1 DEF Account!Next
<1> QED
  BY Movements, <1>1, <1>2, <1>3, <1>4, <1>5, <1>6, <1>7, <1>8

\* The transactions of credits.py implement indivisible operations on the
\* balances: a spend, a credit, a claw-back, a daily reset, a new user.
THEOREM Refines == Spec => Linearizable
<1>1. Init => Account!Init
  BY CreditsAssumption DEF Init, Account!Init
<1>2. Protocol /\ Accounting /\ [Next]_vars => [Account!Next]_(Account!vars)
  BY StepRefines
<1> QED
  BY Invariance, <1>1, <1>2, PTL DEF Spec, Linearizable, Account!Spec

=============================================================================
