-------------------------- MODULE EntitlementsProof -------------------------
(***************************************************************************)
(* Proofs about Entitlements, for any number of users, calls and days.     *)
(* All but the promo codes are written from values that were read before:  *)
(* each invariant needs to know what the values a call carries may be by   *)
(* the time they are written.                                              *)
(***************************************************************************)
EXTENDS Entitlements, TLAPS, FiniteSetTheorems

\* A call in flight is for a user, and began today or before.
Placed ==
    \A t \in Tasks : pc[t] # "idle" => job[t].user \in Users /\ job[t].day \in 1..today

Typed == TypeOK /\ Placed

\* n days in a row that end with d, on each of which u came.
Stands(u, d, n) == d - n + 1 >= 1 /\ (d - n + 1)..d \subseteq claimed[u]

RowStands(u) == streak[u] > 0 => Stands(u, lastBonus[u], streak[u])

\* The streak a call carries lacks the day of the call itself until it is marked.
CallStands(t) ==
    /\ pc[t] = "credit" => Stands(job[t].user, job[t].day, job[t].val)
    /\ Writing(t, "bonus") =>
        /\ 1 <= job[t].val /\ job[t].val <= job[t].day
        /\ (job[t].day - job[t].val + 1)..(job[t].day - 1) \subseteq claimed[job[t].user]

Streaks == (\A u \in Users : RowStands(u)) /\ (\A t \in Tasks : CallStands(t))

\* A window is open exactly when it was opened once.
RowOnce(u) ==
    /\ trialAt[u] = 0 <=> firstTrial[u] = 0
    /\ trialAt[u] <= firstTrial[u]
    /\ fullEnds[u] = 0 <=> firstFull[u] = 0
    /\ fullEnds[u] # 0 => fullEnds[u] <= firstFull[u] + FullDays

\* An activation in flight read the row before the first one was written.
CallOnce(t) ==
    LET u == job[t].user IN
    /\ Writing(t, "trial") =>
        /\ job[t].val > 0
        /\ job[t].val <= IF firstTrial[u] = 0 THEN today ELSE firstTrial[u]
    /\ Writing(t, "full") =>
        /\ job[t].val > 0
        /\ job[t].val <= (IF firstFull[u] = 0 THEN today ELSE firstFull[u]) + FullDays

Windows == (\A u \in Users : RowOnce(u)) /\ (\A t \in Tasks : CallOnce(t))

\* An extension in flight has yet to be counted.
CallSold(t) ==
    Writing(t, "extend") =>
        job[t].val <= today + UnlimitedDays * (extensions[job[t].user] + 2)

Sold == NotOversold /\ \A t \in Tasks : CallSold(t)

\* Whoever has read the promo row holds its lock, and it is as it was.
CallLocks(t) == pc[t] = "promo" => promoLock = t /\ job[t].val = promoCount

Promos == PromoOnce /\ \A t \in Tasks : CallLocks(t)

IInv == Typed /\ Streaks /\ Windows /\ Sold /\ Promos

-----------------------------------------------------------------------------

LEMMA InitInv == Init => IInv
<1> SUFFICES ASSUME Init
             PROVE  IInv
  OBVIOUS
<1>1. Typed
  BY EntitlementsAssumption DEF Init, Typed, TypeOK, Placed, NoJob, Kinds
<1>2. Streaks /\ Windows
  BY DEF Init, Streaks, RowStands, CallStands, Windows, RowOnce, CallOnce, Writing
<1>3. Sold
  BY EntitlementsAssumption DEF Init, Sold, NotOversold, CallSold, Writing
<1>4. Promos
  BY EntitlementsAssumption, FS_EmptySet DEF Init, Promos, PromoOnce, CallLocks
<1> QED
  BY <1>1, <1>2, <1>3, <1>4 DEF IInv

-----------------------------------------------------------------------------
(* The calls                                                               *)

Acts(t) == Writes(t) \/ Abort(t) \/ \E u \in Users : Reads(t, u)

\* Beside the calls, an administrator or the calendar moves, and no call does.
Outside == (\E u \in Users : AdminSet(u) \/ AdminRemove(u)) \/ Midnight

\* A step of one call leaves the others as they are.
LEMMA OthersKeep ==
    ASSUME TypeOK, NEW t \in Tasks, Acts(t), NEW s \in Tasks, s # t
    PROVE  pc'[s] = pc[s] /\ job'[s] = job[s]
<1>1. CASE \E u \in Users : Reads(t, u)
  BY <1>1 DEF Reads, BonusRead, TrialRead, FullRead, ExtendRead, PromoBegin, Begin, TypeOK
<1>2. CASE Writes(t)
  BY <1>2 DEF Writes, BonusMark, BonusCredit, TrialWrite, FullWrite, ExtendWrite,
              PromoLock, PromoRefuse, PromoApply, Return, TypeOK
<1>3. CASE Abort(t)
  BY <1>3 DEF Abort, Return, TypeOK
<1> QED
  BY <1>1, <1>2, <1>3 DEF Acts

\* A call that begins carries its arguments and the day.
LEMMA Beginning ==
    ASSUME TypeOK, NEW t \in Tasks, NEW kind, NEW u, NEW val, Begin(t, kind, u, val)
    PROVE  /\ pc'[t] = "write" /\ job'[t].kind = kind /\ job'[t].user = u
           /\ job'[t].day = today /\ job'[t].val = val
BY DEF Begin, TypeOK

\* A call that returns is idle.
LEMMA Returning ==
    ASSUME TypeOK, NEW t \in Tasks, Return(t)
    PROVE  pc'[t] = "idle"
BY DEF Return, TypeOK

-----------------------------------------------------------------------------
(* Types                                                                   *)

\* What Begin does to the types.
LEMMA BeginTyped ==
    ASSUME Typed, NEW t \in Tasks, NEW kind \in Kinds, NEW u \in Users, NEW val \in Nat,
           Begin(t, kind, u, val), UNCHANGED <<windows, login, promo, today>>
    PROVE  Typed'
<1>1. calls' \in 0..MaxCalls
  BY EntitlementsAssumption DEF Begin, Typed, TypeOK
<1>2. /\ job' \in [Tasks -> [kind : Kinds, user : Users \cup {NoUser},
                             day : 0..MaxDay, val : Nat]]
      /\ pc' \in [Tasks -> {"idle", "write", "credit", "promo"}]
  BY DEF Begin, Typed, TypeOK
<1>3. TypeOK'
  BY <1>1, <1>2 DEF Typed, TypeOK, windows, login, promo
<1>4. Placed'
  BY DEF Begin, Typed, TypeOK, Placed
<1> QED
  BY <1>3, <1>4 DEF Typed

\* What Return does to the types of the calls.
LEMMA ReturnTyped ==
    ASSUME Typed, NEW t \in Tasks, Return(t), UNCHANGED <<today, calls>>
    PROVE  /\ job' \in [Tasks -> [kind : Kinds, user : Users \cup {NoUser},
                                  day : 0..MaxDay, val : Nat]]
           /\ pc' \in [Tasks -> {"idle", "write", "credit", "promo"}]
           /\ today' \in 1..MaxDay /\ calls' \in 0..MaxCalls
           /\ Placed'
<1>1. NoJob \in [kind : Kinds, user : Users \cup {NoUser}, day : 0..MaxDay, val : Nat]
  BY EntitlementsAssumption DEF NoJob, Kinds
<1>2. Placed'
  BY DEF Return, Typed, TypeOK, Placed
<1> QED
  BY <1>1, <1>2 DEF Return, Typed, TypeOK

\* TypeOK, one variable at a time.
FlatTypeOK ==
    /\ trialAt \in [Users -> Nat] /\ fullEnds \in [Users -> Nat]
    /\ unlimitedEnds \in [Users -> Nat]
    /\ lastBonus \in [Users -> Nat] /\ streak \in [Users -> Nat]
    /\ promoPaid \in [Users -> Nat]
    /\ firstTrial \in [Users -> Nat] /\ firstFull \in [Users -> Nat]
    /\ extensions \in [Users -> Nat]
    /\ promoUses \in SUBSET Users
    /\ promoCount \in 0..MaxUses
    /\ promoLock \in Tasks \cup {NoTask}
    /\ pc \in [Tasks -> {"idle", "write", "credit", "promo"}]
    /\ job \in [Tasks -> [kind : Kinds, user : Users \cup {NoUser},
                          day : 0..MaxDay, val : Nat]]
    /\ today \in 1..MaxDay
    /\ calls \in 0..MaxCalls
    /\ bonuses \in [Users -> [1..MaxDay -> Nat]]
    /\ claimed \in [Users -> SUBSET (1..MaxDay)]

LEMMA Flat == (TypeOK <=> FlatTypeOK) /\ (TypeOK' <=> FlatTypeOK')
BY DEF TypeOK, FlatTypeOK

LEMMA Updated ==
    ASSUME NEW f \in [Users -> Nat], NEW u \in Users, NEW n \in Nat
    PROVE  [f EXCEPT ![u] = n] \in [Users -> Nat]
OBVIOUS

LEMMA TypeStep ==
    ASSUME IInv, Next
    PROVE  Typed'
<1>0. FlatTypeOK /\ Typed /\ Placed
  BY Flat DEF IInv, Typed
<1>1. ASSUME NEW t \in Tasks, NEW u \in Users, Reads(t, u)
      PROVE  FlatTypeOK' /\ Placed'
  <2>1. /\ streak[u] + 1 \in Nat /\ today \in Nat
        /\ today + FullDays \in Nat /\ ExtensionBase(u) + UnlimitedDays \in Nat
        /\ NextStreak(u) \in Nat
    <3>1. /\ streak[u] \in Nat /\ unlimitedEnds[u] \in Nat /\ today \in Nat
          /\ FullDays \in Nat /\ UnlimitedDays \in Nat
      BY <1>0, EntitlementsAssumption DEF FlatTypeOK
    <3>2. ExtensionBase(u) \in Nat /\ NextStreak(u) \in Nat
      BY <3>1 DEF ExtensionBase, NextStreak
    <3> QED
      BY <3>1, <3>2
  <2>2. {"bonus", "trial", "full", "extend", "promo"} \subseteq Kinds
    BY <1>0 DEF Kinds
  <2> QED
    BY <1>0, <1>1, <2>1, <2>2, BeginTyped, Flat
       DEF Typed, Reads, BonusRead, TrialRead, FullRead, ExtendRead, PromoBegin
<1>2. ASSUME NEW t \in Tasks, BonusMark(t)
      PROVE  FlatTypeOK' /\ Placed'
  <2>1. job[t].user \in Users /\ job[t].day \in 1..today /\ job[t].val \in Nat
    BY <1>0, <1>2 DEF BonusMark, Writing, FlatTypeOK, Placed
  <2>2. claimed' \in [Users -> SUBSET (1..MaxDay)] /\ lastBonus' \in [Users -> Nat]
        /\ streak' \in [Users -> Nat]
    BY <1>0, <1>2, <2>1 DEF BonusMark, FlatTypeOK
  <2>3. pc' \in [Tasks -> {"idle", "write", "credit", "promo"}]
    BY <1>0, <1>2 DEF BonusMark, FlatTypeOK
  <2>4. FlatTypeOK'
    BY <1>0, <1>2, <2>2, <2>3 DEF BonusMark, FlatTypeOK, windows, promo
  <2>5. Placed'
    BY <1>0, <1>2 DEF BonusMark, Writing, FlatTypeOK, Placed
  <2> QED
    BY <1>0, <2>4, <2>5
<1>3. ASSUME NEW t \in Tasks, BonusCredit(t)
      PROVE  FlatTypeOK' /\ Placed'
  <2>1. job[t].user \in Users /\ job[t].day \in 1..MaxDay
    BY <1>0, <1>3 DEF BonusCredit, FlatTypeOK, Placed
  <2>2. bonuses' \in [Users -> [1..MaxDay -> Nat]]
    <3>1. bonuses \in [Users -> [1..MaxDay -> Nat]]
      BY <1>0 DEF FlatTypeOK
    <3>2. bonuses[job[t].user][job[t].day] + 1 \in Nat
      <4>1. bonuses[job[t].user] \in [1..MaxDay -> Nat]
        BY <2>1, <3>1
      <4>2. bonuses[job[t].user][job[t].day] \in Nat
        BY <2>1, <4>1
      <4> QED
        BY <4>2
    <3> QED
      BY <1>3, <2>1, <3>1, <3>2 DEF BonusCredit
  <2> QED
    BY <1>0, <1>3, <2>2, ReturnTyped DEF BonusCredit, FlatTypeOK, windows, promo
<1>4. ASSUME NEW t \in Tasks, TrialWrite(t) \/ FullWrite(t) \/ ExtendWrite(t)
      PROVE  FlatTypeOK' /\ Placed'
  <2> DEFINE v == job[t].user
  <2>1. job[t].user \in Users /\ job[t].val \in Nat
    BY <1>0, <1>4 DEF TrialWrite, FullWrite, ExtendWrite, Writing, FlatTypeOK, Placed
  <2>2. \A f \in {trialAt, fullEnds, unlimitedEnds, firstTrial, firstFull, extensions} :
            f \in [Users -> Nat]
    BY <1>0 DEF FlatTypeOK
  <2>3. \A f \in {trialAt', fullEnds', unlimitedEnds', firstTrial', firstFull',
                  extensions'} : f \in [Users -> Nat]
    <3>1. CASE TrialWrite(t)
      <4>1. /\ trialAt' = [trialAt EXCEPT ![v] = job[t].val]
            /\ firstTrial' = [firstTrial EXCEPT ![v] = IF firstTrial[v] = 0 THEN today ELSE firstTrial[v]]
        BY <3>1 DEF TrialWrite
      <4>2. (IF firstTrial[v] = 0 THEN today ELSE firstTrial[v]) \in Nat
        BY <1>0, <2>1 DEF FlatTypeOK
      <4> QED
        <5>1. trialAt \in [Users -> Nat] /\ firstTrial \in [Users -> Nat]
          BY <2>2
        <5>2. trialAt' \in [Users -> Nat] /\ firstTrial' \in [Users -> Nat]
          BY <2>1, <4>1, <4>2, <5>1, Updated
        <5>3. UNCHANGED <<fullEnds, unlimitedEnds, firstFull, extensions>>
          BY <3>1 DEF TrialWrite
        <5> QED
          BY <2>2, <5>2, <5>3
    <3>2. CASE FullWrite(t)
      <4>1. /\ fullEnds' = [fullEnds EXCEPT ![v] = job[t].val]
            /\ firstFull' = [firstFull EXCEPT ![v] = IF firstFull[v] = 0 THEN today ELSE firstFull[v]]
        BY <3>2 DEF FullWrite
      <4>2. (IF firstFull[v] = 0 THEN today ELSE firstFull[v]) \in Nat
        BY <1>0, <2>1 DEF FlatTypeOK
      <4> QED
        <5>1. fullEnds \in [Users -> Nat] /\ firstFull \in [Users -> Nat]
          BY <2>2
        <5>2. fullEnds' \in [Users -> Nat] /\ firstFull' \in [Users -> Nat]
          BY <2>1, <4>1, <4>2, <5>1, Updated
        <5>3. UNCHANGED <<trialAt, unlimitedEnds, firstTrial, extensions>>
          BY <3>2 DEF FullWrite
        <5> QED
          BY <2>2, <5>2, <5>3
    <3>3. CASE ExtendWrite(t)
      <4>1. /\ unlimitedEnds' = [unlimitedEnds EXCEPT ![v] = job[t].val]
            /\ extensions' = [extensions EXCEPT ![v] = extensions[v] + 1]
        BY <3>3 DEF ExtendWrite
      <4>2. (extensions[v] + 1) \in Nat
        BY <1>0, <2>1 DEF FlatTypeOK
      <4> QED
        <5>1. unlimitedEnds \in [Users -> Nat] /\ extensions \in [Users -> Nat]
          BY <2>2
        <5>2. unlimitedEnds' \in [Users -> Nat] /\ extensions' \in [Users -> Nat]
          BY <2>1, <4>1, <4>2, <5>1, Updated
        <5>3. UNCHANGED <<trialAt, fullEnds, firstTrial, firstFull>>
          BY <3>3 DEF ExtendWrite
        <5> QED
          BY <2>2, <5>2, <5>3
    <3> QED
      BY <1>0, <1>4, <3>1, <3>2, <3>3
  <2>4. Return(t) /\ UNCHANGED <<login, promo, today, calls>>
    BY <1>0, <1>4 DEF TrialWrite, FullWrite, ExtendWrite
  <2> QED
    BY <1>0, <2>3, <2>4, ReturnTyped DEF FlatTypeOK, login, promo
<1>5. ASSUME NEW t \in Tasks, PromoLock(t)
      PROVE  FlatTypeOK' /\ Placed'
  <2>1. /\ job' \in [Tasks -> [kind : Kinds, user : Users \cup {NoUser},
                               day : 0..MaxDay, val : Nat]]
        /\ pc' \in [Tasks -> {"idle", "write", "credit", "promo"}]
        /\ promoLock' \in Tasks \cup {NoTask}
    <3>1. promoCount \in Nat
      BY <1>0, EntitlementsAssumption DEF FlatTypeOK
    <3>2. \A s \in Tasks : job'[s] \in [kind : Kinds, user : Users \cup {NoUser},
                                        day : 0..MaxDay, val : Nat]
      BY <1>0, <1>5, <3>1 DEF PromoLock, FlatTypeOK
    <3>3. job' = [s \in Tasks |-> job'[s]]
      BY <1>0, <1>5 DEF PromoLock, FlatTypeOK
    <3>4. job' \in [Tasks -> [kind : Kinds, user : Users \cup {NoUser},
                              day : 0..MaxDay, val : Nat]]
      BY <3>2, <3>3
    <3> QED
      BY <1>0, <1>5, <3>4 DEF PromoLock, FlatTypeOK
  <2>2. Placed'
    BY <1>0, <1>5 DEF PromoLock, Writing, FlatTypeOK, Placed
  <2> QED
    BY <1>0, <1>5, <2>1, <2>2 DEF PromoLock, FlatTypeOK, windows, login
<1>6. ASSUME NEW t \in Tasks, PromoRefuse(t) \/ Abort(t)
      PROVE  FlatTypeOK' /\ Placed'
  <2>1. promoLock' \in Tasks \cup {NoTask}
    BY <1>0, <1>6 DEF PromoRefuse, Abort, PromoUnlock, FlatTypeOK
  <2>2. Return(t) /\ UNCHANGED <<windows, login, promoUses, promoCount, promoPaid, today, calls>>
    BY <1>0, <1>6 DEF PromoRefuse, Abort
  <2> QED
    BY <1>0, <2>1, <2>2, ReturnTyped DEF FlatTypeOK, windows, login
<1>7. ASSUME NEW t \in Tasks, PromoApply(t)
      PROVE  FlatTypeOK' /\ Placed'
  <2>1. job[t].user \in Users /\ job[t].val \in Nat
    BY <1>0, <1>7 DEF PromoApply, FlatTypeOK, Placed
  <2>2. promoLock' \in Tasks \cup {NoTask} /\ promoUses' \in SUBSET Users
        /\ promoPaid' \in [Users -> Nat]
    <3>1. promoPaid[job[t].user] + 1 \in Nat
      BY <1>0, <2>1 DEF FlatTypeOK
    <3>2. promoPaid' \in [Users -> Nat]
      BY <1>0, <1>7, <2>1, <3>1, Updated DEF PromoApply, FlatTypeOK
    <3> QED
      BY <1>0, <1>7, <2>1, <3>2 DEF PromoApply, PromoUnlock, FlatTypeOK
  <2>3. promoCount' \in 0..MaxUses
    BY <1>0, <1>7, <2>1, EntitlementsAssumption DEF PromoApply
  <2> QED
    BY <1>0, <1>7, <2>2, <2>3, ReturnTyped DEF PromoApply, FlatTypeOK, windows, login
<1>8. ASSUME NEW u \in Users, AdminSet(u) \/ AdminRemove(u)
      PROVE  FlatTypeOK' /\ Placed'
  <2>1. unlimitedEnds' \in [Users -> Nat] /\ calls' \in 0..MaxCalls
    <3>1. today + UnlimitedDays \in Nat /\ 0 \in Nat
      BY <1>0, EntitlementsAssumption DEF FlatTypeOK
    <3>2. unlimitedEnds' \in [Users -> Nat]
      BY <1>0, <1>8, <3>1, Updated DEF AdminSet, AdminRemove, FlatTypeOK
    <3>3. calls' \in 0..MaxCalls
      <4>1. calls \in 0..MaxCalls /\ MaxCalls \in Nat
        BY <1>0, EntitlementsAssumption DEF FlatTypeOK
      <4>2. calls' = calls \/ (calls' = calls + 1 /\ calls < MaxCalls)
        BY <1>8 DEF AdminSet, AdminRemove
      <4> QED
        BY <4>1, <4>2
    <3> QED
      BY <3>2, <3>3
  <2> QED
    BY <1>0, <1>8, <2>1 DEF AdminSet, AdminRemove, FlatTypeOK, Placed, login, promo
<1>9. CASE Midnight
  <2>1. today' \in 1..MaxDay /\ today' = today + 1 /\ today \in Nat
    BY <1>0, <1>9, EntitlementsAssumption DEF Midnight, FlatTypeOK
  <2>2. FlatTypeOK'
    BY <1>0, <1>9, <2>1 DEF Midnight, FlatTypeOK, windows, login, promo
  <2>3. \A t \in Tasks : job[t].day \in 1..today => job[t].day \in 1..today'
    BY <2>1
  <2>4. Placed'
    BY <1>0, <1>9, <2>3 DEF Midnight, Placed
  <2> QED
    BY <2>2, <2>4, Flat DEF Typed
<1> QED
  BY <1>1, <1>2, <1>3, <1>4, <1>5, <1>6, <1>7, <1>8, <1>9, Flat DEF Next, Writes, Typed

-----------------------------------------------------------------------------
(* The streak                                                              *)

\* A step that marks no bonus leaves every row's streak as it is, and that of
\* every call that neither begins nor ends.
LEMMA StreakKept ==
    ASSUME IInv, UNCHANGED <<lastBonus, streak, claimed>>
    PROVE  /\ \A u \in Users : RowStands(u)'
           /\ \A s \in Tasks : pc'[s] = pc[s] /\ job'[s] = job[s] => CallStands(s)'
           /\ \A s \in Tasks : pc'[s] \in {"idle", "promo"} => CallStands(s)'
<1>1. \A u \in Users : RowStands(u)'
  BY DEF IInv, Streaks, RowStands, Stands
<1>2. \A s \in Tasks : pc'[s] = pc[s] /\ job'[s] = job[s] => CallStands(s)'
  BY DEF IInv, Streaks, CallStands, Stands, Writing
<1> QED
  BY <1>1, <1>2 DEF CallStands, Writing

LEMMA StreakStep ==
    ASSUME IInv, Next
    PROVE  Streaks'
<1>1. ASSUME NEW t \in Tasks, NEW u \in Users, Reads(t, u)
      PROVE  Streaks'
  <2>1. UNCHANGED <<lastBonus, streak, claimed>>
    BY <1>1 DEF Reads, BonusRead, TrialRead, FullRead, ExtendRead, PromoBegin, login
  <2>2. CASE BonusRead(t, u)
    <3>1. /\ pc'[t] = "write" /\ job'[t].user = u /\ job'[t].day = today
          /\ job'[t].val = NextStreak(u)
      BY <2>2, Beginning DEF BonusRead, IInv, Typed
    <3>2. /\ today \in Nat /\ today >= 1 /\ streak[u] \in Nat /\ lastBonus[u] \in Nat
      BY DEF IInv, Typed, TypeOK
    <3>3. RowStands(u)
      BY DEF IInv, Streaks
    <3>4. /\ 1 <= NextStreak(u) /\ NextStreak(u) <= today
          /\ (today - NextStreak(u) + 1)..(today - 1) \subseteq claimed[u]
      <4>1. CASE lastBonus[u] # 0 /\ lastBonus[u] = today - 1
        BY <3>2, <3>3, <4>1 DEF NextStreak, RowStands, Stands
      <4>2. CASE ~(lastBonus[u] # 0 /\ lastBonus[u] = today - 1)
        <5>1. NextStreak(u) = 1
          BY <4>2 DEF NextStreak
        <5> QED
          BY <3>2, <5>1
      <4> QED
        BY <4>1, <4>2
    <3>5. CallStands(t)'
      BY <2>1, <3>1, <3>4 DEF CallStands
    <3> QED
      BY <1>1, <2>1, <3>5, StreakKept, OthersKeep DEF Streaks, Acts, IInv, Typed
  <2>3. CASE TrialRead(t, u) \/ FullRead(t, u) \/ ExtendRead(t, u) \/ PromoBegin(t, u)
    <3>1. pc'[t] = "write" /\ job'[t].kind # "bonus"
      BY <2>3, Beginning DEF TrialRead, FullRead, ExtendRead, PromoBegin, IInv, Typed
    <3>2. CallStands(t)'
      BY <3>1 DEF CallStands, Writing
    <3> QED
      BY <1>1, <2>1, <3>2, StreakKept, OthersKeep DEF Streaks, Acts, IInv, Typed
  <2> QED
    BY <1>1, <2>2, <2>3 DEF Reads
<1>2. ASSUME NEW t \in Tasks, BonusMark(t)
      PROVE  Streaks'
  <2> DEFINE v == job[t].user
             d == job[t].day
             n == job[t].val
  <2>1. /\ v \in Users /\ d \in Nat /\ d >= 1 /\ n \in Nat
        /\ 1 <= n /\ n <= d /\ (d - n + 1)..(d - 1) \subseteq claimed[v]
    BY <1>2 DEF BonusMark, Writing, IInv, Typed, TypeOK, Placed, Streaks, CallStands
  <2>2. /\ \A u \in Users : claimed[u] \subseteq claimed'[u]
        /\ claimed'[v] = claimed[v] \cup {d}
        /\ lastBonus'[v] = d /\ streak'[v] = n
        /\ \A u \in Users : u # v => lastBonus'[u] = lastBonus[u] /\ streak'[u] = streak[u]
        /\ pc'[t] = "credit" /\ job' = job
    BY <1>2, <2>1 DEF BonusMark, IInv, Typed, TypeOK
  <2>3. d - n + 1 >= 1 /\ (d - n + 1)..d \subseteq claimed'[v]
    BY <2>1, <2>2
  <2>4. \A u \in Users : RowStands(u)'
    BY <2>2, <2>3 DEF IInv, Streaks, RowStands, Stands
  <2>5. CallStands(t)'
    BY <2>2, <2>3 DEF CallStands, Stands, Writing
  <2>6. ASSUME NEW s \in Tasks, s # t
        PROVE  CallStands(s)'
    <3>1. pc'[s] = pc[s] /\ job'[s] = job[s]
      BY <1>2, <2>6, OthersKeep DEF Acts, Writes, IInv, Typed
    <3>2. pc[s] # "idle" => claimed[job[s].user] \subseteq claimed'[job[s].user]
      BY <2>2 DEF IInv, Typed, Placed
    <3>3. CallStands(s)
      BY DEF IInv, Streaks
    <3> QED
      BY <3>1, <3>2, <3>3 DEF CallStands, Stands, Writing
  <2> QED
    BY <2>4, <2>5, <2>6 DEF Streaks
<1>3. ASSUME NEW t \in Tasks, Writes(t) \/ Abort(t), ~BonusMark(t)
      PROVE  Streaks'
  <2>1. UNCHANGED <<lastBonus, streak, claimed>>
    BY <1>3 DEF Writes, BonusCredit, TrialWrite, FullWrite, ExtendWrite, PromoLock,
                PromoRefuse, PromoApply, Abort, login
  <2>2. pc'[t] \in {"idle", "promo"}
    BY <1>3, Returning DEF Writes, BonusCredit, TrialWrite, FullWrite, ExtendWrite,
                PromoLock, PromoRefuse, PromoApply, Abort, IInv, Typed, TypeOK
  <2> QED
    BY <1>3, <2>1, <2>2, StreakKept, OthersKeep DEF Streaks, Acts, IInv, Typed
<1>4. CASE Outside
  <2>1. UNCHANGED <<lastBonus, streak, claimed, pc, job>>
    BY <1>4 DEF Outside, AdminSet, AdminRemove, Midnight, login
  <2> QED
    BY <2>1, StreakKept DEF Streaks
<1> QED
  BY <1>1, <1>2, <1>3, <1>4 DEF Next, Outside

-----------------------------------------------------------------------------
(* The trial and the 48 hours                                              *)

\* A step that opens no window.
LEMMA WindowsKept ==
    ASSUME IInv, Typed', UNCHANGED <<trialAt, fullEnds, firstTrial, firstFull>>, today' >= today
    PROVE  /\ \A u \in Users : RowOnce(u)'
           /\ \A s \in Tasks : pc'[s] = pc[s] /\ job'[s] = job[s] => CallOnce(s)'
           /\ \A s \in Tasks : pc'[s] # "write" => CallOnce(s)'
<1>1. \A u \in Users : RowOnce(u)'
  BY DEF IInv, Windows, RowOnce
<1>2. ASSUME NEW s \in Tasks, pc'[s] = pc[s], job'[s] = job[s]
      PROVE  CallOnce(s)'
  <2>1. CallOnce(s)
    BY DEF IInv, Windows
  <2>2. today \in Nat /\ today' \in Nat /\ FullDays \in Nat /\ job[s].val \in Nat
    <3>1. FlatTypeOK /\ FlatTypeOK'
      BY Flat DEF IInv, Typed
    <3>2. today \in Nat /\ today' \in Nat /\ FullDays \in Nat
      BY <3>1, EntitlementsAssumption DEF FlatTypeOK
    <3>3. job[s].val \in Nat
      BY <3>1 DEF FlatTypeOK
    <3> QED
      BY <3>2, <3>3
  <2> QED
    BY <1>2, <2>1, <2>2 DEF CallOnce, Writing
<1> QED
  BY <1>1, <1>2 DEF CallOnce, Writing

\* A first activation is of today, and no activation in flight is of a later day.
LEMMA WindowWritten ==
    ASSUME IInv, NEW t \in Tasks, TrialWrite(t) \/ FullWrite(t)
    PROVE  Windows'
<1> DEFINE v == job[t].user
<1>1. /\ v \in Users /\ job[t].val \in Nat /\ today \in Nat /\ today >= 1
      /\ FullDays \in Nat
      /\ trialAt \in [Users -> Nat] /\ firstTrial \in [Users -> Nat]
      /\ fullEnds \in [Users -> Nat] /\ firstFull \in [Users -> Nat]
      /\ \A s \in Tasks : job[s].val \in Nat
  <2>1. FlatTypeOK /\ Placed /\ pc[t] = "write"
    BY Flat DEF TrialWrite, FullWrite, Writing, IInv, Typed
  <2>2. /\ v \in Users /\ today \in Nat /\ today >= 1
        /\ \A s \in Tasks : job[s].val \in Nat
    BY <2>1, EntitlementsAssumption DEF FlatTypeOK, Placed
  <2> QED
    BY <2>1, <2>2, EntitlementsAssumption DEF FlatTypeOK
<1>2. pc'[t] = "idle" /\ today' = today
  BY Returning DEF TrialWrite, FullWrite, IInv, Typed
<1>3. CallOnce(t) /\ \A u \in Users : RowOnce(u)
  BY DEF IInv, Windows
<1>4. ASSUME NEW s \in Tasks, s # t
      PROVE  pc'[s] = pc[s] /\ job'[s] = job[s] /\ CallOnce(s)
  BY <1>4, OthersKeep DEF IInv, Typed, Windows, Acts, Writes
<1>5. CASE TrialWrite(t)
  <2>1. /\ trialAt' = [trialAt EXCEPT ![v] = job[t].val]
        /\ firstTrial' = [firstTrial EXCEPT ![v] = IF firstTrial[v] = 0 THEN today ELSE firstTrial[v]]
        /\ UNCHANGED <<fullEnds, firstFull>>
    BY <1>5 DEF TrialWrite
  <2>2. /\ job[t].val > 0
        /\ job[t].val <= IF firstTrial[v] = 0 THEN today ELSE firstTrial[v]
    BY <1>3, <1>5 DEF CallOnce, TrialWrite
  <2>3. ASSUME NEW u \in Users
        PROVE  RowOnce(u)'
    <3>1. CASE u = v
      BY <1>1, <1>3, <2>1, <2>2, <3>1 DEF RowOnce
    <3>2. CASE u # v
      BY <1>1, <1>3, <2>1, <3>2 DEF RowOnce
    <3> QED
      BY <3>1, <3>2
  <2>4. \A u \in Users : firstTrial'[u] = firstTrial[u]
                         \/ (firstTrial[u] = 0 /\ firstTrial'[u] = today)
    BY <1>1, <2>1
  <2>5. ASSUME NEW s \in Tasks
        PROVE  CallOnce(s)'
    <3>1. CASE s = t
      BY <1>2, <3>1 DEF CallOnce, Writing
    <3>2. CASE s # t /\ pc[s] = "write"
      <4>1. job[s].user \in Users
        BY <3>2 DEF IInv, Typed, Placed
      <4> QED
        BY <1>1, <1>2, <1>4, <2>1, <2>4, <3>2, <4>1 DEF CallOnce, Writing
    <3>3. CASE s # t /\ pc[s] # "write"
      BY <1>4, <3>3 DEF CallOnce, Writing
    <3> QED
      BY <3>1, <3>2, <3>3
  <2> QED
    BY <2>3, <2>5 DEF Windows
<1>6. CASE FullWrite(t)
  <2>1. /\ fullEnds' = [fullEnds EXCEPT ![v] = job[t].val]
        /\ firstFull' = [firstFull EXCEPT ![v] = IF firstFull[v] = 0 THEN today ELSE firstFull[v]]
        /\ UNCHANGED <<trialAt, firstTrial>>
    BY <1>6 DEF FullWrite
  <2>2. /\ job[t].val > 0
        /\ job[t].val <= (IF firstFull[v] = 0 THEN today ELSE firstFull[v]) + FullDays
    BY <1>3, <1>6 DEF CallOnce, FullWrite
  <2>3. ASSUME NEW u \in Users
        PROVE  RowOnce(u)'
    <3>1. CASE u = v
      BY <1>1, <1>3, <2>1, <2>2, <3>1 DEF RowOnce
    <3>2. CASE u # v
      BY <1>1, <1>3, <2>1, <3>2 DEF RowOnce
    <3> QED
      BY <3>1, <3>2
  <2>4. \A u \in Users : firstFull'[u] = firstFull[u]
                         \/ (firstFull[u] = 0 /\ firstFull'[u] = today)
    BY <1>1, <2>1
  <2>5. ASSUME NEW s \in Tasks
        PROVE  CallOnce(s)'
    <3>1. CASE s = t
      BY <1>2, <3>1 DEF CallOnce, Writing
    <3>2. CASE s # t /\ pc[s] = "write"
      <4>1. job[s].user \in Users
        BY <3>2 DEF IInv, Typed, Placed
      <4> QED
        BY <1>1, <1>2, <1>4, <2>1, <2>4, <3>2, <4>1 DEF CallOnce, Writing
    <3>3. CASE s # t /\ pc[s] # "write"
      BY <1>4, <3>3 DEF CallOnce, Writing
    <3> QED
      BY <3>1, <3>2, <3>3
  <2> QED
    BY <2>3, <2>5 DEF Windows
<1> QED
  BY <1>5, <1>6

LEMMA WindowStep ==
    ASSUME IInv, Typed', Next
    PROVE  Windows'
<1>0. today \in Nat /\ FullDays \in Nat /\ today >= 1
  BY Flat, EntitlementsAssumption DEF IInv, Typed, FlatTypeOK
<1>1. ASSUME NEW t \in Tasks, NEW u \in Users, Reads(t, u)
      PROVE  Windows'
  <2>1. UNCHANGED <<trialAt, fullEnds, firstTrial, firstFull, today>>
    BY <1>1 DEF Reads, BonusRead, TrialRead, FullRead, ExtendRead, PromoBegin, windows
  <2>2. RowOnce(u)
    BY DEF IInv, Windows
  <2>3. CallOnce(t)'
    <3>1. CASE TrialRead(t, u)
      <4>1. /\ trialAt[u] = 0 /\ job'[t].user = u /\ job'[t].val = today
            /\ job'[t].kind = "trial"
        BY <3>1, Beginning DEF TrialRead, IInv, Typed
      <4> QED
        BY <1>0, <2>1, <2>2, <4>1 DEF RowOnce, CallOnce, Writing
    <3>2. CASE FullRead(t, u)
      <4>1. /\ fullEnds[u] = 0 /\ job'[t].user = u /\ job'[t].val = today + FullDays
            /\ job'[t].kind = "full"
        BY <3>2, Beginning DEF FullRead, IInv, Typed
      <4> QED
        BY <1>0, <2>1, <2>2, <4>1 DEF RowOnce, CallOnce, Writing
    <3>3. CASE BonusRead(t, u) \/ ExtendRead(t, u) \/ PromoBegin(t, u)
      <4>1. job'[t].kind \notin {"trial", "full"}
        BY <3>3, Beginning DEF BonusRead, ExtendRead, PromoBegin, IInv, Typed
      <4> QED
        BY <4>1 DEF CallOnce, Writing
    <3> QED
      BY <1>1, <3>1, <3>2, <3>3 DEF Reads
  <2> QED
    BY <1>0, <1>1, <2>1, <2>3, WindowsKept, OthersKeep DEF Windows, Acts, IInv, Typed
<1>2. ASSUME NEW t \in Tasks, Writes(t) \/ Abort(t), ~TrialWrite(t), ~FullWrite(t)
      PROVE  Windows'
  <2>1. UNCHANGED <<trialAt, fullEnds, firstTrial, firstFull, today>>
    BY <1>2 DEF Writes, BonusMark, BonusCredit, ExtendWrite, PromoLock, PromoRefuse,
                PromoApply, Abort, windows
  <2>2. pc'[t] # "write"
    BY <1>2, Returning DEF Writes, BonusMark, BonusCredit, ExtendWrite, PromoLock,
                PromoRefuse, PromoApply, Abort, IInv, Typed, TypeOK
  <2> QED
    BY <1>0, <1>2, <2>1, <2>2, WindowsKept, OthersKeep DEF Windows, Acts, IInv, Typed
<1>3. CASE Outside
  <2>1. UNCHANGED <<trialAt, fullEnds, firstTrial, firstFull, pc, job>> /\ today' >= today
    BY <1>0, <1>3 DEF Outside, AdminSet, AdminRemove, Midnight, windows
  <2> QED
    BY <2>1, WindowsKept DEF Windows
<1> QED
  BY <1>1, <1>2, <1>3, WindowWritten DEF Next, Outside, Writes

-----------------------------------------------------------------------------
(* Unlimited days                                                          *)

\* The days of n subscriptions, and of one more.
LEMMA OneMore ==
    ASSUME NEW n \in Nat
    PROVE  /\ UnlimitedDays * n \in Nat /\ UnlimitedDays * (n + 1) \in Nat
           /\ UnlimitedDays * (n + 1) = UnlimitedDays * n + UnlimitedDays
           /\ UnlimitedDays * (n + 2) = UnlimitedDays * (n + 1) + UnlimitedDays
BY EntitlementsAssumption

LEMMA SoldStep ==
    ASSUME IInv, Typed', Next
    PROVE  Sold'
<1>0. /\ today \in Nat /\ UnlimitedDays \in Nat
      /\ unlimitedEnds \in [Users -> Nat] /\ extensions \in [Users -> Nat]
      /\ \A s \in Tasks : job[s].val \in Nat
      /\ today' \in Nat
  BY Flat, EntitlementsAssumption DEF IInv, Typed, FlatTypeOK
<1>1. /\ \A u \in Users : unlimitedEnds[u] <= today + UnlimitedDays * (extensions[u] + 1)
      /\ \A s \in Tasks : CallSold(s)
  BY DEF IInv, Sold, NotOversold
<1>2. ASSUME extensions' = extensions, today' >= today
      PROVE  /\ \A s \in Tasks : pc'[s] = pc[s] /\ job'[s] = job[s] => CallSold(s)'
             /\ unlimitedEnds' = unlimitedEnds => NotOversold'
  <2>1. ASSUME NEW s \in Tasks, pc'[s] = pc[s], job'[s] = job[s], Writing(s, "extend")
        PROVE  CallSold(s)'
    <3>1. extensions[job[s].user] \in Nat
      BY <1>0, <2>1 DEF Writing, IInv, Typed, Placed
    <3>2. UnlimitedDays * (extensions[job[s].user] + 2) \in Nat
      BY <1>0, <3>1, OneMore
    <3> QED
      BY <1>0, <1>1, <1>2, <2>1, <3>2 DEF CallSold, Writing
  <2>2. ASSUME NEW u \in Users, unlimitedEnds' = unlimitedEnds
        PROVE  unlimitedEnds'[u] <= today' + UnlimitedDays * (extensions'[u] + 1)
    <3>1. UnlimitedDays * (extensions[u] + 1) \in Nat /\ unlimitedEnds[u] \in Nat
      BY <1>0, OneMore
    <3> QED
      BY <1>0, <1>1, <1>2, <2>2, <3>1
  <2> QED
    BY <2>1, <2>2 DEF CallSold, Writing, NotOversold
<1>3. ASSUME NEW t \in Tasks, NEW u \in Users, Reads(t, u)
      PROVE  Sold'
  <2>1. UNCHANGED <<unlimitedEnds, extensions, today>>
    BY <1>3 DEF Reads, BonusRead, TrialRead, FullRead, ExtendRead, PromoBegin, windows
  <2>2. CallSold(t)'
    <3>1. CASE ExtendRead(t, u)
      <4>1. /\ job'[t].user = u /\ job'[t].val = ExtensionBase(u) + UnlimitedDays
        BY <3>1, Beginning DEF ExtendRead, IInv, Typed
      <4>2. /\ extensions[u] \in Nat /\ unlimitedEnds[u] \in Nat
            /\ unlimitedEnds[u] <= today + UnlimitedDays * (extensions[u] + 1)
        BY <1>0, <1>1
      <4>3. job'[t].val <= today + UnlimitedDays * (extensions[u] + 2)
        BY <1>0, <4>1, <4>2, OneMore DEF ExtensionBase
      <4> QED
        BY <2>1, <4>1, <4>3 DEF CallSold
    <3>2. CASE BonusRead(t, u) \/ TrialRead(t, u) \/ FullRead(t, u) \/ PromoBegin(t, u)
      <4>1. job'[t].kind # "extend"
        BY <3>2, Beginning DEF BonusRead, TrialRead, FullRead, PromoBegin, IInv, Typed
      <4> QED
        BY <4>1 DEF CallSold, Writing
    <3> QED
      BY <1>3, <3>1, <3>2 DEF Reads
  <2> QED
    BY <1>0, <1>2, <1>3, <2>1, <2>2, OthersKeep DEF Sold, Acts, IInv, Typed
<1>4. ASSUME NEW t \in Tasks, ExtendWrite(t)
      PROVE  Sold'
  <2> DEFINE v == job[t].user
  <2>1. /\ v \in Users /\ today' = today /\ pc'[t] = "idle"
        /\ unlimitedEnds' = [unlimitedEnds EXCEPT ![v] = job[t].val]
        /\ extensions' = [extensions EXCEPT ![v] = extensions[v] + 1]
        /\ job[t].val <= today + UnlimitedDays * (extensions[v] + 2)
    BY <1>1, <1>4, Returning
       DEF ExtendWrite, Writing, IInv, Typed, Placed, CallSold
  <2>2. ASSUME NEW u \in Users
        PROVE  unlimitedEnds'[u] <= today' + UnlimitedDays * (extensions'[u] + 1)
    <3>1. CASE u = v
      <4>1. unlimitedEnds'[u] = job[t].val /\ extensions'[u] + 1 = extensions[v] + 2
        BY <1>0, <2>1, <3>1
      <4> QED
        BY <2>1, <4>1
    <3>2. CASE u # v
      BY <1>0, <1>1, <2>1, <3>2
    <3> QED
      BY <3>1, <3>2
  <2>3. ASSUME NEW s \in Tasks, s # t, pc[s] = "write"
        PROVE  CallSold(s)'
    <3>1. pc'[s] = pc[s] /\ job'[s] = job[s] /\ job[s].user \in Users /\ CallSold(s)
      BY <1>1, <1>4, <2>3, OthersKeep DEF Acts, Writes, IInv, Typed, Placed
    <3>2. CASE job[s].user = v
      <4>1. extensions'[v] = extensions[v] + 1 /\ extensions[v] \in Nat
        BY <1>0, <2>1
      <4>2. UnlimitedDays * (extensions'[v] + 2) = UnlimitedDays * (extensions[v] + 2) + UnlimitedDays
            /\ UnlimitedDays * (extensions[v] + 2) \in Nat
        BY <1>0, <4>1
      <4> QED
        BY <1>0, <2>1, <3>1, <3>2, <4>2 DEF CallSold, Writing
    <3>3. CASE job[s].user # v
      BY <1>0, <2>1, <3>1, <3>3 DEF CallSold, Writing
    <3> QED
      BY <3>2, <3>3
  <2>4. ASSUME NEW s \in Tasks, s # t, pc[s] # "write"
        PROVE  CallSold(s)'
    BY <1>4, <2>4, OthersKeep DEF Acts, Writes, IInv, Typed, CallSold, Writing
  <2> QED
    BY <2>1, <2>2, <2>3, <2>4 DEF Sold, NotOversold, CallSold, Writing
<1>5. ASSUME NEW t \in Tasks, Writes(t) \/ Abort(t), ~ExtendWrite(t)
      PROVE  Sold'
  <2>1. UNCHANGED <<unlimitedEnds, extensions, today>>
    BY <1>5 DEF Writes, BonusMark, BonusCredit, TrialWrite, FullWrite, PromoLock,
                PromoRefuse, PromoApply, Abort, windows
  <2>2. pc'[t] # "write"
    BY <1>5, Returning DEF Writes, BonusMark, BonusCredit, TrialWrite, FullWrite,
                PromoLock, PromoRefuse, PromoApply, Abort, IInv, Typed, TypeOK
  <2>3. CallSold(t)'
    BY <2>2 DEF CallSold, Writing
  <2> QED
    BY <1>0, <1>2, <1>5, <2>1, <2>3, OthersKeep DEF Sold, Acts, IInv, Typed
<1>6. CASE Outside
  <2>1. UNCHANGED <<extensions, pc, job>> /\ today' >= today
    BY <1>0, <1>6 DEF Outside, AdminSet, AdminRemove, Midnight, windows
  <2>2. ASSUME NEW u \in Users
        PROVE  unlimitedEnds'[u] <= today' + UnlimitedDays * (extensions'[u] + 1)
    <3>1. /\ extensions[u] \in Nat /\ unlimitedEnds[u] \in Nat
          /\ UnlimitedDays * (extensions[u] + 1) = UnlimitedDays * extensions[u] + UnlimitedDays
          /\ UnlimitedDays * extensions[u] \in Nat
      BY <1>0, OneMore
    <3>2. unlimitedEnds'[u] \in {unlimitedEnds[u], 0, today + UnlimitedDays}
      BY <1>0, <1>6 DEF Outside, AdminSet, AdminRemove, Midnight, windows
    <3> QED
      BY <1>0, <1>1, <2>1, <3>1, <3>2
  <2> QED
    BY <1>2, <2>1, <2>2 DEF Sold, NotOversold
<1> QED
  BY <1>3, <1>4, <1>5, <1>6 DEF Next, Outside, Writes

-----------------------------------------------------------------------------
(* Promo codes                                                             *)

LEMMA PromoStep ==
    ASSUME IInv, Next
    PROVE  Promos'
<1>0. /\ IsFiniteSet(promoUses) /\ promoUses \in SUBSET Users
      /\ promoCount \in Nat /\ MaxUses \in Nat /\ NoTask \notin Tasks
      /\ promoPaid \in [Users -> Nat]
      /\ PromoOnce /\ \A s \in Tasks : CallLocks(s)
  <2>1. promoUses \in SUBSET Users /\ promoCount \in Nat /\ promoPaid \in [Users -> Nat]
    <3>1. FlatTypeOK /\ MaxUses \in Nat
      BY Flat, EntitlementsAssumption DEF IInv, Typed
    <3>2. promoCount \in Nat
      BY <3>1 DEF FlatTypeOK
    <3> QED
      BY <3>1, <3>2 DEF FlatTypeOK
  <2>2. IsFiniteSet(promoUses)
    BY <2>1, EntitlementsAssumption, FS_Subset
  <2> QED
    BY <2>1, <2>2, EntitlementsAssumption DEF IInv, Promos
<1>1. ASSUME NEW t \in Tasks, NEW u \in Users, Reads(t, u)
      PROVE  Promos'
  <2>1. UNCHANGED promo /\ pc'[t] = "write"
    BY <1>1, Beginning
       DEF Reads, BonusRead, TrialRead, FullRead, ExtendRead, PromoBegin, IInv, Typed
  <2>2. \A s \in Tasks : CallLocks(s)'
    BY <1>0, <1>1, <2>1, OthersKeep DEF CallLocks, promo, Acts, IInv, Typed
  <2> QED
    BY <1>0, <2>1, <2>2 DEF Promos, PromoOnce, promo
<1>2. ASSUME NEW t \in Tasks,
             BonusMark(t) \/ BonusCredit(t) \/ TrialWrite(t) \/ FullWrite(t) \/ ExtendWrite(t)
      PROVE  Promos'
  <2>1. UNCHANGED promo /\ pc'[t] # "promo"
    BY <1>2, Returning DEF BonusMark, BonusCredit, TrialWrite, FullWrite, ExtendWrite,
                           IInv, Typed, TypeOK
  <2>2. \A s \in Tasks : CallLocks(s)'
    BY <1>0, <1>2, <2>1, OthersKeep DEF CallLocks, promo, Acts, Writes, IInv, Typed
  <2> QED
    BY <1>0, <2>1, <2>2 DEF Promos, PromoOnce, promo
<1>3. ASSUME NEW t \in Tasks, PromoLock(t)
      PROVE  Promos'
  <2>1. /\ promoLock = NoTask /\ promoLock' = t /\ job'[t].val = promoCount
        /\ UNCHANGED <<promoUses, promoCount, promoPaid>>
    BY <1>3, Flat DEF PromoLock, IInv, Typed, FlatTypeOK
  <2>2. \A s \in Tasks : s # t => pc'[s] # "promo"
    BY <1>0, <1>3, <2>1, OthersKeep DEF CallLocks, Acts, Writes, IInv, Typed
  <2> QED
    BY <1>0, <2>1, <2>2 DEF Promos, PromoOnce, CallLocks
<1>4. ASSUME NEW t \in Tasks, PromoRefuse(t) \/ Abort(t)
      PROVE  Promos'
  <2>1. /\ promoLock' = IF promoLock = t THEN NoTask ELSE promoLock
        /\ UNCHANGED <<promoUses, promoCount, promoPaid>> /\ pc'[t] = "idle"
    BY <1>4, Returning DEF PromoRefuse, Abort, PromoUnlock, IInv, Typed
  <2>2. \A s \in Tasks : CallLocks(s)'
    BY <1>0, <1>4, <2>1, OthersKeep DEF CallLocks, Acts, Writes, IInv, Typed
  <2> QED
    BY <1>0, <2>1, <2>2 DEF Promos, PromoOnce
<1>5. ASSUME NEW t \in Tasks, PromoApply(t)
      PROVE  Promos'
  <2> DEFINE v == job[t].user
  <2>1. /\ v \in Users /\ v \notin promoUses /\ promoLock = t
        /\ job[t].val = promoCount /\ promoCount < MaxUses
        /\ promoCount' = promoCount + 1
        /\ promoUses' = promoUses \cup {v}
        /\ promoPaid' = [promoPaid EXCEPT ![v] = promoPaid[v] + 1]
        /\ pc'[t] = "idle"
    BY <1>0, <1>5, Returning DEF PromoApply, IInv, Typed, Placed, CallLocks
  <2>2. Cardinality(promoUses') = Cardinality(promoUses) + 1
    BY <1>0, <2>1, FS_AddElement
  <2>3. \A u \in Users : promoPaid'[u] = IF u \in promoUses' THEN 1 ELSE 0
    BY <1>0, <2>1 DEF PromoOnce
  <2>4. PromoOnce'
    BY <1>0, <2>1, <2>2, <2>3 DEF PromoOnce
  <2>5. \A s \in Tasks : pc'[s] # "promo"
    BY <1>0, <1>5, <2>1, OthersKeep DEF CallLocks, Acts, Writes, IInv, Typed
  <2> QED
    BY <2>4, <2>5 DEF Promos, CallLocks
<1>6. CASE Outside
  <2>1. UNCHANGED <<promo, pc, job>>
    BY <1>6 DEF Outside, AdminSet, AdminRemove, Midnight
  <2> QED
    BY <1>0, <2>1 DEF Promos, PromoOnce, CallLocks, promo
<1> QED
  BY <1>1, <1>2, <1>3, <1>4, <1>5, <1>6 DEF Next, Outside, Writes

-----------------------------------------------------------------------------

LEMMA StepInv == IInv /\ [Next]_vars => IInv'
<1> SUFFICES ASSUME IInv, [Next]_vars
             PROVE  IInv'
  OBVIOUS
<1>1. CASE Next
  <2>1. Typed'
    BY <1>1, TypeStep
  <2> QED
    BY <1>1, <2>1, StreakStep, WindowStep, SoldStep, PromoStep DEF IInv
<1>2. CASE UNCHANGED vars
  <2>1. Typed'
    BY <1>2 DEF IInv, Typed, TypeOK, Placed, vars, windows, login, promo
  <2>2. Streaks' /\ Windows'
    BY <1>2 DEF IInv, Streaks, RowStands, CallStands, Stands, Windows, RowOnce, CallOnce,
                Writing, vars, windows, login
  <2>3. Sold' /\ Promos'
    BY <1>2 DEF IInv, Sold, NotOversold, CallSold, Promos, PromoOnce, CallLocks,
                Writing, vars, windows, promo
  <2> QED
    BY <2>1, <2>2, <2>3 DEF IInv
<1> QED
  BY <1>1, <1>2

LEMMA Invariance == Spec => []IInv
<1> QED
  BY InitInv, StepInv, PTL DEF Spec

\* Every variable keeps its type, and a code is never used beyond max_uses.
THEOREM TypeCorrect == Spec => []TypeOK
<1>1. IInv => TypeOK
  BY DEF IInv, Typed
<1> QED
  BY <1>1, Invariance, PTL

\* A streak of n days stands for n days in a row, whatever races and midnights
\* come between the two statements of try_grant_daily_login_bonus.
THEOREM StreaksEarned == Spec => []StreakEarned
<1>1. IInv => StreakEarned
  BY DEF IInv, Streaks, RowStands, CallStands, Stands, StreakEarned
<1> QED
  BY <1>1, Invariance, PTL

\* Trial and 48 hours run from the first activation at the latest, however many
\* calls of start_trial and activate_48h_full_access race.
THEOREM WindowsOpenOnce == Spec => []WindowOnce
<1>1. IInv => WindowOnce
  BY DEF IInv, Windows, RowOnce, WindowOnce
<1> QED
  BY <1>1, Invariance, PTL

\* Nobody has more unlimited days ahead than set_unlimited_until was asked for
\* and an administrator gave.
THEOREM NeverOversold == Spec => []NotOversold
<1>1. IInv => NotOversold
  BY DEF IInv, Sold
<1> QED
  BY <1>1, Invariance, PTL

\* A promo code is used at most max_uses times, once per user, and every use is
\* paid exactly once (apply_promocode).
THEOREM PromosUsedOnce == Spec => []PromoOnce
<1>1. IInv => PromoOnce
  BY DEF IInv, Promos
<1> QED
  BY <1>1, Invariance, PTL

=============================================================================
