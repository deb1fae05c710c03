--------------------------- MODULE GenerationProof ---------------------------
(***************************************************************************)
(* Proofs about Generation, for any number of updates, expiries of the     *)
(* lock, cooldowns that run out and failures of Redis.                     *)
(*                                                                         *)
(* The lock and the types do not depend on what the handlers do.  What is  *)
(* charged and given back does: HandlerRules says what is used of the      *)
(* programs, and each rule looks at one step of a program only.            *)
(*                                                                         *)
(* gen_lock deletes the key whoever holds it, so that an update that has   *)
(* outlived its key lets a third one in beside the second.  Exclusion is   *)
(* not inductive: what counts is how many are inside without the key.      *)
(***************************************************************************)
EXTENDS HandlerRules, TLAPS, FiniteSetTheorems

LockTypeOK ==
    /\ lock \in Updates \cup {NoUpdate}
    /\ inside \in SUBSET Updates
    /\ overruns \in Nat

\* Each update that is inside and does not hold the key has outlived a key.
Overrun == Cardinality(inside \ {lock}) <= overruns

LockInv == LockTypeOK /\ Overrun

-----------------------------------------------------------------------------

LEMMA Finite ==
    ASSUME NEW S \in SUBSET Updates
    PROVE  /\ IsFiniteSet(S)
           /\ Cardinality(S) \in Nat
           /\ \A T \in SUBSET S : Cardinality(T) \in Nat /\ Cardinality(T) <= Cardinality(S)
<1>1. IsFiniteSet(S)
  BY GenerationAssumption, FS_Subset
<1>2. ASSUME NEW T \in SUBSET S
      PROVE  Cardinality(T) \in Nat /\ Cardinality(T) <= Cardinality(S)
  BY <1>1, FS_Subset, FS_CardinalityType
<1> QED
  BY <1>1, <1>2, FS_CardinalityType

\* Fewer updates inside without the key keep the invariant.
LEMMA Fewer ==
    ASSUME LockInv, LockTypeOK', overruns' = overruns,
           (inside \ {lock})' \subseteq inside \ {lock}
    PROVE  LockInv'
<1>1. inside \ {lock} \in SUBSET Updates
  BY DEF LockInv, LockTypeOK
<1>2. Cardinality((inside \ {lock})') <= Cardinality(inside \ {lock})
  BY <1>1, Finite
<1>3. /\ Cardinality(inside \ {lock}) \in Nat
      /\ Cardinality((inside \ {lock})') \in Nat
  BY <1>1, Finite
<1> QED
  BY <1>2, <1>3 DEF LockInv, LockTypeOK, Overrun

LEMMA LockBegins == GenInit => LockInv
<1> SUFFICES ASSUME GenInit
             PROVE  LockInv
  OBVIOUS
<1>1. inside \ {lock} = {} /\ overruns = 0
  BY DEF GenInit
<1> QED
  BY <1>1, FS_EmptySet DEF GenInit, LockInv, LockTypeOK, Overrun

-----------------------------------------------------------------------------

\* A release takes the update out; when it deletes the key of another, that one
\* is inside without a key instead.
LEMMA Releases ==
    ASSUME LockInv, NEW u \in Updates, Released(u), overruns' = overruns
    PROVE  LockInv'
<1>1. inside' = inside \ {u} /\ lock' \in {NoUpdate, lock}
  BY DEF Released
<1>2. LockTypeOK'
  BY <1>1 DEF LockInv, LockTypeOK
<1>3. CASE lock' = lock
  BY <1>1, <1>2, <1>3, Fewer
<1>4. CASE lock' # lock
  <2>1. u \in inside /\ lock' = NoUpdate /\ lock \in Updates
    BY <1>1, <1>4 DEF Released, LockInv, LockTypeOK
  <2>2. (inside \ {lock})' = inside \ {u}
    BY <1>1, <2>1, GenerationAssumption DEF LockInv, LockTypeOK
  <2>3. CASE lock \in inside
    <3>1. inside \in SUBSET Updates /\ IsFiniteSet(inside) /\ overruns \in Nat
      BY Finite DEF LockInv, LockTypeOK
    <3>2. /\ Cardinality(inside \ {u}) = Cardinality(inside) - 1
          /\ Cardinality(inside \ {lock}) = Cardinality(inside) - 1
      BY <2>1, <2>3, <3>1, FS_RemoveElement
    <3> QED
      BY <1>1, <1>2, <2>2, <3>2 DEF LockInv, Overrun, Released
  <2>4. CASE lock \notin inside
    BY <1>2, <2>2, <2>4, Fewer
  <2> QED
    BY <2>3, <2>4
<1> QED
  BY <1>3, <1>4

\* Who finds no key holds it and is counted no more than before.
LEMMA AcquireStep ==
    ASSUME LockInv, NEW u \in Updates, Acquire(u)
    PROVE  LockInv'
<1>1. /\ lock = NoUpdate /\ lock' = u
      /\ inside' = inside \cup {u}
      /\ overruns' = overruns
  BY DEF Acquire
<1>2. LockTypeOK'
  BY <1>1 DEF LockInv, LockTypeOK
<1>3. (inside \ {lock})' \subseteq inside \ {lock}
  BY <1>1, GenerationAssumption DEF LockInv, LockTypeOK
<1> QED
  BY <1>1, <1>2, <1>3, Fewer

\* An expiry under its holder is the one step that leaves one more without a key.
LEMMA ExpiryStep ==
    ASSUME LockInv, LockExpires
    PROVE  LockInv'
<1>1. /\ lock' = NoUpdate /\ inside' = inside
      /\ overruns' = IF lock \in inside THEN overruns + 1 ELSE overruns
  BY DEF LockExpires
<1>2. LockTypeOK'
  BY <1>1 DEF LockInv, LockTypeOK
<1>3. (inside \ {lock})' = inside
  BY <1>1, GenerationAssumption DEF LockInv, LockTypeOK
<1>4. CASE lock \in inside
  <2>1. IsFiniteSet(inside) /\ Cardinality(inside) \in Nat /\ overruns \in Nat
    BY Finite DEF LockInv, LockTypeOK
  <2>2. Cardinality(inside \ {lock}) = Cardinality(inside) - 1
    BY <1>4, <2>1, FS_RemoveElement
  <2> QED
    BY <1>1, <1>2, <1>3, <1>4, <2>1, <2>2 DEF LockInv, Overrun
<1>5. CASE lock \notin inside
  BY <1>1, <1>2, <1>3, <1>5, Fewer
<1> QED
  BY <1>4, <1>5

LEMMA DeathStep ==
    ASSUME LockInv, BotDies
    PROVE  LockInv'
<1>1. inside' = {} /\ lock' = lock /\ overruns' = overruns
  BY DEF BotDies
<1> QED
  BY <1>1, Fewer DEF LockInv, LockTypeOK

\* All other steps leave the lock and who is inside alone.
LEMMA LockSteps == LockInv /\ [GenNext]_genVars => LockInv'
<1> SUFFICES ASSUME LockInv, [GenNext]_genVars
             PROVE  LockInv'
  OBVIOUS
<1>1. CASE UNCHANGED <<lock, inside, overruns>>
  BY <1>1 DEF LockInv, LockTypeOK, Overrun
<1>2. CASE UNCHANGED genVars
  BY <1>1, <1>2 DEF genVars
<1>3. ASSUME NEW u \in Updates,
             Return(u) \/ RunAgain(u) \/ RateRefused(u) \/ Unhandled(u)
      PROVE  LockInv'
  BY <1>3, Releases DEF Return, RunAgain, RateRefused, Unhandled
<1>4. ASSUME NEW u \in Updates, Acquire(u)
      PROVE  LockInv'
  BY <1>4, AcquireStep
<1>5. ASSUME NEW u \in Updates,
             \/ Arrive(u) \/ NotAcquired(u) \/ Pass(u) \/ Fail(u)
             \/ TakePending(u) \/ DropPending(u)
             \/ SpendOk(u) \/ SpendBlind(u) \/ SpendRefused(u) \/ SpendRaises(u)
             \/ GiveBackOk(u) \/ GiveBackBlind(u)
             \/ CallOk(u) \/ ReplyOk(u)
      PROVE  LockInv'
  <2>1. UNCHANGED <<lock, inside, overruns>>
    BY <1>5 DEF Arrive, NotAcquired, Pass, Fail, TakePending, DropPending, SpendOk,
                SpendBlind, SpendRefused, SpendRaises, GiveBackOk, GiveBackBlind, CallOk,
                ReplyOk
  <2> QED
    BY <1>1, <2>1
<1>6. ASSUME NEW b \in HeavyBuckets, CooldownEnds(b)
      PROVE  LockInv'
  BY <1>1, <1>6 DEF CooldownEnds
<1>7. CASE GenNext
  BY <1>3, <1>4, <1>5, <1>6, <1>7, ExpiryStep, DeathStep DEF GenNext
<1> QED
  BY <1>2, <1>7

\* At most one update of a user is inside the lock, and one more for each key
\* that has expired under its holder: whatever the handlers do.
THEOREM LockExcludes == GenSpec => []Exclusion
<1>1. LockInv => Exclusion
  <2> SUFFICES ASSUME LockInv
               PROVE  Exclusion
    OBVIOUS
  <2>1. /\ IsFiniteSet(inside) /\ Cardinality(inside) \in Nat /\ overruns \in Nat
    BY Finite DEF LockInv, LockTypeOK
  <2>2. \/ Cardinality(inside \ {lock}) = Cardinality(inside) - 1
        \/ Cardinality(inside \ {lock}) = Cardinality(inside)
    BY <2>1, FS_RemoveElement
  <2> QED
    BY <2>1, <2>2 DEF LockInv, Overrun, Exclusion
<1> QED
  BY <1>1, LockBegins, LockSteps, PTL DEF GenSpec

-----------------------------------------------------------------------------
(* Types                                                                   *)

\* The variables of one update that a handler moves.
TypedBooks ==
    /\ spend \in [Updates -> {"none", "charged", "bypass"}]
    /\ reserved \in [Updates -> HeavyBuckets \cup {"none"}]
    /\ due \in [Updates -> Int]
    /\ net \in [Updates -> Int]
    /\ generated \in [Updates -> BOOLEAN]
    /\ answered \in [Updates -> BOOLEAN]
    /\ cool \in [HeavyBuckets -> Updates \cup {NoUpdate}]
    /\ blind \in SUBSET Updates

TypedRun ==
    /\ handler \in [Updates -> STRING]
    /\ kind \in UserKinds
    /\ attempts \in Nat
    /\ status \in [Updates -> {"new", "running", "done", "refused", "error", "dead"}]
    /\ runs \in [Updates -> Nat]
    /\ lock \in Updates \cup {NoUpdate}
    /\ inside \in SUBSET Updates
    /\ pending \in BOOLEAN
    /\ overruns \in 0..MaxOverruns
    /\ coolings \in 0..MaxCoolings

LEMMA GenTypes ==
    /\ GenTypeOK <=> TypedBooks /\ TypedRun
    /\ GenTypeOK' <=> TypedBooks' /\ TypedRun'
  BY DEF GenTypeOK, TypedBooks, TypedRun

LEMMA TypesBegin == GenInit => GenTypeOK
<1> SUFFICES ASSUME GenInit
             PROVE  GenTypeOK
  OBVIOUS
<1>1. PICK s \in Scenarios : handler = s.handler /\ kind = s.kind /\ attempts = s.attempts
  BY DEF GenInit
<1>2. s \in [handler : [Updates -> STRING], kind : UserKinds, attempts : Nat]
  BY <1>1, GenerationAssumption
<1>3. handler \in [Updates -> STRING] /\ kind \in UserKinds /\ attempts \in Nat
  BY <1>1, <1>2
<1>4. TypedBooks
  BY DEF GenInit, TypedBooks
<1>5. TypedRun
  BY <1>3, GenerationAssumption DEF GenInit, TypedRun
<1> QED
  BY <1>4, <1>5, GenTypes

LEMMA ChargedTypes ==
    ASSUME GenTypeOK, NEW u \in Updates, Charged(u)
    PROVE  /\ spend' \in [Updates -> {"none", "charged", "bypass"}]
           /\ due' \in [Updates -> Int] /\ net' \in [Updates -> Int]
           /\ generated' \in [Updates -> BOOLEAN] /\ answered' \in [Updates -> BOOLEAN]
<1> DEFINE price == IF kind = "paid" THEN 1 ELSE 0
<1>1. price \in Int
  OBVIOUS
<1>2. /\ spend' = [spend EXCEPT ![u] = IF kind = "paid" THEN "charged" ELSE "bypass"]
      /\ due' = [due EXCEPT ![u] = price]
      /\ net' = [net EXCEPT ![u] = @ + price]
      /\ generated' = [generated EXCEPT ![u] = FALSE]
      /\ answered' = [answered EXCEPT ![u] = FALSE]
  BY DEF Charged
<1> HIDE DEF price
<1> QED
  BY <1>1, <1>2 DEF GenTypeOK

LEMMA RepaidTypes ==
    ASSUME GenTypeOK, NEW u \in Updates, Repaid(u)
    PROVE  due' \in [Updates -> Int] /\ net' \in [Updates -> Int]
<1> DEFINE price == IF CreditsDue(u) THEN 1 ELSE 0
<1>1. price \in Int
  OBVIOUS
<1>2. /\ due' = [due EXCEPT ![u] = @ - price]
      /\ net' = [net EXCEPT ![u] = @ - price]
  BY DEF Repaid
<1> HIDE DEF price
<1> QED
  BY <1>1, <1>2 DEF GenTypeOK

\* Steps that leave the books alone.
LEMMA RunTypes ==
    ASSUME GenTypeOK, NEW u \in Updates,
           \/ Arrive(u) \/ Return(u) \/ RateRefused(u) \/ Unhandled(u)
           \/ Acquire(u) \/ NotAcquired(u) \/ Pass(u) \/ Fail(u)
           \/ TakePending(u) \/ DropPending(u)
    PROVE  GenTypeOK'
<1>1. TypedBooks /\ TypedRun
  BY GenTypes
<1>2. TypedBooks'
  BY <1>1 DEF Arrive, Return, RateRefused, Unhandled, Acquire, NotAcquired, Pass, Fail,
              TakePending, DropPending, books, TypedBooks
<1>3. UNCHANGED <<handler, kind, attempts, overruns, coolings>>
  BY DEF Arrive, Return, RateRefused, Unhandled, Acquire, NotAcquired, Pass, Fail,
         TakePending, DropPending, fixed
<1>4. status' \in [Updates -> {"new", "running", "done", "refused", "error", "dead"}]
  BY <1>1 DEF Arrive, Return, RateRefused, Unhandled, Acquire, NotAcquired, Pass, Fail,
              TakePending, DropPending, TypedRun
<1>5. runs' \in [Updates -> Nat]
  <2>1. CASE Arrive(u)
    <3>1. PICK n \in Attempts : runs' = [runs EXCEPT ![u] = n]
      BY <2>1 DEF Arrive
    <3>2. n \in Nat
      BY DEF Attempts
    <3> QED
      BY <1>1, <3>1, <3>2 DEF TypedRun
  <2>2. CASE ~Arrive(u)
    BY <1>1, <2>2 DEF Return, RateRefused, Unhandled, Acquire, NotAcquired, Pass, Fail,
                      TakePending, DropPending, TypedRun
  <2> QED
    BY <2>1, <2>2
<1>6. lock' \in Updates \cup {NoUpdate} /\ inside' \in SUBSET Updates /\ pending' \in BOOLEAN
  BY <1>1 DEF Arrive, Return, RateRefused, Unhandled, Acquire, NotAcquired, Pass, Fail,
              TakePending, DropPending, Released, TypedRun
<1> QED
  BY <1>1, <1>2, <1>3, <1>4, <1>5, <1>6, GenTypes DEF TypedRun

LEMMA RunAgainTypes ==
    ASSUME GenTypeOK, NEW u \in Updates, RunAgain(u)
    PROVE  GenTypeOK'
<1>1. runs' \in [Updates -> Nat]
  <2>1. runs' = [runs EXCEPT ![u] = @ - 1] /\ runs \in [Updates -> Nat] /\ runs[u] > 1
    BY DEF RunAgain, MayRunAgain, GenTypeOK
  <2>2. runs[u] - 1 \in Nat
    BY <2>1
  <2> QED
    BY <2>1, <2>2
<1>2. TypedBooks'
  BY DEF RunAgain, GenTypeOK, TypedBooks
<1>3. lock' \in Updates \cup {NoUpdate} /\ inside' \in SUBSET Updates
  BY DEF RunAgain, Released, GenTypeOK
<1>4. UNCHANGED <<handler, kind, attempts, status, pending, overruns, coolings>>
  BY DEF RunAgain, fixed
<1> QED
  BY <1>1, <1>2, <1>3, <1>4, GenTypes DEF TypedRun

\* What a spend or a refund writes: the books, the cooldowns and who was blind.
LEMMA BookTypes ==
    ASSUME GenTypeOK, NEW u \in Updates,
           \/ SpendOk(u) \/ SpendBlind(u) \/ SpendRefused(u) \/ SpendRaises(u)
           \/ GiveBackOk(u) \/ GiveBackBlind(u)
           \/ CallOk(u) \/ ReplyOk(u)
    PROVE  GenTypeOK'
<1>1. TypedBooks /\ TypedRun
  BY GenTypes
<1>2. /\ UNCHANGED <<handler, kind, attempts, status, runs, lock, inside, pending, overruns>>
      /\ coolings' = coolings
  BY DEF SpendOk, SpendBlind, SpendRefused, SpendRaises, GiveBackOk, GiveBackBlind, CallOk,
         ReplyOk, fixed
<1>3. TypedRun'
  BY <1>1, <1>2 DEF TypedRun
<1>4. blind' \in SUBSET Updates
  BY <1>1 DEF SpendOk, SpendBlind, SpendRefused, SpendRaises, GiveBackOk, GiveBackBlind,
              CallOk, ReplyOk, Blindly, TypedBooks
<1>5. CASE SpendOk(u)
  <2>1. reserved' \in [Updates -> HeavyBuckets \cup {"none"}]
    BY <1>1, <1>5 DEF SpendOk, Cools, TypedBooks
  <2>2. cool' \in [HeavyBuckets -> Updates \cup {NoUpdate}]
    BY <1>1, <1>5 DEF SpendOk, TypedBooks
  <2> QED
    BY <1>3, <1>4, <1>5, <2>1, <2>2, ChargedTypes, GenTypes DEF SpendOk, TypedBooks
<1>6. CASE SpendBlind(u)
  BY <1>1, <1>3, <1>4, <1>6, ChargedTypes, GenTypes DEF SpendBlind, TypedBooks
<1>7. CASE SpendRefused(u) \/ SpendRaises(u)
  <2>1. cool' \in [HeavyBuckets -> Updates \cup {NoUpdate}]
    BY <1>1, <1>7 DEF SpendRefused, SpendRaises, TypedBooks
  <2>2. UNCHANGED <<spend, reserved, due, net, generated, answered>>
    BY <1>7 DEF SpendRefused, SpendRaises, books
  <2> QED
    BY <1>1, <1>3, <1>4, <2>1, <2>2, GenTypes DEF TypedBooks
<1>8. CASE GiveBackOk(u)
  <2>1. reserved' \in [Updates -> HeavyBuckets \cup {"none"}]
    BY <1>1, <1>8 DEF GiveBackOk, TypedBooks
  <2>2. cool' \in [HeavyBuckets -> Updates \cup {NoUpdate}]
    BY <1>1, <1>8 DEF GiveBackOk, TypedBooks
  <2>3. UNCHANGED <<spend, generated, answered>>
    BY <1>8 DEF GiveBackOk
  <2> QED
    BY <1>1, <1>3, <1>4, <1>8, <2>1, <2>2, <2>3, RepaidTypes, GenTypes DEF GiveBackOk, TypedBooks
<1>9. CASE GiveBackBlind(u)
  BY <1>1, <1>3, <1>4, <1>9, RepaidTypes, GenTypes DEF GiveBackBlind, TypedBooks
<1>10. CASE CallOk(u) \/ ReplyOk(u)
  BY <1>1, <1>3, <1>4, <1>10, GenTypes DEF CallOk, ReplyOk, books, TypedBooks
<1> QED
  BY <1>5, <1>6, <1>7, <1>8, <1>9, <1>10

LEMMA TimeTypes ==
    ASSUME GenTypeOK, LockExpires \/ BotDies \/ \E b \in HeavyBuckets : CooldownEnds(b)
    PROVE  GenTypeOK'
<1>1. TypedBooks /\ TypedRun
  BY GenTypes
<1>2. CASE LockExpires
  <2>1. overruns' \in 0..MaxOverruns
    BY <1>1, <1>2, GenerationAssumption DEF LockExpires, TypedRun
  <2> QED
    BY <1>1, <1>2, <2>1, GenTypes DEF LockExpires, books, fixed, TypedBooks, TypedRun
<1>3. CASE BotDies
  BY <1>1, <1>3, GenTypes DEF BotDies, books, fixed, TypedBooks, TypedRun
<1>4. ASSUME NEW b \in HeavyBuckets, CooldownEnds(b)
      PROVE  GenTypeOK'
  <2>1. coolings' \in 0..MaxCoolings
    BY <1>1, <1>4, GenerationAssumption DEF CooldownEnds, TypedRun
  <2> QED
    BY <1>1, <1>4, <2>1, GenTypes DEF CooldownEnds, books, fixed, TypedBooks, TypedRun
<1> QED
  BY <1>2, <1>3, <1>4

LEMMA TypesStep == GenTypeOK /\ [GenNext]_genVars => GenTypeOK'
<1> SUFFICES ASSUME GenTypeOK, [GenNext]_genVars
             PROVE  GenTypeOK'
  OBVIOUS
<1>1. CASE UNCHANGED genVars
  BY <1>1 DEF genVars, GenTypeOK
<1>2. CASE GenNext
  BY <1>2, RunTypes, RunAgainTypes, BookTypes, TimeTypes DEF GenNext
<1> QED
  BY <1>1, <1>2

\* Whatever the programs of the handlers are, the lock, the cooldowns, the books
\* and the pending picture keep their types.
THEOREM GenTypeCorrect == GenSpec => []GenTypeOK
  BY TypesBegin, TypesStep, PTL DEF GenSpec

-----------------------------------------------------------------------------
(* The ways of the handlers                                                *)

AnyWay == {<<>>} \cup UNION {Ways[h] : h \in DOMAIN Programs}

\* Whoever runs is on a way of its handler; whoever is new has nothing on its books.
OnItsWay ==
    /\ rest \in [Updates -> AnyWay]
    /\ \A u \in Updates :
        /\ status[u] = "running" => handler[u] \in DOMAIN Programs /\ rest[u] \in Ways[handler[u]]
        /\ status[u] = "new" =>
            /\ spend[u] = "none" /\ reserved[u] = "none" /\ due[u] = 0
            /\ ~generated[u] /\ ~answered[u]

Walking(u) ==
    /\ status[u] = "running" /\ status'[u] = "running"
    /\ rest[u] # <<>> /\ Op(rest[u]) # "raise"

\* What a step can do to an update.  It is left where it is, or its handling ends.
Stays(u) ==
    /\ UNCHANGED <<rest[u], spend[u], reserved[u], due[u], net[u], generated[u], answered[u]>>
    /\ status'[u] \in {"new", "running"} => status'[u] = status[u]
    /\ status'[u] = "done" => status[u] = "done" \/ (status[u] = "running" /\ rest[u] = <<>>)

\* Its handler is called.
Starts(u) ==
    /\ status'[u] = "running"
    /\ handler[u] \in DOMAIN Programs /\ rest'[u] \in Programs[handler[u]]
    /\ spend'[u] = "none" /\ reserved'[u] = "none" /\ due'[u] = 0 /\ net'[u] = net[u]
    /\ ~generated'[u] /\ ~answered'[u]

\* It goes on, or goes wrong, and nothing is booked.
Walks(u) ==
    /\ Walking(u)
    /\ UNCHANGED <<spend[u], reserved[u], due[u], net[u]>>
    /\ generated[u] => generated'[u]
    /\ answered[u] => answered'[u]
    /\ \/ /\ rest'[u] \in Wrong(rest[u])
          /\ Op(rest[u]) = "take" => rest'[u] = Head(rest[u]).fails["gone"]
       \/ /\ rest'[u] = Tail(rest[u])
          /\ Op(rest[u]) \notin {"spend", "giveback"}
          /\ Op(rest[u]) = "reply" => answered'[u]
          /\ Op(rest[u]) = "call" => generated'[u]
          /\ Op(rest[u]) = "take" => pending
          /\ Op(rest[u]) = "drop" => ~pending'

\* It pays.
Buys(u) ==
    /\ Walking(u)
    /\ Op(rest[u]) = "spend" /\ rest'[u] = Tail(rest[u])
    /\ spend'[u] = IF kind = "paid" THEN "charged" ELSE "bypass"
    /\ due'[u] = IF kind = "paid" THEN 1 ELSE 0
    /\ net'[u] = IF kind = "paid" THEN net[u] + 1 ELSE net[u]

\* It is given back what it paid.
IsRepaid(u) ==
    /\ Walking(u)
    /\ Op(rest[u]) = "giveback" /\ rest'[u] = Tail(rest[u])
    /\ UNCHANGED <<spend[u], generated[u], answered[u]>>
    /\ IF CreditsDue(u)
       THEN due'[u] = due[u] - 1 /\ net'[u] = net[u] - 1
       ELSE due'[u] = due[u] /\ net'[u] = net[u]

Goes(u) == Stays(u) \/ Starts(u) \/ Walks(u) \/ Buys(u) \/ IsRepaid(u)

\* What every step leaves alone.
Lasting ==
    /\ handler' = handler /\ kind' = kind
    /\ pending' => pending
    /\ blind \subseteq blind'

-----------------------------------------------------------------------------

LEMMA NowOp ==
    ASSUME NEW u \in Updates, NEW op, At(u, op)
    PROVE  status[u] = "running" /\ rest[u] # <<>> /\ Op(rest[u]) = op
  BY DEF At, Op

LEMMA NowFails ==
    ASSUME NEW u \in Updates, NEW how \in DOMAIN Head(rest[u]).fails
    PROVE  Now(u).fails[how] \in Wrong(rest[u])
  BY DEF Now, Wrong

\* What a walk comes to is a way again.
LEMMA WayOn ==
    ASSUME OnItsWay, NEW u \in Updates, status[u] = "running", rest[u] # <<>>,
           Op(rest[u]) # "raise"
    PROVE  /\ handler[u] \in DOMAIN Programs
           /\ Tail(rest[u]) \in Ways[handler[u]] /\ Wrong(rest[u]) \subseteq Ways[handler[u]]
           /\ Tail(rest[u]) \in AnyWay /\ Wrong(rest[u]) \subseteq AnyWay
           /\ Op(rest[u]) = "lock" => "busy" \in DOMAIN Head(rest[u]).fails
           /\ Op(rest[u]) = "take" => "gone" \in DOMAIN Head(rest[u]).fails
           /\ Op(rest[u]) = "spend" => {"refused", "exc"} \subseteq DOMAIN Head(rest[u]).fails
<1>1. handler[u] \in DOMAIN Programs /\ rest[u] \in Ways[handler[u]]
  BY DEF OnItsWay
<1>2. WaysClosed(handler[u])
  BY <1>1, HandlersAssumption
<1>3. Onward(rest[u]) \subseteq Ways[handler[u]]
  BY <1>1, <1>2 DEF WaysClosed
<1>4. Onward(rest[u]) = {Tail(rest[u])} \cup Wrong(rest[u])
  BY DEF Onward
<1>5. Ways[handler[u]] \subseteq AnyWay
  BY <1>1 DEF AnyWay
<1>6. /\ Op(rest[u]) = "lock" => "busy" \in DOMAIN Head(rest[u]).fails
      /\ Op(rest[u]) = "take" => "gone" \in DOMAIN Head(rest[u]).fails
      /\ Op(rest[u]) = "spend" => {"refused", "exc"} \subseteq DOMAIN Head(rest[u]).fails
  BY <1>1, <1>2 DEF WaysClosed
<1> QED
  BY <1>1, <1>3, <1>4, <1>5, <1>6

\* What is left of the books of the others when one update has moved.
LEMMA OneWritten ==
    ASSUME GenTypeOK, OnItsWay, NEW u \in Updates, NEW w \in Updates, w # u,
           \/ status' = status
           \/ \E s \in {"running", "done", "refused", "error"} : status' = [status EXCEPT ![u] = s],
           \E x : rest' = [rest EXCEPT ![u] = x] \/ rest' = rest,
           \E x : spend' = [spend EXCEPT ![u] = x] \/ spend' = spend,
           \E x : reserved' = [reserved EXCEPT ![u] = x] \/ reserved' = reserved,
           \E x : due' = [due EXCEPT ![u] = x] \/ due' = due,
           \E x : net' = [net EXCEPT ![u] = x] \/ net' = net,
           \E x : generated' = [generated EXCEPT ![u] = x] \/ generated' = generated,
           \E x : answered' = [answered EXCEPT ![u] = x] \/ answered' = answered
    PROVE  Stays(w)
<1>1. status'[w] = status[w]
  BY DEF GenTypeOK
<1>2. rest'[w] = rest[w]
  BY DEF OnItsWay
<1>3. spend'[w] = spend[w] /\ reserved'[w] = reserved[w]
  BY DEF GenTypeOK
<1>4. due'[w] = due[w] /\ net'[w] = net[w]
  BY DEF GenTypeOK
<1>5. generated'[w] = generated[w] /\ answered'[w] = answered[w]
  BY DEF GenTypeOK
<1> QED
  BY <1>1, <1>2, <1>3, <1>4, <1>5 DEF Stays

\* The handler is called, for the first time or again.
LEMMA StartMoves ==
    ASSUME GenTypeOK, OnItsWay, NEW u \in Updates, Arrive(u) \/ RunAgain(u)
    PROVE  OnItsWay' /\ Lasting /\ Starts(u) /\ \A w \in Updates \ {u} : Stays(w)
<1>1. PICK p \in Programs[handler[u]] : rest' = [rest EXCEPT ![u] = p]
  BY DEF Arrive, RunAgain
<1>2. handler[u] \in DOMAIN Programs
  BY DEF Arrive, RunAgain, At, OnItsWay
<1>3. p \in Ways[handler[u]]
  BY <1>1, <1>2, HandlersAssumption DEF WaysClosed
<1>4. p \in AnyWay
  BY <1>2, <1>3 DEF AnyWay
<1>5. Lasting
  BY DEF Arrive, RunAgain, Lasting, fixed
<1>6. status' = [status EXCEPT ![u] = "running"]
  <2>1. CASE Arrive(u)
    BY <2>1 DEF Arrive
  <2>2. CASE RunAgain(u)
    BY <2>2 DEF RunAgain, At, GenTypeOK
  <2> QED
    BY <2>1, <2>2
<1>7. Starts(u)
  <2>1. status'[u] = "running" /\ rest'[u] = p
    BY <1>1, <1>6 DEF GenTypeOK, OnItsWay
  <2>2. spend'[u] = "none" /\ reserved'[u] = "none" /\ due'[u] = 0 /\ net'[u] = net[u]
    BY DEF Arrive, RunAgain, GenTypeOK, OnItsWay, books
  <2>3. ~generated'[u] /\ ~answered'[u]
    BY DEF Arrive, RunAgain, GenTypeOK, OnItsWay
  <2> QED
    BY <1>1, <1>2, <2>1, <2>2, <2>3 DEF Starts
<1>8. ASSUME NEW w \in Updates \ {u}
      PROVE  Stays(w)
  <2>1. /\ \E x : spend' = [spend EXCEPT ![u] = x] \/ spend' = spend
        /\ \E x : reserved' = [reserved EXCEPT ![u] = x] \/ reserved' = reserved
        /\ \E x : due' = [due EXCEPT ![u] = x] \/ due' = due
        /\ \E x : net' = [net EXCEPT ![u] = x] \/ net' = net
        /\ \E x : generated' = [generated EXCEPT ![u] = x] \/ generated' = generated
        /\ \E x : answered' = [answered EXCEPT ![u] = x] \/ answered' = answered
    BY DEF Arrive, RunAgain, books
  <2> QED
    BY <1>1, <1>6, <2>1, OneWritten
<1>9. OnItsWay'
  <2>1. rest' \in [Updates -> AnyWay]
    BY <1>1, <1>4 DEF OnItsWay
  <2>2. handler' = handler
    BY <1>5 DEF Lasting
  <2>3. ASSUME NEW w \in Updates, w # u
        PROVE  /\ status'[w] = "running" => status[w] = "running"
               /\ status'[w] = "new" => status[w] = "new"
               /\ UNCHANGED <<rest[w], spend[w], reserved[w], due[w], generated[w], answered[w]>>
    BY <1>8, <2>3 DEF Stays
  <2>4. status'[u] = "running" /\ rest'[u] = p
    BY <1>1, <1>6 DEF GenTypeOK, OnItsWay
  <2> QED
    BY <1>2, <1>3, <2>1, <2>2, <2>3, <2>4 DEF OnItsWay
<1> QED
  BY <1>5, <1>7, <1>8, <1>9

\* OnItsWay is kept when the update that moves comes to a way of its handler.
LEMMA StaysOnWay ==
    ASSUME GenTypeOK, OnItsWay, NEW u \in Updates, \A w \in Updates \ {u} : Stays(w),
           handler' = handler, status' = status,
           NEW p \in Ways[handler[u]], handler[u] \in DOMAIN Programs,
           status[u] = "running", rest' = [rest EXCEPT ![u] = p]
    PROVE  OnItsWay'
<1>1. p \in AnyWay
  BY DEF AnyWay
<1>2. rest' \in [Updates -> AnyWay] /\ rest'[u] = p
  BY <1>1 DEF OnItsWay
<1>3. ASSUME NEW w \in Updates, w # u
      PROVE  UNCHANGED <<rest[w], spend[w], reserved[w], due[w], generated[w], answered[w]>>
  BY <1>3 DEF Stays
<1> QED
  BY <1>2, <1>3 DEF OnItsWay

\* A step that books nothing.
LEMMA WalkMoves ==
    ASSUME GenTypeOK, OnItsWay, NEW u \in Updates,
           \/ Acquire(u) \/ NotAcquired(u) \/ Pass(u) \/ Fail(u)
           \/ TakePending(u) \/ DropPending(u)
           \/ SpendRefused(u) \/ SpendRaises(u) \/ CallOk(u) \/ ReplyOk(u)
    PROVE  OnItsWay' /\ Lasting /\ Walks(u) /\ \A w \in Updates \ {u} : Stays(w)
<1>1. PICK op \in {"lock", "check", "await", "fetch", "tell", "call", "reply", "giveback",
                   "take", "drop", "spend"} : At(u, op)
  BY DEF Acquire, NotAcquired, Pass, Fail, TakePending, DropPending, SpendRefused,
         SpendRaises, CallOk, ReplyOk
<1>2. status[u] = "running" /\ rest[u] # <<>> /\ Op(rest[u]) = op
  BY <1>1, NowOp
<1>3. /\ handler[u] \in DOMAIN Programs
      /\ Tail(rest[u]) \in Ways[handler[u]] /\ Wrong(rest[u]) \subseteq Ways[handler[u]]
      /\ op = "lock" => "busy" \in DOMAIN Head(rest[u]).fails
      /\ op = "take" => "gone" \in DOMAIN Head(rest[u]).fails
      /\ op = "spend" => {"refused", "exc"} \subseteq DOMAIN Head(rest[u]).fails
  BY <1>1, <1>2, WayOn
<1>4. /\ status' = status /\ spend' = spend /\ reserved' = reserved /\ due' = due /\ net' = net
      /\ UNCHANGED <<handler, kind, blind>>
  BY DEF Acquire, NotAcquired, Pass, Fail, TakePending, DropPending, SpendRefused,
         SpendRaises, CallOk, ReplyOk, books, fixed
<1>5. /\ pending' => pending
      /\ generated[u] => generated'[u]
      /\ answered[u] => answered'[u]
  BY DEF Acquire, NotAcquired, Pass, Fail, TakePending, DropPending, SpendRefused,
         SpendRaises, CallOk, ReplyOk, GenTypeOK
<1>6. PICK p : /\ rest' = [rest EXCEPT ![u] = p]
               /\ \/ /\ p \in Wrong(rest[u])
                     /\ op = "take" => p = Head(rest[u]).fails["gone"]
                  \/ /\ p = Tail(rest[u])
                     /\ op \notin {"spend", "giveback"}
                     /\ op = "reply" => answered'[u]
                     /\ op = "call" => generated'[u]
                     /\ op = "take" => pending
                     /\ op = "drop" => ~pending'
  <2>1. CASE Acquire(u)
    <3>1. op = "lock" /\ rest' = [rest EXCEPT ![u] = Tail(@)]
      BY <1>2, <2>1, NowOp DEF Acquire, GoOn
    <3> QED
      BY <3>1
  <2>2. CASE NotAcquired(u)
    <3>1. op = "lock" /\ rest' = [rest EXCEPT ![u] = Now(u).fails["busy"]]
      BY <1>2, <2>2, NowOp DEF NotAcquired, GoWrong
    <3> QED
      BY <1>3, <3>1, NowFails
  <2>3. CASE Pass(u)
    <3>1. op \in {"check", "await", "fetch", "tell"} /\ rest' = [rest EXCEPT ![u] = Tail(@)]
      BY <1>2, <2>3, NowOp DEF Pass, GoOn
    <3> QED
      BY <3>1
  <2>4. CASE Fail(u)
    <3>1. PICK how \in DOMAIN Now(u).fails : rest' = [rest EXCEPT ![u] = Now(u).fails[how]]
      BY <2>4 DEF Fail, GoWrong
    <3>2. op # "take"
      BY <1>2, <2>4, NowOp DEF Fail
    <3>3. Now(u).fails[how] \in Wrong(rest[u])
      BY <3>1, NowFails DEF Now
    <3> QED
      BY <3>1, <3>2, <3>3
  <2>5. CASE TakePending(u)
    <3>1. op = "take"
      BY <1>2, <2>5, NowOp DEF TakePending
    <3>2. CASE pending
      BY <2>5, <3>1, <3>2 DEF TakePending, GoOn
    <3>3. CASE ~pending
      <4>1. rest' = [rest EXCEPT ![u] = Head(rest[u]).fails["gone"]]
        BY <2>5, <3>3 DEF TakePending, GoWrong, Now
      <4>2. Head(rest[u]).fails["gone"] \in Wrong(rest[u])
        BY <1>3, <3>1, NowFails DEF Now
      <4> QED
        BY <4>1, <4>2
    <3> QED
      BY <3>2, <3>3
  <2>6. CASE DropPending(u)
    <3>1. op = "drop" /\ rest' = [rest EXCEPT ![u] = Tail(@)] /\ ~pending'
      BY <1>2, <2>6, NowOp DEF DropPending, GoOn
    <3> QED
      BY <3>1
  <2>7. CASE SpendRefused(u)
    <3>1. op = "spend" /\ rest' = [rest EXCEPT ![u] = Now(u).fails["refused"]]
      BY <1>2, <2>7, NowOp DEF SpendRefused, GoWrong
    <3> QED
      BY <1>3, <3>1, NowFails
  <2>8. CASE SpendRaises(u)
    <3>1. op = "spend" /\ rest' = [rest EXCEPT ![u] = Now(u).fails["exc"]]
      BY <1>2, <2>8, NowOp DEF SpendRaises, GoWrong
    <3> QED
      BY <1>3, <3>1, NowFails
  <2>9. CASE CallOk(u)
    <3>1. op = "call" /\ rest' = [rest EXCEPT ![u] = Tail(@)]
      BY <1>2, <2>9, NowOp DEF CallOk, GoOn
    <3>2. generated'[u]
      BY <2>9 DEF CallOk, GenTypeOK
    <3> QED
      BY <3>1, <3>2
  <2>10. CASE ReplyOk(u)
    <3>1. op = "reply" /\ rest' = [rest EXCEPT ![u] = Tail(@)]
      BY <1>2, <2>10, NowOp DEF ReplyOk, GoOn
    <3>2. answered'[u]
      BY <2>10 DEF ReplyOk, GenTypeOK
    <3> QED
      BY <3>1, <3>2
  <2> QED
    BY <2>1, <2>2, <2>3, <2>4, <2>5, <2>6, <2>7, <2>8, <2>9, <2>10
<1>7. ASSUME NEW w \in Updates \ {u}
      PROVE  Stays(w)
  <2>1. /\ \E x : generated' = [generated EXCEPT ![u] = x] \/ generated' = generated
        /\ \E x : answered' = [answered EXCEPT ![u] = x] \/ answered' = answered
    BY DEF Acquire, NotAcquired, Pass, Fail, TakePending, DropPending, SpendRefused,
           SpendRaises, CallOk, ReplyOk
  <2> QED
    BY <1>4, <1>6, <2>1, OneWritten
<1>8. p \in Ways[handler[u]] /\ rest'[u] = p
  BY <1>3, <1>6 DEF OnItsWay
<1>9. Walks(u)
  BY <1>2, <1>4, <1>5, <1>6, <1>8 DEF Walks, Walking
<1>10. OnItsWay'
  BY <1>2, <1>3, <1>4, <1>6, <1>7, <1>8, StaysOnWay
<1> QED
  BY <1>4, <1>5, <1>7, <1>9, <1>10 DEF Lasting

\* A purchase and a refund.
LEMMA BookMoves ==
    ASSUME GenTypeOK, OnItsWay, NEW u \in Updates,
           SpendOk(u) \/ SpendBlind(u) \/ GiveBackOk(u) \/ GiveBackBlind(u)
    PROVE  OnItsWay' /\ Lasting /\ (Buys(u) \/ IsRepaid(u)) /\ \A w \in Updates \ {u} : Stays(w)
<1>1. PICK op \in {"spend", "giveback"} : At(u, op)
  BY DEF SpendOk, SpendBlind, GiveBackOk, GiveBackBlind
<1>2. status[u] = "running" /\ rest[u] # <<>> /\ Op(rest[u]) = op
  BY <1>1, NowOp
<1>3. handler[u] \in DOMAIN Programs /\ Tail(rest[u]) \in Ways[handler[u]]
  BY <1>1, <1>2, WayOn
<1>4. /\ status' = status /\ rest' = [rest EXCEPT ![u] = Tail(@)]
      /\ handler' = handler /\ kind' = kind /\ pending' = pending /\ blind \subseteq blind'
  BY DEF SpendOk, SpendBlind, GiveBackOk, GiveBackBlind, GoOn, Blindly, fixed
<1>5. rest'[u] = Tail(rest[u])
  BY <1>4 DEF OnItsWay
<1>6. Buys(u) \/ IsRepaid(u)
  <2>1. CASE SpendOk(u) \/ SpendBlind(u)
    <3>1. Charged(u) /\ op = "spend"
      BY <1>2, <2>1, NowOp DEF SpendOk, SpendBlind
    <3>2. /\ spend'[u] = IF kind = "paid" THEN "charged" ELSE "bypass"
          /\ due'[u] = IF kind = "paid" THEN 1 ELSE 0
      BY <3>1 DEF Charged, GenTypeOK
    <3>3. net'[u] = IF kind = "paid" THEN net[u] + 1 ELSE net[u]
      BY <3>1 DEF Charged, GenTypeOK
    <3> QED
      BY <1>2, <1>4, <1>5, <3>1, <3>2, <3>3 DEF Buys, Walking
  <2>2. CASE GiveBackOk(u) \/ GiveBackBlind(u)
    <3>1. /\ Repaid(u) /\ op = "giveback"
          /\ UNCHANGED <<spend, generated, answered>>
      BY <1>2, <2>2, NowOp DEF GiveBackOk, GiveBackBlind
    <3>2. IF CreditsDue(u)
          THEN due'[u] = due[u] - 1 /\ net'[u] = net[u] - 1
          ELSE due'[u] = due[u] /\ net'[u] = net[u]
      <4>1. CASE CreditsDue(u)
        BY <3>1, <4>1 DEF Repaid, GenTypeOK
      <4>2. CASE ~CreditsDue(u)
        BY <3>1, <4>2 DEF Repaid, GenTypeOK
      <4> QED
        BY <4>1, <4>2
    <3> QED
      BY <1>2, <1>4, <1>5, <3>1, <3>2 DEF IsRepaid, Walking
  <2> QED
    BY <2>1, <2>2
<1>7. ASSUME NEW w \in Updates \ {u}
      PROVE  Stays(w)
  <2>1. /\ \E x : spend' = [spend EXCEPT ![u] = x] \/ spend' = spend
        /\ \E x : generated' = [generated EXCEPT ![u] = x] \/ generated' = generated
        /\ \E x : answered' = [answered EXCEPT ![u] = x] \/ answered' = answered
    BY DEF SpendOk, SpendBlind, GiveBackOk, GiveBackBlind, Charged
  <2>2. \E x : reserved' = [reserved EXCEPT ![u] = x] \/ reserved' = reserved
    BY DEF SpendOk, SpendBlind, GiveBackOk, GiveBackBlind
  <2>3. /\ \E x : due' = [due EXCEPT ![u] = x] \/ due' = due
        /\ \E x : net' = [net EXCEPT ![u] = x] \/ net' = net
    BY DEF SpendOk, SpendBlind, GiveBackOk, GiveBackBlind, Charged, Repaid
  <2> QED
    BY <1>4, <2>1, <2>2, <2>3, OneWritten
<1>8. OnItsWay'
  BY <1>2, <1>3, <1>4, <1>7, StaysOnWay
<1> QED
  BY <1>4, <1>6, <1>7, <1>8 DEF Lasting

\* The handling of an update ends, time passes, or nothing happens.
LEMMA EndMoves ==
    ASSUME GenTypeOK, OnItsWay,
           \/ \E u \in Updates : Return(u) \/ RateRefused(u) \/ Unhandled(u)
           \/ LockExpires \/ BotDies \/ \E b \in HeavyBuckets : CooldownEnds(b)
           \/ UNCHANGED genVars
    PROVE  OnItsWay' /\ Lasting /\ \A w \in Updates : Stays(w)
<1>1. /\ UNCHANGED <<rest, spend, reserved, due, net, generated, answered>>
      /\ UNCHANGED <<handler, kind, pending, blind>>
  BY DEF Return, RateRefused, Unhandled, LockExpires, BotDies, CooldownEnds, genVars, books, fixed
<1>2. ASSUME NEW w \in Updates
      PROVE  /\ status'[w] \in {"new", "running"} => status'[w] = status[w]
             /\ status'[w] = "done" => status[w] = "done" \/ (status[w] = "running" /\ rest[w] = <<>>)
  <2>1. ASSUME NEW u \in Updates, Return(u)
        PROVE  /\ status'[w] \in {"new", "running"} => status'[w] = status[w]
               /\ status'[w] = "done" => status[w] = "done" \/ (status[w] = "running" /\ rest[w] = <<>>)
    <3>1. status' = [status EXCEPT ![u] = "done"] /\ status[u] = "running" /\ rest[u] = <<>>
      BY <2>1 DEF Return
    <3> QED
      BY <3>1 DEF GenTypeOK
  <2>2. ASSUME NEW u \in Updates, RateRefused(u) \/ Unhandled(u)
        PROVE  /\ status'[w] \in {"new", "running"} => status'[w] = status[w]
               /\ status'[w] = "done" => status[w] = "done"
    <3>1. PICK s \in {"refused", "error"} : status' = [status EXCEPT ![u] = s]
      BY <2>2 DEF RateRefused, Unhandled
    <3> QED
      BY <3>1 DEF GenTypeOK
  <2>3. CASE BotDies
    BY <2>3 DEF BotDies
  <2>4. CASE LockExpires \/ (\E b \in HeavyBuckets : CooldownEnds(b)) \/ UNCHANGED genVars
    BY <2>4 DEF LockExpires, CooldownEnds, genVars
  <2> QED
    BY <2>1, <2>2, <2>3, <2>4
<1>3. \A w \in Updates : Stays(w)
  BY <1>1, <1>2 DEF Stays
<1>4. OnItsWay'
  BY <1>1, <1>2 DEF OnItsWay
<1> QED
  BY <1>1, <1>3, <1>4 DEF Lasting

LEMMA EveryMove ==
    ASSUME GenTypeOK, OnItsWay, [GenNext]_genVars
    PROVE  OnItsWay' /\ Lasting /\ \A w \in Updates : Goes(w)
<1>1. ASSUME NEW u \in Updates, Arrive(u) \/ RunAgain(u)
      PROVE  OnItsWay' /\ Lasting /\ \A w \in Updates : Goes(w)
  BY <1>1, StartMoves DEF Goes
<1>2. ASSUME NEW u \in Updates,
             \/ Acquire(u) \/ NotAcquired(u) \/ Pass(u) \/ Fail(u)
             \/ TakePending(u) \/ DropPending(u)
             \/ SpendRefused(u) \/ SpendRaises(u) \/ CallOk(u) \/ ReplyOk(u)
      PROVE  OnItsWay' /\ Lasting /\ \A w \in Updates : Goes(w)
  BY <1>2, WalkMoves DEF Goes
<1>3. ASSUME NEW u \in Updates,
             SpendOk(u) \/ SpendBlind(u) \/ GiveBackOk(u) \/ GiveBackBlind(u)
      PROVE  OnItsWay' /\ Lasting /\ \A w \in Updates : Goes(w)
  BY <1>3, BookMoves DEF Goes
<1>4. CASE \/ \E u \in Updates : Return(u) \/ RateRefused(u) \/ Unhandled(u)
           \/ LockExpires \/ BotDies \/ \E b \in HeavyBuckets : CooldownEnds(b)
           \/ UNCHANGED genVars
  BY <1>4, EndMoves DEF Goes
<1> QED
  BY <1>1, <1>2, <1>3, <1>4 DEF GenNext

LEMMA WaysBegin == GenInit => OnItsWay
  BY DEF GenInit, OnItsWay, AnyWay

-----------------------------------------------------------------------------
(* What is charged and given back, update by update                        *)

\* Nothing but a paid purchase is due, and no more than one.
Billed ==
    \A u \in Updates :
        /\ due[u] <= 1
        /\ due[u] > 0 => spend[u] = "charged"
        /\ spend[u] = "charged" => kind = "paid"
        /\ kind # "paid" => net[u] <= 0

\* Nothing is given back twice: once a refund is possible, the price is due.
Solvent ==
    \A u \in Updates :
        handler[u] # "handle_text" /\ (kind = "paid" \/ handler[u] \notin Documents) =>
            /\ 0 <= due[u] /\ due[u] <= net[u]
            /\ kind # "paid" => due[u] = 0
            /\ kind = "paid" /\ status[u] = "running" =>
                  rest[u] \in NoRefund[handler[u]] \/ due[u] = 1

\* What a run may end with when it has been charged.
Settled(u) == answered[u] \/ (generated[u] /\ handler[u] \in LoseAnswer)

\* Nobody who is not settled is on a way that returns before that.
NotLeft ==
    \A u \in Updates :
        handler[u] \notin KeepPrice /\ status[u] \in {"running", "done"} /\ due[u] > 0 =>
            Settled(u) \/ (status[u] = "running" /\ rest[u] \in NoReturn[handler[u]])

\* A purchase waits for what was taken, and only while nothing was bought.
Taking ==
    \A u \in Updates :
        handler[u] \in Takers =>
            /\ net[u] <= 1
            /\ pending => net[u] <= 0
            /\ status[u] = "running" /\ rest[u] \notin NoSpend[handler[u]] =>
                /\ Op(rest[u]) = "take" \/ net[u] <= 0
                /\ Op(rest[u]) \in {"take", "drop"} \/ ~pending

-----------------------------------------------------------------------------

LEMMA BilledStep ==
    ASSUME GenTypeOK, OnItsWay, Billed, Lasting, \A w \in Updates : Goes(w)
    PROVE  Billed'
<1> SUFFICES ASSUME NEW u \in Updates
             PROVE  /\ due'[u] <= 1
                    /\ due'[u] > 0 => spend'[u] = "charged"
                    /\ spend'[u] = "charged" => kind = "paid"
                    /\ kind # "paid" => net'[u] <= 0
  BY DEF Billed, Lasting
<1>1. due[u] \in Int /\ net[u] \in Int
  BY DEF GenTypeOK
<1>2. /\ due[u] <= 1
      /\ due[u] > 0 => spend[u] = "charged"
      /\ spend[u] = "charged" => kind = "paid"
      /\ kind # "paid" => net[u] <= 0
  BY DEF Billed
<1>3. CASE Stays(u) \/ Walks(u)
  BY <1>1, <1>2, <1>3 DEF Stays, Walks
<1>4. CASE Starts(u)
  BY <1>1, <1>2, <1>4 DEF Starts
<1>5. CASE Buys(u)
  BY <1>1, <1>2, <1>5 DEF Buys
<1>6. CASE IsRepaid(u)
  BY <1>1, <1>2, <1>6 DEF IsRepaid
<1> QED
  BY <1>3, <1>4, <1>5, <1>6 DEF Goes

LEMMA SolventStep ==
    ASSUME GenTypeOK, OnItsWay, Billed, Solvent, Lasting, \A w \in Updates : Goes(w)
    PROVE  Solvent'
<1> SUFFICES ASSUME NEW u \in Updates, handler[u] # "handle_text",
                    kind = "paid" \/ handler[u] \notin Documents
             PROVE  /\ 0 <= due'[u] /\ due'[u] <= net'[u]
                    /\ kind # "paid" => due'[u] = 0
                    /\ kind = "paid" /\ status'[u] = "running" =>
                          rest'[u] \in NoRefund[handler[u]] \/ due'[u] = 1
  BY DEF Solvent, Lasting
<1>1. due[u] \in Int /\ net[u] \in Int
  BY DEF GenTypeOK
<1>2. /\ 0 <= due[u] /\ due[u] <= net[u]
      /\ kind # "paid" => due[u] = 0
      /\ kind = "paid" /\ status[u] = "running" =>
            rest[u] \in NoRefund[handler[u]] \/ due[u] = 1
      /\ spend[u] = "charged" => kind = "paid"
  BY DEF Solvent, Billed
<1>3. status[u] = "running" => /\ handler[u] \in DOMAIN Programs
                               /\ rest[u] \in Ways[handler[u]]
  BY DEF OnItsWay
<1>4. handler[u] \in DOMAIN Programs => RefundRule(handler[u])
  BY HandlersAssumption
<1>5. CASE Stays(u)
  BY <1>2, <1>5 DEF Stays
<1>6. CASE Starts(u)
  BY <1>1, <1>2, <1>4, <1>6 DEF Starts, RefundRule
<1>7. CASE Walks(u)
  <2>1. due'[u] = due[u] /\ net'[u] = net[u] /\ status[u] = "running" /\ rest[u] # <<>>
    BY <1>7 DEF Walks, Walking
  <2>2. ASSUME rest[u] \in NoRefund[handler[u]]
        PROVE  rest'[u] \in NoRefund[handler[u]]
    <3>1. /\ Op(rest[u]) # "spend" => Onward(rest[u]) \subseteq NoRefund[handler[u]]
          /\ Op(rest[u]) = "spend" => Wrong(rest[u]) \subseteq NoRefund[handler[u]]
      BY <1>3, <1>4, <2>1, <2>2 DEF RefundRule
    <3>2. Onward(rest[u]) = {Tail(rest[u])} \cup Wrong(rest[u])
      BY <1>7 DEF Walks, Walking, Onward
    <3> QED
      BY <1>7, <3>1, <3>2 DEF Walks
  <2> QED
    BY <1>2, <2>1, <2>2
<1>8. CASE Buys(u)
  BY <1>1, <1>2, <1>8 DEF Buys
<1>9. CASE IsRepaid(u)
  <2>1. status[u] = "running" /\ rest[u] # <<>> /\ Op(rest[u]) = "giveback"
    BY <1>9 DEF IsRepaid, Walking
  <2>2. /\ rest[u] \notin NoRefund[handler[u]]
        /\ Tail(rest[u]) \in NoRefund[handler[u]]
        /\ Arg(rest[u]) = "price" => handler[u] \in Documents
    BY <1>3, <1>4, <2>1 DEF RefundRule
  <2>3. CASE kind = "paid"
    BY <1>1, <1>2, <1>9, <2>1, <2>2, <2>3 DEF IsRepaid
  <2>4. CASE kind # "paid"
    <3>1. ~CreditsDue(u)
      BY <1>2, <2>2, <2>4 DEF CreditsDue, Now, Arg
    <3> QED
      BY <1>1, <1>2, <1>9, <2>4, <3>1 DEF IsRepaid
  <2> QED
    BY <2>3, <2>4
<1> QED
  BY <1>5, <1>6, <1>7, <1>8, <1>9 DEF Goes

LEMMA NotLeftStep ==
    ASSUME GenTypeOK, OnItsWay, Billed, NotLeft, Lasting, \A w \in Updates : Goes(w)
    PROVE  NotLeft'
<1> SUFFICES ASSUME NEW u \in Updates, handler[u] \notin KeepPrice,
                    status'[u] \in {"running", "done"}, due'[u] > 0
             PROVE  Settled(u)' \/ (status'[u] = "running" /\ rest'[u] \in NoReturn[handler[u]])
  BY DEF NotLeft, Lasting
<1>1. due[u] \in Int /\ handler' = handler
  BY DEF GenTypeOK, Lasting
<1>2. status[u] \in {"running", "done"} /\ due[u] > 0 =>
          Settled(u) \/ (status[u] = "running" /\ rest[u] \in NoReturn[handler[u]])
  BY DEF NotLeft
<1>3. status[u] = "running" => /\ handler[u] \in DOMAIN Programs
                               /\ rest[u] \in Ways[handler[u]]
  BY DEF OnItsWay
<1>4. handler[u] \in DOMAIN Programs => DeliveryRule(handler[u])
  BY HandlersAssumption
<1>5. CASE Stays(u)
  <2>1. /\ due'[u] = due[u] /\ rest'[u] = rest[u]
        /\ generated'[u] = generated[u] /\ answered'[u] = answered[u]
        /\ status[u] \in {"running", "done"}
        /\ status'[u] = "running" => status[u] = "running"
        /\ status'[u] = "done" => status[u] = "done" \/ rest[u] = <<>>
    BY <1>5 DEF Stays
  <2>2. Settled(u) => Settled(u)'
    BY <1>1, <2>1 DEF Settled
  <2>3. status[u] = "running" /\ rest[u] \in NoReturn[handler[u]] => rest[u] # <<>>
    BY <1>3, <1>4 DEF DeliveryRule
  <2> QED
    BY <1>2, <2>1, <2>2, <2>3
<1>6. CASE Starts(u)
  BY <1>6 DEF Starts
<1>7. CASE Walks(u)
  <2>1. /\ due'[u] = due[u] /\ status[u] = "running" /\ status'[u] = "running"
        /\ Op(rest[u]) # "raise"
        /\ generated[u] => generated'[u]
        /\ answered[u] => answered'[u]
    BY <1>7 DEF Walks, Walking
  <2>2. Settled(u) => Settled(u)'
    BY <1>1, <2>1 DEF Settled
  <2>3. CASE rest[u] \in NoReturn[handler[u]]
    <3>1. /\ Wrong(rest[u]) \subseteq NoReturn[handler[u]]
          /\ \/ Op(rest[u]) \in {"reply", "giveback"}
             \/ Op(rest[u]) = "call" /\ handler[u] \in LoseAnswer
             \/ Tail(rest[u]) \in NoReturn[handler[u]]
      BY <1>3, <1>4, <2>1, <2>3 DEF DeliveryRule
    <3>2. CASE rest'[u] \in Wrong(rest[u])
      BY <2>1, <3>1, <3>2
    <3>3. CASE rest'[u] \notin Wrong(rest[u])
      BY <1>1, <1>7, <2>1, <3>1, <3>3 DEF Walks, Settled
    <3> QED
      BY <3>2, <3>3
  <2> QED
    BY <1>2, <2>1, <2>2, <2>3
<1>8. CASE Buys(u)
  <2>1. /\ status[u] = "running" /\ status'[u] = "running" /\ rest[u] # <<>>
        /\ Op(rest[u]) = "spend" /\ rest'[u] = Tail(rest[u])
    BY <1>8 DEF Buys, Walking
  <2>2. Tail(rest[u]) \in NoReturn[handler[u]]
    BY <1>3, <1>4, <2>1 DEF DeliveryRule
  <2> QED
    BY <2>1, <2>2
<1>9. CASE IsRepaid(u)
  <2>1. CASE due[u] > 0
    <3>1. CreditsDue(u) /\ due[u] <= 1
      BY <2>1 DEF Billed, CreditsDue
    <3> QED
      BY <1>1, <1>9, <3>1 DEF IsRepaid
  <2>2. CASE ~(due[u] > 0)
    BY <1>1, <1>9, <2>2 DEF IsRepaid
  <2> QED
    BY <2>1, <2>2
<1> QED
  BY <1>5, <1>6, <1>7, <1>8, <1>9 DEF Goes

LEMMA TakingStep ==
    ASSUME GenTypeOK, OnItsWay, Billed, Taking, Lasting, \A w \in Updates : Goes(w)
    PROVE  Taking'
<1> SUFFICES ASSUME NEW u \in Updates, handler[u] \in Takers
             PROVE  /\ net'[u] <= 1
                    /\ pending' => net'[u] <= 0
                    /\ status'[u] = "running" /\ rest'[u] \notin NoSpend[handler[u]] =>
                        /\ Op(rest'[u]) = "take" \/ net'[u] <= 0
                        /\ Op(rest'[u]) \in {"take", "drop"} \/ ~pending'
  BY DEF Taking, Lasting, Op
<1>1. net[u] \in Int /\ (pending' => pending)
  BY DEF GenTypeOK, Lasting
<1>2. /\ net[u] <= 1
      /\ pending => net[u] <= 0
      /\ status[u] = "running" /\ rest[u] \notin NoSpend[handler[u]] =>
          /\ Op(rest[u]) = "take" \/ net[u] <= 0
          /\ Op(rest[u]) \in {"take", "drop"} \/ ~pending
  BY DEF Taking
<1>3. status[u] = "running" => /\ handler[u] \in DOMAIN Programs
                               /\ rest[u] \in Ways[handler[u]]
  BY DEF OnItsWay
<1>4. handler[u] \in DOMAIN Programs => TakeRule(handler[u])
  BY HandlersAssumption
<1>5. CASE Stays(u)
  BY <1>1, <1>2, <1>5 DEF Stays
<1>6. CASE Starts(u)
  <2>1. rest'[u] \notin NoSpend[handler[u]] => Op(rest'[u]) = "take"
    BY <1>4, <1>6 DEF Starts, TakeRule
  <2> QED
    BY <1>1, <1>2, <1>6, <2>1 DEF Starts
<1>7. ASSUME Walking(u)
      PROVE  /\ status[u] = "running" /\ rest[u] # <<>> /\ handler[u] \in DOMAIN Programs
             /\ Onward(rest[u]) = {Tail(rest[u])} \cup Wrong(rest[u])
             /\ rest[u] \in NoSpend[handler[u]] =>
                  Op(rest[u]) # "spend" /\ Onward(rest[u]) \subseteq NoSpend[handler[u]]
             /\ rest[u] \notin NoSpend[handler[u]] =>
                  /\ Op(rest[u]) = "take" =>
                      /\ Head(rest[u]).fails["gone"] \in NoSpend[handler[u]]
                      /\ Tail(rest[u]) \notin NoSpend[handler[u]] => Op(Tail(rest[u])) = "drop"
                  /\ Op(rest[u]) = "drop" => Wrong(rest[u]) \subseteq NoSpend[handler[u]]
                  /\ Op(rest[u]) = "spend" => Onward(rest[u]) \subseteq NoSpend[handler[u]]
                  /\ Op(rest[u]) # "take" =>
                      \A q \in Onward(rest[u]) \ NoSpend[handler[u]] : Op(q) \notin {"take", "drop"}
  <2>1. status[u] = "running" /\ rest[u] # <<>> /\ Op(rest[u]) # "raise"
    BY <1>7 DEF Walking
  <2>2. Onward(rest[u]) = {Tail(rest[u])} \cup Wrong(rest[u])
    BY <2>1 DEF Onward
  <2>3. TakeRule(handler[u]) /\ rest[u] \in Ways[handler[u]]
    BY <1>3, <1>4, <2>1
  <2>4. rest[u] \in NoSpend[handler[u]] =>
          Op(rest[u]) # "spend" /\ Onward(rest[u]) \subseteq NoSpend[handler[u]]
    BY <2>1, <2>3 DEF TakeRule
  <2>5. rest[u] \notin NoSpend[handler[u]] =>
          /\ Op(rest[u]) = "take" =>
              /\ Head(rest[u]).fails["gone"] \in NoSpend[handler[u]]
              /\ Tail(rest[u]) \notin NoSpend[handler[u]] => Op(Tail(rest[u])) = "drop"
          /\ Op(rest[u]) = "drop" => Wrong(rest[u]) \subseteq NoSpend[handler[u]]
          /\ Op(rest[u]) = "spend" => Onward(rest[u]) \subseteq NoSpend[handler[u]]
          /\ Op(rest[u]) # "take" =>
              \A q \in Onward(rest[u]) \ NoSpend[handler[u]] : Op(q) \notin {"take", "drop"}
    BY <2>1, <2>3 DEF TakeRule
  <2> QED
    BY <1>3, <2>1, <2>2, <2>4, <2>5
<1>8. CASE Walks(u)
  <2>1. Walking(u) /\ net'[u] = net[u]
    BY <1>8 DEF Walks
  <2>2. rest'[u] \in Onward(rest[u])
    BY <1>7, <1>8, <2>1 DEF Walks
  <2>3. CASE rest[u] \in NoSpend[handler[u]]
    BY <1>1, <1>2, <1>7, <2>1, <2>2, <2>3
  <2>4. CASE rest[u] \notin NoSpend[handler[u]] /\ Op(rest[u]) = "take"
    BY <1>1, <1>2, <1>7, <1>8, <2>1, <2>4 DEF Walks
  <2>5. CASE rest[u] \notin NoSpend[handler[u]] /\ Op(rest[u]) = "drop"
    BY <1>1, <1>2, <1>7, <1>8, <2>1, <2>2, <2>5 DEF Walks
  <2>6. CASE rest[u] \notin NoSpend[handler[u]] /\ Op(rest[u]) \notin {"take", "drop"}
    BY <1>1, <1>2, <1>7, <2>1, <2>2, <2>6
  <2> QED
    BY <2>3, <2>4, <2>5, <2>6
<1>9. CASE Buys(u)
  <2>1. /\ Walking(u) /\ Op(rest[u]) = "spend" /\ rest'[u] = Tail(rest[u])
        /\ net'[u] <= net[u] + 1
    BY <1>1, <1>9 DEF Buys
  <2>2. net'[u] \in Int
    BY <1>1, <1>9 DEF Buys
  <2>3. rest[u] \notin NoSpend[handler[u]] /\ rest'[u] \in NoSpend[handler[u]]
    BY <1>7, <2>1
  <2>4. net[u] <= 0 /\ ~pending
    BY <1>2, <1>7, <2>1, <2>3
  <2>5. net'[u] <= 1 /\ ~pending'
    BY <1>1, <2>1, <2>2, <2>4
  <2> QED
    BY <2>3, <2>5
<1>10. CASE IsRepaid(u)
  <2>1. Walking(u) /\ Op(rest[u]) = "giveback" /\ rest'[u] = Tail(rest[u])
    BY <1>10 DEF IsRepaid
  <2>2. net'[u] \in Int /\ net'[u] <= net[u]
    BY <1>1, <1>10 DEF IsRepaid
  <2>3. net'[u] <= 1 /\ (pending' => net'[u] <= 0)
    BY <1>1, <1>2, <2>2
  <2>4. ASSUME rest'[u] \notin NoSpend[handler[u]]
        PROVE  Op(rest'[u]) \notin {"take", "drop"} /\ net[u] <= 0 /\ ~pending
    <3>1. rest'[u] \in Onward(rest[u]) /\ rest[u] \notin NoSpend[handler[u]]
      BY <1>7, <2>1, <2>4
    <3>2. Op(rest'[u]) \notin {"take", "drop"}
      BY <1>7, <2>1, <2>4, <3>1
    <3> QED
      BY <1>2, <1>7, <2>1, <3>1, <3>2
  <2>5. rest'[u] \notin NoSpend[handler[u]] => net'[u] <= 0 /\ ~pending'
    BY <1>1, <2>2, <2>4
  <2> QED
    BY <2>3, <2>5
<1> QED
  BY <1>5, <1>6, <1>8, <1>9, <1>10 DEF Goes

-----------------------------------------------------------------------------
(* The cooldowns of the heavy features                                     *)

\* A cooldown of an update's own is behind a purchase that is still due, or its
\* handler is about to raise.
Repeatable ==
    \A u \in Updates : \A b \in HeavyBuckets :
        /\ handler[u] \in Heavy[b]
        /\ status[u] \in {"running", "done"}
        /\ spend[u] = "charged" /\ u \notin blind /\ cool[b] = u
        => \/ reserved[u] = b /\ due[u] = 1
           \/ status[u] = "running" /\ rest[u] # <<>> /\ Op(rest[u]) = "raise"

\* Who moves and nobody else can set its own name under a cooldown.
LEMMA CoolsItself ==
    ASSUME GenTypeOK, [GenNext]_genVars, NEW w \in Updates, NEW b \in HeavyBuckets,
           cool'[b] = w, ~SpendOk(w), ~SpendRefused(w), ~SpendRaises(w)
    PROVE  cool[b] = w
<1>1. CASE cool' = cool
  BY <1>1
<1>2. ASSUME NEW u \in Updates, u # w, SpendOk(u) \/ SpendRefused(u) \/ SpendRaises(u)
      PROVE  cool[b] = w
  BY <1>2 DEF SpendOk, SpendRefused, SpendRaises, GenTypeOK
<1>3. ASSUME NEW u \in Updates, GiveBackOk(u)
      PROVE  cool[b] = w
  BY <1>3, GenerationAssumption DEF GiveBackOk
<1>4. ASSUME NEW c \in HeavyBuckets, CooldownEnds(c)
      PROVE  cool[b] = w
  BY <1>4, GenerationAssumption DEF CooldownEnds, GenTypeOK
<1>5. ASSUME NEW u \in Updates,
             \/ Arrive(u) \/ Return(u) \/ RunAgain(u) \/ RateRefused(u) \/ Unhandled(u)
             \/ Acquire(u) \/ NotAcquired(u) \/ Pass(u) \/ Fail(u)
             \/ TakePending(u) \/ DropPending(u) \/ SpendBlind(u) \/ GiveBackBlind(u)
             \/ CallOk(u) \/ ReplyOk(u)
      PROVE  cool' = cool
  BY <1>5 DEF Arrive, Return, RunAgain, RateRefused, Unhandled, Acquire, NotAcquired, Pass,
              Fail, TakePending, DropPending, SpendBlind, GiveBackBlind, CallOk, ReplyOk
<1>6. ASSUME LockExpires \/ BotDies \/ UNCHANGED genVars
      PROVE  cool' = cool
  BY <1>6 DEF LockExpires, BotDies, genVars
<1> QED
  BY <1>1, <1>2, <1>3, <1>4, <1>5, <1>6 DEF GenNext

\* A purchase of a heavy handler is of its own bucket.
LEMMA HeavyOps ==
    ASSUME OnItsWay, NEW u \in Updates, NEW b \in HeavyBuckets, handler[u] \in Heavy[b],
           status[u] = "running", rest[u] # <<>>
    PROVE  /\ Op(rest[u]) = "spend" =>
                /\ Now(u).arg = b
                /\ Now(u).fails["exc"] # <<>> /\ Op(Now(u).fails["exc"]) = "raise"
           /\ Op(rest[u]) = "giveback" => Now(u).arg \in {"refund", "guard"}
<1>1. handler[u] \in DOMAIN Programs /\ rest[u] \in Ways[handler[u]]
  BY DEF OnItsWay
<1>2. HeavyRule(handler[u], b)
  BY <1>1, HandlersAssumption
<1> QED
  BY <1>1, <1>2 DEF HeavyRule, Now, Arg

LEMMA RepeatableStep ==
    ASSUME GenTypeOK, OnItsWay, Billed, Repeatable, Lasting, [GenNext]_genVars,
           \A w \in Updates : Goes(w)
    PROVE  Repeatable'
<1> SUFFICES ASSUME NEW w \in Updates, NEW b \in HeavyBuckets,
                    handler[w] \in Heavy[b], status'[w] \in {"running", "done"},
                    spend'[w] = "charged", w \notin blind', cool'[b] = w
             PROVE  \/ reserved'[w] = b /\ due'[w] = 1
                    \/ status'[w] = "running" /\ rest'[w] # <<>> /\ Op(rest'[w]) = "raise"
  BY DEF Repeatable, Lasting, Op
<1>1. w \notin blind
  BY DEF Lasting
<1>2. /\ status[w] \in {"running", "done"} /\ spend[w] = "charged" /\ cool[b] = w
      => \/ reserved[w] = b /\ due[w] = 1
         \/ status[w] = "running" /\ rest[w] # <<>> /\ Op(rest[w]) = "raise"
  BY <1>1 DEF Repeatable
<1>3. CASE SpendOk(w)
  <2>1. At(w, "spend") /\ Charged(w)
    BY <1>3 DEF SpendOk
  <2>2. status[w] = "running" /\ rest[w] # <<>> /\ Op(rest[w]) = "spend"
    BY <2>1, NowOp
  <2>3. kind = "paid" /\ due'[w] = 1
    BY <2>1 DEF Charged, GenTypeOK
  <2>4. Now(w).arg = b
    BY <2>2, HeavyOps
  <2>5. reserved'[w] = b
    BY <1>3, <2>3, <2>4 DEF SpendOk, Cools, GenTypeOK
  <2> QED
    BY <2>3, <2>5
<1>4. CASE SpendRaises(w)
  <2>1. At(w, "spend") /\ rest' = [rest EXCEPT ![w] = Now(w).fails["exc"]] /\ status' = status
    BY <1>4 DEF SpendRaises, GoWrong
  <2>2. status[w] = "running" /\ rest[w] # <<>> /\ Op(rest[w]) = "spend"
    BY <2>1, NowOp
  <2>3. Now(w).fails["exc"] # <<>> /\ Op(Now(w).fails["exc"]) = "raise"
    BY <2>2, HeavyOps
  <2>4. rest'[w] = Now(w).fails["exc"]
    BY <2>1 DEF OnItsWay
  <2> QED
    BY <2>1, <2>2, <2>3, <2>4
<1>5. CASE SpendRefused(w)
  <2>1. At(w, "spend") /\ UNCHANGED <<status, spend, reserved, due>>
    BY <1>5 DEF SpendRefused, books
  <2>2. status[w] = "running" /\ rest[w] # <<>> /\ Op(rest[w]) = "spend"
    BY <2>1, NowOp
  <2>3. cool' = cool
    BY <1>5, <2>1 DEF SpendRefused, Billed
  <2> QED
    BY <1>2, <2>1, <2>2, <2>3
<1>6. CASE ~SpendOk(w) /\ ~SpendRaises(w) /\ ~SpendRefused(w)
  <2>1. cool[b] = w
    BY <1>6, CoolsItself
  <2>2. CASE Stays(w)
    BY <1>2, <2>1, <2>2 DEF Stays
  <2>3. CASE Starts(w)
    BY <2>3 DEF Starts
  <2>4. CASE Walks(w)
    BY <1>2, <2>1, <2>4 DEF Walks, Walking
  <2>5. CASE \E u \in Updates : SpendBlind(u) \/ GiveBackOk(u) \/ GiveBackBlind(u)
    <3>1. PICK u \in Updates : SpendBlind(u) \/ GiveBackOk(u) \/ GiveBackBlind(u)
      BY <2>5
    <3>2. CASE u # w
      BY <2>2, <3>1, <3>2, BookMoves
    <3>3. CASE u = w /\ SpendBlind(w)
      BY <3>3 DEF SpendBlind, Blindly
    <3>4. CASE u = w /\ GiveBackOk(w)
      <4>1. At(w, "giveback") /\ spend[w] = "charged"
        BY <3>4 DEF GiveBackOk
      <4>2. status[w] = "running" /\ rest[w] # <<>> /\ Op(rest[w]) = "giveback"
        BY <4>1, NowOp
      <4>3. PolicyReleased(w)
        BY <4>1, <4>2, HeavyOps DEF PolicyReleased
      <4>4. reserved[w] = b
        BY <1>2, <2>1, <4>1, <4>2
      <4>5. cool'[b] = NoUpdate
        BY <3>4, <4>3, <4>4 DEF GiveBackOk
      <4> QED
        BY <4>5, GenerationAssumption
    <3>5. CASE u = w /\ GiveBackBlind(w)
      <4>1. At(w, "giveback") /\ w \in blind'
        BY <3>5 DEF GiveBackBlind, Blindly
      <4> QED
        BY <4>1
    <3> QED
      BY <3>1, <3>2, <3>3, <3>4, <3>5
  <2>6. CASE ~\E u \in Updates : SpendBlind(u) \/ GiveBackOk(u) \/ GiveBackBlind(u)
    <3>1. ASSUME NEW u \in Updates, SpendOk(u)
          PROVE  Stays(w)
      BY <1>6, <3>1, BookMoves
    <3>2. ASSUME NEW u \in Updates, Arrive(u) \/ RunAgain(u)
          PROVE  Stays(w) \/ Starts(w)
      BY <3>2, StartMoves
    <3>3. ASSUME NEW u \in Updates,
                 \/ Acquire(u) \/ NotAcquired(u) \/ Pass(u) \/ Fail(u)
                 \/ TakePending(u) \/ DropPending(u)
                 \/ SpendRefused(u) \/ SpendRaises(u) \/ CallOk(u) \/ ReplyOk(u)
          PROVE  Stays(w) \/ Walks(w)
      BY <3>3, WalkMoves
    <3>4. ASSUME \/ \E u \in Updates : Return(u) \/ RateRefused(u) \/ Unhandled(u)
                 \/ LockExpires \/ BotDies \/ \E c \in HeavyBuckets : CooldownEnds(c)
                 \/ UNCHANGED genVars
          PROVE  Stays(w)
      BY <3>4, EndMoves
    <3> QED
      BY <2>2, <2>3, <2>4, <2>6, <3>1, <3>2, <3>3, <3>4 DEF GenNext
  <2> QED
    BY <2>5, <2>6
<1> QED
  BY <1>3, <1>4, <1>5, <1>6

-----------------------------------------------------------------------------
(* Two requests for a heavy feature                                        *)

Both(u, v) == net[u] + (IF u = v THEN 0 ELSE net[v])
\* The others that would delete the cooldown with their refund.
Reserving(b, u, v) == {w \in Updates \ {u, v} : reserved[w] = b}
Cooled(b) == IF cool[b] # NoUpdate THEN 1 ELSE 0

\* What two requests have paid is covered by the cooldown, by those that have run
\* out, and by the times that Redis did not answer them; whoever can delete the
\* cooldown has to be covered as well.
Covered(b, u, v) ==
    Both(u, v) + Cardinality(Reserving(b, u, v))
        <= Cooled(b) + coolings + Cardinality(blind \cap {u, v})

HeavyBound ==
    kind = "paid" =>
        /\ \A u \in Updates : reserved[u] # "none" => spend[u] = "charged"
        /\ \A b \in HeavyBuckets : \A u, v \in {w \in Updates : handler[w] \in Heavy[b]} :
              Covered(b, u, v)

-----------------------------------------------------------------------------

LEMMA BoundTypes ==
    ASSUME GenTypeOK, NEW b \in HeavyBuckets, NEW u \in Updates, NEW v \in Updates
    PROVE  /\ Both(u, v) \in Int
           /\ Reserving(b, u, v) \in SUBSET Updates
           /\ Cardinality(Reserving(b, u, v)) \in Nat
           /\ Cooled(b) \in 0..1
           /\ coolings \in Nat
           /\ blind \cap {u, v} \in SUBSET Updates
           /\ Cardinality(blind \cap {u, v}) \in Nat
<1>1. Both(u, v) \in Int
  BY DEF GenTypeOK, Both
<1>2. Reserving(b, u, v) \in SUBSET Updates /\ blind \cap {u, v} \in SUBSET Updates
  BY DEF Reserving
<1>3. coolings \in Nat
  BY GenerationAssumption DEF GenTypeOK
<1>4. Cooled(b) \in 0..1
  BY DEF Cooled
<1> QED
  BY <1>1, <1>2, <1>3, <1>4, Finite

LEMMA BoundTypesNext ==
    ASSUME GenTypeOK', NEW b \in HeavyBuckets, NEW u \in Updates, NEW v \in Updates
    PROVE  /\ Both(u, v)' \in Int
           /\ Reserving(b, u, v)' \in SUBSET Updates
           /\ Cardinality(Reserving(b, u, v)') \in Nat
           /\ Cooled(b)' \in 0..1
           /\ coolings' \in Nat
           /\ (blind \cap {u, v})' \in SUBSET Updates
           /\ Cardinality((blind \cap {u, v})') \in Nat
<1>1. Both(u, v)' \in Int
  BY DEF GenTypeOK, Both
<1>2. Reserving(b, u, v)' \in SUBSET Updates /\ (blind \cap {u, v})' \in SUBSET Updates
  BY DEF Reserving
<1>3. coolings' \in Nat
  BY GenerationAssumption DEF GenTypeOK
<1>4. Cooled(b)' \in 0..1
  BY DEF Cooled
<1> QED
  BY <1>1, <1>2, <1>3, <1>4, Finite

\* One update moves: what that does to the sum and to those who could delete the
\* cooldown.
LEMMA OneReserves ==
    ASSUME GenTypeOK, GenTypeOK', NEW w \in Updates, NEW b \in HeavyBuckets,
           NEW u \in Updates, NEW v \in Updates,
           \A x \in Updates \ {w} : net'[x] = net[x] /\ reserved'[x] = reserved[x]
    PROVE  /\ net'[w] = net[w] \/ w \notin {u, v} => Both(u, v)' = Both(u, v)
           /\ w \in {u, v} => Both(u, v)' = Both(u, v) + (net'[w] - net[w])
           /\ \/ reserved'[w] # b \/ reserved'[w] = reserved[w] \/ w \in {u, v}
              => Cardinality(Reserving(b, u, v)') <= Cardinality(Reserving(b, u, v))
           /\ Cardinality(Reserving(b, u, v)') <= Cardinality(Reserving(b, u, v)) + 1
           /\ w \notin {u, v} /\ reserved[w] = b /\ reserved'[w] # b
              => Cardinality(Reserving(b, u, v)') = Cardinality(Reserving(b, u, v)) - 1
<1>1. net'[w] = net[w] \/ w \notin {u, v} => Both(u, v)' = Both(u, v)
  BY DEF Both, GenTypeOK
<1>2. w \in {u, v} => Both(u, v)' = Both(u, v) + (net'[w] - net[w])
  BY DEF Both, GenTypeOK
<1>3. PICK S : S = Reserving(b, u, v)
  OBVIOUS
<1>4. PICK T : T = Reserving(b, u, v)'
  OBVIOUS
<1>5. /\ S \in SUBSET Updates /\ T \in SUBSET Updates /\ IsFiniteSet(S)
      /\ Cardinality(S) \in Nat /\ Cardinality(T) \in Nat
  BY <1>3, <1>4, BoundTypes, BoundTypesNext, Finite
<1>6. T \subseteq S \cup {w}
  BY <1>3, <1>4 DEF Reserving
<1>7. T \subseteq S => Cardinality(T) <= Cardinality(S)
  BY <1>5, Finite
<1>8. reserved'[w] # b \/ reserved'[w] = reserved[w] \/ w \in {u, v} => T \subseteq S
  BY <1>3, <1>4 DEF Reserving
<1>9. Cardinality(T) <= Cardinality(S) + 1
  <2>1. S \cup {w} \in SUBSET Updates
    BY <1>5
  <2>2. Cardinality(T) <= Cardinality(S \cup {w})
    BY <1>6, <2>1, Finite
  <2>3. Cardinality(S \cup {w}) = Cardinality(S) \/ Cardinality(S \cup {w}) = Cardinality(S) + 1
    BY <1>5, FS_AddElement
  <2> QED
    BY <1>5, <2>2, <2>3
<1>10. ASSUME w \notin {u, v}, reserved[w] = b, reserved'[w] # b
       PROVE  Cardinality(T) = Cardinality(S) - 1
  <2>1. w \in S /\ T = S \ {w}
    BY <1>3, <1>4, <1>10 DEF Reserving
  <2> QED
    BY <1>5, <2>1, FS_RemoveElement
<1> QED
  BY <1>1, <1>2, <1>3, <1>4, <1>7, <1>8, <1>9, <1>10

LEMMA OneBlind ==
    ASSUME GenTypeOK, GenTypeOK', NEW w \in Updates, NEW u \in Updates, NEW v \in Updates,
           blind \subseteq blind'
    PROVE  /\ Cardinality(blind \cap {u, v}) <= Cardinality((blind \cap {u, v})')
           /\ w \in {u, v} /\ w \notin blind /\ w \in blind' =>
                Cardinality(blind \cap {u, v}) + 1 <= Cardinality((blind \cap {u, v})')
<1>1. PICK S : S = blind \cap {u, v}
  OBVIOUS
<1>2. PICK T : T = (blind \cap {u, v})'
  OBVIOUS
<1>3. S \in SUBSET Updates /\ T \in SUBSET Updates /\ S \subseteq T
  BY <1>1, <1>2 DEF GenTypeOK
<1>4. Cardinality(S) <= Cardinality(T) /\ IsFiniteSet(S) /\ Cardinality(S) \in Nat
  BY <1>3, Finite
<1>5. ASSUME w \in {u, v}, w \notin blind, w \in blind'
      PROVE  Cardinality(S) + 1 <= Cardinality(T)
  <2>1. w \notin S /\ S \cup {w} \subseteq T
    BY <1>1, <1>2, <1>3, <1>5
  <2>2. Cardinality(S \cup {w}) = Cardinality(S) + 1
    BY <1>4, <2>1, FS_AddElement
  <2>3. Cardinality(S \cup {w}) <= Cardinality(T)
    BY <1>3, <2>1, Finite
  <2> QED
    BY <2>2, <2>3
<1> QED
  BY <1>1, <1>2, <1>4, <1>5

\* A purchase by one of the two sets the cooldown, or finds no Redis; a purchase
\* by another that can delete the cooldown has set it.
LEMMA SpendCovered ==
    ASSUME GenTypeOK, GenTypeOK', OnItsWay, kind = "paid", NEW w \in Updates,
           SpendOk(w) \/ SpendBlind(w), NEW b \in HeavyBuckets,
           NEW u \in Updates, NEW v \in Updates, handler[u] \in Heavy[b], handler[v] \in Heavy[b],
           Covered(b, u, v)
    PROVE  Covered(b, u, v)'
<1>1. At(w, "spend") /\ Charged(w) /\ coolings' = coolings /\ blind \subseteq blind'
  BY DEF SpendOk, SpendBlind, Blindly
<1>2. status[w] = "running" /\ rest[w] # <<>> /\ Op(rest[w]) = "spend"
  BY <1>1, NowOp
<1>3. net'[w] = net[w] + 1
  BY <1>1 DEF Charged, GenTypeOK
<1>4. \A x \in Updates \ {w} : net'[x] = net[x] /\ reserved'[x] = reserved[x]
  BY <1>1 DEF SpendOk, SpendBlind, Charged, GenTypeOK
<1>5. net[w] \in Int
  BY DEF GenTypeOK
<1>6. /\ w \notin {u, v} => Both(u, v)' = Both(u, v)
      /\ w \in {u, v} => Both(u, v)' = Both(u, v) + 1
      /\ reserved'[w] # b \/ w \in {u, v}
         => Cardinality(Reserving(b, u, v)') <= Cardinality(Reserving(b, u, v))
      /\ Cardinality(Reserving(b, u, v)') <= Cardinality(Reserving(b, u, v)) + 1
  BY <1>3, <1>4, <1>5, OneReserves
<1>7. Cardinality(blind \cap {u, v}) <= Cardinality((blind \cap {u, v})')
  BY <1>1, OneBlind
<1>8. CASE SpendOk(w)
  <2>1. w \in {u, v} => Now(w).arg = b
    BY <1>2, HeavyOps
  <2>2. ASSUME Now(w).arg = b
        PROVE  Cooled(b)' = Cooled(b) + 1
    <3>1. Cools(w) /\ cool[b] = NoUpdate
      BY <1>8, <2>2 DEF SpendOk, Cools, Cooling
    <3>2. cool'[b] = w
      BY <1>8, <2>2, <3>1 DEF SpendOk, GenTypeOK
    <3> QED
      BY <3>1, <3>2, GenerationAssumption DEF Cooled
  <2>3. ASSUME Now(w).arg # b
        PROVE  Cooled(b)' = Cooled(b) /\ reserved'[w] # b
    <3>1. cool'[b] = cool[b]
      BY <1>8, <2>3 DEF SpendOk, GenTypeOK
    <3>2. reserved'[w] # b
      BY <1>8, <2>3 DEF SpendOk, GenTypeOK, HeavyBuckets
    <3> QED
      BY <3>1, <3>2 DEF Cooled
  <2>4. CASE Now(w).arg = b
    <3>1. Cooled(b)' = Cooled(b) + 1
      BY <2>2, <2>4
    <3> QED
      BY <1>1, <1>6, <1>7, <3>1, BoundTypes, BoundTypesNext DEF Covered
  <2>5. CASE Now(w).arg # b
    <3>1. w \notin {u, v} /\ Cooled(b)' = Cooled(b) /\ reserved'[w] # b
      BY <2>1, <2>3, <2>5
    <3> QED
      BY <1>1, <1>6, <1>7, <3>1, BoundTypes, BoundTypesNext DEF Covered
  <2> QED
    BY <2>4, <2>5
<1>9. CASE SpendBlind(w)
  <2>1. w \notin blind /\ w \in blind' /\ cool' = cool
    BY <1>9 DEF SpendBlind, Blindly
  <2>2. reserved'[w] # b
    BY <1>9 DEF SpendBlind, GenTypeOK, HeavyBuckets
  <2>3. w \in {u, v} => Cardinality(blind \cap {u, v}) + 1 <= Cardinality((blind \cap {u, v})')
    BY <1>1, <2>1, OneBlind
  <2>4. Cooled(b)' = Cooled(b)
    BY <2>1 DEF Cooled
  <2> QED
    BY <1>1, <1>6, <1>7, <2>2, <2>3, <2>4, BoundTypes, BoundTypesNext DEF Covered
<1> QED
  BY <1>8, <1>9

\* A refund takes back what it uncovers: it deletes a cooldown only for a purchase
\* that was charged.
LEMMA RefundCovered ==
    ASSUME GenTypeOK, GenTypeOK', kind = "paid", NEW w \in Updates,
           reserved[w] # "none" => spend[w] = "charged",
           GiveBackOk(w) \/ GiveBackBlind(w), NEW b \in HeavyBuckets,
           NEW u \in Updates, NEW v \in Updates, Covered(b, u, v)
    PROVE  Covered(b, u, v)'
<1>1. Repaid(w) /\ coolings' = coolings /\ blind \subseteq blind'
  BY DEF GiveBackOk, GiveBackBlind, Blindly
<1>2. /\ net[w] \in Int /\ net'[w] \in Int
      /\ net'[w] <= net[w]
      /\ CreditsDue(w) => net'[w] = net[w] - 1
  BY <1>1 DEF Repaid, GenTypeOK
<1>3. \A x \in Updates \ {w} : net'[x] = net[x] /\ reserved'[x] = reserved[x]
  BY <1>1 DEF GiveBackOk, GiveBackBlind, Repaid, GenTypeOK
<1>4. Cardinality(blind \cap {u, v}) <= Cardinality((blind \cap {u, v})')
  BY <1>1, OneBlind
<1>5. /\ w \notin {u, v} => Both(u, v)' = Both(u, v)
      /\ w \in {u, v} => Both(u, v)' = Both(u, v) + (net'[w] - net[w])
      /\ \/ reserved'[w] # b \/ reserved'[w] = reserved[w] \/ w \in {u, v}
         => Cardinality(Reserving(b, u, v)') <= Cardinality(Reserving(b, u, v))
      /\ w \notin {u, v} /\ reserved[w] = b /\ reserved'[w] # b
         => Cardinality(Reserving(b, u, v)') = Cardinality(Reserving(b, u, v)) - 1
  BY <1>3, OneReserves
<1>6. Both(u, v)' <= Both(u, v)
  <2>1. Both(u, v) \in Int
    BY BoundTypes
  <2>2. CASE w \in {u, v}
    BY <1>2, <1>5, <2>1, <2>2
  <2>3. CASE w \notin {u, v}
    BY <1>5, <2>1, <2>3
  <2> QED
    BY <2>2, <2>3
<1>7. CASE GiveBackOk(w) /\ PolicyReleased(w) /\ reserved[w] = b
  <2>1. CreditsDue(w)
    BY <1>7 DEF CreditsDue, HeavyBuckets
  <2>2. reserved'[w] # b
    BY <1>7 DEF GiveBackOk, GenTypeOK, HeavyBuckets
  <2>3. /\ w \in {u, v} => Both(u, v)' = Both(u, v) - 1
        /\ Cardinality(Reserving(b, u, v)') <= Cardinality(Reserving(b, u, v))
        /\ w \notin {u, v} =>
              Cardinality(Reserving(b, u, v)') = Cardinality(Reserving(b, u, v)) - 1
    <3>1. Both(u, v) \in Int /\ Cardinality(Reserving(b, u, v)) \in Nat
      BY BoundTypes
    <3>2. w \in {u, v} => Both(u, v)' = Both(u, v) - 1
      BY <1>2, <1>5, <2>1, <3>1
    <3>3. /\ Cardinality(Reserving(b, u, v)') <= Cardinality(Reserving(b, u, v))
          /\ w \notin {u, v} =>
                Cardinality(Reserving(b, u, v)') = Cardinality(Reserving(b, u, v)) - 1
      BY <1>5, <1>7, <2>2
    <3> QED
      BY <3>2, <3>3
  <2> QED
    BY <1>1, <1>4, <1>6, <2>3, BoundTypes, BoundTypesNext DEF Covered
<1>8. CASE ~(GiveBackOk(w) /\ PolicyReleased(w) /\ reserved[w] = b)
  <2>1. cool'[b] = cool[b]
    BY <1>8 DEF GiveBackOk, GiveBackBlind
  <2>2. reserved'[w] # b \/ reserved'[w] = reserved[w]
    BY <1>8 DEF GiveBackOk, GiveBackBlind, GenTypeOK, HeavyBuckets
  <2>3. Cardinality(Reserving(b, u, v)') <= Cardinality(Reserving(b, u, v))
    BY <1>5, <2>2
  <2>4. Cooled(b)' = Cooled(b)
    BY <2>1 DEF Cooled
  <2> QED
    BY <1>1, <1>4, <1>6, <2>3, <2>4, BoundTypes, BoundTypesNext DEF Covered
<1> QED
  BY <1>7, <1>8

\* All other steps leave what is paid alone, and uncover nothing.
LEMMA RestCovered ==
    ASSUME GenTypeOK, GenTypeOK', [GenNext]_genVars,
           ~\E w \in Updates :
               SpendOk(w) \/ SpendBlind(w) \/ GiveBackOk(w) \/ GiveBackBlind(w),
           NEW b \in HeavyBuckets, NEW u \in Updates, NEW v \in Updates, Covered(b, u, v)
    PROVE  Covered(b, u, v)'
<1>1. net' = net /\ blind' = blind
  BY DEF GenNext, Arrive, Return, RunAgain, RateRefused, Unhandled, Acquire, NotAcquired,
         Pass, Fail, TakePending, DropPending, SpendRefused, SpendRaises, CallOk, ReplyOk,
         LockExpires, CooldownEnds, BotDies, genVars, books
<1>2. Both(u, v)' = Both(u, v)
  BY <1>1 DEF Both
<1>3. Cardinality((blind \cap {u, v})') = Cardinality(blind \cap {u, v})
  BY <1>1
<1>4. Cardinality(Reserving(b, u, v)') <= Cardinality(Reserving(b, u, v))
  <2>1. ASSUME NEW w \in Updates, RunAgain(w)
        PROVE  Cardinality(Reserving(b, u, v)') <= Cardinality(Reserving(b, u, v))
    <3>1. reserved'[w] # b /\ \A x \in Updates \ {w} : reserved'[x] = reserved[x]
      BY <2>1 DEF RunAgain, GenTypeOK, HeavyBuckets
    <3> QED
      BY <1>1, <3>1, OneReserves
  <2>2. CASE ~\E w \in Updates : RunAgain(w)
    <3>1. reserved' = reserved
      BY <2>2 DEF GenNext, Arrive, Return, RateRefused, Unhandled, Acquire, NotAcquired,
             Pass, Fail, TakePending, DropPending, SpendRefused, SpendRaises, CallOk, ReplyOk,
             LockExpires, CooldownEnds, BotDies, genVars, books
    <3>2. Reserving(b, u, v)' = Reserving(b, u, v)
      BY <3>1 DEF Reserving
    <3>3. Cardinality(Reserving(b, u, v)) \in Nat
      BY BoundTypes
    <3> QED
      BY <3>2, <3>3
  <2> QED
    BY <2>1, <2>2
<1>5. /\ Cooled(b) \in 0..1 /\ coolings \in Nat
      /\ Cooled(b)' \in 0..1 /\ coolings' \in Nat
  BY BoundTypes, BoundTypesNext
<1>6. Cooled(b) + coolings <= Cooled(b)' + coolings'
  <2>1. ASSUME NEW c \in HeavyBuckets, CooldownEnds(c)
        PROVE  Cooled(b) + coolings <= Cooled(b)' + coolings'
    <3>1. coolings' = coolings + 1
      BY <2>1 DEF CooldownEnds
    <3> QED
      BY <1>5, <3>1
  <2>2. ASSUME NEW w \in Updates, SpendRefused(w) \/ SpendRaises(w)
        PROVE  Cooled(b) <= Cooled(b)' /\ coolings' = coolings
    <3>1. cool'[b] = cool[b] \/ cool'[b] = w
      BY <2>2 DEF SpendRefused, SpendRaises, GenTypeOK
    <3>2. coolings' = coolings
      BY <2>2 DEF SpendRefused, SpendRaises
    <3> QED
      BY <3>1, <3>2, GenerationAssumption DEF Cooled
  <2>3. CASE /\ ~\E c \in HeavyBuckets : CooldownEnds(c)
             /\ ~\E w \in Updates : SpendRefused(w) \/ SpendRaises(w)
    <3>1. cool' = cool /\ coolings' = coolings
      BY <2>3 DEF GenNext, Arrive, Return, RunAgain, RateRefused, Unhandled, Acquire,
             NotAcquired, Pass, Fail, TakePending, DropPending, CallOk, ReplyOk,
             LockExpires, BotDies, genVars
    <3>2. Cooled(b)' = Cooled(b)
      BY <3>1 DEF Cooled
    <3> QED
      BY <1>5, <3>1, <3>2
  <2>4. ASSUME Cooled(b) <= Cooled(b)', coolings' = coolings
        PROVE  Cooled(b) + coolings <= Cooled(b)' + coolings'
    BY <1>5, <2>4
  <2> QED
    BY <2>1, <2>2, <2>3, <2>4
<1> QED
  BY <1>2, <1>3, <1>4, <1>5, <1>6, BoundTypes, BoundTypesNext DEF Covered

LEMMA HeavyStep ==
    ASSUME GenTypeOK, GenTypeOK', OnItsWay, HeavyBound, Lasting, [GenNext]_genVars
    PROVE  HeavyBound'
<1> SUFFICES ASSUME kind = "paid"
             PROVE  /\ \A u \in Updates : reserved'[u] # "none" => spend'[u] = "charged"
                    /\ \A b \in HeavyBuckets :
                          \A u, v \in {w \in Updates : handler[w] \in Heavy[b]} :
                              Covered(b, u, v)'
  BY DEF HeavyBound, Lasting
<1>1. \A u \in Updates : reserved[u] # "none" => spend[u] = "charged"
  BY DEF HeavyBound
<1>2. ASSUME NEW w \in Updates
      PROVE  reserved'[w] # "none" => spend'[w] = "charged"
  <2>1. ASSUME NEW u \in Updates, SpendOk(u) \/ SpendBlind(u)
        PROVE  reserved'[w] # "none" => spend'[w] = "charged"
    BY <1>1, <2>1 DEF SpendOk, SpendBlind, Charged, GenTypeOK
  <2>2. ASSUME NEW u \in Updates, GiveBackOk(u)
        PROVE  reserved'[w] # "none" => spend'[w] = "charged"
    <3>1. spend' = spend /\ (reserved'[w] = reserved[w] \/ reserved'[w] = "none")
      BY <2>2 DEF GiveBackOk, GenTypeOK
    <3> QED
      BY <1>1, <3>1
  <2>3. ASSUME NEW u \in Updates, RunAgain(u)
        PROVE  reserved'[w] # "none" => spend'[w] = "charged"
    BY <1>1, <2>3 DEF RunAgain, GenTypeOK
  <2>4. CASE ~\E u \in Updates : SpendOk(u) \/ SpendBlind(u) \/ GiveBackOk(u) \/ RunAgain(u)
    <3>1. reserved' = reserved /\ spend' = spend
      BY <2>4 DEF GenNext, Arrive, Return, RateRefused, Unhandled, Acquire, NotAcquired,
             Pass, Fail, TakePending, DropPending, SpendRefused, SpendRaises, GiveBackBlind,
             CallOk, ReplyOk, LockExpires, CooldownEnds, BotDies, genVars, books
    <3> QED
      BY <1>1, <3>1
  <2> QED
    BY <2>1, <2>2, <2>3, <2>4
<1>3. ASSUME NEW b \in HeavyBuckets, NEW u \in Updates, NEW v \in Updates,
             handler[u] \in Heavy[b], handler[v] \in Heavy[b]
      PROVE  Covered(b, u, v)'
  <2>1. Covered(b, u, v)
    BY <1>3 DEF HeavyBound
  <2> QED
    BY <1>1, <1>3, <2>1, SpendCovered, RefundCovered, RestCovered
<1> QED
  BY <1>2, <1>3

-----------------------------------------------------------------------------
(* The theorems                                                            *)

BooksInv == GenTypeOK /\ OnItsWay /\ Billed /\ Solvent /\ NotLeft /\ Taking /\ Repeatable
                /\ HeavyBound

LEMMA BooksBegin == GenInit => BooksInv
<1> SUFFICES ASSUME GenInit
             PROVE  BooksInv
  OBVIOUS
<1>1. GenTypeOK /\ OnItsWay
  BY TypesBegin, WaysBegin
<1>2. Billed /\ Solvent /\ NotLeft /\ Taking /\ Repeatable
  BY GenerationAssumption DEF GenInit, Billed, Solvent, NotLeft, Taking, Repeatable
<1>3. HeavyBound
  <2>1. \A u \in Updates : reserved[u] = "none"
    BY DEF GenInit
  <2>2. ASSUME NEW b \in HeavyBuckets, NEW u \in Updates, NEW v \in Updates
        PROVE  Covered(b, u, v)
    <3>1. Both(u, v) = 0
      BY DEF GenInit, Both
    <3>2. Reserving(b, u, v) = {}
      BY <2>1 DEF Reserving, HeavyBuckets
    <3>3. Cardinality(Reserving(b, u, v)) = 0
      BY <3>2, FS_EmptySet
    <3> QED
      BY <1>1, <3>1, <3>3, BoundTypes DEF Covered
  <2> QED
    BY <2>1, <2>2 DEF HeavyBound
<1> QED
  BY <1>1, <1>2, <1>3 DEF BooksInv

LEMMA BooksStep == BooksInv /\ [GenNext]_genVars => BooksInv'
<1> SUFFICES ASSUME BooksInv, [GenNext]_genVars
             PROVE  BooksInv'
  OBVIOUS
<1>1. GenTypeOK /\ OnItsWay /\ Billed /\ Solvent /\ NotLeft /\ Taking /\ Repeatable /\ HeavyBound
  BY DEF BooksInv
<1>2. GenTypeOK'
  BY <1>1, TypesStep
<1>3. OnItsWay' /\ Lasting /\ \A w \in Updates : Goes(w)
  BY <1>1, EveryMove
<1>4. Billed' /\ Solvent'
  BY <1>1, <1>3, BilledStep, SolventStep
<1>5. NotLeft' /\ Taking'
  BY <1>1, <1>3, NotLeftStep, TakingStep
<1>6. Repeatable'
  BY <1>1, <1>3, RepeatableStep
<1>7. HeavyBound'
  BY <1>1, <1>2, <1>3, HeavyStep
<1> QED
  BY <1>2, <1>3, <1>4, <1>5, <1>6, <1>7 DEF BooksInv

LEMMA BooksHold == GenSpec => []BooksInv
  BY BooksBegin, BooksStep, PTL DEF GenSpec

\* Whoever is charged gets the answer or the price back, on every way through
\* every handler but the two groups that are named: whatever fails, whoever else
\* is served, and however often the middlewares call the handler.
THEOREM PaidIsServed == GenSpec => []ChargedDelivered
<1>1. BooksInv => ChargedDelivered
  BY DEF BooksInv, NotLeft, Settled, ChargedDelivered
<1> QED
  BY <1>1, BooksHold, PTL

\* No number of failures and repeated calls gives back more than was paid.
THEOREM RefundsAreCovered == GenSpec => []NothingMinted
<1>1. BooksInv => NothingMinted
  <2> SUFFICES ASSUME BooksInv, NEW u \in Updates, handler[u] # "handle_text",
                      kind = "paid" \/ handler[u] \notin Documents
               PROVE  net[u] >= 0
    BY DEF NothingMinted
  <2>1. due[u] \in Int /\ net[u] \in Int
    BY DEF BooksInv, GenTypeOK
  <2>2. 0 <= due[u] /\ due[u] <= net[u]
    BY DEF BooksInv, Solvent
  <2> QED
    BY <2>1, <2>2
<1> QED
  BY <1>1, BooksHold, PTL

\* A pending picture or text is paid for once, by however many taps.
THEOREM TakenIsPaidOnce == GenSpec => []TakenOnce
<1>1. BooksInv => TakenOnce
  BY DEF BooksInv, Taking, TakenOnce
<1> QED
  BY <1>1, BooksHold, PTL

\* The cooldown stands between any two purchases of a heavy feature: each further
\* one needs a cooldown that has run out or a Redis that does not answer.
THEOREM HeavyIsPaidOnce == GenSpec => []HeavyOnce
<1>1. BooksInv => HeavyOnce
  <2> SUFFICES ASSUME BooksInv, NEW b \in HeavyBuckets, NEW u \in Updates, NEW v \in Updates,
                      handler[u] \in Heavy[b], handler[v] \in Heavy[b]
               PROVE  Both(u, v) <= 1 + coolings + Cardinality(blind \cap {u, v})
    BY DEF HeavyOnce, Both
  <2>1. GenTypeOK /\ Billed /\ HeavyBound
    BY DEF BooksInv
  <2>2. CASE kind = "paid"
    <3>1. Covered(b, u, v)
      BY <2>1, <2>2 DEF HeavyBound
    <3> QED
      BY <2>1, <3>1, BoundTypes DEF Covered
  <2>3. CASE kind # "paid"
    <3>1. net[u] <= 0 /\ net[v] <= 0 /\ net[u] \in Int /\ net[v] \in Int
      BY <2>1, <2>3 DEF Billed, GenTypeOK
    <3>2. Both(u, v) <= 0
      BY <3>1 DEF Both
    <3> QED
      BY <2>1, <3>2, BoundTypes
  <2> QED
    BY <2>2, <2>3
<1> QED
  BY <1>1, BooksHold, PTL

\* No way that gives the price of a heavy feature back leaves the cooldown of the
\* failed purchase behind.
THEOREM FailedCanBeRepeated == GenSpec => []RetryAllowed
<1>1. BooksInv => RetryAllowed
  <2> SUFFICES ASSUME BooksInv, NEW u \in Updates, NEW b \in HeavyBuckets,
                      status[u] = "done", spend[u] = "charged", due[u] = 0, u \notin blind,
                      handler[u] \in Heavy[b], cool[b] = u
               PROVE  FALSE
    BY DEF RetryAllowed
  <2> QED
    BY DEF BooksInv, Repeatable
<1> QED
  BY <1>1, BooksHold, PTL

=============================================================================
