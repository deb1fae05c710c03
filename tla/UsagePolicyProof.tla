-------------------------- MODULE UsagePolicyProof --------------------------
(***************************************************************************)
(* Proofs about UsagePolicy, for every number of requests, every daily     *)
(* limit and any number of changes of tier and of expiries.  The counter   *)
(* of the day is bounded by what the requests hold (Ledger below): the one *)
(* thing that makes it forget a request is an increment between another    *)
(* request's DECR and its DELETE, which "raced" counts.                    *)
(***************************************************************************)
EXTENDS UsagePolicy, TLAPS, FiniteSetTheorems

\* What a request knows and holds at the place it has reached.
RequestConsistent(r) ==
    /\ stage[r] \in {"over", "rollCount"} => "daily" \in holds[r]
    /\ stage[r] \in {"new", "cooldown", "count", "overDelete", "rollDelete"}
          => "daily" \notin holds[r]
    /\ outcome[r] = "dead" => stage[r] = "end"
    /\ r \in Served => stage[r] \in {"generate", "end"}
    /\ stage[r] = "count" => seenTier[r] = "free"
    /\ r \notin switched \cup unguarded =>
          /\ stage[r] \in {"cooldown", "count", "entitle"} => seenTier[r] = tier
          /\ stage[r] = "entitle" => (seenTier[r] = "free" <=> "daily" \in holds[r])

Consistent == \A r \in Requests : RequestConsistent(r)

\* The requests that the cap has let through.
Admitted == {r \in Counted : stage[r] # "over" /\ outcome[r] # "dead"}

\* The counter against the requests that hold a use of the day.
Ledger ==
    /\ Deleting # {} => Cardinality(Counted) <= raced
    /\ Cardinality(Counted) <= counter + raced
    /\ CounterExact
    /\ CapUnlessRaced

PolicyInv == PolicyTypeOK /\ Consistent /\ Ledger /\ CountedOrCharged

-----------------------------------------------------------------------------

\* The sets that are counted are finite.
LEMMA FiniteSets ==
    ASSUME PolicyTypeOK, NEW S \in SUBSET Requests
    PROVE  IsFiniteSet(S) /\ Cardinality(S) \in Nat
  BY PolicyAssumption, FS_Subset, FS_CardinalityType

LEMMA Smaller ==
    ASSUME NEW S \in SUBSET Requests, NEW T \in SUBSET S
    PROVE  /\ Cardinality(T) \in Nat /\ Cardinality(S) \in Nat
           /\ Cardinality(T) <= Cardinality(S)
<1>1. IsFiniteSet(S)
  BY PolicyAssumption, FS_Subset
<1>2. IsFiniteSet(T) /\ Cardinality(T) <= Cardinality(S)
  BY <1>1, FS_Subset
<1> QED
  BY <1>1, <1>2, FS_CardinalityType

LEMMA PolicyBegins == PolicyInit => PolicyInv
<1> SUFFICES ASSUME PolicyInit
             PROVE  PolicyInv
  OBVIOUS
<1>1. PolicyTypeOK
  BY PolicyAssumption DEF PolicyInit, PolicyTypeOK, Stages
<1>2. Consistent /\ CountedOrCharged
  BY DEF PolicyInit, Consistent, RequestConsistent, Served, CountedOrCharged
<1>3. Counted = {} /\ Deleting = {}
  BY DEF PolicyInit, Counted, Deleting
<1>4. {r \in Counted : stage[r] # "over" /\ outcome[r] # "dead"} = {}
  BY <1>3
<1>5. Ledger
  BY <1>3, <1>4, FS_EmptySet, PolicyAssumption
     DEF PolicyInit, Ledger, CounterExact, CapUnlessRaced
<1> QED
  BY <1>1, <1>2, <1>5 DEF PolicyInv

\* A step that leaves the counter and what is counted alone, and lets nobody
\* through, keeps the books.
LEMMA QuietLedger ==
    ASSUME PolicyInv, UNCHANGED <<counter, raced>>,
           Counted' = Counted, Deleting' \subseteq Deleting, Admitted' \subseteq Admitted
    PROVE  Ledger'
<1>1. Admitted \in SUBSET Requests /\ raced \in Nat /\ counter \in Int
  BY DEF PolicyInv, PolicyTypeOK, Admitted, Counted
<1>2. /\ Cardinality(Admitted) \in Nat /\ Cardinality(Admitted') \in Nat
      /\ Cardinality(Admitted') <= Cardinality(Admitted)
  BY <1>1, Smaller
<1>3. CapUnlessRaced'
  BY <1>1, <1>2, PolicyAssumption DEF PolicyInv, Ledger, CapUnlessRaced, Admitted
<1> QED
  BY <1>3 DEF PolicyInv, Ledger, CounterExact

\* What a step of one request leaves of the others.
LEMMA Others ==
    ASSUME PolicyInv, NEW r \in Requests,
           \A q \in Requests \ {r} :
              /\ stage'[q] = stage[q] /\ seenTier'[q] = seenTier[q]
              /\ holds'[q] = holds[q] /\ outcome'[q] = outcome[q],
           tier' = tier, switched' = switched, unguarded \subseteq unguarded',
           RequestConsistent(r)',
           r \in (Served \ (switched \cup unguarded))' =>
              (seenTier'[r] # "exempt" => (outcome'[r] = "free" <=> "daily" \in holds'[r]))
    PROVE  Consistent' /\ CountedOrCharged'
<1>1. ASSUME NEW q \in Requests
      PROVE  RequestConsistent(q)'
  <2>1. CASE q = r
    BY <2>1
  <2>2. CASE q # r
    BY <2>2 DEF PolicyInv, Consistent, RequestConsistent, Served
  <2> QED
    BY <2>1, <2>2
<1>2. ASSUME NEW q \in (Served \ (switched \cup unguarded))', seenTier'[q] # "exempt"
      PROVE  outcome'[q] = "free" <=> q \in Counted'
  <2>1. CASE q = r
    BY <1>2, <2>1 DEF Counted
  <2>2. CASE q # r
    BY <1>2, <2>2 DEF PolicyInv, CountedOrCharged, Served, Counted
  <2> QED
    BY <2>1, <2>2
<1> QED
  BY <1>1, <1>2 DEF Consistent, CountedOrCharged

-----------------------------------------------------------------------------
(* Steps that leave the counter alone                                      *)

QuietStep(r) ==
    \/ EnforceRead(r) \/ EnforceWithoutRedis(r) \/ CooldownStart(r) \/ CooldownRefuse(r)
    \/ EntitledSpend(r) \/ ChargedSpend(r) \/ RefusedSpend(r)
    \/ Keep(r) \/ FailAndRollback(r) \/ RollCooldown(r) \/ RollWithoutRedis(r)
    \/ PolicyCrash(r)

LEMMA QuietSteps ==
    ASSUME PolicyInv, NEW r \in Requests, QuietStep(r)
    PROVE  PolicyInv'
<1>1. /\ PolicyTypeOK /\ RequestConsistent(r)
      /\ r \in Served \ (switched \cup unguarded) =>
            (seenTier[r] # "exempt" => (outcome[r] = "free" <=> "daily" \in holds[r]))
  BY DEF PolicyInv, Consistent, CountedOrCharged, Counted
<1>2. PolicyTypeOK'
  BY <1>1
     DEF QuietStep, EnforceRead, EnforceWithoutRedis, CooldownStart, CooldownRefuse,
         EntitledSpend, ChargedSpend, RefusedSpend, Keep, FailAndRollback, RollCooldown,
         RollWithoutRedis, PolicyCrash, Goto, Answer,
         PolicyTypeOK, Stages, Tiers
<1>3. Consistent' /\ CountedOrCharged'
  <2>1. RequestConsistent(r)'
    BY <1>1
       DEF QuietStep, EnforceRead, EnforceWithoutRedis, CooldownStart, CooldownRefuse,
           EntitledSpend, ChargedSpend, RefusedSpend, Keep, FailAndRollback, RollCooldown,
           RollWithoutRedis, PolicyCrash, Goto, Answer,
           PolicyTypeOK, RequestConsistent, Served, Tiers
  <2>2. r \in (Served \ (switched \cup unguarded))' =>
            (seenTier'[r] # "exempt" => (outcome'[r] = "free" <=> "daily" \in holds'[r]))
    BY <1>1
       DEF QuietStep, EnforceRead, EnforceWithoutRedis, CooldownStart, CooldownRefuse,
           EntitledSpend, ChargedSpend, RefusedSpend, Keep, FailAndRollback, RollCooldown,
           RollWithoutRedis, PolicyCrash, Goto, Answer,
           PolicyTypeOK, RequestConsistent, Served, Tiers
  <2>3. \A q \in Requests \ {r} :
            /\ stage'[q] = stage[q] /\ seenTier'[q] = seenTier[q]
            /\ holds'[q] = holds[q] /\ outcome'[q] = outcome[q]
    BY <1>1
       DEF QuietStep, EnforceRead, EnforceWithoutRedis, CooldownStart, CooldownRefuse,
           EntitledSpend, ChargedSpend, RefusedSpend, Keep, FailAndRollback, RollCooldown,
           RollWithoutRedis, PolicyCrash, Goto, Answer,
           PolicyTypeOK
  <2>4. tier' = tier /\ switched' = switched /\ unguarded \subseteq unguarded'
    BY DEF QuietStep, EnforceRead, EnforceWithoutRedis, CooldownStart, CooldownRefuse,
           EntitledSpend, ChargedSpend, RefusedSpend, Keep, FailAndRollback, RollCooldown,
           RollWithoutRedis, PolicyCrash, Goto, Answer
  <2> QED
    BY <2>1, <2>2, <2>3, <2>4, Others
<1>4. /\ UNCHANGED <<counter, raced>>
      /\ Counted' = Counted
      /\ Deleting' \subseteq Deleting
      /\ Admitted' \subseteq Admitted
  BY <1>1
     DEF QuietStep, EnforceRead, EnforceWithoutRedis, CooldownStart, CooldownRefuse,
         EntitledSpend, ChargedSpend, RefusedSpend, Keep, FailAndRollback, RollCooldown,
         RollWithoutRedis, PolicyCrash, Goto, Answer,
         PolicyTypeOK, RequestConsistent, Counted, Deleting, Admitted
<1> QED
  BY <1>2, <1>3, <1>4, QuietLedger DEF PolicyInv

LEMMA TimeSteps ==
    ASSUME PolicyInv, CooldownExpire \/ \E to \in Tiers : TierSwitch(to)
    PROVE  PolicyInv'
<1>1. PolicyTypeOK'
  BY PolicyAssumption DEF PolicyInv, CooldownExpire, TierSwitch, PolicyTypeOK, Tiers
<1>2. /\ UNCHANGED <<counter, stage, seenTier, holds, outcome, unguarded, raced>>
      /\ \/ UNCHANGED <<tier, switched>>
         \/ switched' = switched \cup
                {r \in Requests : stage[r] \notin {"new", "end", "generate"}}
  BY DEF CooldownExpire, TierSwitch
<1>3. Consistent'
  BY <1>2 DEF PolicyInv, Consistent, RequestConsistent, Served
<1>4. CountedOrCharged'
  BY <1>2 DEF PolicyInv, CountedOrCharged, Served, Counted
<1>5. Counted' = Counted /\ Deleting' = Deleting /\ Admitted' = Admitted
  BY <1>2 DEF Counted, Deleting, Admitted
<1> QED
  BY <1>1, <1>2, <1>3, <1>4, <1>5, QuietLedger DEF PolicyInv

-----------------------------------------------------------------------------
(* Steps that move the counter                                             *)

CountStep(r) ==
    CountUp(r) \/ OverCountDown(r) \/ OverDelete(r) \/ RollCount(r) \/ RollDelete(r)

\* What a request knows and holds stays right in all of them.
LEMMA CountStepsConsistent ==
    ASSUME PolicyInv, NEW r \in Requests, CountStep(r)
    PROVE  PolicyTypeOK' /\ Consistent' /\ CountedOrCharged'
<1>1. PolicyTypeOK /\ RequestConsistent(r)
  BY DEF PolicyInv, Consistent
<1>2. Cardinality(Deleting) \in Nat
  BY <1>1, FiniteSets DEF Deleting
<1>3. PolicyTypeOK'
  BY <1>1, <1>2
     DEF CountStep, CountUp, OverCountDown, OverDelete, RollCount, RollDelete, Goto, Answer,
         PolicyTypeOK, Stages
<1>4. RequestConsistent(r)'
  BY <1>1
     DEF CountStep, CountUp, OverCountDown, OverDelete, RollCount, RollDelete, Goto, Answer,
         PolicyTypeOK, RequestConsistent, Served
<1>5. r \notin Served'
  BY <1>1
     DEF CountStep, CountUp, OverCountDown, OverDelete, RollCount, RollDelete, Goto, Answer,
         PolicyTypeOK, RequestConsistent, Served
<1>6. /\ \A q \in Requests \ {r} :
            /\ stage'[q] = stage[q] /\ seenTier'[q] = seenTier[q]
            /\ holds'[q] = holds[q] /\ outcome'[q] = outcome[q]
      /\ tier' = tier /\ switched' = switched /\ unguarded \subseteq unguarded'
  BY <1>1
     DEF CountStep, CountUp, OverCountDown, OverDelete, RollCount, RollDelete, Goto, Answer,
         PolicyTypeOK
<1> QED
  BY <1>3, <1>4, <1>5, <1>6, Others

\* The request is counted; it is let through when the counter is within the limit,
\* and raced when another request is about to delete the key.
LEMMA CountUpLedger ==
    ASSUME PolicyInv, NEW r \in Requests, CountUp(r)
    PROVE  Ledger'
<1>1. /\ PolicyTypeOK /\ RequestConsistent(r) /\ stage[r] = "count"
      /\ counter \in Int /\ raced \in Nat
  BY DEF PolicyInv, PolicyTypeOK, Consistent, CountUp
<1>2. counter' = counter + 1 /\ raced' = raced + Cardinality(Deleting)
  BY DEF CountUp
<1>3. r \notin Counted /\ Counted' = Counted \cup {r}
  BY <1>1 DEF CountUp, PolicyTypeOK, RequestConsistent, Counted
<1>4. /\ Counted \in SUBSET Requests /\ Deleting \in SUBSET Requests
      /\ Counted' \in SUBSET Requests
  BY <1>3 DEF Counted, Deleting
<1>5. /\ Cardinality(Counted) \in Nat /\ Cardinality(Deleting) \in Nat
      /\ IsFiniteSet(Counted) /\ IsFiniteSet(Deleting)
      /\ Cardinality(Counted') = Cardinality(Counted) + 1
  BY <1>1, <1>3, <1>4, FiniteSets, FS_AddElement
<1>6. Deleting' = Deleting
  BY <1>1 DEF CountUp, Goto, PolicyTypeOK, Deleting
<1>7. Deleting # {} => Cardinality(Deleting) >= 1
  BY <1>5, FS_EmptySet
<1>8. /\ Deleting' # {} => Cardinality(Counted') <= raced'
      /\ Cardinality(Counted') <= counter' + raced'
  BY <1>1, <1>2, <1>5, <1>6, <1>7 DEF PolicyInv, Ledger
<1>9. CounterExact'
  BY <1>1, <1>2, <1>5 DEF PolicyInv, Ledger, CounterExact
<1>10. CapUnlessRaced'
  <2>1. CASE OverLimit(counter + 1)
    <3>1. stage'[r] = "over"
      BY <1>1, <2>1 DEF CountUp, Goto, PolicyTypeOK
    <3>2. Admitted' \subseteq Admitted
      BY <1>1, <1>3, <3>1 DEF CountUp, Goto, PolicyTypeOK, Admitted, Counted
    <3>3. Admitted \in SUBSET Requests
      BY DEF Admitted, Counted
    <3> QED
      BY <1>1, <1>2, <1>5, <3>2, <3>3, Smaller, PolicyAssumption
         DEF PolicyInv, Ledger, CapUnlessRaced, Admitted
  <2>2. CASE ~OverLimit(counter + 1)
    <3>1. counter + 1 <= DailyLimit
      BY <1>1, <2>2, PolicyAssumption DEF OverLimit
    <3>2. Cardinality(Counted') <= DailyLimit + raced'
      BY <1>1, <1>2, <1>5, <1>8, <3>1, PolicyAssumption
    <3>3. Admitted' \in SUBSET Counted'
      BY DEF Admitted
    <3> QED
      BY <1>1, <1>2, <1>4, <1>5, <3>2, <3>3, Smaller, PolicyAssumption
         DEF CapUnlessRaced, Admitted
  <2> QED
    BY <2>1, <2>2
<1> QED
  BY <1>8, <1>9, <1>10 DEF Ledger

\* A request gives its use back; the key is deleted next when nothing is left.
LEMMA CountDownLedger ==
    ASSUME PolicyInv, NEW r \in Requests, OverCountDown(r) \/ RollCount(r)
    PROVE  Ledger'
<1>1. /\ PolicyTypeOK /\ RequestConsistent(r) /\ stage[r] \in {"over", "rollCount"}
      /\ counter \in Int /\ raced \in Nat
  BY DEF PolicyInv, PolicyTypeOK, Consistent, OverCountDown, RollCount
<1>2. counter' = counter - 1 /\ raced' = raced
  BY DEF OverCountDown, RollCount
<1>3. r \in Counted /\ Counted' = Counted \ {r}
  BY <1>1 DEF OverCountDown, RollCount, PolicyTypeOK, RequestConsistent, Counted
<1>4. Counted \in SUBSET Requests /\ Counted' \in SUBSET Requests
  BY <1>3 DEF Counted
<1>5. /\ Cardinality(Counted) \in Nat /\ IsFiniteSet(Counted)
      /\ Cardinality(Counted') = Cardinality(Counted) - 1
  BY <1>1, <1>3, <1>4, FiniteSets, FS_RemoveElement
<1>6. Cardinality(Counted') <= counter' + raced'
  BY <1>1, <1>2, <1>5 DEF PolicyInv, Ledger
<1>7. Deleting' \subseteq Deleting \/ counter - 1 <= 0
  BY <1>1 DEF OverCountDown, RollCount, Goto, PolicyTypeOK, Deleting
<1>8. Deleting' # {} => Cardinality(Counted') <= raced'
  BY <1>1, <1>2, <1>5, <1>6, <1>7 DEF PolicyInv, Ledger
<1>9. CounterExact'
  BY <1>1, <1>2, <1>5 DEF PolicyInv, Ledger, CounterExact
<1>10. CapUnlessRaced'
  <2>1. Admitted' \subseteq Admitted
    BY <1>1, <1>3 DEF OverCountDown, RollCount, Goto, Answer, PolicyTypeOK,
                      RequestConsistent, Admitted, Counted
  <2>2. Admitted \in SUBSET Requests
    BY DEF Admitted, Counted
  <2> QED
    BY <1>1, <1>2, <2>1, <2>2, Smaller, PolicyAssumption
       DEF PolicyInv, Ledger, CapUnlessRaced, Admitted
<1> QED
  BY <1>6, <1>8, <1>9, <1>10 DEF Ledger

\* The key is deleted: whoever was counted since the decrement is forgotten.
LEMMA DeleteLedger ==
    ASSUME PolicyInv, NEW r \in Requests, OverDelete(r) \/ RollDelete(r)
    PROVE  Ledger'
<1>1. /\ PolicyTypeOK /\ r \in Deleting /\ counter \in Int /\ raced \in Nat
  BY DEF PolicyInv, PolicyTypeOK, OverDelete, RollDelete, Deleting
<1>2. counter' = 0 /\ raced' = raced /\ Counted' = Counted
  BY DEF OverDelete, RollDelete, Counted
<1>3. Counted \in SUBSET Requests
  BY DEF Counted
<1>4. Cardinality(Counted) \in Nat /\ Cardinality(Counted) <= raced
  BY <1>1, <1>3, FiniteSets DEF PolicyInv, Ledger
<1>5. CapUnlessRaced'
  <2>1. Admitted' \subseteq Admitted
    BY <1>1, <1>2 DEF OverDelete, RollDelete, Goto, PolicyTypeOK, Deleting, Admitted, Counted
  <2>2. Admitted \in SUBSET Requests
    BY DEF Admitted, Counted
  <2> QED
    BY <1>1, <1>2, <2>1, <2>2, Smaller, PolicyAssumption
       DEF PolicyInv, Ledger, CapUnlessRaced, Admitted
<1> QED
  BY <1>1, <1>2, <1>4, <1>5 DEF Ledger, CounterExact

LEMMA CountSteps ==
    ASSUME PolicyInv, NEW r \in Requests, CountStep(r)
    PROVE  PolicyInv'
  BY CountStepsConsistent, CountUpLedger, CountDownLedger, DeleteLedger DEF CountStep, PolicyInv

LEMMA PolicySteps == PolicyInv /\ [PolicyNext]_policyVars => PolicyInv'
<1> SUFFICES ASSUME PolicyInv, [PolicyNext]_policyVars
             PROVE  PolicyInv'
  OBVIOUS
<1>1. CASE UNCHANGED policyVars
  <2>1. /\ PolicyTypeOK' /\ Consistent' /\ CountedOrCharged'
    BY <1>1 DEF policyVars, PolicyInv, PolicyTypeOK, Consistent, RequestConsistent, Served,
                CountedOrCharged, Counted
  <2>2. Counted' = Counted /\ Deleting' = Deleting /\ Admitted' = Admitted
    BY <1>1 DEF policyVars, Counted, Deleting, Admitted
  <2> QED
    BY <1>1, <2>1, <2>2, QuietLedger DEF PolicyInv, policyVars
<1>2. CASE PolicyNext
  BY <1>2, QuietSteps, CountSteps, TimeSteps DEF PolicyNext, QuietStep, CountStep
<1> QED
  BY <1>1, <1>2

-----------------------------------------------------------------------------

\* Every variable of the policy keeps its type.
THEOREM PolicyTypeCorrect == PolicySpec => []PolicyTypeOK
<1>1. PolicyInv => PolicyTypeOK
  BY DEF PolicyInv
<1> QED
  BY <1>1, PolicyBegins, PolicySteps, PTL DEF PolicySpec

\* Without an increment between a decrement and its delete the counter of the
\* day is the number of requests that hold a use of it.
THEOREM CounterIsExact == PolicySpec => []CounterExact
<1>1. PolicyInv => CounterExact
  BY DEF PolicyInv, Ledger
<1> QED
  BY <1>1, PolicyBegins, PolicySteps, PTL DEF PolicySpec

\* The cap is exceeded by no more requests than there were such increments.
THEOREM CapHolds == PolicySpec => []CapUnlessRaced
<1>1. PolicyInv => CapUnlessRaced
  BY DEF PolicyInv, Ledger
<1> QED
  BY <1>1, PolicyBegins, PolicySteps, PTL DEF PolicySpec

\* Who is served free in a capped tier is counted, and who is charged is not,
\* unless the tier changed on the way or Redis was down.
THEOREM FreeIsCounted == PolicySpec => []CountedOrCharged
<1>1. PolicyInv => CountedOrCharged
  BY DEF PolicyInv
<1> QED
  BY <1>1, PolicyBegins, PolicySteps, PTL DEF PolicySpec

=============================================================================
