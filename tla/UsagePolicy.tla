---------------------------- MODULE UsagePolicy -----------------------------
(***************************************************************************)
(* The usage policy of credits.py: cooldowns of the heavy features and the *)
(* daily caps of the tiers that pay nothing, for one user and one bucket   *)
(* of models, from spend_credits to the refund of a failed attempt.        *)
(*                                                                         *)
(* Cooldown and counter are Redis keys.  Every Redis command is a step of  *)
(* its own, and so is each of the two queries that read the user's tier:   *)
(* requests of one user run concurrently and interleave between them.      *)
(***************************************************************************)
EXTENDS Integers, FiniteSets

CONSTANTS
    Requests,      \* calls of spend_credits, one after the other or at once
    NoRequest,     \* nobody: the cooldown key does not exist
    DailyLimit,    \* _daily_limit_for_tier of the bucket
    MaxSwitches,   \* bound: times a tier begins or ends
    MaxLapses      \* bound: times the cooldown key expires

ASSUME PolicyAssumption ==
    /\ IsFiniteSet(Requests)
    /\ NoRequest \notin Requests
    /\ DailyLimit \in Nat \ {0}
    /\ MaxSwitches \in Nat
    /\ MaxLapses \in Nat

\* "exempt" stands for admins and testers, "free" for trial, 48h and unlimited.
Tiers == {"paid", "free", "exempt"}
Buckets == {"video", "elite_text"}

VARIABLES
    bucket,        \* _usage_bucket_for_model of the requested model
    tier,          \* what the user's row says at this moment
    cooldown,      \* policy:cooldown:{bucket}:{user}: the request that set it
    counter,       \* policy:daily:{tier}:{bucket}:{user}:{day}; 0: no key
    stage,         \* where a request is
    seenTier,      \* the tier enforce_usage_policy has read for a request
    holds,         \* the entries of policy_usage: "cooldown", "daily"
    outcome,       \* how spend_credits answered a request
    unguarded,     \* history: requests let through because Redis was down
    switched,      \* history: requests whose user changed tier on their way
    raced,         \* history: increments between a decrement and its delete
    switches, lapses

policyVars == <<bucket, tier, cooldown, counter, stage, seenTier, holds, outcome,
                unguarded, switched, raced, switches, lapses>>

PolicyInit ==
    /\ bucket \in Buckets
    /\ tier \in Tiers
    /\ cooldown = NoRequest
    /\ counter = 0
    /\ stage = [r \in Requests |-> "new"]
    /\ seenTier = [r \in Requests |-> "none"]
    /\ holds = [r \in Requests |-> {}]
    /\ outcome = [r \in Requests |-> "none"]
    /\ unguarded = {}
    /\ switched = {}
    /\ raced = 0
    /\ switches = 0
    /\ lapses = 0

Goto(r, to) == stage' = [stage EXCEPT ![r] = to]
Answer(r, o) == outcome' = [outcome EXCEPT ![r] = o]

\* The requests that have spent and are being generated, or have been.
Served == {r \in Requests : outcome[r] \in {"charged", "free"}}

-----------------------------------------------------------------------------
(* enforce_usage_policy                                                    *)

\* The tier is read; a model without a bucket never gets here.
EnforceRead(r) ==
    /\ stage[r] = "new"
    /\ seenTier' = [seenTier EXCEPT ![r] = tier]
    /\ Goto(r, IF bucket = "video" /\ tier # "exempt" THEN "cooldown"
               ELSE IF tier = "free" THEN "count" ELSE "entitle")
    /\ UNCHANGED <<bucket, tier, cooldown, counter, holds, outcome,
                   unguarded, switched, raced, switches, lapses>>

\* Without Redis the request is let through with no policy_usage.
EnforceWithoutRedis(r) ==
    /\ stage[r] = "new"
    /\ seenTier' = [seenTier EXCEPT ![r] = tier]
    /\ unguarded' = unguarded \cup {r}
    /\ Goto(r, "entitle")
    /\ UNCHANGED <<bucket, tier, cooldown, counter, holds, outcome,
                   switched, raced, switches, lapses>>

\* Seeded fault: a heavy feature with a cooldown is not counted.
CooldownStartOnly(r) ==
    /\ stage[r] = "cooldown"
    /\ cooldown = NoRequest
    /\ cooldown' = r
    /\ holds' = [holds EXCEPT ![r] = {"cooldown"}]
    /\ Goto(r, "entitle")
    /\ UNCHANGED <<bucket, tier, counter, seenTier, outcome,
                   unguarded, switched, raced, switches, lapses>>

\* SET NX EX on the cooldown key succeeds.
CooldownStart(r) ==
    /\ stage[r] = "cooldown"
    /\ cooldown = NoRequest
    /\ cooldown' = r
    /\ holds' = [holds EXCEPT ![r] = {"cooldown"}]
    /\ Goto(r, IF seenTier[r] = "free" THEN "count" ELSE "entitle")
    /\ UNCHANGED <<bucket, tier, counter, seenTier, outcome,
                   unguarded, switched, raced, switches, lapses>>

CooldownRefuse(r) ==
    /\ stage[r] = "cooldown"
    /\ cooldown # NoRequest
    /\ Answer(r, "cooldown")
    /\ Goto(r, "end")
    /\ UNCHANGED <<bucket, tier, cooldown, counter, seenTier, holds,
                   unguarded, switched, raced, switches, lapses>>

\* Seeded fault: the request after the last one of the day is still let in.
OverLimitLate(n) == n > DailyLimit + 1

OverLimit(n) == n > DailyLimit

\* Between a decrement and the delete that follows it the counter is at risk.
Deleting == {r \in Requests : stage[r] \in {"overDelete", "rollDelete"}}

\* INCR, and EXPIRE at the first: the key outlives its day anyway.
CountUp(r) ==
    /\ stage[r] = "count"
    /\ counter' = counter + 1
    /\ holds' = [holds EXCEPT ![r] = @ \cup {"daily"}]
    /\ raced' = raced + Cardinality(Deleting)
    /\ Goto(r, IF OverLimit(counter + 1) THEN "over" ELSE "entitle")
    /\ UNCHANGED <<bucket, tier, cooldown, seenTier, outcome,
                   unguarded, switched, switches, lapses>>

\* Over the cap: DECR, and DELETE at zero.  The cooldown that was set stays.
OverCountDown(r) ==
    /\ stage[r] = "over"
    /\ counter' = counter - 1
    /\ holds' = [holds EXCEPT ![r] = @ \ {"daily"}]
    /\ Answer(r, "daily_limit")
    /\ Goto(r, IF counter - 1 <= 0 THEN "overDelete" ELSE "end")
    /\ UNCHANGED <<bucket, tier, cooldown, seenTier,
                   unguarded, switched, raced, switches, lapses>>

OverDelete(r) ==
    /\ stage[r] = "overDelete"
    /\ counter' = 0
    /\ Goto(r, "end")
    /\ UNCHANGED <<bucket, tier, cooldown, seenTier, holds, outcome,
                   unguarded, switched, raced, switches, lapses>>

-----------------------------------------------------------------------------
(* The rest of spend_credits: the entitlements are read a second time.     *)

EntitledSpend(r) ==
    /\ stage[r] = "entitle"
    /\ tier # "paid"
    /\ Answer(r, "free")
    /\ Goto(r, "generate")
    /\ UNCHANGED <<bucket, tier, cooldown, counter, seenTier, holds,
                   unguarded, switched, raced, switches, lapses>>

ChargedSpend(r) ==
    /\ stage[r] = "entitle"
    /\ tier = "paid"
    /\ Answer(r, "charged")
    /\ Goto(r, "generate")
    /\ UNCHANGED <<bucket, tier, cooldown, counter, seenTier, holds,
                   unguarded, switched, raced, switches, lapses>>

\* Too few credits, or no such user: the reservations are rolled back.
RefusedSpend(r) ==
    /\ stage[r] = "entitle"
    /\ tier = "paid"
    /\ Answer(r, "insufficient")
    /\ Goto(r, "rollback")
    /\ UNCHANGED <<bucket, tier, cooldown, counter, seenTier, holds,
                   unguarded, switched, raced, switches, lapses>>

-----------------------------------------------------------------------------
(* The attempt, and _rollback_policy_usage after a failed one              *)

\* The result is delivered, or the handler refunds without the policy.
Keep(r) ==
    /\ stage[r] = "generate"
    /\ Goto(r, "end")
    /\ UNCHANGED <<bucket, tier, cooldown, counter, seenTier, holds, outcome,
                   unguarded, switched, raced, switches, lapses>>

\* refund_spend_credits begins with rollback_spend_usage_policy.
FailAndRollback(r) ==
    /\ stage[r] = "generate"
    /\ Answer(r, "failed")
    /\ Goto(r, "rollback")
    /\ UNCHANGED <<bucket, tier, cooldown, counter, seenTier, holds,
                   unguarded, switched, raced, switches, lapses>>

\* DELETE of the cooldown key, whoever has set it since the request's own expired.
RollCooldown(r) ==
    /\ stage[r] = "rollback"
    /\ cooldown' = IF "cooldown" \in holds[r] THEN NoRequest ELSE cooldown
    /\ holds' = [holds EXCEPT ![r] = @ \ {"cooldown"}]
    /\ Goto(r, IF "daily" \in holds[r] THEN "rollCount" ELSE "end")
    /\ UNCHANGED <<bucket, tier, counter, seenTier, outcome,
                   unguarded, switched, raced, switches, lapses>>

\* Seeded fault: the counter is taken down twice for one failed attempt.
RollCountTwice(r) ==
    /\ stage[r] = "rollCount"
    /\ counter' = counter - 1
    /\ holds' = [holds EXCEPT ![r] = @ \ {"daily"}]
    /\ Goto(r, IF "daily" \in holds[r] THEN "rollCount"
               ELSE IF counter - 1 <= 0 THEN "rollDelete" ELSE "end")
    /\ UNCHANGED <<bucket, tier, cooldown, seenTier, outcome,
                   unguarded, switched, raced, switches, lapses>>

RollCount(r) ==
    /\ stage[r] = "rollCount"
    /\ counter' = counter - 1
    /\ holds' = [holds EXCEPT ![r] = @ \ {"daily"}]
    /\ Goto(r, IF counter - 1 <= 0 THEN "rollDelete" ELSE "end")
    /\ UNCHANGED <<bucket, tier, cooldown, seenTier, outcome,
                   unguarded, switched, raced, switches, lapses>>

\* Redis is gone: nothing is released.
RollWithoutRedis(r) ==
    /\ stage[r] = "rollback"
    /\ Goto(r, "end")
    /\ UNCHANGED <<bucket, tier, cooldown, counter, seenTier, holds, outcome,
                   unguarded, switched, raced, switches, lapses>>

RollDelete(r) ==
    /\ stage[r] = "rollDelete"
    /\ counter' = 0
    /\ Goto(r, "end")
    /\ UNCHANGED <<bucket, tier, cooldown, seenTier, holds, outcome,
                   unguarded, switched, raced, switches, lapses>>

\* The process dies, or the call is cancelled: what it holds stays held.
PolicyCrash(r) ==
    /\ stage[r] \notin {"new", "end"}
    /\ Answer(r, "dead")
    /\ Goto(r, "end")
    /\ UNCHANGED <<bucket, tier, cooldown, counter, seenTier, holds,
                   unguarded, switched, raced, switches, lapses>>

-----------------------------------------------------------------------------
(* What happens around the requests                                        *)

\* A trial or subscription begins or runs out while requests are on their way.
TierSwitch(to) ==
    /\ switches < MaxSwitches
    /\ tier # "exempt"
    /\ to \in {"paid", "free"} \ {tier}
    /\ tier' = to
    /\ switches' = switches + 1
    /\ switched' = switched \cup {r \in Requests : stage[r] \notin {"new", "end", "generate"}}
    /\ UNCHANGED <<bucket, cooldown, counter, stage, seenTier, holds, outcome,
                   unguarded, raced, lapses>>

CooldownExpire ==
    /\ lapses < MaxLapses
    /\ cooldown # NoRequest
    /\ cooldown' = NoRequest
    /\ lapses' = lapses + 1
    /\ UNCHANGED <<bucket, tier, counter, stage, seenTier, holds, outcome,
                   unguarded, switched, raced, switches>>

PolicyNext ==
    \/ \E r \in Requests :
        \/ EnforceRead(r) \/ EnforceWithoutRedis(r)
        \/ CooldownStart(r) \/ CooldownRefuse(r)
        \/ CountUp(r) \/ OverCountDown(r) \/ OverDelete(r)
        \/ EntitledSpend(r) \/ ChargedSpend(r) \/ RefusedSpend(r)
        \/ Keep(r) \/ FailAndRollback(r)
        \/ RollCooldown(r) \/ RollCount(r) \/ RollDelete(r)
        \/ RollWithoutRedis(r)
        \/ PolicyCrash(r)
    \/ \E to \in Tiers : TierSwitch(to)
    \/ CooldownExpire

PolicySpec == PolicyInit /\ [][PolicyNext]_policyVars

-----------------------------------------------------------------------------

Stages == {"new", "cooldown", "count", "over", "overDelete", "entitle", "generate",
           "rollback", "rollCount", "rollDelete", "end"}

PolicyTypeOK ==
    /\ bucket \in Buckets
    /\ tier \in Tiers
    /\ cooldown \in Requests \cup {NoRequest}
    /\ counter \in Int
    /\ stage \in [Requests -> Stages]
    /\ seenTier \in [Requests -> Tiers \cup {"none"}]
    /\ holds \in [Requests -> SUBSET {"cooldown", "daily"}]
    /\ outcome \in [Requests -> {"none", "charged", "free", "cooldown", "daily_limit",
                                 "insufficient", "failed", "dead"}]
    /\ unguarded \in SUBSET Requests
    /\ switched \in SUBSET Requests
    /\ raced \in Nat
    /\ switches \in 0..MaxSwitches
    /\ lapses \in 0..MaxLapses

\* The requests that count against the day's cap.
Counted == {r \in Requests : "daily" \in holds[r]}

\* The cap of the day is exceeded by no more requests than there were
\* increments between another request's DECR and its DELETE: nothing else that
\* enforce_usage_policy and _rollback_policy_usage do to the counter, in any
\* order, lets a request of a free tier past the cap.
CapUnlessRaced ==
    Cardinality({r \in Counted : stage[r] # "over" /\ outcome[r] # "dead"}) <= DailyLimit + raced

\* Without such a race the counter is exactly the number of requests that count:
\* no failed attempt costs a use of the day, and none is given back twice.
CounterExact == raced = 0 => counter = Cardinality(Counted)

\* Who is served free of charge in a capped tier is counted, and who is charged
\* is not, unless the tier changed between the policy's query and that of
\* spend_credits, or Redis was down.
CountedOrCharged ==
    \A r \in Served \ (switched \cup unguarded) :
        seenTier[r] # "exempt" => (outcome[r] = "free" <=> r \in Counted)

=============================================================================
