----------------------------- MODULE Generation -----------------------------
(***************************************************************************)
(* Updates of one user in the bot process: the handler program of each is  *)
(* run under the middlewares, which run it again when it raises, with the  *)
(* lock, the cooldowns and the pending picture that Redis keeps.           *)
(*                                                                         *)
(* The balance is not modelled here (Credits does that): charges and       *)
(* refunds are counted in prices.                                          *)
(***************************************************************************)
EXTENDS Integers, FiniteSets, Sequences

CONSTANTS
    Updates,       \* messages and taps of the user
    NoUpdate,      \* nobody: the key does not exist
    Programs,      \* handler -> the ways through it
    Scenarios,     \* what is explored: [handler, kind, attempts]
    MaxOverruns,   \* bound: locks that expire under their holder
    MaxCoolings,   \* bound: cooldowns that run out
    MaxBlind       \* bound: updates whose policy finds no Redis, once each

UserKinds == {"paid", "free", "tester", "admin"}
HeavyBuckets == {"video", "music", "upscale"}

ASSUME GenerationAssumption ==
    /\ IsFiniteSet(Updates)
    /\ NoUpdate \notin Updates
    /\ Scenarios \subseteq [handler : [Updates -> STRING], kind : UserKinds, attempts : Nat]
    /\ MaxOverruns \in Nat
    /\ MaxCoolings \in Nat
    /\ MaxBlind \in Nat

VARIABLES
    handler,       \* the handler an update is for
    kind,          \* how spend_credits treats the user
    attempts,      \* bound: how often a handler is called for an update
    status,        \* "new", "running" or how the handling ended
    rest,          \* the steps that are left
    runs,          \* how often the middlewares may still call the handler
    spend,         \* what the last spend_credits of the run answered
    reserved,      \* the heavy bucket in its policy_usage, until rolled back
    due,           \* prices of that spend that were not given back
    net,           \* prices paid and not given back, over all runs
    generated,     \* the provider answered what was spent for
    answered,      \* the user has the answer
    lock,          \* gen_lock of the user: who has set the key
    inside,        \* the updates that believe to hold it
    cool,          \* policy:cooldown of a bucket: who has set the key
    pending,       \* a picture or a text waits under its key
    blind,         \* history: updates whose policy has found no Redis
    overruns, coolings

genVars == <<handler, kind, attempts, status, rest, runs, spend, reserved, due, net,
             generated, answered, lock, inside, cool, pending, blind,
             overruns, coolings>>

GenInit ==
    /\ \E s \in Scenarios : handler = s.handler /\ kind = s.kind /\ attempts = s.attempts
    /\ status = [u \in Updates |-> "new"]
    /\ rest = [u \in Updates |-> <<>>]
    /\ runs = [u \in Updates |-> 0]
    /\ spend = [u \in Updates |-> "none"]
    /\ reserved = [u \in Updates |-> "none"]
    /\ due = [u \in Updates |-> 0]
    /\ net = [u \in Updates |-> 0]
    /\ generated = [u \in Updates |-> FALSE]
    /\ answered = [u \in Updates |-> FALSE]
    /\ lock = NoUpdate
    /\ inside = {}
    /\ cool = [b \in HeavyBuckets |-> NoUpdate]
    /\ pending = TRUE
    /\ blind = {}
    /\ overruns = 0
    /\ coolings = 0

books == <<spend, reserved, due, net>>
fixed == <<handler, kind, attempts>>

At(u, op) == status[u] = "running" /\ rest[u] # <<>> /\ Head(rest[u]).op = op
Now(u) == Head(rest[u])
GoOn(u) == rest' = [rest EXCEPT ![u] = Tail(@)]
GoWrong(u, how) == rest' = [rest EXCEPT ![u] = Now(u).fails[how]]

-----------------------------------------------------------------------------
(* The middlewares                                                         *)

\* RateLimitMiddleware calls a handler that raised once more, and
\* BanCheckMiddleware calls the whole of that once more, unless it had to ask
\* the database and the user is there; it is not asked about an admin's rate.
Attempts == IF kind = "admin" THEN {1, 2} ELSE {2, 4}

Arrive(u) ==
    /\ status[u] = "new"
    /\ handler[u] \in DOMAIN Programs
    /\ status' = [status EXCEPT ![u] = "running"]
    /\ \E n \in Attempts : n <= attempts /\ runs' = [runs EXCEPT ![u] = n]
    /\ \E p \in Programs[handler[u]] : rest' = [rest EXCEPT ![u] = p]
    /\ UNCHANGED <<fixed, blind, books, generated, answered, lock, inside, cool, pending,
                   overruns, coolings>>

\* The finally of gen_lock: DELETE, whoever has set the key since, or an error.
Released(u) ==
    /\ inside' = inside \ {u}
    /\ lock' \in IF u \in inside THEN {NoUpdate, lock} ELSE {lock}

\* The handler returns.
Return(u) ==
    /\ status[u] = "running"
    /\ rest[u] = <<>>
    /\ status' = [status EXCEPT ![u] = "done"]
    /\ Released(u)
    /\ UNCHANGED <<fixed, blind, books, rest, runs, generated, answered, cool, pending,
                   overruns, coolings>>

\* Seeded fault: the call again is repeated for ever.
MayAlwaysRunAgain(u) == TRUE

MayRunAgain(u) == runs[u] > 1

\* The handler raises and is called again, from its beginning.
RunAgain(u) ==
    /\ At(u, "raise")
    /\ MayRunAgain(u)
    /\ runs' = [runs EXCEPT ![u] = @ - 1]
    /\ \E p \in Programs[handler[u]] : rest' = [rest EXCEPT ![u] = p]
    /\ spend' = [spend EXCEPT ![u] = "none"]
    /\ reserved' = [reserved EXCEPT ![u] = "none"]
    /\ due' = [due EXCEPT ![u] = 0]
    /\ generated' = [generated EXCEPT ![u] = FALSE]
    /\ answered' = [answered EXCEPT ![u] = FALSE]
    /\ Released(u)
    /\ UNCHANGED <<fixed, blind, status, net, cool, pending, overruns, coolings>>

\* The call again is over the rate limit of Redis or of the memory of the bot.
RateRefused(u) ==
    /\ At(u, "raise")
    /\ MayRunAgain(u)
    /\ kind # "admin"
    /\ status' = [status EXCEPT ![u] = "refused"]
    /\ Released(u)
    /\ UNCHANGED <<fixed, blind, books, rest, runs, generated, answered, cool, pending,
                   overruns, coolings>>

\* on_error of the dispatcher tells the user to try again.
Unhandled(u) ==
    /\ At(u, "raise")
    /\ ~MayRunAgain(u)
    /\ status' = [status EXCEPT ![u] = "error"]
    /\ Released(u)
    /\ UNCHANGED <<fixed, blind, books, rest, runs, generated, answered, cool, pending,
                   overruns, coolings>>

-----------------------------------------------------------------------------
(* gen_lock and the steps that only pass or fail                           *)

\* Seeded fault: the key is set without NX.
AcquireAnyway(u) ==
    /\ At(u, "lock")
    /\ lock' = u
    /\ inside' = inside \cup {u}
    /\ GoOn(u)
    /\ UNCHANGED <<fixed, blind, books, status, runs, generated, answered, cool, pending,
                   overruns, coolings>>

Acquire(u) ==
    /\ At(u, "lock")
    /\ lock = NoUpdate
    /\ lock' = u
    /\ inside' = inside \cup {u}
    /\ GoOn(u)
    /\ UNCHANGED <<fixed, blind, books, status, runs, generated, answered, cool, pending,
                   overruns, coolings>>

\* Somebody holds the lock, or Redis does not answer.
NotAcquired(u) ==
    /\ At(u, "lock")
    /\ GoWrong(u, "busy")
    /\ UNCHANGED <<fixed, blind, books, status, runs, generated, answered, lock, inside, cool,
                   pending, overruns, coolings>>

Pass(u) ==
    /\ \E op \in {"check", "await", "fetch", "tell"} : At(u, op)
    /\ GoOn(u)
    /\ UNCHANGED <<fixed, blind, books, status, runs, generated, answered, lock, inside, cool,
                   pending, overruns, coolings>>

Fail(u) ==
    /\ \E op \in {"check", "await", "fetch", "tell", "drop", "call", "reply", "giveback"} :
          At(u, op)
    /\ \E how \in DOMAIN Now(u).fails : GoWrong(u, how)
    /\ UNCHANGED <<fixed, blind, books, status, runs, generated, answered, lock, inside, cool,
                   pending, overruns, coolings>>

TakePending(u) ==
    /\ At(u, "take")
    /\ IF pending THEN GoOn(u) ELSE GoWrong(u, "gone")
    /\ UNCHANGED <<fixed, blind, books, status, runs, generated, answered, lock, inside, cool,
                   pending, overruns, coolings>>

\* Seeded fault: the picture is read and stays under its key.
DropPendingKept(u) ==
    /\ At(u, "drop")
    /\ GoOn(u)
    /\ UNCHANGED <<fixed, blind, books, status, runs, generated, answered, lock, inside, cool,
                   pending, overruns, coolings>>

DropPending(u) ==
    /\ At(u, "drop")
    /\ pending' = FALSE
    /\ GoOn(u)
    /\ UNCHANGED <<fixed, blind, books, status, runs, generated, answered, lock, inside, cool,
                   overruns, coolings>>

-----------------------------------------------------------------------------
(* Credits                                                                 *)

\* Seeded fault: a cooldown is for those who pay nothing.
CoolsFree(u) == Now(u).arg \in HeavyBuckets /\ kind = "free"

\* Only admins and testers are spared the cooldown.
Cools(u) == Now(u).arg \in HeavyBuckets /\ kind \in {"paid", "free"}
Cooling(u) == Cools(u) /\ cool[Now(u).arg] # NoUpdate

\* The policy finds no Redis: it reserves and releases nothing.
Blindly(u) ==
    /\ u \notin blind
    /\ Cardinality(blind) < MaxBlind
    /\ blind' = blind \cup {u}

Charged(u) ==
    LET price == IF kind = "paid" THEN 1 ELSE 0 IN
    /\ spend' = [spend EXCEPT ![u] = IF kind = "paid" THEN "charged" ELSE "bypass"]
    /\ due' = [due EXCEPT ![u] = price]
    /\ net' = [net EXCEPT ![u] = @ + price]
    /\ generated' = [generated EXCEPT ![u] = FALSE]
    /\ answered' = [answered EXCEPT ![u] = FALSE]

SpendOk(u) ==
    /\ At(u, "spend")
    /\ ~Cooling(u)
    /\ cool' = IF Cools(u) THEN [cool EXCEPT ![Now(u).arg] = u] ELSE cool
    /\ reserved' = [reserved EXCEPT ![u] = IF Cools(u) THEN Now(u).arg ELSE "none"]
    /\ Charged(u)
    /\ GoOn(u)
    /\ UNCHANGED <<fixed, blind, status, runs, lock, inside, pending, overruns, coolings>>

SpendBlind(u) ==
    /\ At(u, "spend")
    /\ Cools(u)
    /\ Blindly(u)
    /\ reserved' = [reserved EXCEPT ![u] = "none"]
    /\ Charged(u)
    /\ GoOn(u)
    /\ UNCHANGED <<fixed, status, runs, lock, inside, cool, pending, overruns, coolings>>

\* Too few credits, a cooldown, or the day's cap: what was reserved is released,
\* except for the cooldown of a request over the cap.
SpendRefused(u) ==
    /\ At(u, "spend")
    /\ \/ cool' = cool
       \/ kind = "free" /\ Cools(u) /\ ~Cooling(u) /\ cool' = [cool EXCEPT ![Now(u).arg] = u]
    /\ GoWrong(u, "refused")
    /\ UNCHANGED <<fixed, blind, books, status, runs, generated, answered, lock, inside,
                   pending, overruns, coolings>>

\* The database fails after the cooldown was set: the key stays.
SpendRaises(u) ==
    /\ At(u, "spend")
    /\ ~Cooling(u)
    /\ \/ cool' = cool
       \/ Cools(u) /\ cool' = [cool EXCEPT ![Now(u).arg] = u]
    /\ GoWrong(u, "exc")
    /\ UNCHANGED <<fixed, blind, books, status, runs, generated, answered, lock, inside,
                   pending, overruns, coolings>>

\* Seeded fault: whoever did not pay is given the price as well.
CreditsDueAnyway(u) == TRUE

\* Seeded fault: the check for an uncharged user is turned round.
CreditsDueToBypass(u) == spend[u] = "bypass" \/ Now(u).arg = "price"

\* refund_credits and refund_spend_credits add credits; "price" does not look
\* at whether anything was paid.
CreditsDue(u) == spend[u] = "charged" \/ Now(u).arg = "price"

\* Seeded fault: refund_spend_credits gives back the credits only.
PolicyReleasedNever(u) == FALSE

\* _rollback_policy_usage deletes the cooldown that this spend had set.
PolicyReleased(u) == Now(u).arg = "refund" \/ (Now(u).arg = "guard" /\ spend[u] = "charged")

Repaid(u) ==
    LET price == IF CreditsDue(u) THEN 1 ELSE 0 IN
    /\ due' = [due EXCEPT ![u] = @ - price]
    /\ net' = [net EXCEPT ![u] = @ - price]

GiveBackOk(u) ==
    /\ At(u, "giveback")
    /\ Repaid(u)
    /\ LET freed == IF PolicyReleased(u) THEN {reserved[u]} ELSE {} IN
       /\ cool' = [b \in HeavyBuckets |-> IF b \in freed THEN NoUpdate ELSE cool[b]]
       /\ reserved' = [reserved EXCEPT ![u] = IF freed = {} THEN @ ELSE "none"]
    /\ GoOn(u)
    /\ UNCHANGED <<fixed, blind, spend, status, runs, generated, answered, lock, inside,
                   pending, overruns, coolings>>

GiveBackBlind(u) ==
    /\ At(u, "giveback")
    /\ PolicyReleased(u)
    /\ reserved[u] # "none"
    /\ Blindly(u)
    /\ Repaid(u)
    /\ GoOn(u)
    /\ UNCHANGED <<fixed, spend, reserved, status, runs, generated, answered, lock, inside,
                   cool, pending, overruns, coolings>>

-----------------------------------------------------------------------------
(* The provider and Telegram                                               *)

CallOk(u) ==
    /\ At(u, "call")
    /\ generated' = [generated EXCEPT ![u] = TRUE]
    /\ GoOn(u)
    /\ UNCHANGED <<fixed, blind, books, status, runs, answered, lock, inside, cool, pending,
                   overruns, coolings>>

ReplyOk(u) ==
    /\ At(u, "reply")
    /\ answered' = [answered EXCEPT ![u] = TRUE]
    /\ GoOn(u)
    /\ UNCHANGED <<fixed, blind, books, status, runs, generated, lock, inside, cool, pending,
                   overruns, coolings>>

-----------------------------------------------------------------------------
(* Time and crashes                                                        *)

\* The key expires after ttl_sec: under its holder, or left by a dead process.
LockExpires ==
    /\ lock # NoUpdate
    /\ lock \in inside => overruns < MaxOverruns
    /\ lock' = NoUpdate
    /\ overruns' = IF lock \in inside THEN overruns + 1 ELSE overruns
    /\ UNCHANGED <<fixed, blind, books, status, rest, runs, generated, answered, inside, cool,
                   pending, coolings>>

CooldownEnds(b) ==
    /\ coolings < MaxCoolings
    /\ cool[b] # NoUpdate
    /\ cool' = [cool EXCEPT ![b] = NoUpdate]
    /\ coolings' = coolings + 1
    /\ UNCHANGED <<fixed, blind, books, status, rest, runs, generated, answered, lock, inside,
                   pending, overruns>>

\* The bot process dies; what it was handling is not taken up again.
BotDies ==
    /\ \E u \in Updates : status[u] = "running"
    /\ status' = [u \in Updates |-> IF status[u] = "running" THEN "dead" ELSE status[u]]
    /\ inside' = {}
    /\ UNCHANGED <<fixed, blind, books, rest, runs, generated, answered, lock, cool, pending,
                   overruns, coolings>>

GenNext ==
    \/ \E u \in Updates :
        \/ Arrive(u) \/ Return(u) \/ RunAgain(u) \/ RateRefused(u) \/ Unhandled(u)
        \/ Acquire(u) \/ NotAcquired(u) \/ Pass(u) \/ Fail(u)
        \/ TakePending(u) \/ DropPending(u)
        \/ SpendOk(u) \/ SpendBlind(u) \/ SpendRefused(u) \/ SpendRaises(u)
        \/ GiveBackOk(u) \/ GiveBackBlind(u)
        \/ CallOk(u) \/ ReplyOk(u)
    \/ LockExpires \/ (\E b \in HeavyBuckets : CooldownEnds(b)) \/ BotDies

GenSpec == GenInit /\ [][GenNext]_genVars

-----------------------------------------------------------------------------

GenTypeOK ==
    /\ handler \in [Updates -> STRING]
    /\ kind \in UserKinds
    /\ attempts \in Nat
    /\ status \in [Updates -> {"new", "running", "done", "refused", "error", "dead"}]
    /\ runs \in [Updates -> Nat]
    /\ spend \in [Updates -> {"none", "charged", "bypass"}]
    /\ reserved \in [Updates -> HeavyBuckets \cup {"none"}]
    /\ due \in [Updates -> Int]
    /\ net \in [Updates -> Int]
    /\ generated \in [Updates -> BOOLEAN]
    /\ answered \in [Updates -> BOOLEAN]
    /\ lock \in Updates \cup {NoUpdate}
    /\ inside \in SUBSET Updates
    /\ cool \in [HeavyBuckets -> Updates \cup {NoUpdate}]
    /\ pending \in BOOLEAN
    /\ blind \in SUBSET Updates
    /\ overruns \in 0..MaxOverruns
    /\ coolings \in 0..MaxCoolings

\* gen_lock admits a second generation of a user only when the key of the first
\* has expired under it: the release of one that has outlived its key deletes
\* the key of its successor, and still lets no more than one in for each expiry.
Exclusion == Cardinality(inside) <= 1 + overruns

\* The handlers that tell the user that the run is over and keep the price
\* without an answer, and what for.
KeepPrice == {"cb_run_saved",          \* the provider failed
              "handle_audio_text", "cb_audio_tts_pending"}     \* the voice is gone
LoseAnswer == {"cmd_img", "cb_regen_img", "cb_voice_use", "handle_photo", "handle_text",
               "cb_vidgo", "cb_regen_vid", "handle_photo_video"}   \* Telegram refused it

\* A handler that returns has either answered or given the price back, on every
\* error path of every handler, the two named groups apart.
ChargedDelivered ==
    \A u \in Updates : status[u] = "done" /\ due[u] > 0 =>
        \/ answered[u]
        \/ handler[u] \in KeepPrice
        \/ generated[u] /\ handler[u] \in LoseAnswer

Documents == {"cmd_doc_create", "cmd_doc_upload"}

\* Refunds never exceed charges, but for the second refund of a streamed answer
\* whose error message Telegram refuses, and for the documents, whose price is
\* given to users who have not paid it.
NothingMinted ==
    \A u \in Updates :
        \/ net[u] >= 0
        \/ handler[u] = "handle_text"
        \/ handler[u] \in Documents /\ kind # "paid"

\* The handlers that spend on a heavy bucket and on nothing else.
Heavy == [video |-> {"handle_photo_video", "cb_vidgo", "cb_regen_vid"},
          music |-> {"cmd_music", "cb_regen_mus"},
          upscale |-> {"cb_upscale"}]

\* A heavy feature that raises is called again by the middlewares and is not
\* charged again: the cooldown of the first run is still there.  Two requests of
\* the user are charged together no more than once, too, while none runs out and
\* Redis answers.
HeavyOnce ==
    \A b \in HeavyBuckets : \A u, v \in {w \in Updates : handler[w] \in Heavy[b]} :
        net[u] + (IF u = v THEN 0 ELSE net[v])
            <= 1 + coolings + Cardinality(blind \cap {u, v})

\* The handlers that take away what an earlier message left under a key.
Takers == {"cb_photo_action", "cb_audio_tts_pending"}

\* A tap on a pending picture or text is charged at most once, however often
\* the middlewares call its handler.
TakenOnce ==
    \A u \in Updates : handler[u] \in Takers => net[u] <= 1

\* A customer whose heavy request failed and was told so can repeat it at once:
\* no error path that gives the price back leaves its own cooldown behind, while
\* Redis answers.
RetryAllowed ==
    \A u \in Updates :
        status[u] = "done" /\ spend[u] = "charged" /\ due[u] = 0 /\ u \notin blind =>
            \A b \in HeavyBuckets : handler[u] \in Heavy[b] => cool[b] # u

\* What store.py:59 promises of the lock: a message to the chat, handled under
\* it, is not charged twice.
OneCharge == \A u \in Updates : handler[u] = "handle_text" => net[u] <= 1

=============================================================================
