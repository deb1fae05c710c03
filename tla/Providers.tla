----------------------------- MODULE Providers -----------------------------
(***************************************************************************)
(* One call of a provider, from the handler that has spent on it to its    *)
(* answer.  Videos and songs are jobs of a queue at fal.ai: submitted,     *)
(* polled, fetched.  Pictures, edited pictures and recognised speech are   *)
(* completions of OpenRouter, which the client of the API repeats of its   *)
(* own accord when the connection fails.                                   *)
(*                                                                         *)
(* What the provider has made costs money whether or not it arrives; the   *)
(* handler keeps the price of a call that is answered and gives back the   *)
(* price of any other (Handlers).  Calls share nothing: one is modelled.   *)
(***************************************************************************)
EXTENDS Integers

CONSTANTS
    MaxPolls,      \* polls of the status of a job
    MaxResends     \* how often the client repeats a completion

ASSUME ProvidersAssumption == {MaxPolls, MaxResends} \subseteq Nat

\* What a call may do: whether it is a job, how many attempts it has, how many
\* results are wanted, whether the handler waits no longer than so long, whether
\* it bears a poll that fails.
Plan(job, attempts, wanted, deadline, patient) ==
    [job |-> job, attempts |-> attempts, wanted |-> wanted, deadline |-> deadline,
     patient |-> patient]

generate_video == Plan(TRUE, 1, 1, TRUE, TRUE)
generate_song == Plan(TRUE, 2, 1, TRUE, TRUE)       \* two payloads
musicgen == Plan(TRUE, 1, 1, TRUE, FALSE)
generate_openrouter_image == Plan(FALSE, 1, 1, TRUE, TRUE)
generate_four_images == Plan(FALSE, 4, 4, FALSE, TRUE)
edit_openrouter_image == Plan(FALSE, 1, 1, TRUE, TRUE)
upscale_openrouter_image == Plan(FALSE, 1, 1, FALSE, TRUE)
remove_background_openrouter == Plan(FALSE, 1, 1, TRUE, TRUE)
transcribe_audio == Plan(FALSE, 2, 1, FALSE, TRUE)  \* two models that hear

Plans ==
    [video |-> generate_video, song |-> generate_song, tune |-> musicgen,
     picture |-> generate_openrouter_image, pictures |-> generate_four_images,
     edit |-> edit_openrouter_image, upscale |-> upscale_openrouter_image,
     rmbg |-> remove_background_openrouter, speech |-> transcribe_audio]

Needs == DOMAIN Plans

VARIABLES
    need,          \* what the call is for
    phase,         \* "ready", "polling", "fetching", "end"
    attempts,      \* attempts left
    resends,       \* how often the client may still repeat this attempt
    polls,         \* polls left
    job,           \* the job in the queue: "none", "working", "made", "broken"
    made,          \* history: results the provider has made for the call
    got,           \* results that arrived
    reply,         \* how the call was answered
    astray,        \* history: an answer was lost, late, or without a result
    missed         \* history: one of the requests for pictures brought none

Call == Plans[need]

providerVars == <<need, phase, attempts, resends, polls, job, made, got, reply,
                  astray, missed>>

ProviderInit ==
    /\ need \in Needs
    /\ phase = "ready"
    /\ attempts = Call.attempts
    /\ resends = MaxResends
    /\ polls = 0
    /\ job = "none"
    /\ made = 0
    /\ got = 0
    /\ reply = "none"
    /\ astray = FALSE
    /\ missed = FALSE

Reply(how) == reply' = how /\ phase' = "end"
Stay == UNCHANGED <<phase, reply>>

-----------------------------------------------------------------------------
(* generate_video, generate_song and musicgen's generate_music: a job      *)

Submit ==
    /\ phase = "ready"
    /\ Call.job
    /\ job' = "working"
    /\ phase' = "polling"
    /\ polls' = MaxPolls
    /\ UNCHANGED <<need, attempts, resends, made, got, reply, astray, missed>>

\* The result at once, and no job.
SubmitAnswered ==
    /\ phase = "ready"
    /\ Call.job
    /\ made' = made + 1
    /\ phase' = "fetching"
    /\ UNCHANGED <<need, attempts, resends, polls, job, got, reply, astray, missed>>

\* Another payload is tried only when this one was not understood.
SubmitRefused ==
    /\ phase = "ready"
    /\ Call.job
    /\ \/ attempts > 1 /\ attempts' = attempts - 1 /\ Stay
       \/ attempts' = 0 /\ Reply("error")
    /\ UNCHANGED <<need, resends, polls, job, made, got, astray, missed>>

\* No answer: nobody knows whether there is a job.
SubmitLost ==
    /\ phase = "ready"
    /\ Call.job
    /\ job' \in {"none", "working"}
    /\ astray' = TRUE
    /\ Reply("error")
    /\ UNCHANGED <<need, attempts, resends, polls, made, got, missed>>

\* The provider, which nobody tells that the call is over.
JobEnds ==
    /\ job = "working"
    /\ \/ job' = "made" /\ made' = made + 1
       \/ job' = "broken" /\ UNCHANGED made
    /\ UNCHANGED <<need, phase, attempts, resends, polls, got, reply, astray, missed>>

Polled == phase = "polling" /\ polls > 0 /\ polls' = polls - 1

PollAnswered ==
    /\ Polled
    /\ CASE job = "made" -> phase' = "fetching" /\ UNCHANGED reply
         [] job = "broken" -> Reply("error")
         [] OTHER -> Stay
    /\ UNCHANGED <<need, attempts, resends, job, made, got, astray, missed>>

\* Seeded fault: a poll without an answer ends the call.
PollGivesUp ==
    /\ Polled
    /\ Reply("error")
    /\ UNCHANGED <<need, attempts, resends, job, made, got, astray, missed>>

\* A poll that fails is only logged; musicgen gives up.
PollLost ==
    /\ Polled
    /\ IF Call.patient THEN Stay ELSE Reply("error")
    /\ astray' = (astray \/ ~Call.patient)
    /\ UNCHANGED <<need, attempts, resends, job, made, got, missed>>

PollsRunOut ==
    /\ phase = "polling"
    /\ polls = 0
    /\ astray' = TRUE
    /\ Reply("error")
    /\ UNCHANGED <<need, attempts, resends, polls, job, made, got, missed>>

Fetch ==
    /\ phase = "fetching"
    /\ got' = 1
    /\ Reply("ok")
    /\ UNCHANGED <<need, attempts, resends, polls, job, made, astray, missed>>

\* The result cannot be fetched, or there is no address in it.
FetchFails ==
    /\ phase = "fetching"
    /\ astray' = TRUE
    /\ Reply("error")
    /\ UNCHANGED <<need, attempts, resends, polls, job, made, got, missed>>

-----------------------------------------------------------------------------
(* OpenRouter: completions                                                 *)

Asking == phase = "ready" /\ ~Call.job /\ attempts > 0 /\ got < Call.wanted

\* A completion may bring more than one picture.
Completed ==
    /\ Asking
    /\ \E n \in IF need = "pictures" THEN {1, 2} ELSE {1} : got' = got + n
    /\ made' = made + 1
    /\ attempts' = attempts - 1
    /\ resends' = MaxResends
    /\ UNCHANGED <<need, phase, polls, job, reply, astray, missed>>

\* Nothing was said, which no other model is asked to hear; or no picture.
Empty ==
    /\ Asking
    /\ attempts' = attempts - 1
    /\ resends' = MaxResends
    /\ missed' = TRUE
    /\ IF need = "speech" THEN Reply("error") ELSE Stay
    /\ UNCHANGED <<need, polls, job, made, got, astray>>

\* A request that fails, with or without having made something, is repeated.
Resend ==
    /\ Asking
    /\ resends > 0
    /\ resends' = resends - 1
    /\ made' \in {made, made + 1}
    /\ astray' = (astray \/ made' > made)
    /\ UNCHANGED <<need, phase, attempts, polls, job, got, reply, missed>>

\* A request that is not repeated fails: another model hears, what came before
\* is shown, or the call has failed.
Failed ==
    /\ Asking
    /\ made' \in {made, made + 1}
    /\ astray' = (astray \/ made' > made)
    /\ missed' = TRUE
    /\ attempts' = IF need = "speech" THEN attempts - 1 ELSE 0
    /\ resends' = MaxResends
    /\ UNCHANGED <<need, phase, polls, job, got, reply>>

Conclude ==
    /\ phase = "ready"
    /\ ~Call.job
    /\ ~Asking
    /\ Reply(IF got > 0 THEN "ok" ELSE "error")
    /\ UNCHANGED <<need, attempts, resends, polls, job, made, got, astray, missed>>

-----------------------------------------------------------------------------

\* The handler's wait_for: the request on its way, and the job, go on without it.
DeadlinePasses ==
    /\ phase # "end"
    /\ Call.deadline
    /\ made' \in IF ~Call.job THEN {made, made + 1} ELSE {made}
    /\ job' \in IF Call.job /\ phase = "ready" THEN {job, "working"} ELSE {job}
    /\ astray' = TRUE
    /\ Reply("late")
    /\ UNCHANGED <<need, attempts, resends, polls, got, missed>>

ProviderNext ==
    \/ Submit \/ SubmitAnswered \/ SubmitRefused \/ SubmitLost \/ JobEnds
    \/ PollAnswered \/ PollLost \/ PollsRunOut \/ Fetch \/ FetchFails
    \/ Completed \/ Empty \/ Resend \/ Failed \/ Conclude
    \/ DeadlinePasses

ProviderSpec == ProviderInit /\ [][ProviderNext]_providerVars

-----------------------------------------------------------------------------
(* Properties *)

\* Every variable has the values the code gives it.
ProviderTypeOK ==
    /\ need \in Needs
    /\ phase \in {"ready", "polling", "fetching", "end"}
    /\ {attempts, resends, polls, made, got} \subseteq Nat
    /\ job \in {"none", "working", "made", "broken"}
    /\ reply \in {"none", "ok", "error", "late"}
    /\ {astray, missed} \subseteq BOOLEAN

\* A call whose price is given back has made nothing at the provider, now or
\* later, unless an answer was lost, late or without a result: no error path
\* leaves a job behind that still completes, but for musicgen's, which takes a
\* poll that fails for the end of the job.  A queued job is made once whatever
\* payloads were tried, and four pictures are four unless a request brought none.
NothingWasted ==
    /\ reply # "none" /\ ~astray =>
        /\ reply = "ok" <=> made > 0
        /\ job # "working"
    /\ Call.job => made <= 1
    /\ reply = "ok" => made > 0 /\ (got >= Call.wanted \/ missed)

=============================================================================
