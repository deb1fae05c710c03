------------------------------ MODULE Breaker ------------------------------
(***************************************************************************)
(* The circuit breaker in front of OpenRouter and the three entry points   *)
(* that use it (src/shared/providers/openai_text.py).  The breaker is an   *)
(* object of the bot process, read before a request is sent and written    *)
(* when it is answered; other requests of the process are answered in      *)
(* between.  One provider is modelled: each has entries of its own.        *)
(***************************************************************************)
EXTENDS Integers, FiniteSets, Sequences

CONSTANTS
    Calls,          \* requests that may overlap
    Threshold,      \* failures that open the breaker
    Window,         \* ticks for which a failure counts
    Cooldown,       \* ticks for which the breaker stays open
    MaxClock,       \* bound: the last tick
    MaxAnswers      \* bound: answers recorded

ASSUME BreakerAssumption ==
    /\ IsFiniteSet(Calls)
    /\ {Threshold, Window, Cooldown} \subseteq Nat \ {0}
    /\ {MaxClock, MaxAnswers} \subseteq Nat

VARIABLES
    clock,          \* time.monotonic() in ticks, from 1
    failures,       \* _failures[provider]: the kept failures, by time and number
    openUntil,      \* _open_until[provider], 0 when it has no entry
    asking,         \* requests sent and not answered
    answers         \* history: the answers recorded, oldest first

breakerVars == <<clock, failures, openUntil, asking, answers>>

BreakerInit ==
    /\ clock = 1
    /\ failures = {}
    /\ openUntil = 0
    /\ asking = {}
    /\ answers = <<>>

-----------------------------------------------------------------------------
(* CircuitBreaker *)

IsOpen == openUntil # 0 /\ clock < openUntil

\* Asking whether the breaker is open deletes an entry that has run out.
Forget == openUntil' = IF IsOpen THEN openUntil ELSE 0

\* Seeded fault: failures are never forgotten.
KeptForever(fails) == fails

Kept(fails) == {f \in fails : f.at > clock - Window}

Reached(fails) == Cardinality(fails) >= Threshold

\* The list of times is a set here: the number of the answer tells two failures
\* of the same tick apart.
RecordFailure ==
    LET kept == Kept(failures \cup {[at |-> clock, no |-> Len(answers) + 1]}) IN
    /\ failures' = kept
    /\ openUntil' = IF Reached(kept) THEN clock + Cooldown ELSE openUntil
    /\ answers' = Append(answers, [at |-> clock, ok |-> FALSE])

RecordSuccess ==
    /\ failures' = {}
    /\ openUntil' = 0
    /\ answers' = Append(answers, [at |-> clock, ok |-> TRUE])

-----------------------------------------------------------------------------
(* generate_text, generate_text_with_image, generate_text_stream *)

\* The request is sent: nothing awaits between the check and the sending.
Ask(c) ==
    /\ c \notin asking
    /\ ~IsOpen
    /\ Forget
    /\ asking' = asking \cup {c}
    /\ UNCHANGED <<clock, failures, answers>>

\* The customer is told which model to try instead.
Suggest(c) ==
    /\ c \notin asking
    /\ IsOpen
    /\ Forget
    /\ UNCHANGED <<clock, failures, asking, answers>>

Leave(c) == asking' = asking \ {c}

Succeed(c) ==
    /\ c \in asking
    /\ Len(answers) < MaxAnswers
    /\ RecordSuccess
    /\ Leave(c)
    /\ UNCHANGED clock

\* A status, a timeout, a missing model, anything that is not a rate limit.
GoWrong(c) ==
    /\ c \in asking
    /\ Len(answers) < MaxAnswers
    /\ RecordFailure
    /\ Leave(c)
    /\ UNCHANGED clock

\* A rate limit is not counted, nor a request whose task is cancelled, nor a
\* stream that its reader gives up.
Drop(c) ==
    /\ c \in asking
    /\ Leave(c)
    /\ UNCHANGED <<clock, failures, openUntil, answers>>

Tick ==
    /\ clock < MaxClock
    /\ clock' = clock + 1
    /\ UNCHANGED <<failures, openUntil, asking, answers>>

BreakerNext ==
    \/ Tick
    \/ \E c \in Calls : Ask(c) \/ Suggest(c) \/ Succeed(c) \/ GoWrong(c) \/ Drop(c)

BreakerSpec == BreakerInit /\ [][BreakerNext]_breakerVars

-----------------------------------------------------------------------------
(* Properties *)

\* Every variable has the values the code gives it.
BreakerTypeOK ==
    /\ clock \in Nat \ {0}
    /\ failures \subseteq [at : Nat, no : Nat]
    /\ openUntil \in Nat
    /\ asking \subseteq Calls
    /\ answers \in Seq([at : Nat, ok : BOOLEAN])

\* The failures that the i-th answer completes: those of the window that ends
\* with it, when no success has followed.
Outage(i) ==
    {j \in 1..i :
        /\ answers[j].at > answers[i].at - Window
        /\ \A k \in j..Len(answers) : ~answers[k].ok}

\* The breaker is shut exactly while some failure that completed an outage is
\* less than a cooldown old, in whatever order the answers of overlapping
\* requests arrive: a failure of a request sent before the breaker was shut
\* prolongs it, failures spread over more than a window never shut it, and one
\* success opens it (CircuitBreaker).
ShutInOutage ==
    IsOpen <=> \E i \in DOMAIN answers :
                /\ Cardinality(Outage(i)) >= Threshold
                /\ clock < answers[i].at + Cooldown

=============================================================================
