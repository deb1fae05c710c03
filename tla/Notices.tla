------------------------------ MODULE Notices ------------------------------
(***************************************************************************)
(* What the system sends of its own accord: the reminders of a customer,   *)
(* marked as sent before they are sent (reminder_loop of bot/main.py,      *)
(* get_due_reminders of chat_service.py), and the notices that are marked  *)
(* afterwards: the reminder to top up (balance_reminder_loop) and the      *)
(* alerts to the administrators (worker/jobs/alerts.py).                   *)
(*                                                                         *)
(* Several instances of a loop may run, and any of them may die.           *)
(***************************************************************************)
EXTENDS Integers, FiniteSets

CONSTANTS
    Processes,      \* running instances of a loop
    Reminders,      \* rows of reminders
    Nudges,         \* customers to remind of their balance
    Alerts,         \* alerts with a cooldown whose threshold is exceeded
    MaxFailures     \* bound: nudges refused, marks that fail, processes that die

ASSUME NoticesAssumption ==
    /\ IsFiniteSet(Processes) /\ IsFiniteSet(Reminders \cup Nudges \cup Alerts)
    /\ Reminders \cap (Nudges \cup Alerts) = {} /\ Nudges \cap Alerts = {}
    /\ MaxFailures \in Nat

Notices == Reminders \cup Nudges \cup Alerts

VARIABLES
    due,            \* reminders whose time has come
    marked,         \* sent = TRUE, last_balance_reminder_at or an event, still recent
    held,           \* what each process has selected and not sent yet
    unmarked,       \* what each process has sent and not marked yet
    told,           \* history: how often each notice was sent since it was due
    dropped,        \* history: reminders that Telegram or a death swallowed
    slips,          \* history: how often a notice was sent and never marked
    overlaps,       \* history: how often two processes had selected it at a time
    mishaps         \* counts the failures

noticeVars == <<due, marked, held, unmarked, told, dropped, slips, overlaps, mishaps>>

NoticeInit ==
    /\ due = {}
    /\ marked = {}
    /\ held = [p \in Processes |-> {}]
    /\ unmarked = [p \in Processes |-> {}]
    /\ told = [n \in Notices |-> 0]
    /\ dropped = {}
    /\ slips = [n \in Notices |-> 0]
    /\ overlaps = [n \in Notices |-> 0]
    /\ mishaps = 0

Idle(p) == held[p] = {} /\ unmarked[p] = {}
Busy(n) == {p \in Processes : n \in held[p] \cup unmarked[p]}
Among(counter, notices) ==
    [n \in Notices |-> IF n \in notices THEN counter[n] + 1 ELSE counter[n]]
Unhold(p, n) == held' = [held EXCEPT ![p] = @ \ {n}]

-----------------------------------------------------------------------------
(* reminder_loop *)

FallsDue(r) ==
    /\ r \notin due
    /\ due' = due \cup {r}
    /\ UNCHANGED <<marked, held, unmarked, told, dropped, slips, overlaps, mishaps>>

\* Seeded fault: the query forgets "sent = FALSE".
DueOrSent == due

DueReminders == due \ marked

\* get_due_reminders marks what it returns, in one transaction on locked rows.
ClaimReminders(p) ==
    /\ Idle(p)
    /\ DueReminders # {}
    /\ marked' = marked \cup DueReminders
    /\ held' = [held EXCEPT ![p] = DueReminders]
    /\ UNCHANGED <<due, unmarked, told, dropped, slips, overlaps, mishaps>>

TellReminder(p, r) ==
    /\ r \in held[p] \cap Reminders
    /\ told' = Among(told, {r})
    /\ Unhold(p, r)
    /\ UNCHANGED <<due, marked, unmarked, dropped, slips, overlaps, mishaps>>

\* A refused reminder is not sent again.
ReminderRefused(p, r) ==
    /\ r \in held[p] \cap Reminders
    /\ dropped' = dropped \cup {r}
    /\ Unhold(p, r)
    /\ UNCHANGED <<due, marked, unmarked, told, slips, overlaps, mishaps>>

-----------------------------------------------------------------------------
(* balance_reminder_loop and the alerts: selected, sent, marked *)

Select(p, kind) ==
    /\ Idle(p)
    /\ kind \ marked # {}
    /\ held' = [held EXCEPT ![p] = kind \ marked]
    /\ overlaps' = Among(overlaps, {n \in kind \ marked : Busy(n) # {}})
    /\ UNCHANGED <<due, marked, unmarked, told, dropped, slips, mishaps>>

SelectNudges(p) == Select(p, Nudges)
SelectAlerts(p) == Select(p, Alerts)

\* A nudge is marked before the next one is sent.
TellNudge(p, n) ==
    /\ n \in held[p] \cap Nudges
    /\ unmarked[p] = {}
    /\ told' = Among(told, {n})
    /\ unmarked' = [unmarked EXCEPT ![p] = {n}]
    /\ Unhold(p, n)
    /\ UNCHANGED <<due, marked, dropped, slips, overlaps, mishaps>>

\* A nudge that Telegram refuses is not marked.
NudgeRefused(p, n) ==
    /\ n \in held[p] \cap Nudges
    /\ unmarked[p] = {}
    /\ mishaps < MaxFailures
    /\ mishaps' = mishaps + 1
    /\ Unhold(p, n)
    /\ UNCHANGED <<due, marked, unmarked, told, dropped, slips, overlaps>>

\* Alerts are marked together, after the last one, those that failed included.
TellAlert(p, n) ==
    /\ n \in held[p] \cap Alerts
    /\ told' \in {told, Among(told, {n})}
    /\ unmarked' = [unmarked EXCEPT ![p] = @ \cup {n}]
    /\ Unhold(p, n)
    /\ UNCHANGED <<due, marked, dropped, slips, overlaps, mishaps>>

ReadyToMark(p) == unmarked[p] # {} /\ held[p] \cap Alerts = {}

\* Seeded fault: the mark is lost.
MarkedNone(p) == {}

MarkedNow(p) == unmarked[p]

Mark(p) ==
    /\ ReadyToMark(p)
    /\ marked' = marked \cup MarkedNow(p)
    /\ unmarked' = [unmarked EXCEPT ![p] = {}]
    /\ UNCHANGED <<due, held, told, dropped, slips, overlaps, mishaps>>

\* The UPDATE or the INSERT fails, and the loop goes on.
MarkFails(p) ==
    /\ ReadyToMark(p)
    /\ mishaps < MaxFailures
    /\ mishaps' = mishaps + 1
    /\ slips' = Among(slips, unmarked[p])
    /\ unmarked' = [unmarked EXCEPT ![p] = {}]
    /\ UNCHANGED <<due, marked, held, told, dropped, overlaps>>

\* Shutting down cancels the loops between any two steps.
Dies(p) ==
    /\ mishaps < MaxFailures
    /\ ~Idle(p)
    /\ mishaps' = mishaps + 1
    /\ dropped' = dropped \cup (held[p] \cap Reminders)
    /\ slips' = Among(slips, unmarked[p])
    /\ held' = [held EXCEPT ![p] = {}]
    /\ unmarked' = [unmarked EXCEPT ![p] = {}]
    /\ UNCHANGED <<due, marked, told, overlaps>>

NoticeNext ==
    \/ \E r \in Reminders : FallsDue(r)
    \/ \E p \in Processes :
        \/ ClaimReminders(p) \/ SelectNudges(p) \/ SelectAlerts(p)
        \/ Mark(p) \/ MarkFails(p) \/ Dies(p)
        \/ \E n \in Notices :
            \/ TellReminder(p, n) \/ ReminderRefused(p, n)
            \/ TellNudge(p, n) \/ NudgeRefused(p, n) \/ TellAlert(p, n)

NoticeSpec == NoticeInit /\ [][NoticeNext]_noticeVars

-----------------------------------------------------------------------------
(* Properties *)

\* Every variable has the values the code gives it.
NoticeTypeOK ==
    /\ due \subseteq Reminders
    /\ marked \subseteq Notices
    /\ held \in [Processes -> SUBSET Notices]
    /\ unmarked \in [Processes -> SUBSET (Nudges \cup Alerts)]
    /\ {told, slips, overlaps} \subseteq [Notices -> Nat]
    /\ dropped \subseteq Reminders
    /\ mishaps \in Nat

\* However many processes poll, and whenever they die, a reminder is sent at
\* most once, and one marked as sent has been sent, is being sent or was lost
\* with its process or refused ("без дублей при нескольких воркерах",
\* get_due_reminders).
ReminderFate ==
    \A r \in Reminders :
        /\ told[r] <= 1
        /\ r \in marked => told[r] = 1 \/ r \in dropped \/ Busy(r) # {}

\* A nudge or an alert is repeated before its time only when the mark of an
\* earlier one was lost or two processes had both selected it
\* (balance_reminder_loop, handle of alerts.py).
NudgedOnce ==
    \A n \in Nudges \cup Alerts : told[n] <= 1 + slips[n] + overlaps[n]

=============================================================================
