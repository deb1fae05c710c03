----------------------------- MODULE VideoQueue -----------------------------
(***************************************************************************)
(* Videos made by the worker: the bot pushes a task to a Redis list, the   *)
(* worker pops it, makes the video, delivers it or gives the price back.   *)
(* When the push fails the bot makes the video itself.                     *)
(*                                                                         *)
(* The cooldown of videos is left to Generation; an order here has spent.  *)
(***************************************************************************)
EXTENDS Integers, FiniteSets, Sequences

CONSTANTS
    Orders,        \* videos that were asked for and spent on
    NoOrder,       \* the worker waits in BLPOP
    MaxCopies      \* bound: tasks that one push leaves in the list

ASSUME VideoAssumption ==
    /\ IsFiniteSet(Orders)
    /\ NoOrder \notin Orders
    /\ MaxCopies \in Nat \ {0}

\* A tester pays nothing, and no flag of the task says so.
Payers == {"paid", "free", "tester"}

VARIABLES
    payer,         \* how the order was spent for
    botStage,      \* where the handler of an order is
    queue,         \* neurobox:tasks
    working,       \* the order whose task the worker has popped
    workStage,     \* and what it is about to do with it
    copies,        \* history: how often an order is to be made
    sent,          \* videos the customer has received
    rolled,        \* how often the policy use of the order was rolled back
    given,         \* prices given back
    swallowed,     \* orders with a refund or a delivery that failed unseen
    lost           \* orders whose process died with them

videoVars == <<payer, botStage, queue, working, workStage, copies, sent, rolled, given,
               swallowed, lost>>

VideoInit ==
    /\ payer \in [Orders -> Payers]
    /\ botStage = [o \in Orders |-> "spent"]
    /\ queue = <<>>
    /\ working = NoOrder
    /\ workStage = "idle"
    /\ copies = [o \in Orders |-> 0]
    /\ sent = [o \in Orders |-> 0]
    /\ rolled = [o \in Orders |-> 0]
    /\ given = [o \in Orders |-> 0]
    /\ swallowed = {}
    /\ lost = {}

AddTo(counter, o) == [counter EXCEPT ![o] = @ + 1]
outcomes == <<sent, rolled, given, swallowed, lost>>

-----------------------------------------------------------------------------
(* The bot: _generate_video_text and push_task                             *)

\* Seeded fault: the customer of a failed push is told to wait all the same.
InlineNever(answered) == FALSE

\* Whether the bot goes on to make the video itself.
InlineAfter(answered) == ~answered

\* The client repeats RPUSH after a timeout, so that one push may leave several
\* tasks, or none, or some whose answer is lost: push_task says FALSE then.
Push(o) ==
    /\ botStage[o] = "spent"
    /\ \E n \in 0..MaxCopies, answered \in BOOLEAN :
        /\ answered => n > 0
        /\ queue' = queue \o [i \in 1..n |-> o]
        /\ copies' = [copies EXCEPT ![o] = n + IF InlineAfter(answered) THEN 1 ELSE 0]
        /\ botStage' = [botStage EXCEPT ![o] = IF InlineAfter(answered) THEN "inline" ELSE "end"]
    /\ UNCHANGED <<payer, working, workStage, outcomes>>

\* Telegram gets the video, or a link to it; neither may arrive.
InlineMade(o) ==
    /\ botStage[o] = "inline"
    /\ botStage' = [botStage EXCEPT ![o] = "end"]
    /\ \/ sent' = AddTo(sent, o) /\ UNCHANGED swallowed
       \/ swallowed' = swallowed \cup {o} /\ UNCHANGED sent
    /\ UNCHANGED <<payer, queue, working, workStage, copies, rolled, given, lost>>

\* Timeout, error or no video: the bot refunds only what was charged.
InlineFailed(o) ==
    /\ botStage[o] = "inline"
    /\ botStage' = [botStage EXCEPT ![o] = "end"]
    /\ rolled' = IF payer[o] = "paid" THEN AddTo(rolled, o) ELSE rolled
    /\ given' = IF payer[o] = "paid" THEN AddTo(given, o) ELSE given
    /\ UNCHANGED <<payer, queue, working, workStage, copies, sent, swallowed, lost>>

BotRestarts ==
    /\ \E o \in Orders : botStage[o] # "end"
    /\ lost' = lost \cup {o \in Orders : botStage[o] # "end"}
    /\ botStage' = [o \in Orders |-> "end"]
    /\ UNCHANGED <<payer, queue, working, workStage, copies, sent, rolled, given, swallowed>>

-----------------------------------------------------------------------------
(* The worker: main, process_task and handle                               *)

\* BLPOP: from now on only the worker knows of the task.
Pop ==
    /\ working = NoOrder
    /\ queue # <<>>
    /\ working' = Head(queue)
    /\ queue' = Tail(queue)
    /\ workStage' = "make"
    /\ UNCHANGED <<payer, botStage, copies, outcomes>>

Make ==
    /\ workStage = "make"
    /\ workStage' \in {"deliver", "refund"}
    /\ UNCHANGED <<payer, botStage, queue, working, copies, outcomes>>

Finish == working' = NoOrder /\ workStage' = "idle"

\* The post to Telegram is not repeated and its failure not noticed.
DeliverVideo ==
    /\ workStage = "deliver"
    /\ \/ sent' = AddTo(sent, working) /\ UNCHANGED swallowed
       \/ swallowed' = swallowed \cup {working} /\ UNCHANGED sent
    /\ Finish
    /\ UNCHANGED <<payer, botStage, queue, copies, rolled, given, lost>>

\* Seeded fault: the price is given back and the video delivered all the same.
RefundAndDeliver ==
    /\ workStage = "refund"
    /\ rolled' = AddTo(rolled, working)
    /\ given' = IF payer[working] # "free" THEN AddTo(given, working) ELSE given
    /\ workStage' = "deliver"
    /\ UNCHANGED <<payer, botStage, queue, working, copies, sent, swallowed, lost>>

\* refund_spend_credits with the cost and the flags of the task.  An exception
\* is swallowed, and the customer is told that the price is back.
RefundVideo ==
    /\ workStage = "refund"
    /\ \/ /\ rolled' = AddTo(rolled, working)
          /\ given' = IF payer[working] # "free" THEN AddTo(given, working) ELSE given
          /\ UNCHANGED swallowed
       \/ /\ rolled' \in {rolled, AddTo(rolled, working)}
          /\ swallowed' = swallowed \cup {working}
          /\ UNCHANGED given
    /\ Finish
    /\ UNCHANGED <<payer, botStage, queue, copies, sent, lost>>

WorkerDies ==
    /\ working # NoOrder
    /\ lost' = lost \cup {working}
    /\ Finish
    /\ UNCHANGED <<payer, botStage, queue, copies, sent, rolled, given, swallowed>>

VideoNext ==
    \/ \E o \in Orders : Push(o) \/ InlineMade(o) \/ InlineFailed(o)
    \/ BotRestarts \/ Pop \/ Make \/ DeliverVideo \/ RefundVideo \/ WorkerDies

VideoSpec == VideoInit /\ [][VideoNext]_videoVars

-----------------------------------------------------------------------------

VideoTypeOK ==
    /\ payer \in [Orders -> Payers]
    /\ botStage \in [Orders -> {"spent", "inline", "end"}]
    /\ queue \in Seq(Orders)
    /\ working \in Orders \cup {NoOrder}
    /\ workStage \in {"idle", "make", "deliver", "refund"}
    /\ workStage = "idle" <=> working = NoOrder
    /\ copies \in [Orders -> Nat]
    /\ sent \in [Orders -> Nat]
    /\ rolled \in [Orders -> Nat]
    /\ given \in [Orders -> Nat]
    /\ swallowed \in SUBSET Orders
    /\ lost \in SUBSET Orders

\* How many of an order's copies are still to come.
Open(o) ==
    Cardinality({i \in DOMAIN queue : queue[i] = o})
    + (IF working = o THEN 1 ELSE 0) + (IF botStage[o] = "inline" THEN 1 ELSE 0)

\* A copy of an order ends as one video or as one refund, never as both, and the
\* use of the policy is rolled back once for a copy.  The second video, or the
\* second refund, of one charge needs a push that left two copies.
OneOutcomePerCopy ==
    \A o \in Orders : sent[o] + rolled[o] + Open(o) <= copies[o] /\ given[o] <= rolled[o]

\* An order whose copies are all dealt with has been delivered, or paid back to
\* whoever was charged; what is missing was lost with a process, or in a
\* delivery or a refund whose failure the worker does not see.
NoSilentLoss ==
    \A o \in Orders :
        botStage[o] = "end" /\ Open(o) = 0 /\ o \notin lost \cup swallowed
        /\ payer[o] = "paid" => sent[o] + given[o] = copies[o] /\ copies[o] > 0

=============================================================================
