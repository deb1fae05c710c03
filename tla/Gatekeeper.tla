----------------------------- MODULE Gatekeeper -----------------------------
(***************************************************************************)
(* Whether an update of a customer reaches a handler: the ban check with   *)
(* its verdict cached in Redis (middlewares/ban_check.py), then the rate   *)
(* limit with its counter in Redis (middlewares/rate_limit.py,             *)
(* rate_limit_check_and_incr of shared/redis/store.py); and everything     *)
(* that blocks or unblocks the customer meanwhile.                         *)
(*                                                                         *)
(* One customer who is no administrator, several updates at once.  Every   *)
(* call to Redis or to the database may fail, and each failure lets the    *)
(* update through.  What a middleware does when the handler itself raises  *)
(* is in Generation.                                                       *)
(***************************************************************************)
EXTENDS Integers, FiniteSets

CONSTANTS
    Events,         \* updates the customer sends
    BanTTL,         \* ticks for which a verdict is cached
    RateWindow,     \* ticks after which the counter expires
    RateMax,        \* updates served for one counter
    MaxFlight,      \* bound: ticks an update spends in the middlewares
    MaxClock,       \* bound: the last tick
    MaxBlocks,      \* bound: changes of is_blocked
    MaxFailures     \* bound: calls that fail

ASSUME GateAssumption ==
    /\ IsFiniteSet(Events)
    /\ {BanTTL, RateWindow, RateMax} \subseteq Nat \ {0}
    /\ {MaxFlight, MaxClock, MaxBlocks, MaxFailures} \subseteq Nat

VARIABLES
    clock,
    blocked,        \* users.is_blocked
    blockedAt,      \* history: when is_blocked last changed
    blocks,         \* counts the changes of is_blocked
    verdict,        \* ban:{user}, with the tick at which it expires
    rateCount,      \* neurobox:rate:{user}, with the tick at which it expires
    place,          \* where each update is, since when, and what it read
    failures,       \* counts the failed calls
    countedAt       \* history: when Redis counted the served updates, 0: not at all

gateVars == <<clock, blocked, blockedAt, blocks, verdict, rateCount, place, failures, countedAt>>

Passing == {"reading", "storing", "rating"}

NotThere == [at |-> "idle", since |-> 0, row |-> FALSE, waved |-> FALSE]
NoVerdict == [blocked |-> FALSE, until |-> 0]
NoCounter == [hits |-> 0, until |-> 0]

GateInit ==
    /\ clock = 1
    /\ blocked \in BOOLEAN
    /\ blockedAt = 0
    /\ blocks = 0
    /\ verdict = NoVerdict
    /\ rateCount = NoCounter
    /\ place = [u \in Events |-> NotThere]
    /\ failures = 0
    /\ countedAt = [u \in Events |-> 0]

Cached == clock < verdict.until

\* The updates counted and served less than a window ago.
InWindow == {u \in Events : countedAt[u] # 0 /\ countedAt[u] > clock - RateWindow}
Hits == IF clock < rateCount.until THEN rateCount.hits ELSE 0

GoTo(u, to) == place' = [place EXCEPT ![u].at = to]
End(u, to) == place' = [place EXCEPT ![u] = [NotThere EXCEPT !.at = to]]
Works == UNCHANGED failures
Fails == failures < MaxFailures /\ failures' = failures + 1

-----------------------------------------------------------------------------
(* BanCheckMiddleware *)

\* A cached verdict decides; without one, or without Redis, the row is read.
CheckBan(u) ==
    /\ place[u].at = "idle"
    /\ \/ /\ Works
          /\ place' = [place EXCEPT ![u] = [NotThere EXCEPT
                !.since = clock,
                !.at = IF ~Cached THEN "reading"
                       ELSE IF verdict.blocked THEN "banned" ELSE "rating"]]
       \/ /\ Fails
          /\ place' = [place EXCEPT ![u] = [NotThere EXCEPT !.since = clock, !.at = "reading"]]
    /\ UNCHANGED <<clock, blocked, blockedAt, blocks, verdict, rateCount, countedAt>>

\* A customer without a row is treated as one who is not blocked; a database
\* that fails waves the update through.
ReadRow(u) ==
    /\ place[u].at = "reading"
    /\ \/ /\ Works
          /\ place' = [place EXCEPT ![u].at = "storing", ![u].row = blocked]
       \/ /\ Fails
          /\ place' = [place EXCEPT ![u].at = "rating", ![u].waved = TRUE]
    /\ UNCHANGED <<clock, blocked, blockedAt, blocks, verdict, rateCount, countedAt>>

\* Seeded fault: a verdict is never dropped.
StoredForGood(row) == [blocked |-> row, until |-> MaxClock + 1]

Stored(row) == [blocked |-> row, until |-> clock + BanTTL]

Store(u) ==
    /\ place[u].at = "storing"
    /\ \/ Works /\ verdict' = Stored(place[u].row)
       \/ Fails /\ UNCHANGED verdict
    /\ IF place[u].row THEN End(u, "banned") ELSE GoTo(u, "rating")
    /\ UNCHANGED <<clock, blocked, blockedAt, blocks, rateCount, countedAt>>

-----------------------------------------------------------------------------
(* RateLimitMiddleware *)

\* Seeded fault: the counter expires a tick before its window ends.
CountTooShort == [hits |-> Hits + 1, until |-> clock + RateWindow - 1]

\* INCR and EXPIRE, in one transaction.
Count == [hits |-> Hits + 1, until |-> clock + RateWindow]

\* An answer that is lost serves the update, counted or not.
Rate(u) ==
    /\ place[u].at = "rating"
    /\ \/ /\ Works
          /\ rateCount' = Count
          /\ LET served == Count.hits <= RateMax IN
             /\ End(u, IF served THEN "served" ELSE "limited")
             /\ countedAt' = IF served THEN [countedAt EXCEPT ![u] = clock] ELSE countedAt
       \/ /\ Fails
          /\ rateCount' \in {rateCount, Count}
          /\ End(u, "served")
          /\ UNCHANGED countedAt
    /\ UNCHANGED <<clock, blocked, blockedAt, blocks, verdict>>

-----------------------------------------------------------------------------
(* Who writes is_blocked; none of them touches the cached verdict *)

Write(value) ==
    /\ blocks < MaxBlocks
    /\ blocks' = blocks + 1
    /\ blocked' = value
    /\ blockedAt' = IF blocked = value THEN blockedAt ELSE clock
    /\ UNCHANGED <<clock, verdict, rateCount, failures, countedAt>>

\* An administrator, from any of the three panels.
AdminBlocks == Write(TRUE) /\ UNCHANGED place
AdminUnblocks == Write(FALSE) /\ UNCHANGED place

\* A broadcast or a reminder is refused by Telegram: the customer has stopped
\* the bot.
SendForbidden == ~blocked /\ Write(TRUE) /\ UNCHANGED place

\* cb_delete_account_confirm, a handler the customer has reached.
DeleteAccount(u) ==
    /\ place[u].at = "served"
    /\ Write(TRUE)
    /\ End(u, "deleted")

\* An update does not stay in the middlewares for longer than MaxFlight.
Tick ==
    /\ clock < MaxClock
    /\ \A u \in Events : place[u].at \in Passing => clock - place[u].since < MaxFlight
    /\ clock' = clock + 1
    /\ UNCHANGED <<blocked, blockedAt, blocks, verdict, rateCount, place, failures, countedAt>>

GateNext ==
    \/ Tick \/ AdminBlocks \/ AdminUnblocks \/ SendForbidden
    \/ \E u \in Events :
        CheckBan(u) \/ ReadRow(u) \/ Store(u) \/ Rate(u) \/ DeleteAccount(u)

GateSpec == GateInit /\ [][GateNext]_gateVars

-----------------------------------------------------------------------------
(* Properties *)

\* Every variable has the values the code gives it.
GateTypeOK ==
    /\ {clock, blockedAt, blocks, failures} \subseteq Nat
    /\ blocked \in BOOLEAN
    /\ verdict \in [blocked : BOOLEAN, until : Nat]
    /\ rateCount \in [hits : Nat, until : Nat]
    /\ place \in [Events -> [at : Passing \cup {"idle", "banned", "limited",
                                               "served", "deleted"},
                              since : Nat, row : BOOLEAN, waved : BOOLEAN]]
    /\ countedAt \in [Events -> Nat]

Reaches(u, to) == place[u].at # to /\ place'[u].at = to

\* How long a verdict can outlive the row it was read from: it is read and
\* stored while one update passes, and taken up by another.
Memory == BanTTL + 2 * MaxFlight

\* A block takes hold, and so does its end: once is_blocked has been the same
\* for that long, no update of a blocked customer is served and none of the
\* others is refused as banned, whichever middleware was reading the row when it
\* was written, unless the database failed the check (BanCheckMiddleware).
BlocksTakeHold ==
    [][\A u \in Events :
        ( \/ Reaches(u, "served") /\ blocked /\ ~place[u].waved
          \/ Reaches(u, "banned") /\ ~blocked )
        => clock - blockedAt < Memory]_gateVars

\* Of the updates that Redis counted, no more than RateMax are served in any
\* window, wherever it begins (rate_limit_check_and_incr).
RateHolds ==
    Cardinality(InWindow) <= RateMax

=============================================================================
