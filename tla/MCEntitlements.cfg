\* Two users, two calls in flight, four calls in all, three days.
CONSTANTS
    u1 = u1
    u2 = u2
    t1 = t1
    t2 = t2
    NoUser = NoUser
    NoTask = NoTask
    Users <- MCUsers
    Tasks <- MCTasks
    FullDays = 2
    UnlimitedDays = 2
    MaxUses = 1
    MaxDay = 3
    MaxCalls = 4
SYMMETRY MCSymmetry
SPECIFICATION Spec
INVARIANT TypeOK
INVARIANT StreakEarned
INVARIANT WindowOnce
INVARIANT NotOversold
INVARIANT PromoOnce
\* The bot is idle once nobody writes to it any more.
CHECK_DEADLOCK FALSE
