\* The instance of MCEntitlements.cfg, asked whether the login bonus is credited
\* once a day.
CONSTANTS
    u1 = u1
    u2 = u2
    t1 = t1
    t2 = t2
    NoUser = NoUser
    NoTask = NoTask
    Users <- MCUsers
    Tasks <- MCTasks
    FullDays = 2
    UnlimitedDays = 2
    MaxUses = 1
    MaxDay = 3
    MaxCalls = 4
SPECIFICATION Spec
INVARIANT BonusOncePerDay
\* The bot is idle once nobody writes to it any more.
CHECK_DEADLOCK FALSE
