\* The instance of MCEntitlements.cfg, asked whether an extension always adds its
\* days to a running subscription.
CONSTANTS
    u1 = u1
    u2 = u2
    t1 = t1
    t2 = t2
    NoUser = NoUser
    NoTask = NoTask
    Users <- MCUsers
    Tasks <- MCTasks
    FullDays = 2
    UnlimitedDays = 2
    MaxUses = 1
    MaxDay = 3
    MaxCalls = 4
SPECIFICATION Spec
PROPERTY ExtendedFromEnd
\* The bot is idle once nobody writes to it any more.
CHECK_DEADLOCK FALSE
