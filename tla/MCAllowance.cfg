\* The instance of MCCredits.cfg, asked whether a user's free credits of a day
\* stay within the daily allowance.
CONSTANTS
    u1 = u1
    u2 = u2
    t1 = t1
    t2 = t2
    NoTask = NoTask
    NoUser = NoUser
    NoEntry = NoEntry
    Users <- MCUsers
    Founders <- MCFounders
    Tasks <- MCTasks
    Prices <- MCPrices
    Amounts <- MCAmounts
    LevelThresholds <- MCThresholds
    DailyFree = 2
    RefereeCr = 1
    ReferrerCr = 2
    MaxDay = 2
    MaxCalls = 4
SPECIFICATION Spec
INVARIANT DailyAllowance
\* The bot is idle once nobody writes to it any more.
CHECK_DEADLOCK FALSE
