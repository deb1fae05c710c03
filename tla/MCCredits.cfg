\* Two calls in flight on the rows of a user and of a newcomer, four calls in
\* all, over one midnight.
CONSTANTS
    u1 = u1
    u2 = u2
    t1 = t1
    t2 = t2
    NoTask = NoTask
    NoUser = NoUser
    NoEntry = NoEntry
    Users <- MCUsers
    Founders <- MCFounders
    Tasks <- MCTasks
    Prices <- MCPrices
    Amounts <- MCAmounts
    LevelThresholds <- MCThresholds
    DailyFree = 2
    RefereeCr = 1
    ReferrerCr = 2
    MaxDay = 2
    MaxCalls = 4
SPECIFICATION Spec
INVARIANT TypeOK
INVARIANT NoLostUpdate
INVARIANT NoOverdraft
INVARIANT BooksBalance
INVARIANT ReferralCount
PROPERTY Linearizable
\* The bot is idle once nobody writes to it any more.
CHECK_DEADLOCK FALSE
