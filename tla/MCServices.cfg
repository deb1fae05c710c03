CONSTANTS
    Orders = {o1, o2}
    NoOrder = NoOrder
    MaxCopies = 2
    Calls = {c1, c2, c3}
    Threshold = 2
    Window = 2
    Cooldown = 2
    MaxClock = 6
    MaxAnswers = 5
    Opening = 2
    FreeDaily = 1
    Amounts = {1, 2}
    MaxChanges = 3
    Processes = {p1, p2}
    Reminders = {r1, r2}
    Nudges = {n1}
    Alerts = {a1, a2}
    MaxFailures = 1
    Taps = {t1, t2, t3}
    Customers = {u1, u2}
    Posts = {b1, b2}
    MaxPinned = 1
    MaxPosts = 1
    MaxComments = 2
    Answers = {s1, s2, s3}
    MaxStored = 2
    MaxClears = 1
    MaxPolls = 2
    MaxResends = 2
SPECIFICATION MCSpec
INVARIANT ServicesTypeOK
INVARIANT OneOutcomePerCopy
 
INVARIANT ShutInOutage
INVARIANT JournalExplains
INVARIANT OwesOnlyIfRaced
INVARIANT ReminderFate
INVARIANT NudgedOnce
INVARIANT CountersTrue
INVARIANT LimitsHold
INVARIANT NewestKept
INVARIANT NothingWasted
CHECK_DEADLOCK FALSE
