CONSTANTS
    e1 = e1
    e2 = e2
    NoUpdate = NoUpdate
    Updates <- MCUpdates
    Programs <- HandlerPrograms
    Ways <- MCWays
    NoSpend <- MCNoSpend
    NoRefund <- MCNoRefund
    NoReturn <- MCNoReturn
    Scenarios <- MCScenarios
    MaxOverruns = 1
    MaxCoolings = 1
    MaxBlind = 1
    Requests = {1, 2, 3}
    NoRequest = 0
    DailyLimit = 1
    MaxSwitches = 1
    MaxLapses = 1
    Events = {1, 2, 3}
    BanTTL = 1
    RateWindow = 2
    RateMax = 2
    MaxFlight = 1
    MaxClock = 4
    MaxBlocks = 1
    MaxFailures = 1
    m1 = m1
    m2 = m2
    Messages <- MCMessages
    MaxChoices = 2
SPECIFICATION MCSpec
INVARIANT RequestsTypeOK
INVARIANT Exclusion
INVARIANT ChargedDelivered
INVARIANT NothingMinted
INVARIANT HeavyOnce
INVARIANT TakenOnce
INVARIANT RetryAllowed
INVARIANT CapUnlessRaced
INVARIANT CounterExact
INVARIANT CountedOrCharged
 
INVARIANT RateHolds
PROPERTY BlocksTakeHold
CHECK_DEADLOCK FALSE
