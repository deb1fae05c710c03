CONSTANTS
    e1 = e1
    e2 = e2
    NoUpdate = NoUpdate
    Updates <- MCUpdates
    Programs <- HandlerPrograms
    Ways <- MCWays
    NoSpend <- MCNoSpend
    NoRefund <- MCNoRefund
    NoReturn <- MCNoReturn
    Scenarios <- MCScenarios
    MaxOverruns = 1
    MaxCoolings = 1
    MaxBlind = 1
SPECIFICATION GenSpec
INVARIANT OneCharge
CHECK_DEADLOCK FALSE
