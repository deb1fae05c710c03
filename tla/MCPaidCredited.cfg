\* The instance of MCPaymentsLive.cfg, asked whether a paid payment is always
\* credited.
CONSTANTS
    u1 = u1
    c1 = c1
    c2 = c2
    x1 = x1
    s1 = s1
    h1 = h1
    h2 = h2
    Loop = Loop
    NoPayment = NoPayment
    NoUser = NoUser
    Users <- MCUsers
    Owner <- MCOwner
    BatchSize = 1
    Cards <- TwoCards
    Invoices <- Nothing
    StarCharges <- Nothing
    Handlers <- OneHandler
    MaxDeliveries = 2
    MaxFaults = 1
SPECIFICATION FairSpec
PROPERTY PaidCredited
\* Everybody may have paid and been served.
CHECK_DEADLOCK FALSE
