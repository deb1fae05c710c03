\* The instance of MCPayments.cfg, asked whether a refund is deducted once.
CONSTANTS
    u1 = u1
    c1 = c1
    c2 = c2
    x1 = x1
    s1 = s1
    h1 = h1
    h2 = h2
    Loop = Loop
    NoPayment = NoPayment
    NoUser = NoUser
    Users <- MCUsers
    Owner <- MCOwner
    BatchSize = 1
    Cards <- OneCard
    Invoices <- OneInvoice
    StarCharges <- OneCharge
    Handlers <- TwoHandlers
    MaxDeliveries = 3
    MaxFaults = 1
SPECIFICATION Spec
INVARIANT RefundedOnce
\* Everybody may have paid and been served.
CHECK_DEADLOCK FALSE
