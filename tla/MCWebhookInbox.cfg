CONSTANTS
    d1 = d1
    d2 = d2
    d3 = d3
    p1 = p1
    Deliveries = {d1, d2, d3}
    Direct = {d3}
    Payments = {p1}
    PaymentOf <- OnePayment
    Handlers = {h1, h2}
    Workers = {w1, w2}
    None = None
    Limit = 2
    MaxSends = 4
    MaxCrashes = 1

SPECIFICATION FairSpec

INVARIANTS
    MarkedMeansApplied

PROPERTIES
    NeverWaitsAgain
    AcceptedIsHandled
    ImplementsEffectivelyOnce
CHECK_DEADLOCK FALSE
