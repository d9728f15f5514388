CONSTANTS
    d1 = d1
    d2 = d2
    d3 = d3
    p1 = p1
    Deliveries = {d1, d2, d3}
    Direct = {d3}
    Payments = {p1}
    PaymentOf <- OnePayment
    Handlers = {h1, h2}
    Workers = {w1, w2}
    None = None
    Limit = 2
    MaxSends = 2
    MaxCrashes = 0

SPECIFICATION Spec

INVARIANT AckedIsNotLost
CHECK_DEADLOCK FALSE
