CONSTANTS
    p1 = p1
    p2 = p2
    o1 = o1
    g1 = g1
    g2 = g2
    r1 = r1
    r2 = r2
    r3 = r3
    None = None
    Payments = {p1, p2}
    Orders = {o1}
    Groups = {g1, g2}
    Refunds = {r1, r2, r3}
    Provider = "razorpay"
    Events <- LedgerEvents

SPECIFICATION HistorySpec

INVARIANTS
    TypeOK
    AggregateCoversProcessed
    NothingLeftHeld
    PaidOrderWasCaptured
    CaptureNeverLost

PROPERTIES
    ImplementsCaptureLedger
