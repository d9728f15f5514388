CONSTANTS
    p1 = p1
    p2 = p2
    o1 = o1
    o2 = o2
    g1 = g1
    r1 = r1
    k1 = k1
    k2 = k2
    h1 = h1
    h2 = h2
    None = None
    Payments = {p1, p2}
    Orders = {o1, o2}
    Groups = {g1}
    Refunds = {r1}
    Provider = "razorpay"
    Events <- CheckoutEvents
    Signed <- OrderOfPayment
    IdempotencyKeys = {k1, k2}
    Handlers = {h1, h2}

SYMMETRY Symmetry

SPECIFICATION CheckoutSpec

INVARIANTS
    FulfilledWasProved

PROPERTY EvidenceIsFinal
