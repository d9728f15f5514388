SPECIFICATION Spec
CONSTANTS
    N = 3
    Amount = 3
    Cost = 1
    Payers = {"asha"}
    Parts = {1}
    MaxRequests = 2
INVARIANTS
    OutcomeWasCaptured
    ClaimBacked
    RevenueFromCaptures
PROPERTIES
    LinksClose
CHECK_DEADLOCK FALSE
