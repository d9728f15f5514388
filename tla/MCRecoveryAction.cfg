CONSTANTS
    Keys = {k1}
    Clerks = {c1, c2}
    Workers = {w1}
    Customers = {u1}
    LinksPer = 1
    RetryLimit = 2
    Faults = {"none", "transient", "partial", "refused"}
    MaxCrashes = 1

SPECIFICATION FairSpec

INVARIANTS
    PolicyHasLastWord
    ClaimedWasCaptured

PROPERTIES
    IssuedOnce
    EventuallyStopped
CHECK_DEADLOCK FALSE
