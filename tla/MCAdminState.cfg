SPECIFICATION AdminSpec
CONSTANTS
    Merchants = {"m1", "m2"}
    Wrap = 3
    Rules <- MCRules
    Statuses = {"live", "draft"}
    Models = {"v1", "v2"}
    Stages = {"VALIDATED", "CHAMPION", "ARCHIVED"}
    Refs = {"A", "B"}
    DefaultRef = "A"
    Configured = {"A", "B"}
    Fallback = "shared"
    Grace = 1
    Admins = {"a1", "a2"}
    MaxRequests = 4
    MaxTime = 3
INVARIANTS
    OnlyNewestSpeaks
    PromotedServes
    GraceKept
PROPERTIES
    ExpiredIsRetired
CHECK_DEADLOCK FALSE
