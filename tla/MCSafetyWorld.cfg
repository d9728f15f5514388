CONSTANTS
    Possible <- AnyEvents
    MaxLength = 5

SPECIFICATION ShopsSpec

INVARIANTS
    PacksProve
    CorrectIsClean
    DefectsAreSeen

CHECK_DEADLOCK FALSE
