CONSTANTS
    Writers = {w1, w2}
    LegacyPayload = old
    Retries = 2
    MaxLegacy = 1
    MaxAppends = 2
    MaxTransactions = 3
    MaxDeletions = 1

SPECIFICATION FairSpec

INVARIANTS
    CheckpointAgrees
    DeletionDetected

PROPERTIES
    EveryTransactionEnds
    ImplementsAppendOnlyLog
CHECK_DEADLOCK FALSE
