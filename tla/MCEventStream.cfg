SPECIFICATION Spec
CONSTANTS
    Requests = {"r"}
    Injections = {"x"}
    Clients = {"c"}
    Batch = 2
    QueueSize = 2
    DispatchLimit = 1
    Webhooks = 3
    MaxEvents = 4
INVARIANTS
    SeenOnce
    CommittedIsPublished
PROPERTIES
    OutboxDrains
CHECK_DEADLOCK FALSE
