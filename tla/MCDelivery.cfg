CONSTANTS
    Messages = {1, 2}
    PullMax = 2
    Faults = {"push", "ack", "expire", "malformed", "storage", "transient", "crash"}
    MaxArrivals = 3
    MaxIssued = 7
    MaxFailures = 1
SPECIFICATION FairSpec
INVARIANTS
    AckedIsDone
PROPERTIES
    EnqueuedOnceInOrder
    BoxDrains
CHECK_DEADLOCK FALSE
