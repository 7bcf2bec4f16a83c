\* Every interleaving of two bus threads, the poller and the main thread.
CONSTANTS
    Bus = {b1, b2}
    Interval <- AnyInterval
    MinInterval = 1
    MaxInterval = 2
    MaxThreads = 2
    MaxRequests = 2
    Nobody = Nobody
SPECIFICATION Spec
CHECK_DEADLOCK FALSE
SYMMETRY Symmetry
INVARIANTS
    TypeOK
    MutexReleasedOnReturn
    StopRequestStands
