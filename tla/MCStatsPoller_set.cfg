\* A SET waits for the mutex its own handler holds.
CONSTANTS
    Bus = {b1}
    Interval <- AnyInterval
    MinInterval = 1
    MaxInterval = 2
    MaxThreads = 2
    MaxRequests = 1
    Nobody = Nobody
SPECIFICATION FairSpec
CHECK_DEADLOCK FALSE
PROPERTIES SetReturns
