\* Fair runs: the poller keeps polling and can always be stopped.
CONSTANTS
    Bus = {b1, b2}
    Interval <- AnyInterval
    MinInterval = 1
    MaxInterval = 2
    MaxThreads = 2
    MaxRequests = 1
    Nobody = Nobody
SPECIFICATION FairSpec
CHECK_DEADLOCK FALSE
PROPERTIES
    JoinReturns
    PollingContinues
    NewIntervalIsUsed
