\* Every way to start, run and end: any step of init fails, handlers, callbacks
\* and the poller run wherever they can.  The process ends: no deadlock check.
CONSTANTS
    BusThread = {b1, b2}
    Setter = {b1}
    HalThread = {h1}
    Nobody = Nobody
SPECIFICATION FairSpec
CHECK_DEADLOCK FALSE
INVARIANTS
    TypeOK
    NothingUsedAfterFree
    MarkersReachT2
    ExitIsReported
    DataMutexReturned
PROPERTIES
    ShutdownCompletes
