\* Every interleaving, signals anywhere, under the scheduler's fairness.  Two HAL
\* threads with two events each overfill a queue of two; a batch of one yields
\* with events still queued.  Without symmetry, which liveness does not allow.
\* The process ends (or dies, or blocks on itself), so a final state is legal.
CONSTANTS
    HalThread = {h1, h2}
    BusThread = {b1}
    Capacity = 2
    Batch = 1
    MaxEvents = 2
    Raisable <- FewEvents
    SignalPoints <- AnyPoint
    Nobody = Nobody
SPECIFICATION FairSpec
CHECK_DEADLOCK FALSE
INVARIANTS
    TypeOK
    EachEventInOnePlace
    NoCallbackOutlivesQueue
PROPERTIES
    ImplementsDelivery
    QueuedEventIsHandled
    RequestInLoopEndsRun
