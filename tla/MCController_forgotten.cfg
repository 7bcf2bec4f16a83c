\* A signal between publishing g_controller and entering the event loop.
CONSTANTS
    HalThread = {h1}
    BusThread = {}
    Capacity = 1
    Batch = 1
    MaxEvents = 1
    Raisable <- FewEvents
    SignalPoints <- BeforeLoop
    Nobody = Nobody
SPECIFICATION FairSpec
CHECK_DEADLOCK FALSE
PROPERTIES
    ShutdownEndsRun
