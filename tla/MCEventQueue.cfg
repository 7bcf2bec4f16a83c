\* Three slots make the indices wrap at a capacity that is not a power of two;
\* three distinct events tell every order of three queued events apart.
CONSTANTS
    Event = {e1, e2, e3}
    NoEvent = NoEvent
    Capacity = 3
SPECIFICATION Spec
INVARIANTS
    TypeOK
    RingInv
PROPERTIES
    ImplementsFifo
