\* Three interfaces and an array of two; three events: an interface goes up and
\* down again while another one comes up, or each one has its event and the last
\* finds the array full; the poller refreshes the list at any point, or never.
CONSTANTS
    Name = {veip0, veip1, veip2}
    InitialHal <- SomeKnown
    MaxInterfaces = 2
    MaxRows = 2
    MaxEvents = 3
    NoName = NoName
    NoRow = NoRow
SPECIFICATION Spec
SYMMETRY Names
CHECK_DEADLOCK FALSE
INVARIANTS
    TypeOK
    WanFollowsEvents
    OneRowPerInterface
    CountSettles
