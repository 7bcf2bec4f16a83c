\* A handler, the poller and two resets beside each other.
CONSTANTS
    Stat = {link_stats}
    Info = {olt_info}
    Handler = {h1}
    Poller = {poll}
    Resetter = {c1, c2}
    TTL = 2
    MaxTime = 4
    MaxReads = 2
    MaxClears = 2
    MaxChanges = 1
    Nobody = Nobody
SPECIFICATION Spec
CHECK_DEADLOCK FALSE
SYMMETRY Symmetry
INVARIANTS
    TypeOK
    CacheInv
PROPERTIES
    NoCountersFromBeforeClear
    OneAnswerPerTTL
    HandlersReadWholeData
