\* A run of two pages and a late event; one connection more than the ceiling.
CONSTANTS
    c1 = c1
    c2 = c2
    c3 = c3
    nowhere = nowhere
    Connections = {c1, c2, c3}
    EVENT_PAGE_MAX = 2
    CONCURRENT_EVENT_STREAMS = 2
    MAX_IDLE = 1
    MaxEvents = 4
    MaxLosses = 2
SPECIFICATION StreamSpec
INVARIANTS EndIsComplete
PROPERTIES StreamFinishes
CHECK_DEADLOCK FALSE
