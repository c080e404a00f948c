SPECIFICATION Spec
CONSTANTS
    Peers = {p1}
    Window = 2
    MaxWindows = 2
    GapSpan = 2
    Capacity = 4
    MaxObjects = 3
    MaxFinishes = 0
    MaxNacks = 1
    MaxReconnects = 0
    MaxUnsubscribes = 0
    MaxResubscribes = 1
INVARIANT MissingIsRepairable
CHECK_DEADLOCK FALSE
