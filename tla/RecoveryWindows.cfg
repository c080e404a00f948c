SPECIFICATION Spec
CONSTANTS
    Peers = {p1}
    Window = 2
    MaxWindows = 2
    GapSpan = 2
    Capacity = 4
    MaxObjects = 7
    MaxFinishes = 1
    MaxNacks = 1
    MaxReconnects = 0
    MaxUnsubscribes = 0
    MaxResubscribes = 0
INVARIANT AckedIsDelivered
INVARIANT MissingIsRepairable
INVARIANT MissingIsNotForgotten
INVARIANT EmittedIsRemembered
INVARIANT NoProtocolError
CHECK_DEADLOCK FALSE
