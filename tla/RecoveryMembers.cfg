SPECIFICATION Spec
CONSTANTS
    Peers = {p1, p2}
    Window = 2
    MaxWindows = 2
    GapSpan = 2
    Capacity = 4
    MaxObjects = 2
    MaxFinishes = 0
    MaxNacks = 0
    MaxReconnects = 1
    MaxUnsubscribes = 1
    MaxResubscribes = 1
INVARIANT UnackedIsRetained
INVARIANT WatermarksOrdered
SYMMETRY PeerSymmetry
CHECK_DEADLOCK FALSE
