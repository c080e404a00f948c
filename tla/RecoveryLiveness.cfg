SPECIFICATION FairSpec
CONSTANTS
    Peers = {p1}
    Window = 2
    MaxWindows = 2
    GapSpan = 2
    Capacity = 3
    MaxObjects = 4
    MaxFinishes = 1
    MaxNacks = 1
    MaxReconnects = 0
    MaxUnsubscribes = 0
    MaxResubscribes = 0
PROPERTY WindowsDrain
PROPERTY BackpressureClears
PROPERTY FinishedTrackReleases
CHECK_DEADLOCK FALSE
