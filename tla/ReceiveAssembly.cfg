SPECIFICATION Spec
CONSTANTS
    Tracks = {ta, tb}
    NoTrack = none
    Reliable = {tb}
    RatelessData = {ta}
    MaxAlias = 2
    Objects = {1, 2}
    Totals = {2, 3}
    DataCounts = {2}
    MinWindow = 1
    MaxSlots = 2
    MemoryLimit = 5
    CompletedSlots = 1
    Timeout = 1
    MaxTime = 1
    MaxGen = 2
INVARIANT MemoryExact
INVARIANT AssemblersAreCurrent
INVARIANT SuppressedWasReceived
 
CHECK_DEADLOCK FALSE
