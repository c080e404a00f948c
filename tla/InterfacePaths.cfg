SPECIFICATION InterfacesSpec
CONSTANTS
    Ifaces = {1, 2}
    Addrs = {1, 2}
    Allowed = {1, 2}
    IsServer = FALSE
    Remotes = 2
    MaxPaths = 2
    PipeCapacity = 2
    FirstAddr = 1
    FirstIface = 2
    MaxChanges = 2
    MaxCuts = 1
INVARIANT SlotsFollowSockets
PROPERTY PathsConverge
CHECK_DEADLOCK FALSE
