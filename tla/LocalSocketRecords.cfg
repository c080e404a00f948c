SPECIFICATION Spec
CONSTANTS
    Procs = {p, q}
    Nobody = nobody
    MaxInodes = 2
    Conns = {k1, k2}
    NoConn = nowhere
    Tracks = {ta}
    NoTrack = none
    DataTracks = {ta}
    MaxClients = 1
    NumTransports = 2
    OutputLimit = 3
    KernelRoom = 1
    MaxIterations = 2
    MaxTraffic = 2
    MaxBusy = 1
INVARIANT ListenerKeepsName
INVARIANT EachRecordOnce
INVARIANT WholeFrames
INVARIANT HangupLosesNothing
SYMMETRY Symmetry
CHECK_DEADLOCK FALSE
