SPECIFICATION Spec
CONSTANTS
    Conns = {c1, c2}
    NackIds = {o1, o2}
    DataSizes = {2}
    NackSize = 2
    ControlSize = 2
    VectorSize = 1
    FirstVectors = 2
    StreamLimit = 16
    EndpointLimit = 28
    VectorLimit = 12
    MinFrameBytes = 3
    ControlByteReserve = 4
    ControlFrameReserve = 1
    EndpointByteReserve = 8
    VectorReserve = 3
SYMMETRY ConnSymmetry
INVARIANT ChargesExact
INVARIANT BudgetsHold
INVARIANT PreflightIsHonoured
INVARIANT ReservesAreLeft
