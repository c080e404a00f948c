SPECIFICATION Spec
CONSTANTS
    Tracks = {t1, t2}
    ObjectIds = {0, 1}
    Sizes = {1, 2}
    Tags = {x}
    Geometries = {2, 3}
    ByteLimit = 3
    ObjectLimit = 2
    MinSlots = 2
    MaxSlots = 2
    MaxSymbols = 4
    MaxBatch = 2
INVARIANT AccountingExact
INVARIANT IdentityUnique
INVARIANT AdmittedIsStored
PROPERTY ProtectedSurvives
PROPERTY RepairNeverRewinds
PROPERTY RepairEndsOnlyByShrinking
SYMMETRY TrackSymmetry
