SPECIFICATION SessionSpec
CONSTANTS
    MaxConnections = 2
    InitialDelay = 1
    MaxDelay = 3
    MaxFaults = 2
INVARIANT NoHandshakeError
PROPERTY SessionRecovers
PROPERTY ShutdownDrains
CHECK_DEADLOCK FALSE
