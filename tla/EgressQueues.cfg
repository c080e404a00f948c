SPECIFICATION FairSpec
CONSTANTS
    Sockets = {s1, s2}
    Destinations = {d1, d2}
    Sizes = {1, 2}
    Tags = {t1}
    Capacity = 3
    ByteLimit = 5
    Batch = 2
    MaxPacket = 2
INVARIANT RingExact
INVARIANT NeverRefused
PROPERTY ImplementsFifo
PROPERTY QueueDrains
