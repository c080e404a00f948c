SPECIFICATION Spec
CONSTANTS
    Listener = TRUE
    Conns = {c1, c2}
    Pubs = {p}
    Subs = {s, u}
    Lossy = {u}
    MaxEvents = 2
    MaxBytes = 3
    Payloads = {1, 2}
    MaxGroup = 2
    MaxTraffic = 5
INVARIANT FailuresAreReported
INVARIANT SubscriptionsFollowPeers
PROPERTY WritableIsReported
