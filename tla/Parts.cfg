SPECIFICATION Spec
CONSTANTS
    Clients = {c1, c2, c3}
    Capacity = 2
    MaxBuckets = 2
    Interval = 2
    RateNum = 3
    RateDen = 4
    MaxTime = 4
    MaxFresh = 2
    Hosts = {h1, h2}
    Addresses = {a1, a2, a3}
    China = {a1}
    Callers = {p1, p2}
    TTL = 1
    MaxNames = 1
    MaxPlaces = 2
    MaxClock = 3
    MaxLinks = 3
INVARIANTS
    LimitIsKept DirectIsJustified HoldsTheLatest FramesDoNotMultiply
SYMMETRY Alike
CHECK_DEADLOCK FALSE
