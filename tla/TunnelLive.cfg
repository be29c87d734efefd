SPECIFICATION FairSpec
CONSTANTS
    MaxCalls = 2
    MaxSessions = 1
    MaxChunks = 0
    MaxQueue = 1
    MaxPending = 2
INVARIANTS WaitingIsTimed WaitingIsServed
PROPERTIES CallSettles EndReachesReader TransportCloses
CHECK_DEADLOCK FALSE
