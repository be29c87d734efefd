SPECIFICATION MCSpec
CONSTANTS
    MaxCalls = 1
    MaxSessions = 2
    MaxChunks = 2
    MaxQueue = 1
    MaxPending = 1
INVARIANTS
    TypeOK WaitingIsTimed WaitingIsServed ResponseInOrder
    UploadInOrder UploadEndIsComplete MapsAreClean SocketEndIsAnnounced
PROPERTIES ImplementsStreams NobodyIsLeftHanging
CHECK_DEADLOCK FALSE
