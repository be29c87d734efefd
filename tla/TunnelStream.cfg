SPECIFICATION Spec
CONSTANTS
    MaxCalls = 1
    MaxSessions = 2
    MaxChunks = 2
    MaxQueue = 1
    MaxPending = 1
INVARIANTS
    TypeOK EntryHasOpenReader DownloadInOrder UploadInOrder
    CleanEndIsComplete CloseIsAnnounced ReleaseIsAnnounced
PROPERTY ImplementsStreams
CHECK_DEADLOCK FALSE
