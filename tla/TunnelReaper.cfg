SPECIFICATION Spec
CONSTANTS
    MaxCalls = 1
    MaxSessions = 1
    MaxChunks = 0
    MaxQueue = 1
    MaxPending = 1
PROPERTY ReapsOnlyStale
CHECK_DEADLOCK FALSE
