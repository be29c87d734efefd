SPECIFICATION Spec
CONSTANTS
    MaxTransports = 1
    MaxSockets = 1
    MaxSends = 0
    MaxQueue = 1
    MaxConnections = 2
PROPERTY CleansOnlyIdle
CHECK_DEADLOCK FALSE
