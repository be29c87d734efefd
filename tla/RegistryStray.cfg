SPECIFICATION Spec
CONSTANTS
    MaxTransports = 1
    MaxSockets = 2
    MaxSends = 0
    MaxQueue = 1
    MaxConnections = 2
PROPERTY WaitsForReconnection
CHECK_DEADLOCK FALSE
