SPECIFICATION Spec
CONSTANTS
    MaxSockets = 2
    MaxAttempts = 2
PROPERTY LimitsAttempts
CHECK_DEADLOCK FALSE
