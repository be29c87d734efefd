SPECIFICATION ProgramFairSpec
CONSTANTS
    MaxSockets = 3
    MaxAttempts = 3
    MaxConns = 1
    MaxMethods = 2
    Senders = {s1, s2, s3}
    MaxTable = 2
INVARIANTS
    ProgramTypeOK OneWayOn StreamsHaveLinks OverLeavesNothing
PROPERTIES
    Recovers TunnelIsClean NothingHangs
CHECK_DEADLOCK FALSE
