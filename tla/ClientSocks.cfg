SPECIFICATION ProgramSpec
CONSTANTS
    MaxSockets = 1
    MaxAttempts = 1
    MaxConns = 1
    MaxMethods = 1
    Senders = {s1}
    MaxTable = 1
INVARIANT GreetingIsAnswered
CHECK_DEADLOCK FALSE
