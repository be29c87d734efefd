SPECIFICATION MCSpec
CONSTANTS
    MaxTransports = 3
    MaxSockets = 3
    MaxSends = 2
    MaxQueue = 2
    MaxConnections = 2
INVARIANTS
    RegistryIsExact ListensToItsSocket EveryTransportIsTimed SentInOrder
PROPERTY PlaceIsGivenBack
CHECK_DEADLOCK FALSE
