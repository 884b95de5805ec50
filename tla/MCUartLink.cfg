CONSTANTS
    NUL = NUL
    Unset = Unset
    x = x
    y = y
    Byte <- MCByte
    Capacities <- MCCapacities
    MaxFaults = 2
SPECIFICATION LSpec
INVARIANTS
    LastsUntilOverwritten
PROPERTIES
    QuietMessageReceived
    Recovers
