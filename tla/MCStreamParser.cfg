CONSTANTS
    NUL = NUL
    Unset = Unset
    x = x
    y = y
    z = z
    Byte <- MCByte
    Capacities <- MCCapacities
    MaxStream = 6
SPECIFICATION HSpec
INVARIANTS
    TypeOK
    FrameIntact
PROPERTIES
    ImplementsFramer
