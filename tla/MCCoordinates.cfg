CONSTANTS
    One = 65536
    DoublePrecision = 17
    DoubleBits = 28
    FloatPrecision = 8
    FloatBits = 28
    MaxDecimals = 2
    QMax = 31
    Q64Max = 2047
    TempSize = 8
    Positions <- MCPositions
    Arriving <- MCArriving
    MaxDegrees = 19
    TextSizes <- MCTextSizes
SPECIFICATION PositionSpec
INVARIANTS
    PositionTypeOK
    PositionReadsBack
    CutAtCharacter
