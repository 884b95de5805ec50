CONSTANTS
    One = 16384
    DoublePrecision = 10
    DoubleBits = 28
    FloatPrecision = 5
    FloatBits = 26
    MaxDecimals = 2
    QMax = 31
    Q64Max = 2047
    TempSize = 8
    StrCap = 11
    PlacesLimit = 10
    ExponentMax = 31
    SciExponentMax = 15
    Texts <- MCTexts
    Doubles <- MCDoubles
    FracBits <- MCFracBits
    DecimalCounts <- MCDecimalCounts
    BufSizes <- MCBufSizes
SPECIFICATION Spec
PROPERTY
    DocLoopsTerminate
