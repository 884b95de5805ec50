CONSTANTS
    UMax = 63
    IMax = 31
    TempSize = 8
    StrCap = 6
    UTargets <- MCUTargets
    ITargets <- MCITargets
    Bases <- MCBases
    Texts <- MCTexts
    Pads <- MCPads
    BufSizes <- MCBufSizes
SPECIFICATION Spec
INVARIANTS
    TypeOK
    ReportsExactly
    ReadsBack
