CONSTANTS
    StrCap = 6
    Texts <- MCTexts
    WordTexts <- MCWordTexts
    CodeTexts <- MCCodeTexts
    FlagSets <- MCFlagSets
    LatinOptions <- MCLatinOptions
    Capacities <- MCCapacities
SPECIFICATION Spec
INVARIANTS
    TypeOK
    ReadsOriginal
    AsConverted
    InNormalForm
    ThereAndBack
    AgreesWithCharacters
