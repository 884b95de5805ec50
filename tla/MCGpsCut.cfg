CONSTANTS
    BufferSize = 20
    Shortest = 5
    TimeLength = 2
    MaxFaults = 1
    Sentences <- MCSentences
    Noise <- MCNoise
    Symbol <- MCSymbol
    Digit <- MCDigit
    Number <- MCNumber
    Count <- MCCount
SPECIFICATION LSpec
PROPERTY DocCompleteSentence
