CONSTANTS
    NUL = NUL
    a = a
    b = b
    sp = sp
    nl = nl
    comma = comma
    eq = eq
    quote = quote
    dollar = dollar
    Char <- MCChar
    Spaces <- MCSpaces
    Quotes <- MCQuotes
    LineEnds <- MCLineEnds
    Markers <- MCMarkers
    Delimiters <- MCDelimiters
    KvDelimiters <- MCKvDelimiters
    Texts <- MCTexts
    Items <- MCItems
    StrCap = 12
    MaxPairs <- MCMaxPairs
SPECIFICATION Spec
INVARIANTS
    SlicesInOrder
    ReadsPieces
    ReadsBack
PROPERTIES
    Returns
