CONSTANTS
    NUL = NUL
    ltr = ltr
    LTR = LTR
    zero = zero
    ex = ex
    sp = sp
    comma = comma
    quote = quote
    Char <- MCChar
    Spaces <- MCSpaces
    Quote = quote
    Delimiters <- MCDelimiters
    Texts <- MCTexts
    StrCap = 4
    Code <- MCCode
    Lower <- MCLower
    Upper <- MCUpper
    LowerDigits <- MCLowerDigits
    UpperDigits <- MCUpperDigits
    Zero = zero
    X <- MCX
    Separators <- MCSeparators
    DstSizes <- MCDstSizes
SPECIFICATION FieldSpec
INVARIANTS
    HandsOutFields
    ChangesFieldsOnly
    UsesFieldOnly
    HexReadsBack
