CONSTANT Byte <- MCByte
SPECIFICATION DecoderSpec
INVARIANTS
    DecoderTypeOK
    AgreesWithDecodeChar
    OnlyShortestForms
    RejectsOnlyHopeless
