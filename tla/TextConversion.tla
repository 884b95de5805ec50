------------------------------ MODULE TextConversion ------------------------------
(***************************************************************************)
(* The conversions of whole texts in src/edc_persian.c (digits, normal     *)
(* forms, transliteration) and src/edc_unicode.c (checking, counting,      *)
(* UTF-16, UTF-32): one call of one function, a step per iteration of its  *)
(* loop.  Two of them also work in place, over the text they are reading.  *)
(***************************************************************************)
EXTENDS PersianText, Utf16, FiniteSets

CONSTANTS
    Texts,          \* the UTF-8 texts callers pass, well-formed or not, as bytes
    WordTexts,      \* their UTF-16 texts
    CodeTexts,      \* their UTF-32 texts
    StrCap,         \* how far a text without a length is searched for its NUL
    FlagSets,       \* the flags callers choose for normalisation
    LatinOptions,   \* and the options for transliteration
    Capacities      \* the sizes of their output buffers

ASSUME TextAssumption ==
    /\ \A t \in Texts : t \in Seq(AnyByte)
    /\ \A t \in WordTexts : t \in Seq(AnyWord)
    /\ \A t \in CodeTexts : t \in Seq(Nat)
    /\ StrCap \in Nat \ {0}
    /\ Capacities \subseteq Nat

(* The functions; the first two also exist in place.                        *)
InPlaceConversions == {"Normalize", "DigitsToEnglish"}
PersianConversions ==
    InPlaceConversions \cup {"DigitsToPersian", "DigitsToArabic", "ToLatin"}
Inspections == {"Validate", "CharCount"}
UnicodeConversions ==
    {"UTF8_ToUTF16", "UTF16_ToUTF8", "UTF8_ToUTF32", "UTF32_ToUTF8"}

VARIABLES
    conversion, in_place, flags,
    original,    \* history: the caller's text, NUL behind it
    len,
    mem,         \* the memory that is read, and in place written
    out,         \* the output buffer: << >> if there is none
    read_pos, write_pos,
    at_word_start,
    count,       \* the characters EDC_UTF8_CharCount has counted
    status

call == <<conversion, in_place, flags, original, len>>
vars == <<call, mem, out, read_pos, write_pos, at_word_start, count, status>>

NUL == 0
Fresh == -1      \* a cell nobody has written

(* Persian text is searched for its NUL, and the result gets one.           *)
Terminated == conversion \in PersianConversions

InputsOf(c) ==
    IF c = "UTF16_ToUTF8" THEN WordTexts ELSE IF c = "UTF32_ToUTF8" THEN CodeTexts ELSE Texts

FlagsOf(c) ==
    IF c = "Normalize" THEN FlagSets
    ELSE IF c = "ToLatin" THEN LatinOptions
    ELSE IF c \in {"UTF8_ToUTF16", "UTF16_ToUTF8"} THEN {{}, {"BIG_ENDIAN"}}
    ELSE {{}}

(* n = EDC_StrLen(t, StrCap), for a text with its NUL.                      *)
IsStrLen(t, n) ==
    /\ n = StrCap \/ t[n + 1] = NUL
    /\ \A m \in 0 .. n - 1 : m < StrCap /\ t[m + 1] # NUL

Init ==
    /\ conversion \in PersianConversions \cup Inspections \cup UnicodeConversions
    /\ in_place \in BOOLEAN
    /\ in_place => conversion \in InPlaceConversions
    /\ flags \in FlagsOf(conversion)
    /\ original \in {Append(t, NUL) : t \in InputsOf(conversion)}
    /\ len \in 0 .. Len(original) - 1
    /\ len = Len(original) - 1 \/ (Terminated /\ IsStrLen(original, len))
    /\ mem = original
    /\ IF in_place \/ conversion \in Inspections THEN out = << >>
       ELSE \E capacity \in Capacities :
               /\ Terminated => capacity # 0
               /\ out = [i \in 1 .. capacity |-> Fresh]
    /\ read_pos = 0
    /\ write_pos = 0
    /\ at_word_start = TRUE
    /\ count = 0
    /\ status = "CONVERTING"

-----------------------------------------------------------------------------
(* What one character turns into; s is what can be read.                    *)

ToWords(s, f) ==
    LET char == DecodeChar(s)
    IN  IF char.status # "OK" THEN Failed(char.status) ELSE Done(char.used, Words(char.cp, f))

FromWords(s, f) ==
    LET char == DecodeWords(s, f)
    IN  IF char.status # "OK" THEN Failed(char.status) ELSE Done(char.used, EncodeChar(char.cp))

ToCode(s) ==
    LET char == DecodeChar(s)
    IN  IF char.status # "OK" THEN Failed(char.status) ELSE Done(char.used, <<char.cp>>)

FromCode(s) ==
    IF IsValidCodePoint(s[1]) THEN Done(1, EncodeChar(s[1])) ELSE Failed("INVALID_PARAM")

Inspected(s) ==
    LET char == DecodeChar(s)
    IN  IF char.status # "OK" THEN Failed(char.status) ELSE Done(char.used, << >>)

Chunk(c, s, word_start) ==
    IF c = "Normalize" THEN Normalized(s, flags, in_place)
    ELSE IF c = "DigitsToEnglish" THEN DigitToEnglish(s)
    ELSE IF c = "DigitsToPersian" THEN DigitToPersian(s)
    ELSE IF c = "DigitsToArabic" THEN DigitToArabic(s)
    ELSE IF c = "ToLatin" THEN Transliterated(s, flags, word_start)
    ELSE IF c = "UTF8_ToUTF16" THEN ToWords(s, flags)
    ELSE IF c = "UTF16_ToUTF8" THEN FromWords(s, flags)
    ELSE IF c = "UTF8_ToUTF32" THEN ToCode(s)
    ELSE IF c = "UTF32_ToUTF8" THEN FromCode(s)
    ELSE Inspected(s)

-----------------------------------------------------------------------------
(* The loop.                                                                *)

Readable == SubSeq(mem, read_pos + 1, len)

MoreToRead ==
    /\ status = "CONVERTING"
    /\ read_pos < len
    /\ Terminated => mem[read_pos + 1] # NUL

Current == Chunk(conversion, Readable, at_word_start)

(* Room for the units, and for a NUL if there will be one; in place nobody  *)
(* asks.                                                                    *)
HasRoom_ForOne(units) ==
    in_place \/ units = << >> \/ write_pos + 1 < Len(out) + (IF Terminated THEN 0 ELSE 1)

HasRoom(units) ==
    \/ in_place
    \/ units = << >>
    \/ IF Terminated THEN write_pos + Len(units) < Len(out)
       ELSE write_pos + Len(units) <= Len(out)

Put(cells, at, units) ==
    [i \in DOMAIN cells |->
        IF i > at /\ i <= at + Len(units) THEN units[i - at] ELSE cells[i]]

Write(units) ==
    IF in_place THEN mem' = Put(mem, write_pos, units) /\ UNCHANGED out
    ELSE out' = Put(out, write_pos, units) /\ UNCHANGED mem

Return(error) ==
    /\ status' = error
    /\ UNCHANGED <<call, mem, out, read_pos, write_pos, at_word_start, count>>

Convert ==
    /\ MoreToRead
    /\ Current.status = "OK"
    /\ HasRoom(Current.units)
    /\ Write(Current.units)
    /\ read_pos' = read_pos + Current.used
    /\ write_pos' = write_pos + Len(Current.units)
    /\ at_word_start' = (conversion = "ToLatin" => WordStarts(at_word_start, Current.units))
    /\ count' = IF conversion = "CharCount" THEN count + 1 ELSE count
    /\ UNCHANGED <<call, status>>

Malformed ==
    /\ MoreToRead
    /\ Current.status # "OK"
    /\ Return(Current.status)

TooSmall ==
    /\ MoreToRead
    /\ Current.status = "OK"
    /\ ~HasRoom(Current.units)
    /\ Return("BUFFER_TOO_SMALL")

(* The NUL is written where the text now ends, and the length is handed out.*)
Finish_Unterminated ==
    /\ status = "CONVERTING" /\ ~MoreToRead
    /\ status' = "OK"
    /\ UNCHANGED <<call, mem, out, read_pos, write_pos, at_word_start, count>>

Finish ==
    /\ status = "CONVERTING" /\ ~MoreToRead
    /\ Write(IF Terminated THEN <<NUL>> ELSE << >>)
    /\ status' = "OK"
    /\ UNCHANGED <<call, read_pos, write_pos, at_word_start, count>>

Returned == status # "CONVERTING" /\ UNCHANGED vars

Next == Convert \/ Malformed \/ TooSmall \/ Finish \/ Returned

Spec == Init /\ [][Next]_vars

-----------------------------------------------------------------------------
(* In place, only flags that make no character longer are supported         *)
(* (edc_persian.h:131); the other one is ignored.                           *)
Honoured == IF in_place THEN flags \ {"DIGITS_TO_PERSIAN"} ELSE flags

(* What one character turns into if the text lies still and the result goes *)
(* elsewhere, by the functions that convert out of place alone.             *)
OutOfPlace(c, s, word_start) ==
    IF c = "Normalize" THEN Normalized(s, Honoured, FALSE) ELSE Chunk(c, s, word_start)

(* The conversion of a whole text out of place, with room for all of it: {} *)
(* if the text is malformed.                                                *)
Rest(c, text) ==
    LET rest[p \in 0 .. Len(text)] ==
            [w \in BOOLEAN |->
                IF p = Len(text) THEN {<< >>}
                ELSE LET chunk == OutOfPlace(c, SubSeq(text, p + 1, Len(text)), w)
                     IN  IF chunk.status # "OK" THEN {}
                         ELSE {chunk.units \o r :
                                 r \in rest[p + chunk.used][WordStarts(w, chunk.units)]}]
    IN  rest

ConvertedBy(c, text) == Rest(c, text)[0][TRUE]

Converted(text) == ConvertedBy(conversion, text)

UpToNul(t) ==
    LET nuls == {i \in 1 .. Len(t) : t[i] = NUL}
    IN  IF nuls = {} THEN t
        ELSE SubSeq(t, 1, (CHOOSE i \in nuls : \A j \in nuls : i <= j) - 1)

Input ==
    LET given == SubSeq(original, 1, len) IN IF Terminated THEN UpToNul(given) ELSE given

(* What the caller finds in the memory he gets the result in.               *)
Result ==
    IF in_place THEN UpToNul(mem)
    ELSE IF Terminated THEN UpToNul(out)
    ELSE SubSeq(out, 1, write_pos)

(* Type correctness; nothing is written outside the memory, the NUL included*)
(* (edc_persian.c:37-39, 170-178, 321-323, 503-505; edc_unicode.c:242, 251, *)
(* 318, 364, 395).                                                          *)
TypeOK ==
    /\ len \in 0 .. Len(original) - 1
    /\ read_pos \in 0 .. len
    /\ write_pos \in 0 .. Len(IF in_place THEN mem ELSE out)
    /\ Terminated => write_pos < Len(IF in_place THEN mem ELSE out)
    /\ mem \in Seq(Nat) /\ Len(mem) = Len(original)
    /\ out \in Seq(Nat \cup {Fresh})
    /\ status \in {"CONVERTING", "OK", "INVALID_ENCODING", "INCOMPLETE", "INVALID_PARAM",
                   "BUFFER_TOO_SMALL"}

(* The claim of edc_persian.h:67, "in-place conversion is 100% memory-safe":*)
(* what has been written never reaches what is still to be read, so every   *)
(* character is read as the caller left it.                                 *)
ReadsOriginal ==
    status = "CONVERTING" =>
        \A i \in read_pos + 1 .. Len(original) : mem[i] = original[i]

(* The result is the conversion of the caller's text, terminated, and of the*)
(* length handed out.  In place it is what the function out of place gives  *)
(* (edc_persian.c:241-330 against 332-390, 19-84 against 86-144), but for   *)
(* DIGITS_TO_PERSIAN, which is ignored there without an error.  An error    *)
(* means that the text is malformed or its conversion too long for the      *)
(* output buffer.                                                           *)
AsConverted ==
    /\ status = "OK" =>
          conversion \in Inspections \/ (Converted(Input) = {Result} /\ Len(Result) = write_pos)
    /\ status \in {"INVALID_ENCODING", "INCOMPLETE", "INVALID_PARAM"} => Converted(Input) = {}
    /\ status = "BUFFER_TOO_SMALL" =>
          \A s \in Converted(Input) : Len(s) + (IF Terminated THEN 1 ELSE 0) > Len(out)

(* A normalised text is in normal form, and a transliterated one in Latin   *)
(* letters: doing it again changes nothing, no replacement being undone or  *)
(* caught up with by another and no word beginning elsewhere                *)
(* (edc_persian.c:260-313, 502-522).                                        *)
SecondPassSame ==
    status = "OK" /\ conversion \in {"Normalize", "ToLatin"} => Converted(Result) = {Result}

(* In a transliterated text every word begins with a capital if that was    *)
(* asked for, and there is nothing in it but ASCII (edc_persian.c:507-521). *)
Capitalized ==
    status = "OK" /\ conversion = "ToLatin" =>
        \A i \in 1 .. Len(Result) :
            /\ Result[i] <= 127
            /\ /\ "UPPERCASE_FIRST" \in flags
               /\ i = 1 \/ Result[i - 1] \in {32, 9, 10}
               => Result[i] \notin 97 .. 122

(* What a conversion to a normal form returns has that form.                *)
InNormalForm == SecondPassSame /\ Capitalized

(* The digits of a text, matched byte by byte, are those that decoding it   *)
(* finds (edc_persian.c:47-72 and 297-306).                                 *)
Decoded(text) ==
    LET from[p \in 0 .. Len(text)] ==
            IF p = Len(text) THEN {<< >>}
            ELSE LET char == DecodeChar(SubSeq(text, p + 1, Len(text)))
                 IN  IF char.status # "OK" THEN {}
                     ELSE {<<char.cp>> \o rest : rest \in from[p + char.used]}
    IN  from[0]

BytesAsCharacters ==
    status = "OK" /\ conversion = "DigitsToEnglish" =>
        \A cps \in Decoded(Input) :
            Decoded(Result) = {[i \in 1 .. Len(cps) |-> English(cps[i])]}

(* Persian and Arabic digits are read back as the English digits they were  *)
(* written for, the decimal separator included, if there were none before.  *)
DigitsReadBack ==
    /\ status = "OK"
    /\ conversion \in {"DigitsToPersian", "DigitsToArabic"}
    /\ ConvertedBy("DigitsToEnglish", Input) = {Input}
    => ConvertedBy("DigitsToEnglish", Result) = {Input}

(* From one encoding to another and back: every text that is accepted comes *)
(* back as it was, in either byte order (edc_unicode.c:218-405).            *)
WayBack ==
    [UTF8_ToUTF16 |-> "UTF16_ToUTF8", UTF16_ToUTF8 |-> "UTF8_ToUTF16",
     UTF8_ToUTF32 |-> "UTF32_ToUTF8", UTF32_ToUTF8 |-> "UTF8_ToUTF32"]

EncodingsReadBack ==
    status = "OK" /\ conversion \in UnicodeConversions
    => ConvertedBy(WayBack[conversion], Result) = {Input}

(* The conversions that have an inverse are undone by it.                   *)
ThereAndBack == DigitsReadBack /\ EncodingsReadBack

(* The lengths of a text in its three encodings can be told from its UTF-8  *)
(* lead bytes: a character each, and a pair of surrogates for every one of  *)
(* four bytes.  CharCount is how many words of 32 bits are needed           *)
(* (edc_unicode.c:186-210, 218-270, 339-369).                               *)
LeadBytes(text, width) == Cardinality({i \in 1 .. Len(text) : Width(text[i]) >= width})

LengthsPredicted ==
    status = "OK" =>
        /\ conversion = "CharCount" => count = LeadBytes(Input, 1)
        /\ conversion = "UTF8_ToUTF32" => write_pos = LeadBytes(Input, 1)
        /\ conversion = "UTF8_ToUTF16" => write_pos = LeadBytes(Input, 1) + LeadBytes(Input, 4)

(* The offset EDC_UTF8_Validate reports is that of the first error: what is *)
(* before it is well-formed, and nothing longer is (edc_unicode.c:159-184). *)
FirstError ==
    conversion = "Validate" /\ status \notin {"CONVERTING", "OK"} =>
        /\ Decoded(SubSeq(Input, 1, read_pos)) # {}
        /\ \A n \in read_pos + 1 .. Len(Input) : Decoded(SubSeq(Input, 1, n)) = {}

(* Whatever looks at bytes only, agrees with what the characters are.       *)
AgreesWithCharacters == BytesAsCharacters /\ LengthsPredicted /\ FirstError
=============================================================================
