---------------------------------- MODULE Utf8 ----------------------------------
(***************************************************************************)
(* The single-character UTF-8 codec of src/edc_unicode.c, as operators     *)
(* on sequences of bytes.  Shifts and masks are written as multiplication, *)
(* \div and %.                                                             *)
(***************************************************************************)
EXTENDS Integers, Sequences

AnyByte == 0 .. 255

MaxCodePoint == 1114111                       \* 0x10FFFF

IsSurrogate(cp) == cp >= 55296 /\ cp <= 57343 \* 0xD800 .. 0xDFFF

IsValidCodePoint(cp) == cp <= MaxCodePoint /\ ~IsSurrogate(cp)

(* (b & 0xC0) == 0x80                                                       *)
IsContinuation(b) == b \div 64 = 2

(* The length of the character a lead byte announces, 0 if it is no lead.   *)
Width(b) ==
    IF b <= 127 THEN 1
    ELSE IF b \in 194 .. 223 THEN 2          \* 0xC2 .. 0xDF
    ELSE IF b \in 224 .. 239 THEN 3          \* 0xE0 .. 0xEF
    ELSE IF b \in 240 .. 244 THEN 4          \* 0xF0 .. 0xF4
    ELSE 0

(* What the lead byte itself contributes to the code point.                 *)
LeadBits(b) ==
    IF Width(b) = 2 THEN b % 32
    ELSE IF Width(b) = 3 THEN b % 16
    ELSE IF Width(b) = 4 THEN b % 8
    ELSE b

(* The code point of the first w bytes of s, w \in 1 .. 4.                  *)
Value(s, w) ==
    LET one   == LeadBits(s[1])
        two   == one * 64 + (s[2] % 64)
        three == two * 64 + (s[3] % 64)
    IN  IF w = 1 THEN one
        ELSE IF w = 2 THEN two
        ELSE IF w = 3 THEN three
        ELSE three * 64 + (s[4] % 64)

(* The second byte must not make the character overlong, a surrogate or     *)
(* greater than 0x10FFFF.                                                   *)
SecondByteOK_NoSurrogateTest(b0, b1) ==
    /\ b0 = 224 => b1 \in 160 .. 191
    /\ b0 = 240 => b1 \in 144 .. 191
    /\ b0 = 244 => b1 \in 128 .. 143

SecondByteOK(b0, b1) ==
    /\ b0 = 224 => b1 \in 160 .. 191
    /\ b0 = 237 => b1 \in 128 .. 159
    /\ b0 = 240 => b1 \in 144 .. 191
    /\ b0 = 244 => b1 \in 128 .. 143

Fail(error) == [status |-> error, cp |-> 0, used |-> 0]

(* EDC_UTF8_DecodeChar on the readable bytes s.  The number of bytes is     *)
(* tested before any byte but the first.                                    *)
DecodeChar(s) ==
    IF s = << >> THEN Fail("INCOMPLETE")
    ELSE LET w == Width(s[1])
         IN  IF w = 0 THEN Fail("INVALID_ENCODING")
             ELSE IF Len(s) < w THEN Fail("INCOMPLETE")
             ELSE IF /\ w > 1 => SecondByteOK(s[1], s[2])
                     /\ \A i \in 2 .. w : IsContinuation(s[i])
                     /\ Value(s, w) <= MaxCodePoint
             THEN [status |-> "OK", cp |-> Value(s, w), used |-> w]
             ELSE Fail("INVALID_ENCODING")

(* EDC_UTF8_EncodeChar: the bytes it writes for a valid code point.         *)
EncodeChar(cp) ==
    IF cp <= 127 THEN <<cp>>
    ELSE IF cp <= 2047 THEN <<192 + (cp \div 64), 128 + (cp % 64)>>
    ELSE IF cp <= 65535
         THEN <<224 + (cp \div 4096), 128 + ((cp \div 64) % 64), 128 + (cp % 64)>>
    ELSE <<240 + (cp \div 262144), 128 + ((cp \div 4096) % 64),
           128 + ((cp \div 64) % 64), 128 + (cp % 64)>>
=============================================================================
