--------------------------------- MODULE Strings ---------------------------------
(***************************************************************************)
(* The string and hexadecimal utilities of src/edc_string.c, as operators. *)
(* Each takes the memory s that a pointer points into and the slice that   *)
(* the pointer and the length mean, and returns what it writes.            *)
(***************************************************************************)
EXTENDS Text

CONSTANTS
    Code,        \* the code of a character
    Lower, Upper,             \* EDC_CharToLower and EDC_CharToUpper
    LowerDigits, UpperDigits, \* the hexadecimal digits: g_hex_lower and g_hex_upper
    Zero, X,     \* '0', and the letters that make it a prefix
    Separators   \* ':' and ','

ASSUME CodeAssumption ==
    /\ Code \in [Char -> Nat] /\ \A c, d \in Char : Code[c] = Code[d] => c = d
    /\ Lower \in [Char -> Char] /\ Upper \in [Char -> Char]
ASSUME DigitAssumption ==
    /\ LowerDigits \in Seq(Char) /\ UpperDigits \in Seq(Char)
    /\ Len(LowerDigits) = Len(UpperDigits) /\ Len(LowerDigits) > 1
    /\ X \subseteq Char /\ Separators \subseteq Char

(* A digit is one number's, and no character of hexadecimal text is in it   *)
(* for two reasons.                                                         *)
Digits(d) == {LowerDigits[d + 1], UpperDigits[d + 1]}
ASSUME HexAssumption ==
    LET numbers == 0 .. Len(LowerDigits) - 1
        others  == Spaces \cup Separators \cup X \cup {NUL}
    IN  /\ \A d, e \in numbers : d # e => Digits(d) \cap Digits(e) = {}
        /\ \A d \in numbers : Digits(d) \cap others = {}
        /\ X \cap (Spaces \cup Separators \cup {NUL}) = {}
        /\ Zero \in Digits(0)

Least(a, b) == IF a <= b THEN a ELSE b

(* A length of 0 says that the string is NUL-terminated.                    *)
Meant(s, slice) ==
    IF slice.len = 0 THEN Slice(slice.start, StrLen(s, slice.start)) ELSE slice

Characters(s, slice) == Contents(s, Meant(s, slice))

-----------------------------------------------------------------------------
(* EDC_StrCopy into a buffer of dst_size: as many characters as fit, are    *)
(* asked for and stand before the NUL; then a NUL.                          *)
Copied(dst_size, s, slice) ==
    LET ends == {i \in 0 .. slice.len :
                    i = slice.len \/ i + 1 = dst_size \/ s[slice.start + i + 1] = NUL}
    IN  CHOOSE i \in ends : \A j \in ends : i <= j

StrCopy(dst_size, s, slice) ==
    LET n == Copied(dst_size, s, slice)
    IN  [dst    |-> Append(SubSeq(s, slice.start + 1, slice.start + n), NUL),
         status |-> IF n = slice.len \/ s[slice.start + n + 1] = NUL THEN "OK"
                    ELSE "BUFFER_TOO_SMALL"]

(* -1, 0 or 1: the first characters that differ decide, then the lengths.   *)
Ordered(x, y) ==
    LET differ == {i \in 1 .. Least(Len(x), Len(y)) : x[i] # y[i]}
        first  == CHOOSE i \in differ : \A j \in differ : i <= j
        sign(a, b) == IF a < b THEN -1 ELSE IF a > b THEN 1 ELSE 0
    IN  IF differ # {} THEN sign(Code[x[first]], Code[y[first]]) ELSE sign(Len(x), Len(y))

StrCompare(s, a, b) == Ordered(Characters(s, a), Characters(s, b))

Lowered(x) == [i \in 1 .. Len(x) |-> Lower[x[i]]]
Uppered(x) == [i \in 1 .. Len(x) |-> Upper[x[i]]]

StrCompareCase(s, a, b) == Ordered(Lowered(Characters(s, a)), Lowered(Characters(s, b)))

StrTrim(s, slice) == Trimmed(s, Meant(s, slice).start, Meant(s, slice).start + Meant(s, slice).len)

(* Does y stand in x behind its first offset characters?                    *)
StandsAt(x, offset, y) == \A j \in 1 .. Len(y) : x[offset + j] = y[j]

StrStartsWith(s, a, b) ==
    LET x == Characters(s, a)
        y == Characters(s, b)
    IN  Len(x) >= Len(y) /\ StandsAt(x, 0, y)

StrEndsWith(s, a, b) ==
    LET x == Characters(s, a)
        y == Characters(s, b)
    IN  Len(x) >= Len(y) /\ StandsAt(x, Len(x) - Len(y), y)

(* The position; {} is NOT_FOUND.                                           *)
StrFind_NotAtEnd(s, a, b) ==
    LET x == Characters(s, a)
        y == Characters(s, b)
        matches == {i \in 0 .. Len(x) - Len(y) - 1 : StandsAt(x, i, y)}
    IN  {i \in matches : \A j \in matches : i <= j}

StrFind(s, a, b) ==
    LET x == Characters(s, a)
        y == Characters(s, b)
        matches == {i \in 0 .. Len(x) - Len(y) : StandsAt(x, i, y)}
    IN  IF y = << >> THEN {0} ELSE {i \in matches : \A j \in matches : i <= j}

(* EDC_StrToLower and EDC_StrToUpper: {} is BUFFER_TOO_SMALL.               *)
StrToLower(s, slice, dst_size) ==
    {Append(Lowered(x), NUL) : x \in {y \in {Characters(s, slice)} : dst_size > Len(y)}}

StrToUpper(s, slice, dst_size) ==
    {Append(Uppered(x), NUL) : x \in {y \in {Characters(s, slice)} : dst_size > Len(y)}}

Within(i, slice) == i > slice.start /\ i <= slice.start + slice.len

(* Memory after EDC_StrToLower_InPlace, EDC_StrToUpper_InPlace.             *)
StrToLower_InPlace_OneMore(s, slice) ==
    [i \in 1 .. Len(s) |->
        IF Within(i, Slice(slice.start, Meant(s, slice).len + 1)) THEN Lower[s[i]] ELSE s[i]]

StrToLower_InPlace(s, slice) ==
    [i \in 1 .. Len(s) |-> IF Within(i, Meant(s, slice)) THEN Lower[s[i]] ELSE s[i]]

StrToUpper_InPlace(s, slice) ==
    [i \in 1 .. Len(s) |-> IF Within(i, Meant(s, slice)) THEN Upper[s[i]] ELSE s[i]]

-----------------------------------------------------------------------------
(* Hexadecimal text: two digits a byte.                                     *)
Radix == Len(LowerDigits)
Byte  == 0 .. Radix * Radix - 1
NoDigit == Radix

DigitValue(c) ==
    IF \E d \in 0 .. Radix - 1 : c \in Digits(d)
    THEN CHOOSE d \in 0 .. Radix - 1 : c \in Digits(d)
    ELSE NoDigit

ByteToHex(byte, digits) == <<digits[(byte \div Radix) + 1], digits[(byte % Radix) + 1]>>

(* {} is INVALID_FORMAT.                                                    *)
HexToByte(h, l) ==
    IF NoDigit \in {DigitValue(h), DigitValue(l)} THEN {}
    ELSE {DigitValue(h) * Radix + DigitValue(l)}

(* A space between bytes; {} is BUFFER_TOO_SMALL.                           *)
BytesToHex(bytes, hex_buf_size, digits, space) ==
    LET width == 2 + Len(space)
        len   == IF bytes = << >> THEN 0 ELSE Len(bytes) * width - Len(space)
        hex   == [pos \in 1 .. len |->
                    LET i == (pos - 1) \div width
                    IN  (ByteToHex(bytes[i + 1], digits) \o space)[pos - i * width]]
    IN  IF hex_buf_size < len + 1 THEN {} ELSE {Append(hex, NUL)}

Skips(c) == IsSpace(c) \/ c \in Separators

PrefixAt_Never(x, i) == FALSE

PrefixAt(x, i) == x[i + 1] = Zero /\ i + 1 < Len(x) /\ x[i + 2] \in X

(* EDC_HexToBytes: what it returns and what it has written by then.         *)
HexToBytes(s, slice, max_bytes) ==
    LET x == Characters(s, slice)
        result(status, bytes) == [status |-> status, bytes |-> bytes]
        scan[i \in 0 .. Len(x)] ==
            [bytes \in Seq(Nat) |->
                IF i = Len(x) \/ x[i + 1] = NUL THEN result("OK", bytes)
                ELSE IF Skips(x[i + 1]) THEN scan[i + 1][bytes]
                ELSE IF PrefixAt(x, i) THEN scan[i + 2][bytes]
                ELSE IF i + 1 = Len(x) \/ x[i + 2] = NUL THEN result("INVALID_FORMAT", bytes)
                ELSE IF Len(bytes) >= max_bytes THEN result("BUFFER_TOO_SMALL", bytes)
                ELSE IF HexToByte(x[i + 1], x[i + 2]) = {} THEN result("INVALID_FORMAT", bytes)
                ELSE scan[i + 2][Append(bytes, CHOOSE b \in HexToByte(x[i + 1], x[i + 2]) : TRUE)]]
    IN  scan[0][<< >>]
=============================================================================
