---------------------------------- MODULE Utf16 ----------------------------------
(***************************************************************************)
(* UTF-16 as src/edc_unicode.c writes and reads it: one character as one or*)
(* two words of 16 bits, in either byte order.                             *)
(***************************************************************************)
EXTENDS Utf8

(* uint16_t.                                                                *)
MaxWord == 65535
AnyWord == 0 .. MaxWord

IsHighSurrogate(w) == w \in 55296 .. 56319     \* 0xD800 .. 0xDBFF
IsLowSurrogate(w)  == w \in 56320 .. 57343     \* 0xDC00 .. 0xDFFF

(* A word as it lies in memory, and back: the bytes change places or not.   *)
Ordered(w, flags) ==
    IF "BIG_ENDIAN" \in flags THEN (w % 256) * 256 + (w \div 256) ELSE w

Words(cp, flags) ==
    IF cp <= 65535 THEN <<Ordered(cp, flags)>>
    ELSE LET v == cp - 65536
         IN  <<Ordered(55296 + (v \div 1024), flags), Ordered(56320 + (v % 1024), flags)>>

(* The character at the beginning of s.                                     *)
DecodeWords_AnyPair(s, flags) ==
    LET w1 == Ordered(s[1], flags)
    IN  IF IsHighSurrogate(w1) /\ Len(s) > 1
        THEN [status |-> "OK", used |-> 2,
              cp |-> 65536 + (w1 % 1024) * 1024 + (Ordered(s[2], flags) % 1024)]
        ELSE [status |-> "OK", cp |-> w1, used |-> 1]

DecodeWords(s, flags) ==
    LET w1 == Ordered(s[1], flags)
        w2 == Ordered(s[2], flags)
    IN  IF IsLowSurrogate(w1) THEN Fail("INVALID_ENCODING")
        ELSE IF ~IsHighSurrogate(w1) THEN [status |-> "OK", cp |-> w1, used |-> 1]
        ELSE IF Len(s) < 2 THEN Fail("INCOMPLETE")
        ELSE IF ~IsLowSurrogate(w2) THEN Fail("INVALID_ENCODING")
        ELSE [status |-> "OK", used |-> 2,
              cp |-> 65536 + (w1 % 1024) * 1024 + (w2 % 1024)]
=============================================================================
