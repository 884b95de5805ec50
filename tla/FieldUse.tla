-------------------------------- MODULE FieldUse --------------------------------
(***************************************************************************)
(* The loop of a caller who hands the fields that EDC_CSV_Next returns,    *)
(* pointer and length, to the string and hexadecimal utilities: he changes *)
(* the case of some in place, while the tokenizer is under way, and finds, *)
(* compares, copies and decodes them.                                      *)
(***************************************************************************)
EXTENDS CsvTokenizer, Strings

CONSTANTS DstSizes  \* sizes of the buffers that he copies and decodes into

(* Whatever ends a string, a field or a stretch of quotes, and the spaces    *)
(* around a field, have no case.  Of the delimiter it is the caller who sees*)
(* to that, by not separating what he changes the case of by letters.       *)
ASSUME CaseAssumption ==
    \A sign \in Spaces \cup Delimiters \cup {NUL, Quote}, c \in Char :
        (Lower[c] = sign <=> c = sign) /\ (Upper[c] = sign <=> c = sign)

(* A buffer of no size is refused.                                          *)
ASSUME SizesAssumption == DstSizes \subseteq Nat \ {0}

VARIABLES original  \* history: the text as it was

Field == tokens[Len(tokens)]

FieldInit == Init /\ original = text

Tokenize == Next /\ UNCHANGED original

LowerField ==
    /\ tokens # << >> /\ status = "OK"
    /\ text' = StrToLower_InPlace(text, Field)
    /\ UNCHANGED <<size, delimiter, trim_spaces, source, remaining_len, status, tokens, original>>

UpperField ==
    /\ tokens # << >> /\ status = "OK"
    /\ text' = StrToUpper_InPlace(text, Field)
    /\ UNCHANGED <<size, delimiter, trim_spaces, source, remaining_len, status, tokens, original>>

FieldNext == Tokenize \/ LowerField \/ UpperField

FieldSpec == FieldInit /\ [][FieldNext]_<<vars, original>>

-----------------------------------------------------------------------------
(* What is changed in place is a field that was handed out; or it lies     *)
(* behind an empty one, whose length of 0 the utilities take for that of a *)
(* NUL-terminated string: the rest of the text, that is.                   *)
ChangesFieldsOnly ==
    \A i \in 1 .. Len(text) :
        text[i] # original[i] =>
            \E t \in 1 .. Len(tokens) :
                \/ Within(i, tokens[t])
                \/ tokens[t].len = 0 /\ i > tokens[t].start
                       /\ \A j \in tokens[t].start + 1 .. i : text[j] # NUL

(* The fields that can be passed on safely.                                 *)
Solid == {t \in 1 .. Len(tokens) : tokens[t].len > 0}
Using == tokens # << >> /\ status = "OK" /\ Field.len > 0

(* EDC_StrFind finds a field in another at the first place where it stands,*)
(* EDC_StrStartsWith and EDC_StrEndsWith if this is at one of the ends, and*)
(* none of them looks beyond the field, into the text that goes on behind. *)
FindsFirst ==
    Using => \A t \in Solid :
        LET part   == tokens[t]
            found  == StrFind(text, Field, part)
            places == {i \in 0 .. Field.len - part.len :
                          Contents(text, Slice(Field.start + i, part.len)) = Contents(text, part)}
        IN  /\ (found = {}) = (places = {})
            /\ \A i \in found : i \in places /\ \A j \in places : i <= j
            /\ StrStartsWith(text, Field, part) = (0 \in places)
            /\ StrEndsWith(text, Field, part) = (Field.len - part.len \in places)

(* EDC_StrCompare orders the fields, and is 0 for equal ones only;         *)
(* EDC_StrCompareCase agrees with it on the lowercase copies.              *)
ComparesInOrder ==
    Using => \A t, u \in Solid :
        LET a == tokens[t]
            b == tokens[u]
            enough == Len(text) + 1
        IN  /\ (StrCompare(text, a, b) = 0) = (Contents(text, a) = Contents(text, b))
            /\ StrCompare(text, a, b) = -StrCompare(text, b, a)
            /\ (StrCompare(text, Field, a) <= 0 /\ StrCompare(text, a, b) <= 0)
                   => StrCompare(text, Field, b) <= 0
            /\ \A x \in StrToLower(text, a, enough), y \in StrToLower(text, b, enough) :
                   StrCompareCase(text, a, b)
                       = StrCompare(x \o y, Slice(0, a.len), Slice(Len(x), b.len))

(* A field copied with EDC_StrCopy is a NUL-terminated string in a buffer  *)
(* of any size, and the copy is the field or the status tells that it is   *)
(* not.  A NUL in the field ends the copy.                                 *)
CopiesOrTells ==
    Using => \A dst_size \in DstSizes :
        LET copy == StrCopy(dst_size, text, Field)
            last == Len(copy.dst)
        IN  /\ last <= dst_size /\ copy.dst[last] = NUL
            /\ \A i \in 1 .. last - 1 : copy.dst[i] # NUL
            /\ (copy.status = "OK") =
                   (last - 1 = Field.len \/ text[Field.start + last] = NUL)
            /\ SubSeq(copy.dst, 1, last - 1) = SubSeq(text, Field.start + 1, Field.start + last - 1)

(* What a utility says of a field is said of the field: not of the text that*)
(* goes on behind it, nor of one character less.                            *)
UsesFieldOnly == FindsFirst /\ ComparesInOrder /\ CopiesOrTells

(* What stands before the NUL.                                              *)
Visible ==
    LET x == Contents(text, Field)
        n == CHOOSE i \in 0 .. Len(x) :
                /\ i = Len(x) \/ x[i + 1] = NUL
                /\ \A j \in 1 .. i : x[j] # NUL
    IN  SubSeq(x, 1, n)

(* Characters of x from p + 1 to q that hexadecimal text is made of.        *)
IsPair(x, p, q) == q = p + 2 /\ NoDigit \notin {DigitValue(x[p + 1]), DigitValue(x[q])}
IsItem(x, p, q) ==
    \/ q = p + 1 /\ Skips(x[q])
    \/ q = p + 2 /\ x[p + 1] = Zero /\ x[q] \in X
    \/ IsPair(x, p, q)

Follows(p, q, cuts) == p < q /\ \A c \in cuts : c <= p \/ c >= q

WellFormed(x) ==
    \E cuts \in SUBSET (0 .. Len(x)) :
        /\ {0, Len(x)} \subseteq cuts
        /\ \A p, q \in cuts : Follows(p, q, cuts) => IsItem(x, p, q)

(* EDC_HexToBytes accepts the fields that consist of separators, prefixes  *)
(* and pairs of digits, in any order, and no others; it has written what   *)
(* fits even if it then fails.  EDC_StrTrim changes nothing of that, if it  *)
(* leaves anything.                                                        *)
DecodesItems ==
    Using =>
        LET all == HexToBytes(text, Field, Len(text))
        IN  /\ (all.status = "OK") = WellFormed(Visible)
            /\ all.status \in {"OK", "INVALID_FORMAT"}
            /\ \A n \in DstSizes :
                 LET some == HexToBytes(text, Field, n)
                 IN  /\ some.bytes = SubSeq(all.bytes, 1, Least(n, Len(all.bytes)))
                     /\ some = all \/ some.status = "BUFFER_TOO_SMALL"
                     /\ (Len(all.bytes) # n \/ all.status = "OK") =>
                            (some = all) = (Len(all.bytes) <= n)
            /\ StrTrim(text, Field).len > 0 =>
                   HexToBytes(text, StrTrim(text, Field), Len(text)) = all

(* Bytes made hexadecimal text with EDC_BytesToHex, in either case, with or*)
(* without spaces, are read back by EDC_HexToBytes, into a buffer for so   *)
(* many and from text of the length that was asked for.                    *)
BytesReadBack ==
    Using =>
        LET bytes == [i \in 1 .. Field.len |-> Code[text[Field.start + i]] % (Radix * Radix)]
        IN  \A digits \in {LowerDigits, UpperDigits}, space \in {<< >>} \cup {<<c>> : c \in Spaces} :
              /\ BytesToHex(bytes, Field.len * (2 + Len(space)) - Len(space), digits, space) = {}
              /\ \E hex \in BytesToHex(bytes, Field.len * (2 + Len(space)) + 1 - Len(space),
                                       digits, space) :
                    HexToBytes(hex, Slice(0, Len(hex) - 1), Field.len)
                        = [status |-> "OK", bytes |-> bytes]

(* Hexadecimal text is taken for what it says, whoever wrote it.            *)
HexReadsBack == DecodesItems /\ BytesReadBack
=============================================================================
