---------------------------------- MODULE Text ----------------------------------
(***************************************************************************)
(* Text in the caller's memory, and the few operations on it that the      *)
(* parsers share.  A text is a sequence; a slice [start, len] of it is what*)
(* the library hands out instead of a copy.                                *)
(***************************************************************************)
EXTENDS Integers, Sequences

CONSTANTS
    Char,      \* the characters that occur
    NUL,       \* the one that ends a C string
    Spaces,    \* the ones EDC_IsSpace recognizes
    StrCap     \* how far EDC_StrLen looks for the NUL, as the parsers call it

ASSUME CharAssumption == NUL \in Char /\ Spaces \subseteq Char \ {NUL}
ASSUME StrCapAssumption == StrCap \in Nat \ {0}

IsSpace(c) == c \in Spaces

Slice(start, len) == [start |-> start, len |-> len]

(* The characters of a slice of s.                                          *)
Contents(s, slice) == SubSeq(s, slice.start + 1, slice.start + slice.len)

(* EDC_StrLen(str, StrCap), where str points at position i of s.            *)
StrLen(s, i) ==
    LET ends == {n \in 0 .. StrCap :
                    n = StrCap \/ (i + n < Len(s) /\ s[i + n + 1] = NUL)}
    IN  CHOOSE n \in ends : \A m \in ends : n <= m

(* The length a caller means: 0 says that the string is NUL-terminated.     *)
Length(s, len) == IF len = 0 THEN StrLen(s, 0) ELSE len

(* Positions first .. last - 1 of s without the spaces at both ends.        *)
Trimmed(s, first, last) ==
    LET solid == {i \in first .. last - 1 : ~IsSpace(s[i + 1])}
        start == CHOOSE i \in solid : \A j \in solid : i <= j
        end   == CHOOSE i \in solid : \A j \in solid : j <= i
    IN  IF solid = {} THEN Slice(last, 0) ELSE Slice(start, end - start + 1)
=============================================================================
