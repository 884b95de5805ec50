------------------------------- MODULE MCGpsLine -------------------------------
(* TLC instance of GpsLine: one sentence of each type, with a valid and an   *)
(* invalid fix, empty and missing fields, a latitude of zero and a last      *)
(* field of several characters.  The buffer takes the longest of them        *)
(* exactly, so that a character inserted into it is too much.                *)
EXTENDS GpsLine, SequencesExt

Characters(s) ==
    [i \in 1 .. Len(s) |-> LET c == SubSeq(s, i, i) IN IF c = "," THEN Comma ELSE Char(c)]

MCSentences == {
    Characters("GGA,12,4,S,,,1"),
    Characters("RMC,12,V,,,,,5"),
    Characters("VTG,,,,,5,,9.26"),
    Characters("GLL,0,,12,W,,"),
    Characters("GPGSV,1") }

MCNoise == {Dollar, LineEnd, Star, Comma, Char("7")}

MCSymbol == UNION {{OnTheWire(b)[i] : i \in 1 .. Len(OnTheWire(b))} : b \in MCSentences}
                \cup MCNoise

(* One digit of every checksum reads "A", which is a status too.             *)
MCDigit(b, i) == IF i = 1 THEN "A" ELSE "4"

Decimal == [c \in {"0", "1", "2", "3", "4", "5", "6", "7", "8", "9"} |->
               CHOOSE n \in 0 .. 9 : ToString(n) = c]

(* The digits of a field up to the first character that is neither a digit   *)
(* nor the first point (edc_numeric.c:694-819): where the whole part ends,   *)
(* and where the number does.                                                *)
DigitsFrom(f, i) ==
    LET others == {j \in i .. Len(f) : f[j].v \notin DOMAIN Decimal}
    IN  IF others = {} THEN Len(f) ELSE (CHOOSE j \in others : \A k \in others : j <= k) - 1

ValueOf(f, i, j) == FoldLeft(LAMBDA n, c : 10 * n + Decimal[c.v], 0, SubSeq(f, i, j))

MCCount(f) == ValueOf(f, 1, DigitsFrom(f, 1))

MCNumber(f) ==
    LET point == DigitsFrom(f, 1) + 1
        last  == IF point <= Len(f) /\ f[point].v = "." THEN DigitsFrom(f, point + 1)
                 ELSE point
        scale == [n \in 0 .. 3 |-> 10 ^ (3 - n)]
    IN  1000 * MCCount(f) + IF last > point THEN ValueOf(f, point + 1, last) * scale[last - point]
                            ELSE 0
=============================================================================
