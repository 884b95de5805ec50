------------------------------- MODULE MCFieldUse -------------------------------
(* TLC instance of FieldUse: every text of up to five characters out of a     *)
(* letter, a space, a comma, a quote and NUL, with each of the last but one   *)
(* as the delimiter; and every text of up to five out of a letter in both     *)
(* cases, zero, x and a comma.  Hexadecimal text has two digits for sixteen.  *)
EXTENDS FieldUse

CONSTANTS ltr, LTR, zero, ex, sp, comma, quote

MCChar == {NUL, ltr, LTR, zero, ex, sp, comma, quote}
MCSpaces == {sp}
MCDelimiters == {sp, comma, quote}
Words(chars, length) == UNION {[1 .. n -> chars] : n \in 0 .. length}
MCTexts == Words({NUL, ltr, sp, comma, quote}, 5) \cup Words({ltr, LTR, zero, ex, comma}, 5)

MCOrder == <<NUL, sp, quote, comma, zero, LTR, ltr, ex>>
MCCode == [c \in MCChar |-> CHOOSE i \in 1 .. 8 : MCOrder[i] = c]
MCLower == [c \in MCChar |-> IF c = LTR THEN ltr ELSE c]
MCUpper == [c \in MCChar |-> IF c = ltr THEN LTR ELSE c]
MCLowerDigits == <<zero, ltr>>
MCUpperDigits == <<zero, LTR>>
MCX == {ex}
MCSeparators == {comma}
MCDstSizes == {1, 2, 3}
==================================================================================
