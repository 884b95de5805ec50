------------------------------ MODULE IntegerFormat ------------------------------
(***************************************************************************)
(* How src/edc_numeric.c writes integers (EDC_U64_ToStringEx and           *)
(* EDC_I64_ToStringEx), as operators.  A character is a number: a digit or *)
(* letter is its value, 0 .. 35, in either case; every other one is        *)
(* negative.                                                               *)
(***************************************************************************)
EXTENDS Integers, Sequences

CONSTANTS
    TempSize   \* sizeof(temp), the digits' staging area

ASSUME TempAssumption == TempSize \in Nat \ {0}

Minus == -1
Plus  == -2
Space == -3
NUL   == -4
Other == -5    \* any character that is none of the others

LetterB == 11
LetterX == 33

(* v in the given base, most significant digit first: temp reversed.        *)
Digits(v, base) ==
    LET digits[n \in 0 .. v] ==
            IF n < base THEN <<n>> ELSE Append(digits[n \div base], n % base)
    IN  digits[v]

(* Zeros in front until there are pad digits or the staging area is full.   *)
Padded(digits, pad) ==
    LET wanted == IF pad < TempSize THEN pad ELSE TempSize - 1
        zeros  == IF Len(digits) < wanted THEN wanted - Len(digits) ELSE 0
    IN  [i \in 1 .. zeros |-> 0] \o digits

(* -(val + 1) + 1 for a negative number, which is right for the least one.  *)
Magnitude_ForgetsOne(v) == IF v < 0 THEN -(v + 1) ELSE v

Magnitude(v) == IF v < 0 THEN -(v + 1) + 1 ELSE v

Numeral(v, base, pad) ==
    (IF v < 0 THEN <<Minus>> ELSE << >>) \o Padded(Digits(Magnitude(v), base), pad)

(* Room for the text and the NUL behind it.                                 *)
Fits(text, buf_size) == buf_size > Len(text)

(* What the caller's buffer of buf_size holds after a successful call; {}   *)
(* is BUFFER_TOO_SMALL.                                                     *)
Formatted(v, base, pad, buf_size) ==
    {Append(text, NUL) : text \in {t \in {Numeral(v, base, pad)} : Fits(t, buf_size)}}
=============================================================================
