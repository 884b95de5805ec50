------------------------------ MODULE DecimalFormat ------------------------------
(***************************************************************************)
(* How src/edc_numeric.c writes floating-point, fixed-point and Boolean    *)
(* values, and how it converts between floating and fixed point, as        *)
(* operators.  Texts are those of IntegerFormat, a letter being its value. *)
(***************************************************************************)
EXTENDS IntegerFormat, BinaryFloat

CONSTANTS
    MaxDecimals,   \* EDC_CONFIG_MAX_FLOAT_PRECISION, 9, and the 9 of EDC_Q_ToString
    QMax,          \* INT32_MAX
    Q64Max         \* INT64_MAX

ASSUME FixedAssumption == MaxDecimals \in Nat /\ QMax \in Nat /\ Q64Max \in Nat

Dot == -6
LetterE == 14
WordNaN == <<23, 10, 23>>
WordInf == <<18, 23, 15>>
WordInity == <<18, 23, 18, 29, 34>>

UMax32 == 2 * QMax + 1
UMax64 == 2 * Q64Max + 1

Least(a, b) == IF a <= b THEN a ELSE b
Decimals(n) == Least(n, MaxDecimals)

(* A number cut into what is written one behind the other.                  *)
TextOf(parts) ==
    (IF parts.negative THEN <<Minus>> ELSE << >>) \o parts.whole
        \o (IF parts.places # << >> THEN <<Dot>> \o parts.places ELSE << >>)

(* What the buffer must hold, as it is worked out before anything is written*)
Needed(parts, prec) ==
    (IF parts.negative THEN 1 ELSE 0) + Len(parts.whole)
        + (IF prec > 0 THEN 1 + prec ELSE 0) + 1

Written(parts, prec, buf_size) ==
    IF buf_size < Needed(parts, prec) THEN {} ELSE {Append(TextOf(parts), NUL)}

-----------------------------------------------------------------------------
(* EDC_Double_ToString.                                                     *)

Rounder_Whole(prec) == One \div 2

Rounder(prec) ==
    LET half[n \in 0 .. prec] == IF n = 0 THEN One \div 2 ELSE Over(half[n - 1], Ten)
    IN  half[prec]

(* (uint64_t)d and (uint8_t)d.  Out of range they are undefined: processors *)
(* give zero or the greatest number.                                        *)
Cast(d, greatest, saturating) ==
    IF d < (greatest + 1) * One THEN d \div One
    ELSE IF saturating THEN greatest ELSE 0

(* One digit after the other is split off in front of the point.            *)
Split == [rest : Int, saturating : BOOLEAN]
Place[x \in Split] ==
    LET ten   == Times(x.rest, Ten)
        digit == Least(Cast(ten, 255, x.saturating), 9)
    IN  [rest |-> Difference(ten, digit * One), digit |-> digit]

Places(fraction, prec, saturating) ==
    LET split[n \in 0 .. prec] ==
            IF n = 0 THEN [rest |-> fraction, digits |-> << >>]
            ELSE LET place == Place[[rest |-> split[n - 1].rest, saturating |-> saturating]]
                 IN  [rest |-> place.rest, digits |-> Append(split[n - 1].digits, place.digit)]
    IN  split[prec].digits

(* d is not negative, and rounded.                                          *)
DoubleParts(negative, d, prec, saturating) ==
    LET whole == Cast(d, UMax64, saturating)
    IN  [negative |-> negative, whole |-> Digits(whole, 10),
         places |-> Places(Difference(d, Double(whole * One, 1)), prec, saturating)]

FiniteText(val, prec, buf_size) ==
    UNION {Written(parts, prec, buf_size) :
        parts \in {DoubleParts(val < 0, d, prec, saturating) :
            d \in {Sum(Abs(val), Rounder(prec))}, saturating \in BOOLEAN}}

Double_ToString(val, decimals, buf_size) ==
    IF val = NaN THEN IF buf_size < 4 THEN {} ELSE {Append(WordNaN, NUL)}
    ELSE IF val = Infinity THEN IF buf_size < 4 THEN {} ELSE {Append(WordInf, NUL)}
    ELSE IF val = -Infinity THEN IF buf_size < 5 THEN {} ELSE {<<Minus>> \o Append(WordInf, NUL)}
    ELSE FiniteText(val, Decimals(decimals), buf_size)

(* What EDC_Double_ToScientific writes for d * 10 ^ exponent, d not negative.*)
Scientific(negative, d, exponent, decimals, buf_size) ==
    IF d = NaN THEN Double_ToString(NaN, decimals, buf_size)
    ELSE {text \in {
        (IF negative THEN <<Minus>> ELSE << >>) \o SubSeq(mantissa, 1, Len(mantissa) - 1)
            \o <<LetterE, IF exponent >= 0 THEN Plus ELSE Minus>>
            \o Padded(Digits(Abs(exponent), 10), 2) \o <<NUL>> :
                mantissa \in Double_ToString(d, decimals, 32)} : Len(text) <= buf_size}

-----------------------------------------------------------------------------
(* Fixed point: EDC_Q_ToString, and the conversions from and to floating    *)
(* point.                                                                   *)

QPlaces(fraction, frac_bits, prec) ==
    LET split[n \in 0 .. prec] ==
            IF n = 0 THEN [rest |-> fraction, digits |-> << >>]
            ELSE LET ten == split[n - 1].rest * 10
                 IN  [rest   |-> ten % Power(2, frac_bits),
                      digits |-> Append(split[n - 1].digits, Least(ten \div Power(2, frac_bits), 9))]
    IN  split[prec].digits

(* -q is formed in the integers of q.  For the least of them that is        *)
(* undefined; two's complement gives the magnitude all the same.            *)
QParts(q, frac_bits, prec) ==
    [negative |-> q < 0, whole |-> Digits(Abs(q) \div Power(2, frac_bits), 10),
     places |-> QPlaces(Abs(q) % Power(2, frac_bits), frac_bits, prec)]

Q_ToString(q, frac_bits, decimals, buf_size) ==
    Written(QParts(q, frac_bits, Decimals(decimals)), Decimals(decimals), buf_size)

(* EDC_Float_To_Q, EDC_Double_To_Q64: a floating-point number as a          *)
(* fixed-point one of a type with the given maximum.  The limit is converted*)
(* to double before it is compared with; half a unit is added to round, and *)
(* the cast drops what is behind the point.  The cast of what the type      *)
(* cannot hold is undefined.                                                *)
Signed(n, x) == IF n < 0 THEN -x ELSE x

ScaledUp(x, frac_bits) == Times(Abs(x), Power(2, frac_bits) * One)

Greatest(x, max) == IF x < 0 THEN max + 1 ELSE max

TooLarge(x, frac_bits, max) ==
    x # NaN /\ ScaledUp(x, frac_bits) > Double(Greatest(x, max) * One, 1)

(* One that is not too large.                                               *)
ToFixed(x, frac_bits, max) ==
    LET nearest == Sum(ScaledUp(x, frac_bits), One \div 2) \div One
    IN  IF x = NaN \/ nearest > Greatest(x, max) THEN {0, max, -(max + 1)}
        ELSE {Signed(x, nearest)}

Q_To_Float(q, frac_bits) ==
    Signed(q, Float(Float(Abs(q) * One, 1), Power(2, frac_bits)))
Q64_To_Double(q, frac_bits) ==
    Signed(q, Double(Double(Abs(q) * One, 1), Power(2, frac_bits)))

-----------------------------------------------------------------------------
(* EDC_Bool_ToString: a pair of words, for true and for false.              *)
WordPairs == {
    <<<<29, 27, 30, 14>>, <<15, 10, 21, 28, 14>>>>,    \* true, false
    <<<<1>>, <<0>>>>,
    <<<<34, 14, 28>>, <<23, 24>>>>,                    \* yes, no
    <<<<24, 23>>, <<24, 15, 15>>>> }                   \* on, off

Bool_ToString(val, words, buf_size) ==
    {Append(word, NUL) : word \in
        {w \in {IF val THEN words[1] ELSE words[2]} : buf_size > Len(w)}}
=============================================================================
