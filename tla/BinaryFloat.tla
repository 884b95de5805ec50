------------------------------- MODULE BinaryFloat -------------------------------
(***************************************************************************)
(* Binary floating-point numbers (IEEE 754) with a precision and a range   *)
(* small enough to enumerate.  A finite number is an integer number of     *)
(* units, One of them in 1.0, the unit being the least positive number;    *)
(* infinity and NaN are integers beyond.  Only the operations that         *)
(* src/edc_numeric.c needs: it keeps signs apart, and multiplies and       *)
(* divides by whole numbers.                                               *)
(***************************************************************************)
EXTENDS Integers

CONSTANTS
    One,                              \* units in 1.0, a power of two
    DoublePrecision, DoubleBits,      \* double: significant bits, and all bits of the
    FloatPrecision, FloatBits         \* greatest number, in units; the same for float

(* b ^ n                                                                    *)
Power(b, n) ==
    LET power[k \in 0 .. n] == IF k = 0 THEN 1 ELSE b * power[k - 1]
    IN  power[n]

Powers == {Power(2, k) : k \in 0 .. DoubleBits}

ASSUME FloatAssumption ==
    /\ DoubleBits \in Nat /\ DoublePrecision \in 2 .. DoubleBits - 1
    /\ FloatPrecision \in 2 .. DoublePrecision /\ FloatBits \in FloatPrecision .. DoubleBits
    /\ One \in {Power(2, k) : k \in 1 .. FloatBits - 1}
    /\ 10 * One < Power(2, DoubleBits)

Infinity == Power(2, DoubleBits)
NaN      == Infinity + 1
Ten      == 10 * One

Finite(x) == x > -Infinity /\ x < Infinity

Abs(x) == IF x < 0 THEN -x ELSE x
Negated(x) == IF x = NaN THEN NaN ELSE -x

(* n / d to the nearest integer, n >= 0: ties go to the even one.           *)
Nearest(n, d) ==
    LET q == n \div d
        r == n % d
    IN  IF 2 * r < d \/ (2 * r = d /\ q % 2 = 0) THEN q ELSE q + 1

(* The distance of neighbours at n units, with so many significant numbers. *)
Spacing(n, significant) ==
    LET steps == {s \in Powers : n \div s < significant}
    IN  CHOOSE s \in steps : \A t \in steps : s <= t

(* n / d units as a floating-point number below the limit.                  *)
Rounded(n, d, significant, limit) ==
    LET spacing == Spacing(n \div d, significant)
        number  == Nearest(n, d * spacing) * spacing
    IN  IF number >= limit THEN Infinity ELSE number

DoubleSignificant == Power(2, DoublePrecision)
FloatSignificant  == Power(2, FloatPrecision)
FloatLimit        == Power(2, FloatBits)

Ratios == [over : Nat, under : Nat \ {0}]
ToDouble[x \in Ratios] == Rounded(x.over, x.under, DoubleSignificant, Infinity)
ToFloat[x \in Ratios]  == Rounded(x.over, x.under, FloatSignificant, FloatLimit)

Double(n, d) == ToDouble[[over |-> n, under |-> d]]
Float(n, d)  == ToFloat[[over |-> n, under |-> d]]

(* Arithmetic of double on numbers that are not negative.                   *)
Sum(a, b) ==
    IF NaN \in {a, b} THEN NaN ELSE IF Infinity \in {a, b} THEN Infinity ELSE Double(a + b, 1)

(* b is less than a, and finite.                                            *)
Difference(a, b) == IF a \in {NaN, Infinity} THEN a ELSE Double(a - b, 1)

(* b is whole.                                                              *)
Times(a, b) ==
    IF NaN \in {a, b} \/ (Infinity \in {a, b} /\ 0 \in {a, b}) THEN NaN
    ELSE IF a = 0 THEN 0
    ELSE IF Infinity \in {a, b} \/ b \div One > (2 * Infinity) \div a THEN Infinity
    ELSE Double(a * (b \div One), 1)

(* b is whole and not 0.                                                    *)
Over(a, b) ==
    IF NaN \in {a, b} \/ (a = Infinity /\ b = Infinity) THEN NaN
    ELSE IF b = Infinity THEN 0
    ELSE IF a = Infinity THEN Infinity
    ELSE Double(a, b \div One)

(* (float)d                                                                 *)
Narrowed(x) ==
    IF ~Finite(x) THEN x
    ELSE IF x < 0 THEN -Float(-x, 1) ELSE Float(x, 1)
=============================================================================
