------------------------------- MODULE DecimalText -------------------------------
(***************************************************************************)
(* EDC_StringToDouble, EDC_StringToFloat, EDC_StringTo_Q and               *)
(* EDC_StringToBool (src/edc_numeric.c): one call, a step per character.   *)
(* The text is one that somebody typed, or one that the library has written*)
(* before: for EDC_Double_ToScientific the loop that works out the exponent*)
(* goes first, a step per iteration.  EDC_Float_To_Q and EDC_Double_To_Q64,*)
(* which read no text, are one step.                                       *)
(***************************************************************************)
EXTENDS DecimalFormat

CONSTANTS
    Texts,          \* the texts that somebody types
    StrCap,         \* how far a text without a length is read
    Doubles,        \* the floating-point numbers that are written
    FracBits,       \* the fixed-point formats
    DecimalCounts, BufSizes,    \* how numbers are written
    PlacesLimit,    \* 10^9: no digit behind the point is read beyond it
    ExponentMax,    \* INT32_MAX, of the exponent that is read
    SciExponentMax  \* INT16_MAX, of the one that is written

ASSUME TextAssumption ==
    /\ \A t \in Texts : t \in Seq(Int)
    /\ StrCap \in Nat \ {0}
    /\ FracBits \subseteq Nat /\ DecimalCounts \subseteq Nat /\ BufSizes \subseteq Nat \ {0}
    /\ \A x \in Doubles :
          x \in -Infinity .. NaN /\ (Finite(x) => Double(Abs(x), 1) = Abs(x))

(* The places of the finest format, scaled and rounded, fit 64 bits: its    *)
(* frac_bits are 30, and 10^10 * 2^30 + 5 * 10^9 < 2^64.  An int holds      *)
(* every int16_t.                                                           *)
ASSUME LimitsAssumption ==
    /\ PlacesLimit \in Nat \ {0}
    /\ \A f \in FracBits : 10 * PlacesLimit * Power(2, f) + 5 * PlacesLimit <= UMax64
    /\ SciExponentMax \in Nat /\ ExponentMax \in Nat /\ SciExponentMax <= ExponentMax

(* A text without a length is read far enough for every word and for every  *)
(* fixed-point number that is written: a sign, a point, the whole part and  *)
(* the places, all of which are read.                                       *)
ASSUME LengthAssumption ==
    /\ \A pair \in WordPairs : Len(pair[1]) <= StrCap /\ Len(pair[2]) <= StrCap
    /\ MaxDecimals + 2 < StrCap /\ QMax + 1 < Power(10, StrCap - MaxDecimals - 2)
    /\ Power(10, MaxDecimals) <= 10 * PlacesLimit

(* A float has fewer significant bits than an int32_t, a double more, but   *)
(* fewer than an int64_t; and their range is wide enough for the integers   *)
(* and for all the formats.                                                 *)
ASSUME ConversionAssumption ==
    /\ QMax + 1 \in Powers /\ Q64Max + 1 \in Powers
    /\ FloatSignificant <= QMax + 1 /\ 4 * (QMax + 1) <= DoubleSignificant
    /\ 2 * DoubleSignificant <= Q64Max + 1 /\ (Q64Max + 1) * One < Infinity
    /\ FloatSignificant * One < FloatLimit
    /\ \A f \in FracBits :
          Power(2, f) \in Powers /\ Power(2, f) <= One /\ Power(2, f) * One < Infinity

VARIABLES
    parser,       \* which function is called
    frac_bits,    \* its argument, for fixed point
    printed,      \* history: how the text was written: {} if somebody typed it
    str, max_len, \* the text and the NUL behind it; how many characters may be looked at
    phase, idx, is_negative, digits_found,
    result,       \* the number; int_part, for fixed point; d, in the loop that goes first
    frac_accum, frac_div,
    exp_negative, exponent, scale, i,
    status,       \* what the call returned; "RUNNING" before
    out_val,      \* what it wrote to *out_val: {} or one value
    numeral, places, overrun
                  \* history: the digits read, as a whole number; how many of them stood
                  \* behind the point; whether the exponent no longer fits its type

call    == <<parser, frac_bits, printed>>
text    == <<str, max_len>>
number  == <<result, frac_accum, frac_div>>
power   == <<exp_negative, exponent, scale, i>>
history == <<numeral, places, overrun>>
scan    == <<phase, idx, is_negative, digits_found, number, power, history>>
vars    == <<call, text, scan, status, out_val>>

FloatParsers == {"StringToDouble", "StringToFloat"}
Converters == {"Float_To_Q", "Double_To_Q64"}
Functions == FloatParsers \cup Converters \cup {"StringTo_Q", "StringToBool"}

Lengths(t) == {StrCap} \cup ({Len(t) - 1} \ {0})

Typed ==
    /\ parser \notin Converters
    /\ str \in {Append(t, NUL) : t \in Texts}
    /\ printed = {}
    /\ phase = "START" /\ result = 0

PrintedPlain ==
    /\ parser \in FloatParsers
    /\ \E v \in Doubles, decimals \in DecimalCounts, size \in BufSizes :
          /\ str \in Double_ToString(v, decimals, size)
          /\ printed = {[value |-> v, decimals |-> Decimals(decimals), size |-> size,
                         scientific |-> FALSE]}
    /\ phase = "START" /\ result = 0

(* EDC_Double_ToScientific has been called, and has taken the sign away.    *)
PrintingScientific ==
    /\ parser \in FloatParsers
    /\ \E v \in Doubles, decimals \in DecimalCounts, size \in BufSizes :
          /\ printed = {[value |-> v, decimals |-> Decimals(decimals), size |-> size,
                         scientific |-> TRUE]}
          /\ result = Abs(v)
    /\ str = <<NUL>>
    /\ phase = "SCALING"

PrintedQ ==
    /\ parser = "StringTo_Q"
    /\ \E q \in -(QMax + 1) .. QMax, decimals \in DecimalCounts, size \in BufSizes :
          /\ str \in Q_ToString(q, frac_bits, decimals, size)
          /\ printed = {[value |-> q, decimals |-> Decimals(decimals), size |-> size]}
    /\ phase = "START" /\ result = 0

PrintedBool ==
    /\ parser = "StringToBool"
    /\ \E v \in BOOLEAN, words \in WordPairs, size \in BufSizes :
          /\ str \in Bool_ToString(v, words, size)
          /\ printed = {[value |-> v, size |-> size]}
    /\ phase = "START" /\ result = 0

(* A number to be made fixed point; or one that was fixed point before.     *)
Converting ==
    /\ parser \in Converters
    /\ result \in {x \in Doubles : parser = "Float_To_Q" => x = Narrowed(x)}
    /\ printed = {} /\ str = <<NUL>> /\ phase = "CONVERTING"

ConvertingBack ==
    /\ \/ /\ parser = "Float_To_Q"
          /\ \E q \in -(QMax + 1) .. QMax :
                result = Q_To_Float(q, frac_bits) /\ printed = {[value |-> q]}
       \/ /\ parser = "Double_To_Q64"
          /\ \E q \in -(Q64Max + 1) .. Q64Max :
                result = Q64_To_Double(q, frac_bits) /\ printed = {[value |-> q]}
    /\ str = <<NUL>> /\ phase = "CONVERTING"

Init ==
    /\ parser \in Functions
    /\ frac_bits \in IF parser \in Converters \cup {"StringTo_Q"} THEN FracBits ELSE {0}
    /\ \/ Typed \/ PrintedPlain \/ PrintingScientific \/ PrintedQ \/ PrintedBool
       \/ Converting \/ ConvertingBack
    /\ max_len \in Lengths(str)
    /\ idx = 0
    /\ is_negative = FALSE /\ digits_found = FALSE
    /\ frac_accum = 0 /\ frac_div = 1
    /\ exp_negative = FALSE /\ exponent = 0 /\ scale = One /\ i = 0
    /\ status = "RUNNING" /\ out_val = {}
    /\ numeral = 0 /\ places = 0 /\ overrun = FALSE

Return(outcome) ==
    /\ status' = outcome
    /\ UNCHANGED <<call, text, scan, out_val>>

Deliver(value) ==
    /\ status' = "OK"
    /\ out_val' = {value}

-----------------------------------------------------------------------------
(* The exponent of a number to be written: it is divided or multiplied by   *)
(* ten until one digit stands in front of the point.  Multiplying does not  *)
(* reach ten, so the second loop never calls for the first.                 *)

Int16(n) == ((n + SciExponentMax + 1) % (2 * (SciExponentMax + 1))) - (SciExponentMax + 1)

Scaling == status = "RUNNING" /\ phase = "SCALING"

Divide ==
    /\ Scaling
    /\ result # NaN /\ result >= Ten
    /\ result' = Over(result, Ten)
    /\ exponent' = Int16(exponent + 1)
    /\ UNCHANGED <<call, text, phase, idx, is_negative, digits_found, frac_accum, frac_div,
                   exp_negative, scale, i, history, status, out_val>>

Multiply_ZeroToo ==
    /\ Scaling
    /\ result < One
    /\ result' = Times(result, Ten)
    /\ exponent' = Int16(exponent - 1)
    /\ UNCHANGED <<call, text, phase, idx, is_negative, digits_found, frac_accum, frac_div,
                   exp_negative, scale, i, history, status, out_val>>

Multiply ==
    /\ Scaling
    /\ result > 0 /\ result < One
    /\ result' = Times(result, Ten)
    /\ exponent' = Int16(exponent - 1)
    /\ UNCHANGED <<call, text, phase, idx, is_negative, digits_found, frac_accum, frac_div,
                   exp_negative, scale, i, history, status, out_val>>

Scaled == Scaling /\ (result \in {0, NaN} \/ (result >= One /\ result < Ten))

Forms(p) == Scientific(p.value < 0, result, exponent, p.decimals, p.size)

(* The text is written, and somebody reads it.                              *)
PrintScientific ==
    /\ Scaled
    /\ \E p \in printed : str' \in Forms(p)
    /\ max_len' \in Lengths(str')
    /\ phase' = "START"
    /\ result' = 0 /\ exponent' = 0
    /\ UNCHANGED <<call, idx, is_negative, digits_found, frac_accum, frac_div, exp_negative,
                   scale, i, history, status, out_val>>

DoesNotFit ==
    /\ Scaled
    /\ \A p \in printed : Forms(p) = {}
    /\ Return("BUFFER_TOO_SMALL")

-----------------------------------------------------------------------------
(* The beginning of the text.                                               *)

At(p) == str[p + 1]

Skipped ==
    CHOOSE p \in 0 .. max_len :
        /\ p = max_len \/ At(p) # Space
        /\ \A q \in 0 .. p - 1 : At(q) = Space

Blank == Skipped = max_len \/ At(Skipped) = NUL

AfterSign == IF At(Skipped) \in {Plus, Minus} THEN Skipped + 1 ELSE Skipped

(* The letters of a word stand at p; the NUL is no letter.                  *)
WordAt(p, word) ==
    /\ p + Len(word) <= max_len
    /\ \A k \in 1 .. Len(word) :
          (\A j \in 1 .. k - 1 : At(p + j - 1) = word[j]) => At(p + k - 1) = word[k]

IsNaN == parser \in FloatParsers /\ WordAt(Skipped, WordNaN)
IsInf == parser \in FloatParsers /\ ~IsNaN /\ WordAt(AfterSign, WordInf)

Starting == status = "RUNNING" /\ phase = "START"

NoText == Starting /\ Blank /\ Return("INVALID_FORMAT")

NotANumber ==
    /\ Starting /\ ~Blank /\ IsNaN
    /\ Deliver(NaN)
    /\ idx' = Skipped + 3
    /\ UNCHANGED <<call, text, phase, is_negative, digits_found, number, power, history>>

Infinite ==
    /\ Starting /\ ~Blank /\ IsInf
    /\ is_negative' = (At(Skipped) = Minus)
    /\ Deliver(IF At(Skipped) = Minus THEN -Infinity ELSE Infinity)
    /\ idx' = AfterSign + (IF WordAt(AfterSign + 3, WordInity) THEN 8 ELSE 3)
    /\ UNCHANGED <<call, text, phase, digits_found, number, power, history>>

Begin ==
    /\ Starting /\ ~Blank /\ ~IsNaN /\ ~IsInf
    /\ parser # "StringToBool"
    /\ is_negative' = (At(Skipped) = Minus)
    /\ idx' = AfterSign
    /\ phase' = "INTEGER"
    /\ UNCHANGED <<call, text, digits_found, number, power, history, status, out_val>>

-----------------------------------------------------------------------------
(* Digits.                                                                  *)

AtDigit == idx < max_len /\ At(idx) \in 0 .. 9
Digit == At(idx)

Took ==
    /\ idx' = idx + 1
    /\ digits_found' = TRUE
    /\ numeral' = numeral * 10 + Digit

WholeDigit ==
    IF parser = "StringTo_Q" THEN (result * 10 + Digit) % (UMax32 + 1)
    ELSE Sum(Times(result, Ten), Digit * One)

IntegerDigit ==
    /\ status = "RUNNING" /\ phase = "INTEGER"
    /\ AtDigit
    /\ result' = WholeDigit
    /\ Took
    /\ UNCHANGED <<call, text, phase, is_negative, frac_accum, frac_div, power, places, overrun,
                   status, out_val>>

AtPoint == phase = "INTEGER" /\ ~AtDigit /\ idx < max_len /\ At(idx) = Dot

Point ==
    /\ status = "RUNNING" /\ AtPoint
    /\ idx' = idx + 1
    /\ phase' = "FRACTION"
    /\ frac_div' = IF parser = "StringTo_Q" THEN 1 ELSE Ten
    /\ UNCHANGED <<call, text, is_negative, digits_found, result, frac_accum, power, history,
                   status, out_val>>

(* Fixed point: only so many digits are read.                               *)
MoreAllowed_OneMore == parser = "StringTo_Q" => frac_div <= 10 * PlacesLimit

MoreAllowed == parser = "StringTo_Q" => frac_div <= PlacesLimit

AtPlace == phase = "FRACTION" /\ AtDigit /\ MoreAllowed

FractionDigit ==
    /\ status = "RUNNING" /\ AtPlace
    /\ IF parser = "StringTo_Q"
       THEN /\ frac_accum' = (frac_accum * 10 + Digit) % (UMax64 + 1)
            /\ frac_div' = frac_div * 10
            /\ UNCHANGED result
       ELSE /\ result' = Sum(result, Over(Digit * One, frac_div))
            /\ frac_div' = Times(frac_div, Ten)
            /\ UNCHANGED frac_accum
    /\ places' = places + 1
    /\ Took
    /\ UNCHANGED <<call, text, phase, is_negative, power, overrun, status, out_val>>

(* The digits end.                                                          *)
Counted ==
    /\ status = "RUNNING"
    /\ \/ phase = "INTEGER" /\ ~AtDigit /\ ~AtPoint
       \/ phase = "FRACTION" /\ ~AtPlace

NoDigits == Counted /\ ~digits_found /\ Return("INVALID_FORMAT")

-----------------------------------------------------------------------------
(* The exponent.                                                            *)

AtExponent ==
    parser \in FloatParsers /\ idx < max_len /\ At(idx) = LetterE

ExponentSign == idx + 1 < max_len /\ At(idx + 1) \in {Plus, Minus}

Exponent ==
    /\ Counted /\ digits_found /\ AtExponent
    /\ exp_negative' = (ExponentSign /\ At(idx + 1) = Minus)
    /\ idx' = IF ExponentSign THEN idx + 2 ELSE idx + 1
    /\ phase' = "EXPONENT"
    /\ UNCHANGED <<call, text, is_negative, digits_found, number, exponent, scale, i, history,
                   status, out_val>>

(* An exponent that overflows is undefined; it wraps around, or is taken    *)
(* for one that does not.                                                   *)
ExponentDigit ==
    /\ status = "RUNNING" /\ phase = "EXPONENT"
    /\ AtDigit
    /\ LET next == exponent * 10 + Digit
       IN  /\ exponent' \in IF next \in 0 .. ExponentMax THEN {next}
                            ELSE -(ExponentMax + 1) .. ExponentMax
           /\ overrun' = (overrun \/ next \notin 0 .. ExponentMax)
    /\ idx' = idx + 1
    /\ UNCHANGED <<call, text, phase, is_negative, digits_found, number, exp_negative, scale, i,
                   numeral, places, status, out_val>>

PowerOfTen ==
    /\ status = "RUNNING" /\ phase = "EXPONENT"
    /\ ~AtDigit
    /\ i < exponent
    /\ scale' = Times(scale, Ten)
    /\ i' = i + 1
    /\ UNCHANGED <<call, text, phase, idx, is_negative, digits_found, number, exp_negative,
                   exponent, history, status, out_val>>

-----------------------------------------------------------------------------
(* The result.                                                              *)

Completed ==
    \/ Counted /\ digits_found /\ ~AtExponent
    \/ status = "RUNNING" /\ phase = "EXPONENT" /\ ~AtDigit /\ i >= exponent

Magnified == IF exp_negative THEN Over(result, scale) ELSE Times(result, scale)

Finish ==
    /\ Completed
    /\ parser \in FloatParsers
    /\ LET signed == IF is_negative THEN Negated(Magnified) ELSE Magnified
       IN  Deliver(IF parser = "StringToFloat" THEN Narrowed(signed) ELSE signed)
    /\ UNCHANGED <<call, text, scan>>

(* The places are rounded to the nearest fixed-point number.                *)
FracQ_Down == (frac_accum * Power(2, frac_bits)) \div frac_div

FracQ ==
    ((frac_accum * Power(2, frac_bits) + frac_div \div 2) % (UMax64 + 1)) \div frac_div

QVal == result * Power(2, frac_bits) + (IF frac_div > 1 THEN FracQ ELSE 0)

FinishQ ==
    /\ Completed
    /\ parser = "StringTo_Q"
    /\ QVal <= QMax
    /\ Deliver(IF is_negative THEN -QVal ELSE QVal)
    /\ UNCHANGED <<call, text, scan>>

TooGreat ==
    /\ Completed
    /\ parser = "StringTo_Q"
    /\ QVal > QMax
    /\ Return(IF is_negative THEN "UNDERFLOW" ELSE "OVERFLOW")

(* A Boolean: the letters and digits that stand together, but no more than  *)
(* word[8] takes.                                                           *)
WordSize == 8

WordEnd ==
    CHOOSE e \in Skipped .. max_len :
        /\ e = max_len \/ At(e) \notin 0 .. 35 \/ e - Skipped = WordSize - 1
        /\ \A p \in Skipped .. e - 1 : At(p) \in 0 .. 35

Word == SubSeq(str, Skipped + 1, WordEnd)

Affirmative == {pair[1] : pair \in WordPairs} \cup {<<29>>, <<34>>}     \* t, y
Declining   == {pair[2] : pair \in WordPairs} \cup {<<15>>, <<23>>}     \* f, n

ReadBool ==
    /\ Starting /\ ~Blank
    /\ parser = "StringToBool"
    /\ Word \in Affirmative \cup Declining
    /\ Deliver(Word \in Affirmative)
    /\ idx' = WordEnd
    /\ UNCHANGED <<call, text, phase, is_negative, digits_found, number, power, history>>

NoBool ==
    /\ Starting /\ ~Blank
    /\ parser = "StringToBool"
    /\ Word \notin Affirmative \cup Declining
    /\ Return("INVALID_FORMAT")

-----------------------------------------------------------------------------
(* Floating point to fixed point; the caller says whether to saturate.      *)
TypeMax == IF parser = "Float_To_Q" THEN QMax ELSE Q64Max

Convert ==
    /\ status = "RUNNING" /\ phase = "CONVERTING"
    /\ ~TooLarge(result, frac_bits, TypeMax)
    /\ \E q \in ToFixed(result, frac_bits, TypeMax) : Deliver(q)
    /\ UNCHANGED <<call, text, scan>>

Saturate ==
    /\ status = "RUNNING" /\ phase = "CONVERTING"
    /\ TooLarge(result, frac_bits, TypeMax)
    /\ Deliver(Signed(result, Greatest(result, TypeMax)))
    /\ UNCHANGED <<call, text, scan>>

DoesNotSaturate ==
    /\ status = "RUNNING" /\ phase = "CONVERTING"
    /\ TooLarge(result, frac_bits, TypeMax)
    /\ Return("OVERFLOW")

Returned == status # "RUNNING" /\ UNCHANGED vars

Next ==
    \/ Divide \/ Multiply \/ PrintScientific \/ DoesNotFit
    \/ NoText \/ NotANumber \/ Infinite \/ Begin
    \/ IntegerDigit \/ Point \/ FractionDigit \/ NoDigits
    \/ Exponent \/ ExponentDigit \/ PowerOfTen
    \/ Finish \/ FinishQ \/ TooGreat \/ ReadBool \/ NoBool
    \/ Convert \/ Saturate \/ DoesNotSaturate
    \/ Returned

Spec == Init /\ [][Next]_vars /\ WF_vars(Next)

-----------------------------------------------------------------------------
(* Nothing is read behind the NUL, nothing written is longer than its      *)
(* buffer, and the ten places that EDC_StringTo_Q takes do not overflow    *)
(* the 64 bits in which it scales and rounds them, in any format.          *)
TypeOK ==
    /\ status \in {"RUNNING", "OK", "INVALID_FORMAT", "BUFFER_TOO_SMALL", "OVERFLOW",
                   "UNDERFLOW"}
    /\ phase \in {"SCALING", "START", "INTEGER", "FRACTION", "EXPONENT", "CONVERTING"}
    /\ idx \in 0 .. Len(str) - 1 /\ idx <= max_len
    /\ \A p \in printed : parser \notin Converters => Len(str) <= p.size
    /\ parser = "StringTo_Q" => frac_accum * Power(2, frac_bits) + frac_div \div 2 <= UMax64
    /\ exponent \in -(ExponentMax + 1) .. ExponentMax /\ scale \in One .. Infinity

Size(x) == IF x < 0 THEN -x ELSE x
Near(x, y, slack) == Size(x - y) <= slack

(* EDC_StringTo_Q returns the fixed-point number nearest to the one that is*)
(* written, up to its tenth place, halves away from zero; and what it      *)
(* rejects is too great.  But the whole part, which nothing checks, is that*)
(* modulo 2^32.                                                            *)
FixedExact ==
    LET tens    == Power(10, places)
        read    == ((numeral \div tens) % (UMax32 + 1)) * tens + (numeral % tens)
        nearest == (2 * read * Power(2, frac_bits) + tens) \div (2 * tens)
    IN  parser = "StringTo_Q" =>
            /\ status = "OK" =>
                   nearest <= QMax /\ out_val = {IF is_negative THEN -nearest ELSE nearest}
            /\ status \in {"OVERFLOW", "UNDERFLOW"} => nearest > QMax

(* What the digits, the point and the exponent say, in units, cut off; huge*)
(* numbers are Infinity.                                                   *)
Denoted ==
    LET tens      == Power(10, places + IF exp_negative THEN exponent ELSE 0)
        magnified == numeral * (IF exp_negative THEN 1 ELSE Power(10, exponent))
    IN  IF magnified \div tens >= Infinity \div One THEN Infinity
        ELSE (magnified \div tens) * One + ((magnified % tens) * One) \div tens

(* What rounding may have added: twice a digit, once a power of ten.       *)
ReadSlack(v) ==
    LET before == 2 * idx * Spacing(result, DoubleSignificant)
        after  == (exponent + 1) * Spacing(v, DoubleSignificant)
                      + (IF parser = "StringToFloat" THEN Spacing(v, FloatSignificant) ELSE 0)
    IN  after + 1 + (IF exp_negative THEN before \div Power(10, exponent) ELSE before * Power(10, exponent))

Reach == IF parser = "StringToFloat" THEN FloatLimit ELSE Infinity

Measured ==
    /\ parser \in FloatParsers /\ status = "OK" /\ digits_found
    /\ ~overrun /\ scale # Infinity /\ result # Infinity

(* The number read is the number written, but for the rounding errors of   *)
(* its digits and its exponent; beyond the type's range it is infinite.    *)
(* The power of ten must be a number, and its exponent fit its type.       *)
FloatNear ==
    Measured => \A v \in out_val :
        LET slack == ReadSlack(Least(Size(v), Reach))
        IN  /\ v < 0 => is_negative
            /\ \/ Near(Size(v), Denoted, slack)
               \/ Size(v) = Infinity /\ Denoted >= Reach - slack

(* EDC_Float_To_Q and EDC_Double_To_Q64 return the nearest fixed-point     *)
(* number, or the one next to it where a half can no longer be added       *)
(* exactly; beyond the type's range they return its bound or OVERFLOW.     *)
(* 2^63 itself is beyond what the cast to 64 bits can hold.                *)
ConvertsNearest ==
    LET limit  == Greatest(result, TypeMax)
        scaled == Size(result) * Power(2, frac_bits)
        exact  == DoubleSignificant \div 2
    IN  (phase = "CONVERTING" /\ result # NaN) =>
            /\ status = "OVERFLOW" => Size(result) \div One >= (limit + 1) \div Power(2, frac_bits)
            /\ status = "OK" => \A q \in out_val :
                 \/ Size(result) \div One >= (TypeMax + 1) \div Power(2, frac_bits)
                        /\ (q = Signed(result, limit) \/ Size(result) * Power(2, frac_bits) = (TypeMax + 1) * One)
                 \/ Near(Size(q) * One, scaled,
                         IF scaled < exact * One THEN One \div 2 + Spacing(One, DoubleSignificant)
                         ELSE One)

(* A fixed-point number written with enough places to tell it from its     *)
(* neighbours is the number read back, and all of its text is consumed:    *)
(* EDC_Q_ToString drops the places it does not write, EDC_StringTo_Q rounds*)
(* those it reads.  But the least number is beyond what can be read.       *)
FixedReadsBack ==
    \A p \in printed :
        (parser = "StringTo_Q" /\ status # "RUNNING" /\ Power(10, p.decimals) >= 2 * Power(2, frac_bits)) =>
            IF p.value = -(QMax + 1) THEN status = "UNDERFLOW"
            ELSE status = "OK" /\ out_val = {p.value} /\ idx = Len(str) - 1

(* A number written by EDC_Double_ToString or EDC_Double_ToScientific is   *)
(* read back to half of its last place, rounding errors apart, and all of  *)
(* its text is consumed.  A plain number must fit 64 bits.                 *)
LastPlace(p) ==
    IF ~p.scientific THEN One \div Power(10, p.decimals)
    ELSE IF exp_negative THEN One \div Power(10, p.decimals + exponent)
    ELSE (One * Power(10, exponent)) \div Power(10, p.decimals)

WriteSlack(p) ==
    2 * Spacing(Size(p.value), DoubleSignificant) + 2 * Spacing(One, DoubleSignificant) + 2

FloatReadsBack ==
    \A p \in printed :
        (parser \in FloatParsers /\ status \notin {"RUNNING", "BUFFER_TOO_SMALL"}) =>
            /\ status = "OK" /\ idx = Len(str) - 1
            /\ \A v \in out_val :
                 IF Finite(p.value)
                 THEN (scale # Infinity /\ (~p.scientific => Size(p.value) < UMax64 * One)) =>
                         \/ Near(v, p.value, LastPlace(p) \div 2 + WriteSlack(p)
                                                 + ReadSlack(Least(Size(v), Reach)))
                         \/ Size(v) = Infinity /\ Size(p.value) >= Reach \div 2
                 ELSE v = p.value

(* Every word that EDC_Bool_ToString writes is read back as the value it   *)
(* stands for, and consumed.                                               *)
BoolReadsBack ==
    \A p \in printed :
        (parser = "StringToBool" /\ status # "RUNNING") =>
            status = "OK" /\ out_val = {p.value} /\ idx = Len(str) - 1

(* A fixed-point number made floating point and fixed point again is the   *)
(* same number, if the floating-point type holds it and half a unit more.  *)
ConvertsBack ==
    \A p \in printed :
        (parser \in Converters /\ status # "RUNNING"
            /\ Size(p.value) <= (IF parser = "Float_To_Q" THEN FloatSignificant
                                ELSE DoubleSignificant \div 2))
        => out_val = {p.value}

(* Fixed point and Booleans: every number that is read or converted is the  *)
(* nearest of its format, as far as the format's arithmetic can tell, and   *)
(* every value that was written or converted is got back.                   *)
FixedPointCorrect ==
    FixedExact /\ ConvertsNearest /\ FixedReadsBack /\ ConvertsBack /\ BoolReadsBack

(* Floating point: the number read is the one written, by whomsoever, but   *)
(* for the rounding errors of its digits and its exponent.                  *)
FloatingPointCorrect == FloatNear /\ FloatReadsBack

(* Every call returns, but EDC_Double_ToScientific for infinity.           *)
Returns ==
    (parser \in FloatParsers => \A p \in printed : p.scientific => Size(p.value) # Infinity)
        => <>(status # "RUNNING")

(* The documentation: all loops are bounded.                               *)
DocLoopsTerminate == <>(status # "RUNNING")
=============================================================================
