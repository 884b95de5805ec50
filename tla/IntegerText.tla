------------------------------- MODULE IntegerText -------------------------------
(***************************************************************************)
(* EDC_StringToU64, EDC_StringToI64 and the six narrower functions built on*)
(* them (src/edc_numeric.c): one call, a step per iteration of the digit   *)
(* loop.  The text is arbitrary or one that EDC_U64_ToStringEx or          *)
(* EDC_I64_ToStringEx wrote.                                               *)
(***************************************************************************)
EXTENDS IntegerFormat

CONSTANTS
    UMax,       \* UINT64_MAX
    IMax,       \* INT64_MAX
    UTargets,   \* the maxima of the unsigned types parsed to
    ITargets,   \* those of the signed types
    StrCap,     \* how far a NUL-terminated text is read
    Bases,      \* the bases callers pass, 0 for "find out"
    Texts,      \* texts of any kind
    Pads, BufSizes   \* how numbers are written

ASSUME RangeAssumption ==
    /\ IMax \in Nat /\ UMax = 2 * IMax + 1
    /\ UTargets \subseteq 0 .. UMax /\ ITargets \subseteq 0 .. IMax
(* Any digit is a number of its own, as it is in 64 bits.                   *)
ASSUME BaseAssumption ==
    Bases \subseteq Nat /\ 16 <= IMax + 1 /\ \A b \in Bases : b <= 36 => b <= IMax + 1
ASSUME TextAssumption ==
    StrCap \in Nat \ {0} /\ Pads \subseteq Nat /\ \A t \in Texts : t \in Seq(Int)

VARIABLES
    str,            \* the caller's text and the NUL behind it
    max_len,        \* how many characters may be looked at
    base, signed, target,   \* the base passed, and the type parsed to
    idx, effective_base, is_negative, result, digits_found,
    status,         \* what the call returned; "PARSING" before
    out_val,        \* what it wrote to *out_val: {} or one number
    value,          \* history: the number the digits read so far denote
    written         \* the number ToString wrote to str: {} if it wrote none

input == <<str, max_len, base, signed, target, written>>
scan  == <<idx, effective_base, is_negative, result, digits_found>>
vars  == <<input, scan, status, out_val, value>>

MaxOf == target
MinOf == IF signed THEN -(target + 1) ELSE 0

TargetsOf(s) == IF s THEN ITargets ELSE UTargets

(* A text somebody typed, or one the library wrote for a number of the type *)
(* it will be read back into.                                               *)
Typed == str \in {Append(t, NUL) : t \in Texts} /\ written = {}

Written ==
    /\ base \in 2 .. 36
    /\ \E v \in MinOf .. MaxOf, pad \in Pads, size \in BufSizes :
          /\ str \in Formatted(v, base, pad, size)
          /\ written = {v}

(* The length is passed, or 0 for a text that ends with a NUL.              *)
Init ==
    /\ base \in Bases
    /\ signed \in BOOLEAN
    /\ target \in TargetsOf(signed)
    /\ Typed \/ Written
    /\ max_len \in {StrCap} \cup ({Len(str) - 1} \ {0})
    /\ idx = 0
    /\ effective_base = 0
    /\ is_negative = FALSE
    /\ result = 0
    /\ digits_found = FALSE
    /\ status = "PARSING"
    /\ out_val = {}
    /\ value = 0

-----------------------------------------------------------------------------
(* str[p]                                                                   *)
At(p) == str[p + 1]

Return(error) ==
    /\ status' = error
    /\ UNCHANGED <<input, scan, out_val>>

(* The first character that is no white space.                              *)
Skipped ==
    CHOOSE p \in 0 .. max_len :
        /\ p = max_len \/ At(p) # Space
        /\ \A q \in 0 .. p - 1 : At(q) = Space

Blank == Skipped = max_len \/ At(Skipped) = NUL

Sign(p) == At(p) = Plus \/ (signed /\ At(p) = Minus)

AfterSign == IF Sign(Skipped) THEN Skipped + 1 ELSE Skipped

(* "0x" or "0b" at p; the text may end behind the sign.                     *)
Prefix(p, letter) == p + 1 < max_len /\ At(p) = 0 /\ At(p + 1) = letter

Detected(p) ==
    IF base # 0 THEN base
    ELSE IF Prefix(p, LetterX) THEN 16
    ELSE IF Prefix(p, LetterB) THEN 2
    ELSE 10

AfterPrefix(p) ==
    IF \/ Detected(p) = 16 /\ Prefix(p, LetterX)
       \/ Detected(p) = 2 /\ Prefix(p, LetterB)
    THEN p + 2 ELSE p

Started == effective_base # 0

NoText ==
    /\ status = "PARSING" /\ ~Started
    /\ Blank
    /\ Return("INVALID_FORMAT")
    /\ UNCHANGED value

BadBase ==
    /\ status = "PARSING" /\ ~Started
    /\ ~Blank
    /\ Detected(AfterSign) \notin 2 .. 36
    /\ Return("UNSUPPORTED")
    /\ UNCHANGED value

Begin ==
    /\ status = "PARSING" /\ ~Started
    /\ ~Blank
    /\ Detected(AfterSign) \in 2 .. 36
    /\ idx' = AfterPrefix(AfterSign)
    /\ effective_base' = Detected(AfterSign)
    /\ is_negative' = (signed /\ At(Skipped) = Minus)
    /\ UNCHANGED <<input, result, digits_found, status, out_val, value>>

-----------------------------------------------------------------------------
(* The digit loop.                                                          *)

IsDigit(c) == c \in 0 .. effective_base - 1

AtDigit == idx < max_len /\ IsDigit(At(idx))

Limit == IF ~signed THEN UMax ELSE IF is_negative THEN IMax + 1 ELSE IMax

(* 64-bit arithmetic.                                                       *)
Wrapped(n) == n % (UMax + 1)

MultiplyFits_OffByOne == result <= (Limit \div effective_base) + 1

MultiplyFits == result <= Limit \div effective_base

Product == Wrapped(result * effective_base)

AddFits_Dropped(digit) == TRUE

AddFits(digit) == Product <= Limit - digit

(* The number behind one more digit, without limit.                         *)
Extended(digit) == value * effective_base + digit

TakeDigit ==
    /\ status = "PARSING" /\ Started
    /\ AtDigit
    /\ MultiplyFits /\ AddFits(At(idx))
    /\ result' = Wrapped(Product + At(idx))
    /\ digits_found' = TRUE
    /\ idx' = idx + 1
    /\ value' = Extended(At(idx))
    /\ UNCHANGED <<input, effective_base, is_negative, status, out_val>>

TooManyDigits ==
    /\ status = "PARSING" /\ Started
    /\ AtDigit
    /\ ~(MultiplyFits /\ AddFits(At(idx)))
    /\ Return(IF is_negative THEN "UNDERFLOW" ELSE "OVERFLOW")
    /\ value' = Extended(At(idx))

NoDigits ==
    /\ status = "PARSING" /\ Started
    /\ ~AtDigit
    /\ ~digits_found
    /\ Return("INVALID_FORMAT")
    /\ UNCHANGED value

(* The sign is put back, and the narrower functions test their own range.   *)
Signed == IF is_negative THEN -result ELSE result

Finish ==
    /\ status = "PARSING" /\ Started
    /\ ~AtDigit
    /\ digits_found
    /\ IF Signed > MaxOf THEN status' = "OVERFLOW" /\ UNCHANGED out_val
       ELSE IF Signed < MinOf THEN status' = "UNDERFLOW" /\ UNCHANGED out_val
       ELSE status' = "OK" /\ out_val' = {Signed}
    /\ UNCHANGED <<input, scan, value>>

Done == status # "PARSING" /\ UNCHANGED vars

Next ==
    \/ NoText \/ BadBase \/ Begin
    \/ TakeDigit \/ TooManyDigits \/ NoDigits \/ Finish
    \/ Done

Spec == Init /\ [][Next]_vars

-----------------------------------------------------------------------------
(* Type correctness; the accumulator stays within the limit of the type, and*)
(* no character behind the text is read (edc_numeric.c:225-429).            *)
TypeOK ==
    /\ idx \in 0 .. max_len /\ idx < Len(str)
    /\ effective_base \in {0} \cup 2 .. 36
    /\ result \in 0 .. Limit
    /\ is_negative => signed
    /\ status \in {"PARSING", "OK", "OVERFLOW", "UNDERFLOW", "INVALID_FORMAT", "UNSUPPORTED"}
    /\ out_val \subseteq MinOf .. MaxOf
    /\ value \in Nat

(* The 64-bit arithmetic never wraps around: the accumulator is the number  *)
(* the digits read so far denote, and so is the product the second test is  *)
(* made on (edc_numeric.c:297-307).                                         *)
NothingWraps ==
    /\ status \in {"PARSING", "OK"} => result = value
    /\ status = "PARSING" /\ Started /\ AtDigit /\ MultiplyFits =>
          Product = value * effective_base

(* The two overflow tests in front of the arithmetic (edc_numeric.c:297-307)*)
(* are exact: OK comes with the number the digits denote, and OVERFLOW and  *)
(* UNDERFLOW only if that number, with its sign, does not fit the type.     *)
(* Until then nothing has wrapped.                                          *)
ReportsExactly ==
    /\ NothingWraps
    /\ status = "OK" => out_val = {IF is_negative THEN -value ELSE value}
    /\ status = "OVERFLOW" => ~is_negative /\ value > MaxOf
    /\ status = "UNDERFLOW" => is_negative /\ -value < MinOf

(* What ToString writes, in any base and with any padding, StringTo reads   *)
(* back as the same number, up to the last character, provided that it is   *)
(* told the length or the text is no longer than it looks.                  *)
ReadsBack ==
    \A v \in written :
        status # "PARSING" /\ Len(str) - 1 <= max_len
        => status = "OK" /\ out_val = {v} /\ idx = Len(str) - 1
=============================================================================
