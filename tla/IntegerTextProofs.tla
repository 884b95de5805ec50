--------------------------- MODULE IntegerTextProofs ---------------------------
(***************************************************************************)
(* Proofs about reading integers, for integers of any width, every base and*)
(* every text: that the overflow tests are exact, that no character behind *)
(* the text is read, and that what is written is read back.                *)
(***************************************************************************)
EXTENDS IntegerText, SequenceTheorems, WellFoundedInduction, TLAPS

(* The arithmetic of the two tests: a division by the base decides whether  *)
(* a product is within a limit, and what is within the range of 64 bits     *)
(* does not wrap around.                                                    *)
LEMMA ProductGrows ==
    ASSUME NEW q \in Nat, NEW b \in Nat, NEW r \in Nat, r <= q
    PROVE  r * b <= q * b
  BY SMT

LEMMA QuotientAdmits ==
    ASSUME NEW limit \in Nat, NEW b \in Nat \ {0}, NEW r \in Nat, r <= limit \div b
    PROVE  r * b \in Nat /\ r * b <= limit
<1> DEFINE q == limit \div b
<1>1. q \in Nat /\ b * q <= limit
  BY SMT
<1>2. r * b <= q * b
  BY <1>1, ProductGrows
<1> QED
  BY <1>1, <1>2, SMT

LEMMA QuotientRefuses ==
    ASSUME NEW limit \in Nat, NEW b \in Nat \ {0}, NEW r \in Nat, ~(r <= limit \div b)
    PROVE  r * b \in Nat /\ r * b > limit
<1> DEFINE q == limit \div b
<1>1. q \in Nat /\ limit < b * (q + 1)
  BY SMT
<1>2. (q + 1) * b <= r * b
  BY <1>1, ProductGrows, SMT
<1> QED
  BY <1>1, <1>2, SMT

LEMMA NoWrap ==
    ASSUME NEW n \in Nat, n <= UMax
    PROVE  Wrapped(n) = n
  BY RangeAssumption, SMT DEF Wrapped

LEMMA NegationReverses ==
    ASSUME NEW v \in Nat, NEW limit \in Nat, NEW t \in Nat, v > limit, t + 1 <= limit
    PROVE  -v < -(t + 1)
  BY SMT

-----------------------------------------------------------------------------
(* The registers' ranges.  result is the number the digits denote for as    *)
(* long as the call goes on, and 0 before the base is known.                *)
Registers ==
    /\ signed \in BOOLEAN /\ is_negative \in BOOLEAN
    /\ is_negative => signed
    /\ target \in Nat /\ target <= (IF signed THEN IMax ELSE UMax)
    /\ effective_base \in Nat /\ (Started => effective_base >= 2)

Accumulator ==
    /\ result \in Nat /\ result <= Limit
    /\ value \in Nat
    /\ status \in {"PARSING", "OK"} => value = result
    /\ ~Started => result = 0 /\ ~is_negative

(* What ReportsExactly says beside NothingWraps.                            *)
Verdict ==
    /\ status = "OK" => out_val = {IF is_negative THEN -value ELSE value}
    /\ status = "OVERFLOW" => ~is_negative /\ value > MaxOf
    /\ status = "UNDERFLOW" => is_negative /\ -value < MinOf

IInv == Registers /\ Accumulator /\ Verdict

LEMMA LimitInRange ==
    ASSUME Registers
    PROVE  /\ Limit \in Nat /\ Limit <= UMax
           /\ ~is_negative => target <= Limit
           /\ is_negative => target + 1 <= Limit
<1>1. IMax \in Nat /\ UMax = 2 * IMax + 1
  BY RangeAssumption
<1>2. CASE ~signed
  BY <1>1, <1>2, SMT DEF Registers, Limit
<1>3. CASE signed /\ is_negative
  BY <1>1, <1>3, SMT DEF Registers, Limit
<1>4. CASE signed /\ ~is_negative
  BY <1>1, <1>4, SMT DEF Registers, Limit
<1> QED
  BY <1>2, <1>3, <1>4 DEF Registers

LEMMA InitIInv == Init => IInv
<1> SUFFICES ASSUME Init PROVE IInv
  OBVIOUS
<1>1. status = "PARSING" /\ result = 0 /\ value = 0 /\ effective_base = 0 /\ is_negative = FALSE
      /\ signed \in BOOLEAN /\ target \in TargetsOf(signed)
  BY DEF Init
<1>2. Registers
  <2>1. target \in Nat /\ target <= (IF signed THEN IMax ELSE UMax)
    BY <1>1, RangeAssumption, SMT DEF TargetsOf
  <2>2. effective_base \in Nat
    BY <1>1, SMT
  <2> QED
    BY <1>1, <2>1, <2>2 DEF Registers, Started
<1>3. Accumulator
  <2>1. Limit \in Nat
    BY <1>2, LimitInRange
  <2>2. result \in Nat /\ result <= Limit /\ value \in Nat
    BY <1>1, <2>1, SMT
  <2> QED
    BY <1>1, <2>2 DEF Accumulator
<1>4. Verdict
  BY <1>1 DEF Verdict
<1> QED
  BY <1>2, <1>3, <1>4 DEF IInv

(* A digit that passes both tests is added without loss.                    *)
LEMMA DigitAdded ==
    ASSUME IInv, TakeDigit
    PROVE  IInv'
<1> DEFINE digit == At(idx)
<1>1. digit \in Nat /\ effective_base \in Nat \ {0}
  BY SMT DEF TakeDigit, AtDigit, IsDigit, IInv, Registers, Started
<1>2. Limit \in Nat /\ Limit <= UMax
  BY LimitInRange DEF IInv
<1>3. value = result /\ result \in Nat
  BY DEF IInv, Accumulator, TakeDigit
<1>4. result * effective_base \in Nat /\ result * effective_base <= Limit
  BY <1>1, <1>2, <1>3, QuotientAdmits DEF TakeDigit, MultiplyFits
<1>5. Product = result * effective_base
  BY <1>2, <1>4, NoWrap, RangeAssumption, SMT DEF Product
<1>6. Product + digit \in Nat /\ Product + digit <= Limit
  BY <1>1, <1>2, <1>4, <1>5, SMT DEF TakeDigit, AddFits
<1>7. result' = Product + digit
  BY <1>2, <1>6, NoWrap, RangeAssumption, SMT DEF TakeDigit
<1>8. value' = Product + digit
  BY <1>3, <1>5 DEF TakeDigit, Extended
<1>9. Registers' /\ Limit' = Limit
  BY DEF IInv, Registers, Limit, Started, TakeDigit, input
<1>10. Accumulator'
  BY <1>6, <1>7, <1>8, <1>9 DEF Accumulator, TakeDigit, Started
<1>11. Verdict'
  BY DEF Verdict, TakeDigit
<1> QED
  BY <1>9, <1>10, <1>11 DEF IInv

(* A digit that fails one of them would have taken the number beyond the    *)
(* limit, and so beyond the type.                                           *)
LEMMA RefusedIsBeyond ==
    ASSUME IInv, TooManyDigits
    PROVE  value' \in Nat /\ value' > Limit
<1> DEFINE digit == At(idx)
<1>1. digit \in Nat /\ effective_base \in Nat \ {0}
  BY SMT DEF TooManyDigits, AtDigit, IsDigit, IInv, Registers, Started
<1>2. /\ Limit \in Nat /\ Limit <= UMax
      /\ ~is_negative => target <= Limit
      /\ is_negative => target + 1 <= Limit
  BY LimitInRange DEF IInv
<1>3. value = result /\ result \in Nat
  BY DEF IInv, Accumulator, TooManyDigits
<1>4. value' = result * effective_base + digit
  BY <1>3 DEF TooManyDigits, Extended
<1>5. value' \in Nat /\ value' > Limit
  <2>1. CASE ~MultiplyFits
    <3>1. result * effective_base \in Nat /\ result * effective_base > Limit
      BY <1>1, <1>2, <1>3, <2>1, QuotientRefuses DEF MultiplyFits
    <3> QED
      BY <1>1, <1>2, <1>4, <3>1, SMT
  <2>2. CASE MultiplyFits /\ ~AddFits(digit)
    <3>1. result * effective_base \in Nat /\ result * effective_base <= Limit
      BY <1>1, <1>2, <1>3, <2>2, QuotientAdmits DEF MultiplyFits
    <3>2. Product = result * effective_base
      BY <1>2, <3>1, NoWrap, RangeAssumption, SMT DEF Product
    <3> QED
      BY <1>1, <1>2, <1>4, <2>2, <3>1, <3>2, SMT DEF AddFits
  <2> QED
    BY <2>1, <2>2 DEF TooManyDigits
<1> QED
  BY <1>5

LEMMA DigitRefused ==
    ASSUME IInv, TooManyDigits
    PROVE  IInv'
<1>2. /\ Limit \in Nat /\ Limit <= UMax
      /\ ~is_negative => target <= Limit
      /\ is_negative => target + 1 <= Limit
  BY LimitInRange DEF IInv
<1>5. value' \in Nat /\ value' > Limit
  BY RefusedIsBeyond
<1>6. Registers' /\ Limit' = Limit
  BY DEF IInv, Registers, Limit, Started, TooManyDigits, Return, scan, input
<1>7. status' = IF is_negative THEN "UNDERFLOW" ELSE "OVERFLOW"
  BY DEF TooManyDigits, Return
<1>8. /\ signed' = signed /\ is_negative' = is_negative /\ target' = target
      /\ result' = result /\ effective_base' = effective_base
  BY DEF TooManyDigits, Return, scan, input
<1>9. Accumulator'
  BY <1>5, <1>6, <1>7, <1>8 DEF Accumulator, IInv, Started
<1>10. Verdict'
  <2>1. CASE is_negative
    <3>1. status' = "UNDERFLOW"
      BY <1>7, <2>1
    <3>2. signed /\ target \in Nat /\ target + 1 <= Limit
      BY <1>2, <2>1 DEF IInv, Registers
    <3>3. MinOf' = -(target + 1)
      BY <1>8, <3>2 DEF MinOf
    <3>4. -value' < MinOf'
      BY <1>2, <1>5, <3>2, <3>3, NegationReverses
    <3> QED
      BY <1>8, <2>1, <3>1, <3>4 DEF Verdict
  <2>2. CASE ~is_negative
    <3>1. status' = "OVERFLOW"
      BY <1>7, <2>2
    <3>2. value' > MaxOf'
      BY <1>2, <1>5, <1>8, <2>2, SMT DEF MaxOf, IInv, Registers
    <3> QED
      BY <1>8, <2>2, <3>1, <3>2 DEF Verdict
  <2> QED
    BY <2>1, <2>2
<1> QED
  BY <1>6, <1>9, <1>10 DEF IInv

(* The sign is put back, and only a number of the type is handed out.       *)
LEMMA NumberFinished ==
    ASSUME IInv, Finish
    PROVE  IInv'
<1>1. /\ signed' = signed /\ is_negative' = is_negative /\ target' = target
      /\ result' = result /\ effective_base' = effective_base /\ value' = value
  BY DEF Finish, scan, input
<1>2. value = result /\ value \in Nat /\ target \in Nat
  BY DEF IInv, Accumulator, Registers, Finish
<1>3. Registers' /\ Accumulator'
  BY <1>1, <1>2 DEF IInv, Registers, Accumulator, Limit, Started
<1>4. Verdict'
  <2>1. CASE Signed > MaxOf
    <3>1. status' = "OVERFLOW"
      BY <2>1 DEF Finish
    <3>2. ~is_negative /\ value > MaxOf
      BY <1>2, <2>1, SMT DEF Signed, MaxOf, IInv, Registers
    <3> QED
      BY <1>1, <3>1, <3>2 DEF Verdict, MaxOf
  <2>2. CASE ~(Signed > MaxOf) /\ Signed < MinOf
    <3>1. status' = "UNDERFLOW"
      BY <2>2 DEF Finish
    <3>2. is_negative /\ -value < MinOf
      BY <1>2, <2>2, SMT DEF Signed, MinOf, IInv, Registers
    <3> QED
      BY <1>1, <3>1, <3>2 DEF Verdict, MinOf
  <2>3. CASE ~(Signed > MaxOf) /\ ~(Signed < MinOf)
    <3>1. status' = "OK" /\ out_val' = {Signed}
      BY <2>3 DEF Finish
    <3> QED
      BY <1>1, <1>2, <3>1 DEF Verdict, Signed
  <2> QED
    BY <2>1, <2>2, <2>3
<1> QED
  BY <1>3, <1>4 DEF IInv

(* The other steps touch none of this.                                      *)
LEMMA BaseFound ==
    ASSUME IInv, Begin
    PROVE  IInv'
<1>1. /\ signed' = signed /\ target' = target /\ result' = 0 /\ result = 0
      /\ value' = value /\ status' = "PARSING" /\ status = "PARSING"
      /\ effective_base' = Detected(AfterSign) /\ Detected(AfterSign) \in 2 .. 36
      /\ is_negative' = (signed /\ At(Skipped) = Minus)
  BY DEF Begin, input, IInv, Accumulator
<1>2. Registers'
  BY <1>1, SMT DEF IInv, Registers, Started
<1>3. Limit' \in Nat
  BY <1>2, LimitInRange, RangeAssumption, SMT DEF Limit, Registers
<1>4. Accumulator'
  BY <1>1, <1>3, SMT DEF IInv, Accumulator, Started
<1>5. Verdict'
  BY <1>1 DEF Verdict
<1> QED
  BY <1>2, <1>4, <1>5 DEF IInv

LEMMA CallFailed ==
    ASSUME IInv, NoText \/ BadBase \/ NoDigits
    PROVE  IInv'
<1>1. /\ signed' = signed /\ is_negative' = is_negative /\ target' = target
      /\ result' = result /\ effective_base' = effective_base /\ value' = value
      /\ status' \in {"INVALID_FORMAT", "UNSUPPORTED"}
  BY DEF NoText, BadBase, NoDigits, Return, scan, input
<1>2. Registers' /\ Accumulator'
  BY <1>1 DEF IInv, Registers, Accumulator, Limit, Started
<1>3. Verdict'
  BY <1>1 DEF Verdict
<1> QED
  BY <1>2, <1>3 DEF IInv

LEMMA NothingChanged ==
    ASSUME IInv, UNCHANGED vars
    PROVE  IInv'
  BY DEF IInv, Registers, Accumulator, Verdict, Limit, Started, MaxOf, MinOf,
         vars, scan, input

LEMMA NextIInv == IInv /\ [Next]_vars => IInv'
<1> SUFFICES ASSUME IInv, [Next]_vars PROVE IInv'
  OBVIOUS
<1>1. CASE NoText \/ BadBase \/ NoDigits
  BY <1>1, CallFailed
<1>2. CASE Begin
  BY <1>2, BaseFound
<1>3. CASE TakeDigit
  BY <1>3, DigitAdded
<1>4. CASE TooManyDigits
  BY <1>4, DigitRefused
<1>5. CASE Finish
  BY <1>5, NumberFinished
<1>6. CASE Done \/ UNCHANGED vars
  BY <1>6, NothingChanged DEF Done
<1> QED
  BY <1>1, <1>2, <1>3, <1>4, <1>5, <1>6 DEF Next

LEMMA IInvNothingWraps == IInv => NothingWraps
<1> SUFFICES ASSUME IInv PROVE NothingWraps
  OBVIOUS
<1>1. ASSUME status = "PARSING", Started, AtDigit, MultiplyFits
      PROVE  Product = value * effective_base
  <2>1. Limit \in Nat /\ Limit <= UMax
    BY LimitInRange DEF IInv
  <2>2. value = result /\ result \in Nat /\ effective_base \in Nat \ {0}
    BY <1>1, SMT DEF IInv, Accumulator, Registers
  <2>3. result * effective_base \in Nat /\ result * effective_base <= Limit
    BY <1>1, <2>1, <2>2, QuotientAdmits DEF MultiplyFits
  <2>4. result * effective_base <= UMax
    BY <2>1, <2>3, RangeAssumption, SMT
  <2> QED
    BY <2>2, <2>3, <2>4, NoWrap DEF Product
<1> QED
  BY <1>1 DEF IInv, Accumulator, NothingWraps

(* For integers of every width, every type narrower than that, every base   *)
(* and every text: EDC_OK comes with the number the digits denote, OVERFLOW *)
(* and UNDERFLOW only with one outside the type (edc_numeric.c:297-307,     *)
(* 397-406, 431-504).                                                       *)
THEOREM Exact == Spec => []ReportsExactly
<1>1. IInv => ReportsExactly
  BY IInvNothingWraps DEF IInv, Verdict, ReportsExactly
<1> QED
  BY <1>1, InitIInv, NextIInv, PTL DEF Spec

(* No step of the arithmetic wraps around: the accumulator is at every step *)
(* the number that the digits read so far denote in unbounded arithmetic,   *)
(* and the product is the product (edc_numeric.c:297-307, 397-406).         *)
THEOREM NeverWraps == Spec => []NothingWraps
  BY IInvNothingWraps, InitIInv, NextIInv, PTL DEF Spec
-----------------------------------------------------------------------------
(* Scans for the first place where something holds: there is one.           *)
LEMMA LeastExists ==
    ASSUME NEW T, T \subseteq Nat, T # {}
    PROVE  \E x \in T : \A y \in T : x <= y
<1> DEFINE R == OpToRel(<, Nat)
<1>1. IsWellFoundedOn(R, Nat)
  BY NatLessThanWellFounded
<1>2. \A x, y \in Nat : y < x => <<y, x>> \in R
  BY DEF OpToRel
<1> HIDE DEF R
<1>3. PICK x \in T : \A y \in T : ~(<<y, x>> \in R)
  BY <1>1, WFMin
<1>4. ASSUME NEW y \in T PROVE x <= y
  <2>1. x \in Nat /\ y \in Nat
    OBVIOUS
  <2>2. ~(y < x)
    BY <1>2, <1>3, <2>1
  <2> QED
    BY <2>1, <2>2
<1> QED
  BY <1>4

(* The digits of a number, by induction on it: the recursive function that  *)
(* Digits is the value of exists ...                                        *)
DigitsUpTo(f, base_, m) ==
    f = [n \in 0 .. m |->
            IF n < base_ THEN <<n>> ELSE Append(f[n \div base_], n % base_)]

LEMMA DivisionExact ==
    ASSUME NEW n \in Int, NEW b \in Int, b > 0
    PROVE  n = b * (n \div b) + (n % b)
  OBVIOUS

LEMMA QuotientSmaller ==
    ASSUME NEW n \in Nat, NEW b \in Nat, b >= 2, n >= b
    PROVE  /\ n \div b \in Nat /\ n \div b < n
           /\ n % b \in 0 .. b - 1 /\ n = (n \div b) * b + (n % b)
<1> DEFINE q == n \div b
<1>1. q \in Nat /\ n % b \in 0 .. b - 1 /\ n = b * q + (n % b)
  <2>1. q \in Nat
    BY SMT
  <2>2. n % b \in 0 .. b - 1
    BY SMT
  <2>3. n = b * q + (n % b)
    BY DivisionExact
  <2> QED
    BY <2>1, <2>2, <2>3
<1>2. b * q = q * b
  BY <1>1, SMT
<1>3. q * 2 <= q * b
  BY <1>1, <1>2, ProductGrows, SMT
<1> HIDE DEF q
<1>4. n % b \in Nat
  BY SMT
<1>5. b * q <= n
  BY <1>1, <1>2, <1>4, SMT
<1>6. q * 2 <= n
  BY <1>1, <1>2, <1>3, <1>5, SMT
<1>7. q < n
  BY <1>1, <1>6, SMT
<1> QED
  BY <1>1, <1>2, <1>7 DEF q

LEMMA DigitsDefined ==
    ASSUME NEW b \in Nat, b >= 2, NEW m \in Nat
    PROVE  \E f : DigitsUpTo(f, b, m)
<1> DEFINE T == {k \in Nat : ~\E f : DigitsUpTo(f, b, k)}
<1>1. SUFFICES ASSUME T # {} PROVE FALSE
  OBVIOUS
<1>2. PICK k \in T : \A j \in T : k <= j
  BY <1>1, LeastExists
<1>3. CASE k = 0
  <2> DEFINE f == [n \in 0 .. 0 |-> <<n>>]
  <2>1. DigitsUpTo(f, b, 0)
    BY DEF DigitsUpTo
  <2> QED
    BY <1>3, <2>1
<1>4. CASE k # 0
  <2>1. k \in Nat /\ k - 1 \in Nat /\ k - 1 \notin T
    BY <1>2, <1>4
  <2>2. PICK g : DigitsUpTo(g, b, k - 1)
    BY <2>1
  <2> DEFINE Last == IF k < b THEN <<k>> ELSE Append(g[k \div b], k % b)
             f == [n \in 0 .. k |-> IF n = k THEN Last ELSE g[n]]
  <2>3. \A n \in 0 .. k - 1 :
            g[n] = (IF n < b THEN <<n>> ELSE Append(g[n \div b], n % b))
    BY <2>2 DEF DigitsUpTo
  <2>4. ASSUME NEW n \in 0 .. k
        PROVE  f[n] = (IF n < b THEN <<n>> ELSE Append(f[n \div b], n % b))
    <3>1. ASSUME n >= b PROVE n \div b \in 0 .. k /\ n \div b # k /\ n \div b < n
      <4>1. n \in Nat
        OBVIOUS
      <4>2. n \div b \in Nat /\ n \div b < n
        BY <3>1, <4>1, QuotientSmaller
      <4> QED
        BY <2>1, <4>1, <4>2
    <3>2. CASE n = k
      BY <2>1, <3>1, <3>2
    <3>3. CASE n # k
      BY <2>1, <2>3, <3>1, <3>3
    <3> QED
      BY <3>2, <3>3
  <2>5. DigitsUpTo(f, b, k)
    BY <2>4 DEF DigitsUpTo
  <2> QED
    BY <1>2, <2>5
<1> QED
  BY <1>3, <1>4

(* ... and it is right: reading the digits d from the first on gives larger *)
(* and larger numbers, of which the last is the number itself.              *)
Denotes(d, b, n) ==
    \E val \in [0 .. Len(d) -> 0 .. n] :
        /\ val[0] = 0 /\ val[Len(d)] = n
        /\ \A k \in 1 .. Len(d) : val[k] = val[k - 1] * b + d[k]

LEMMA OneDigit ==
    ASSUME NEW b \in Nat, NEW n \in 0 .. b - 1
    PROVE  Denotes(<<n>>, b, n)
<1> DEFINE val == [k \in 0 .. 1 |-> IF k = 0 THEN 0 ELSE n]
<1>1. val \in [0 .. Len(<<n>>) -> 0 .. n] /\ val[0] = 0 /\ val[Len(<<n>>)] = n
  OBVIOUS
<1>2. \A k \in 1 .. Len(<<n>>) : val[k] = val[k - 1] * b + <<n>>[k]
  OBVIOUS
<1> QED
  BY <1>1, <1>2 DEF Denotes

LEMMA OneDigitMore ==
    ASSUME NEW b \in Nat, NEW d \in Seq(Nat), NEW q \in Nat, NEW c \in Nat, NEW n \in Nat,
           Denotes(d, b, q), n = q * b + c, q <= n
    PROVE  Denotes(Append(d, c), b, n)
<1>1. PICK old \in [0 .. Len(d) -> 0 .. q] :
          /\ old[0] = 0 /\ old[Len(d)] = q
          /\ \A k \in 1 .. Len(d) : old[k] = old[k - 1] * b + d[k]
  BY DEF Denotes
<1> DEFINE L == Len(d)
           e == Append(d, c)
           val == [k \in 0 .. L + 1 |-> IF k = L + 1 THEN n ELSE old[k]]
<1>2. L \in Nat /\ Len(e) = L + 1 /\ e[L + 1] = c /\ \A k \in 1 .. L : e[k] = d[k]
  OBVIOUS
<1> HIDE DEF e
<1>3. val \in [0 .. Len(e) -> 0 .. n]
  BY <1>2
<1>4. val[0] = 0 /\ val[Len(e)] = n
  BY <1>1, <1>2
<1>5. ASSUME NEW k \in 1 .. Len(e) PROVE val[k] = val[k - 1] * b + e[k]
  <2>1. CASE k = L + 1
    <3>1. val[k] = n /\ val[k - 1] = q /\ e[k] = c
      BY <1>1, <1>2, <2>1
    <3> QED
      BY <3>1
  <2>2. CASE k # L + 1
    <3>1. k \in 1 .. L /\ k - 1 \in 0 .. L /\ k \in 0 .. L + 1 /\ k - 1 \in 0 .. L + 1
          /\ k - 1 # L + 1
      BY <1>2, <2>2
    <3>2. val[k] = old[k] /\ val[k - 1] = old[k - 1] /\ e[k] = d[k]
      BY <1>2, <2>2, <3>1
    <3> QED
      BY <1>1, <3>1, <3>2
  <2> QED
    BY <2>1, <2>2
<1> HIDE DEF val
<1> QED
  BY <1>3, <1>4, <1>5 DEF Denotes, e

LEMMA DigitsDenote ==
    ASSUME NEW b \in Nat, b >= 2, NEW v \in Nat
    PROVE  /\ Digits(v, b) \in Seq(0 .. b - 1) /\ Len(Digits(v, b)) > 0
           /\ Denotes(Digits(v, b), b, v)
<1> DEFINE f == CHOOSE g : DigitsUpTo(g, b, v)
           Good(n) == f[n] \in Seq(0 .. b - 1) /\ Len(f[n]) > 0 /\ Denotes(f[n], b, n)
<1>1. DigitsUpTo(f, b, v)
  BY DigitsDefined
<1>2. Digits(v, b) = f[v]
  BY DEF Digits, DigitsUpTo
<1>3. \A n \in 0 .. v : f[n] = (IF n < b THEN <<n>> ELSE Append(f[n \div b], n % b))
  BY <1>1 DEF DigitsUpTo
<1> HIDE DEF f
<1> DEFINE T == {n \in 0 .. v : ~Good(n)}
<1>4. SUFFICES ASSUME T # {} PROVE FALSE
  BY <1>2
<1>5. T \subseteq Nat
  OBVIOUS
<1>6. PICK n \in T : \A k \in T : n <= k
  BY <1>4, <1>5, LeastExists
<1>7. n \in 0 .. v /\ n \in Nat /\ ~Good(n)
  BY <1>6
<1>8. CASE n < b
  <2>1. n \in 0 .. b - 1
    BY <1>7, <1>8
  <2>2. f[n] = <<n>>
    BY <1>3, <1>7, <1>8
  <2>3. <<n>> \in Seq(0 .. b - 1) /\ Len(<<n>>) > 0
    BY <2>1
  <2> QED
    BY <1>7, <2>1, <2>2, <2>3, OneDigit
<1>9. CASE ~(n < b)
  <2> DEFINE q == n \div b
             c == n % b
  <2>1. q \in Nat /\ q < n /\ c \in 0 .. b - 1 /\ n = q * b + c
    <3>1. n \in Nat /\ n >= b
      BY <1>7, <1>9
    <3> QED
      BY <3>1, QuotientSmaller
  <2>2. f[n] = Append(f[q], c)
    BY <1>3, <1>7, <1>9
  <2> HIDE DEF q, c
  <2>3. q \in 0 .. v /\ ~(n <= q)
    BY <1>7, <2>1
  <2>4. Good(q)
    BY <1>6, <2>3
  <2>5. f[q] \in Seq(0 .. b - 1) /\ f[q] \in Seq(Nat)
    BY <2>4
  <2>6. f[n] \in Seq(0 .. b - 1) /\ Len(f[n]) > 0
    BY <2>1, <2>2, <2>5
  <2>7. Denotes(f[n], b, n)
    BY <1>7, <2>1, <2>2, <2>4, <2>5, OneDigitMore
  <2> QED
    BY <1>7, <2>6, <2>7
<1> QED
  BY <1>8, <1>9

(* Zeros in front and a minus sign change nothing of that.  Reads says of a *)
(* text t what its digits denote, after its sign.                           *)
First(v) == IF v < 0 THEN 1 ELSE 0

Reads(t, b, v, val) ==
    /\ Len(t) > First(v) /\ (v < 0 => t[1] = Minus)
    /\ val \in [0 .. Len(t) -> 0 .. Magnitude(v)]
    /\ val[First(v)] = 0 /\ val[Len(t)] = Magnitude(v)
    /\ \A k \in First(v) + 1 .. Len(t) : t[k] \in 0 .. b - 1 /\ val[k] = val[k - 1] * b + t[k]

LEMMA PaddedDenotes ==
    ASSUME NEW b \in Nat, b >= 2, NEW n \in Nat, NEW d \in Seq(0 .. b - 1), Len(d) > 0,
           Denotes(d, b, n), NEW pad \in Nat
    PROVE  /\ Padded(d, pad) \in Seq(0 .. b - 1) /\ Len(Padded(d, pad)) > 0
           /\ Denotes(Padded(d, pad), b, n)
<1> DEFINE wanted == IF pad < TempSize THEN pad ELSE TempSize - 1
           zeros  == IF Len(d) < wanted THEN wanted - Len(d) ELSE 0
           front  == [i \in 1 .. zeros |-> 0]
           e      == front \o d
           L      == Len(d)
<1>1. zeros \in Nat /\ L \in Nat /\ L > 0 /\ b \in Nat
  BY TempAssumption
<1>2. Padded(d, pad) = e
  BY DEF Padded
<1> HIDE DEF zeros, L
<1>3. front \in Seq(0 .. b - 1) /\ Len(front) = zeros
  BY <1>1
<1> HIDE DEF front
<1>4. /\ e \in Seq(0 .. b - 1) /\ Len(e) = zeros + L
      /\ \A k \in 1 .. zeros : e[k] = front[k]
      /\ \A k \in zeros + 1 .. zeros + L : e[k] = d[k - zeros]
  BY <1>1, <1>3 DEF L
<1>5. \A k \in 1 .. zeros : e[k] = 0
  BY <1>1, <1>4 DEF front
<1> HIDE DEF e
<1>6. PICK old \in [0 .. L -> 0 .. n] :
          /\ old[0] = 0 /\ old[L] = n
          /\ \A k \in 1 .. L : old[k] = old[k - 1] * b + d[k]
  BY DEF Denotes, L
<1> DEFINE val == [k \in 0 .. zeros + L |-> IF k <= zeros THEN 0 ELSE old[k - zeros]]
<1>7. val \in [0 .. Len(e) -> 0 .. n]
  <2>1. \A k \in 0 .. zeros + L : ~(k <= zeros) => k - zeros \in 0 .. L
    BY <1>1
  <2> QED
    BY <1>4, <2>1
<1>8. val[0] = 0 /\ val[Len(e)] = n
  <2>1. 0 \in 0 .. zeros + L /\ zeros + L \in 0 .. zeros + L /\ ~(zeros + L <= zeros)
        /\ (zeros + L) - zeros = L /\ 0 <= zeros
    BY <1>1
  <2> QED
    BY <1>4, <1>6, <2>1
<1>9. ASSUME NEW k \in 1 .. Len(e) PROVE val[k] = val[k - 1] * b + e[k]
  <2>0. k \in 0 .. zeros + L /\ k - 1 \in 0 .. zeros + L
    BY <1>1, <1>4
  <2>1. CASE k <= zeros
    <3>1. val[k] = 0 /\ val[k - 1] = 0 /\ e[k] = 0
      BY <1>1, <1>5, <2>0, <2>1
    <3> HIDE DEF val
    <3> QED
      BY <3>1
  <2>2. CASE k > zeros
    <3>1. k - zeros \in 1 .. L /\ (k - zeros) - 1 \in 0 .. L
          /\ (k - 1) - zeros = (k - zeros) - 1 /\ k \in zeros + 1 .. zeros + L
      BY <1>1, <1>4, <2>2
    <3>2. val[k] = old[k - zeros] /\ e[k] = d[k - zeros]
      BY <1>1, <1>4, <2>0, <2>2, <3>1
    <3>3. val[k - 1] = old[(k - zeros) - 1]
      <4>1. CASE k - 1 <= zeros
        <5>1. (k - zeros) - 1 = 0
          BY <1>1, <2>2, <4>1
        <5> QED
          BY <1>6, <2>0, <4>1, <5>1
      <4>2. CASE ~(k - 1 <= zeros)
        BY <2>0, <3>1, <4>2
      <4> QED
        BY <4>1, <4>2
    <3> HIDE DEF val
    <3> QED
      BY <1>6, <3>1, <3>2, <3>3
  <2> QED
    BY <1>1, <2>1, <2>2
<1> HIDE DEF val
<1>10. Denotes(e, b, n)
  BY <1>7, <1>8, <1>9 DEF Denotes
<1> QED
  BY <1>1, <1>2, <1>4, <1>10

LEMMA NumeralReads ==
    ASSUME NEW b \in Nat, b >= 2, NEW v \in Int, NEW pad \in Nat
    PROVE  /\ Numeral(v, b, pad) \in Seq(Int)
           /\ \E val : Reads(Numeral(v, b, pad), b, v, val)
<1> DEFINE n == Magnitude(v)
           p == Padded(Digits(n, b), pad)
<1>1. n \in Nat
  BY DEF Magnitude
<1> HIDE DEF n
<1>2. p \in Seq(0 .. b - 1) /\ Len(p) > 0 /\ Denotes(p, b, n)
  BY <1>1, DigitsDenote, PaddedDenotes
<1>3. Numeral(v, b, pad) = (IF v < 0 THEN <<Minus>> ELSE << >>) \o p
  BY DEF Numeral, n
<1> HIDE DEF p
<1>4. PICK old \in [0 .. Len(p) -> 0 .. n] :
          /\ old[0] = 0 /\ old[Len(p)] = n
          /\ \A k \in 1 .. Len(p) : old[k] = old[k - 1] * b + p[k]
  BY <1>2 DEF Denotes
<1>5. p \in Seq(Int) /\ Len(p) \in Nat /\ \A k \in 1 .. Len(p) : p[k] \in 0 .. b - 1
  BY <1>2
<1>6. CASE v < 0
  <2> DEFINE t == <<Minus>> \o p
             val == [k \in 0 .. Len(p) + 1 |-> IF k = 0 THEN 0 ELSE old[k - 1]]
  <2>1. Minus \in Int
    BY DEF Minus
  <2>2. /\ t \in Seq(Int) /\ Len(t) = Len(p) + 1 /\ t[1] = Minus
        /\ \A k \in 2 .. Len(p) + 1 : t[k] = p[k - 1]
    BY <1>5, <2>1
  <2>3. Numeral(v, b, pad) = t /\ First(v) = 1
    BY <1>3, <1>6 DEF First
  <2> HIDE DEF t
  <2>4. val \in [0 .. Len(t) -> 0 .. n] /\ val[1] = 0 /\ val[Len(t)] = n
    <3>1. \A k \in 0 .. Len(p) + 1 : k # 0 => k - 1 \in 0 .. Len(p)
      BY <1>5
    <3>2. val \in [0 .. Len(t) -> 0 .. n]
      BY <1>1, <2>2, <3>1
    <3>3. 1 \in 0 .. Len(p) + 1 /\ Len(p) + 1 \in 0 .. Len(p) + 1 /\ Len(p) + 1 # 0
          /\ (Len(p) + 1) - 1 = Len(p)
      BY <1>5
    <3> QED
      BY <1>4, <2>2, <3>2, <3>3
  <2>5. ASSUME NEW k \in 2 .. Len(t)
        PROVE  t[k] \in 0 .. b - 1 /\ val[k] = val[k - 1] * b + t[k]
    <3>1. k - 1 \in 1 .. Len(p) /\ k \in 0 .. Len(p) + 1 /\ k - 1 \in 0 .. Len(p) + 1
          /\ k # 0 /\ k - 1 # 0
      BY <1>5, <2>2
    <3>2. val[k] = old[k - 1] /\ val[k - 1] = old[(k - 1) - 1] /\ t[k] = p[k - 1]
      BY <2>2, <3>1
    <3> HIDE DEF val
    <3> QED
      BY <1>4, <1>5, <3>1, <3>2
  <2> HIDE DEF val
  <2>6. Reads(t, b, v, val)
    BY <1>2, <1>5, <2>2, <2>3, <2>4, <2>5 DEF Reads, n
  <2> QED
    BY <2>2, <2>3, <2>6
<1>7. CASE ~(v < 0)
  <2>1. Numeral(v, b, pad) = p /\ First(v) = 0
    BY <1>3, <1>5, <1>7 DEF First
  <2>2. Reads(p, b, v, old)
    BY <1>2, <1>4, <1>5, <1>7, <2>1 DEF Reads, n
  <2> QED
    BY <1>5, <2>1, <2>2
<1> QED
  BY <1>6, <1>7

-----------------------------------------------------------------------------
(* Nothing behind the text is read: a scan stops at the NUL, if not before. *)
TextOK ==
    /\ str \in Seq(Int) /\ Len(str) > 0 /\ str[Len(str)] = NUL
    /\ max_len \in Nat \ {0}
    /\ base \in Nat

Place == idx \in Nat /\ idx <= max_len /\ idx < Len(str)

Output ==
    /\ effective_base \in {0} \cup 2 .. 36
    /\ status \in {"PARSING", "OK", "OVERFLOW", "UNDERFLOW", "INVALID_FORMAT", "UNSUPPORTED"}
    /\ out_val \subseteq MinOf .. MaxOf

TInv == IInv /\ TextOK /\ Place /\ Output

LEMMA SkippedPlace ==
    ASSUME TextOK
    PROVE  /\ Skipped \in 0 .. max_len
           /\ Skipped = max_len \/ At(Skipped) # Space
           /\ \A q \in 0 .. Skipped - 1 : At(q) = Space
           /\ Skipped < Len(str)
<1> DEFINE T == {p \in 0 .. max_len : p = max_len \/ At(p) # Space}
<1>1. max_len \in Nat /\ max_len \in T /\ T \subseteq Nat /\ Len(str) \in Nat /\ Len(str) > 0
  BY DEF TextOK
<1>2. PICK p \in T : \A q \in T : p <= q
  BY <1>1, LeastExists
<1>3. p \in 0 .. max_len /\ (p = max_len \/ At(p) # Space)
  BY <1>2
<1>4. ASSUME NEW q \in 0 .. p - 1 PROVE At(q) = Space
  <2>1. q \in 0 .. max_len /\ q < p
    BY <1>1, <1>3
  <2>2. q \notin T
    BY <1>2, <1>3, <2>1
  <2> QED
    BY <2>1, <2>2
<1>5. /\ Skipped \in 0 .. max_len
      /\ Skipped = max_len \/ At(Skipped) # Space
      /\ \A q \in 0 .. Skipped - 1 : At(q) = Space
  BY <1>3, <1>4 DEF Skipped
<1>6. Skipped < Len(str)
  <2> SUFFICES ASSUME Skipped >= Len(str) PROVE FALSE
    BY <1>1, <1>5
  <2>1. Len(str) - 1 \in 0 .. Skipped - 1
    BY <1>1, <1>5
  <2>2. At(Len(str) - 1) = Space
    BY <1>5, <2>1
  <2>3. (Len(str) - 1) + 1 = Len(str)
    BY <1>1
  <2>4. str[Len(str)] = Space
    BY <2>2, <2>3 DEF At
  <2> QED
    BY <2>4 DEF TextOK, NUL, Space
<1> QED
  BY <1>5, <1>6

(* Behind a character that is no NUL there is another one.                  *)
LEMMA BehindCharacter ==
    ASSUME TextOK, NEW p \in Nat, p < Len(str), At(p) # NUL
    PROVE  p + 1 < Len(str)
<1>1. Len(str) \in Nat
  BY DEF TextOK
<1> SUFFICES ASSUME p + 1 = Len(str) PROVE FALSE
  BY <1>1
<1> QED
  BY DEF TextOK, At

LEMMA BeginPlace ==
    ASSUME TextOK, ~Blank
    PROVE  /\ AfterSign \in Nat /\ AfterSign <= max_len /\ AfterSign < Len(str)
           /\ AfterPrefix(AfterSign) \in Nat /\ AfterPrefix(AfterSign) <= max_len
           /\ AfterPrefix(AfterSign) < Len(str)
<1> DEFINE a == AfterSign
<1>1. max_len \in Nat /\ Len(str) \in Nat
  BY DEF TextOK
<1>2. Skipped \in Nat /\ Skipped < max_len /\ Skipped < Len(str) /\ At(Skipped) # NUL
  BY <1>1, SkippedPlace DEF Blank
<1>3. a \in Nat /\ a <= max_len /\ a < Len(str)
  BY <1>1, <1>2, BehindCharacter DEF AfterSign
<1> HIDE DEF a
<1>4. CASE AfterPrefix(a) = a
  BY <1>3, <1>4 DEF a
<1>5. CASE AfterPrefix(a) # a
  <2>1. AfterPrefix(a) = a + 2 /\ (Prefix(a, LetterX) \/ Prefix(a, LetterB))
    BY <1>5 DEF AfterPrefix
  <2>2. a + 1 < max_len /\ At(a) = 0 /\ At(a + 1) \in {LetterX, LetterB}
    BY <2>1 DEF Prefix
  <2>3. At(a) # NUL /\ At(a + 1) # NUL
    BY <2>2 DEF NUL, LetterX, LetterB
  <2>4. a + 1 \in Nat /\ a + 1 < Len(str)
    BY <1>3, <2>3, BehindCharacter
  <2>5. (a + 1) + 1 < Len(str)
    BY <2>3, <2>4, BehindCharacter
  <2>6. a + 2 \in Nat /\ a + 2 <= max_len /\ a + 2 < Len(str)
    BY <1>1, <1>3, <2>2, <2>5
  <2> QED
    BY <1>3, <2>1, <2>6 DEF a
<1> QED
  BY <1>4, <1>5

LEMMA InitTInv == Init => TInv
<1> SUFFICES ASSUME Init PROVE TInv
  OBVIOUS
<1>1. base \in Nat /\ idx = 0 /\ effective_base = 0 /\ status = "PARSING" /\ out_val = {}
  BY BaseAssumption DEF Init
<1>2. PICK t \in Seq(Int) : str = Append(t, NUL)
  <2>1. CASE Typed
    BY <2>1, TextAssumption DEF Typed
  <2>2. CASE Written
    <3>1. PICK v \in MinOf .. MaxOf, pad \in Pads, size \in BufSizes :
              str \in Formatted(v, base, pad, size)
      BY <2>2 DEF Written
    <3>2. str = Append(Numeral(v, base, pad), NUL)
      BY <3>1 DEF Formatted
    <3>3. v \in Int /\ pad \in Nat /\ base >= 2
      BY <2>2, TextAssumption DEF Written
    <3> QED
      BY <1>1, <3>2, <3>3, NumeralReads
  <2> QED
    BY <2>1, <2>2 DEF Init
<1>3. NUL \in Int
  BY DEF NUL
<1>4. str \in Seq(Int) /\ Len(str) = Len(t) + 1 /\ Len(t) \in Nat /\ str[Len(str)] = NUL
  BY <1>2, <1>3
<1>5. max_len \in Nat \ {0}
  BY <1>4, TextAssumption DEF Init
<1>6. TextOK /\ Place /\ Output
  BY <1>1, <1>4, <1>5 DEF TextOK, Place, Output
<1> QED
  BY <1>6, InitIInv DEF TInv

LEMMA NextTInv == TInv /\ [Next]_vars => TInv'
<1> SUFFICES ASSUME TInv, [Next]_vars PROVE TInv'
  OBVIOUS
<1>0. IInv' /\ IInv /\ TextOK /\ Place /\ Output
  BY NextIInv DEF TInv
<1>1. UNCHANGED input
  BY DEF Next, NoText, BadBase, Begin, TakeDigit, TooManyDigits, NoDigits, Finish, Done,
         Return, vars
<1>2. TextOK' /\ MinOf' = MinOf /\ MaxOf' = MaxOf
  BY <1>0, <1>1 DEF TextOK, MinOf, MaxOf, input
<1>3. CASE NoText \/ BadBase \/ TooManyDigits \/ NoDigits
  <2>1. UNCHANGED <<scan, out_val>> /\ status' \in {"OVERFLOW", "UNDERFLOW", "INVALID_FORMAT", "UNSUPPORTED"}
    BY <1>3 DEF NoText, BadBase, TooManyDigits, NoDigits, Return
  <2>2. Place' /\ Output'
    BY <1>0, <1>1, <1>2, <2>1 DEF Place, Output, scan, input
  <2> QED
    BY <1>0, <1>2, <2>2 DEF TInv
<1>4. CASE Begin
  <2>1. Place'
    BY <1>0, <1>1, <1>4, BeginPlace DEF Begin, Place, input
  <2>2. Output'
    BY <1>0, <1>2, <1>4 DEF Begin, Output
  <2> QED
    BY <1>0, <1>2, <2>1, <2>2 DEF TInv
<1>5. CASE TakeDigit
  <2>1. idx' = idx + 1 /\ idx < max_len /\ At(idx) # NUL
        /\ UNCHANGED <<effective_base, status, out_val>>
    BY <1>0, <1>5 DEF TakeDigit, AtDigit, IsDigit, NUL, Output
  <2>2. idx + 1 < Len(str) /\ max_len \in Nat /\ idx \in Nat
    BY <1>0, <2>1, BehindCharacter DEF Place, TextOK
  <2>3. Place'
    BY <1>1, <2>1, <2>2 DEF Place, input
  <2>4. Output'
    BY <1>0, <1>2, <2>1 DEF Output
  <2> QED
    BY <1>0, <1>2, <2>3, <2>4 DEF TInv
<1>6. CASE Finish
  <2>1. Place'
    BY <1>0, <1>1, <1>6 DEF Finish, Place, input, scan
  <2>2. Signed \in Int /\ MinOf \in Int /\ MaxOf \in Int
    BY <1>0 DEF IInv, Registers, Accumulator, Signed, MinOf, MaxOf
  <2>3. effective_base' = effective_base
    BY <1>6 DEF Finish, scan
  <2>4. /\ status' \in {"OVERFLOW", "UNDERFLOW", "OK"}
        /\ out_val' = out_val \/ (out_val' = {Signed} /\ Signed \in MinOf .. MaxOf)
    BY <1>6, <2>2 DEF Finish
  <2>5. Output'
    BY <1>0, <1>2, <2>3, <2>4 DEF Output
  <2> QED
    BY <1>0, <1>2, <2>1, <2>5 DEF TInv
<1>7. CASE Done \/ UNCHANGED vars
  <2>1. Place' /\ Output'
    BY <1>0, <1>2, <1>7 DEF Done, Place, Output, vars, input, scan
  <2> QED
    BY <1>0, <1>2, <2>1 DEF TInv
<1> QED
  BY <1>3, <1>4, <1>5, <1>6, <1>7 DEF Next

(* Types, and bounds: whatever the text, the base and the length passed,    *)
(* the scan reads no character behind the NUL and none beyond the length,   *)
(* the accumulator stays within the limit of the type, and what is handed   *)
(* out is a number of the type parsed to (edc_numeric.c:225-429).           *)
THEOREM TypeCorrect == Spec => []TypeOK
<1>1. TInv => TypeOK
  <2> SUFFICES ASSUME TInv PROVE TypeOK
    OBVIOUS
  <2>1. Limit \in Nat /\ result \in Nat /\ result <= Limit /\ value \in Nat
        /\ (is_negative => signed)
    BY LimitInRange DEF TInv, IInv, Registers, Accumulator
  <2>2. idx \in 0 .. max_len /\ idx < Len(str)
    BY DEF TInv, Place, TextOK
  <2> QED
    BY <2>1, <2>2 DEF TInv, Output, TypeOK
<1> QED
  BY <1>1, InitTInv, NextTInv, PTL DEF Spec

-----------------------------------------------------------------------------
(* Reading back.  The text without its NUL, and what its digits denote; how *)
(* far the call has got with it.                                            *)
Bare == SubSeq(str, 1, Len(str) - 1)

Sense(v, val) ==
    /\ base \in 2 .. 36 /\ v \in MinOf .. MaxOf
    /\ Reads(Bare, base, v, val)

Progress(v, val) ==
    /\ ~Started => ~digits_found /\ status = "PARSING"
    /\ Started =>
          /\ effective_base = base /\ (is_negative <=> v < 0)
          /\ idx \in First(v) .. Len(Bare) /\ value = val[idx]
          /\ (digits_found <=> idx > First(v))
    /\ status # "PARSING" => status = "OK" /\ out_val = {v} /\ idx = Len(Bare)

RInv ==
    /\ TInv
    /\ \A v \in written :
          Len(str) - 1 <= max_len => \E val : Sense(v, val) /\ Progress(v, val)

LEMMA BareText ==
    ASSUME TextOK
    PROVE  /\ Bare \in Seq(Int) /\ Len(Bare) = Len(str) - 1 /\ Len(Bare) \in Nat
           /\ \A p \in 0 .. Len(Bare) - 1 : At(p) = Bare[p + 1]
           /\ At(Len(Bare)) = NUL
<1>1. str \in Seq(Int) /\ Len(str) \in Nat /\ Len(str) > 0 /\ str[Len(str)] = NUL
  BY DEF TextOK
<1>2. /\ Bare \in Seq(Int) /\ Len(Bare) = Len(str) - 1
      /\ \A k \in 1 .. Len(str) - 1 : Bare[k] = str[k]
  <2> DEFINE n == Len(str) - 1
  <2>1. n \in Nat /\ n <= Len(str) /\ \A k \in 1 .. n : str[k] \in Int
    BY <1>1
  <2> HIDE DEF n
  <2>2. /\ SubSeq(str, 1, n) \in Seq(Int)
        /\ Len(SubSeq(str, 1, n)) = IF 1 <= n THEN n - 1 + 1 ELSE 0
        /\ \A k \in 1 .. n - 1 + 1 : SubSeq(str, 1, n)[k] = str[1 + k - 1]
    BY <2>1, SubSeqProperties
  <2>3. Len(SubSeq(str, 1, n)) = n
    BY <2>1, <2>2
  <2>4. ASSUME NEW k \in 1 .. n PROVE SubSeq(str, 1, n)[k] = str[k]
    <3>1. k \in 1 .. n - 1 + 1 /\ 1 + k - 1 = k
      BY <2>1
    <3> QED
      BY <2>2, <3>1
  <2> QED
    BY <2>2, <2>3, <2>4 DEF Bare, n
<1>3. (Len(str) - 1) + 1 = Len(str)
  BY <1>1
<1> QED
  BY <1>1, <1>2, <1>3 DEF At

LEMMA SenseFacts ==
    ASSUME TInv, NEW v, NEW val, Sense(v, val)
    PROVE  /\ base \in 2 .. 36 /\ base \in Nat /\ v \in Int
           /\ MinOf \in Int /\ MaxOf \in Int /\ v >= MinOf /\ v <= MaxOf
           /\ First(v) \in {0, 1} /\ First(v) < Len(Bare) /\ Magnitude(v) \in Nat
           /\ (v < 0 => signed /\ First(v) = 1 /\ At(0) = Minus /\ Magnitude(v) = -v)
           /\ (~(v < 0) => First(v) = 0 /\ Magnitude(v) = v)
           /\ \A p \in First(v) .. Len(Bare) - 1 :
                 /\ At(p) \in 0 .. base - 1
                 /\ val[p] \in 0 .. Magnitude(v) /\ val[p + 1] \in 0 .. Magnitude(v)
                 /\ val[p + 1] = val[p] * base + At(p)
           /\ val[First(v)] = 0 /\ val[Len(Bare)] = Magnitude(v)
<1>1. TextOK /\ Registers
  BY DEF TInv, IInv
<1>2. MinOf \in Int /\ MaxOf \in Int /\ (~signed => MinOf = 0)
  BY <1>1 DEF Registers, MinOf, MaxOf
<1>3. base \in 2 .. 36 /\ base \in Nat /\ v \in Int /\ v >= MinOf /\ v <= MaxOf
  BY <1>2 DEF Sense
<1>4. First(v) \in {0, 1} /\ (v < 0 => First(v) = 1) /\ (~(v < 0) => First(v) = 0)
  BY DEF First
<1>5. /\ Magnitude(v) \in Nat /\ (v < 0 => Magnitude(v) = -v)
      /\ (~(v < 0) => Magnitude(v) = v)
  BY <1>3 DEF Magnitude
<1>6. /\ Len(Bare) > First(v) /\ (v < 0 => Bare[1] = Minus)
      /\ val \in [0 .. Len(Bare) -> 0 .. Magnitude(v)]
      /\ val[First(v)] = 0 /\ val[Len(Bare)] = Magnitude(v)
      /\ \A k \in First(v) + 1 .. Len(Bare) :
            Bare[k] \in 0 .. base - 1 /\ val[k] = val[k - 1] * base + Bare[k]
  BY DEF Sense, Reads
<1>7. Len(Bare) \in Nat /\ \A p \in 0 .. Len(Bare) - 1 : At(p) = Bare[p + 1]
  BY <1>1, BareText
<1>8. v < 0 => signed /\ At(0) = Minus
  <2> SUFFICES ASSUME v < 0 PROVE signed /\ At(0) = Minus
    OBVIOUS
  <2>1. signed
    BY <1>1, <1>2, <1>3 DEF Registers
  <2>2. 0 \in 0 .. Len(Bare) - 1 /\ 0 + 1 = 1
    BY <1>4, <1>6, <1>7
  <2> QED
    BY <1>6, <1>7, <2>1, <2>2
<1>9. ASSUME NEW p \in First(v) .. Len(Bare) - 1
      PROVE  /\ At(p) \in 0 .. base - 1
             /\ val[p] \in 0 .. Magnitude(v) /\ val[p + 1] \in 0 .. Magnitude(v)
             /\ val[p + 1] = val[p] * base + At(p)
  <2>1. p \in 0 .. Len(Bare) - 1 /\ p \in 0 .. Len(Bare) /\ p + 1 \in 0 .. Len(Bare)
        /\ p + 1 \in First(v) + 1 .. Len(Bare) /\ (p + 1) - 1 = p
    BY <1>4, <1>7
  <2>2. Bare[p + 1] \in 0 .. base - 1 /\ val[p + 1] = val[p] * base + Bare[p + 1]
    BY <1>6, <2>1
  <2> QED
    BY <1>6, <1>7, <2>1, <2>2
<1> QED
  BY <1>2, <1>3, <1>4, <1>5, <1>6, <1>8, <1>9

(* The library's own text starts with no space, has no prefix, and its sign *)
(* is found where it is.                                                    *)
LEMMA OwnTextBegins ==
    ASSUME TInv, NEW v, NEW val, Sense(v, val), Len(str) - 1 <= max_len
    PROVE  /\ ~Blank /\ Skipped = 0 /\ AfterSign = First(v)
           /\ \A p \in Int : Detected(p) = base
           /\ AfterPrefix(AfterSign) = First(v)
           /\ (signed /\ At(Skipped) = Minus) <=> v < 0
<1> USE DEF NUL, Space, Plus, Minus, LetterX, LetterB
<1>1. TextOK /\ max_len \in Nat /\ max_len > 0
  BY DEF TInv, TextOK
<1>2. Len(Bare) = Len(str) - 1 /\ Len(Bare) \in Nat /\ At(Len(Bare)) = NUL
  BY <1>1, BareText
<1>3. /\ base \in 2 .. 36 /\ First(v) \in {0, 1} /\ First(v) < Len(Bare)
      /\ (v < 0 => signed /\ First(v) = 1 /\ At(0) = Minus)
      /\ (~(v < 0) => First(v) = 0)
      /\ \A p \in First(v) .. Len(Bare) - 1 : At(p) \in 0 .. base - 1
  BY SenseFacts
<1>4. ~(v < 0) => At(0) \in 0 .. base - 1
  BY <1>2, <1>3
<1>5. At(0) # Space /\ At(0) # NUL /\ At(0) # Plus /\ (At(0) = Minus <=> v < 0)
  BY <1>3, <1>4
<1>6. Skipped = 0
  <2>1. Skipped \in 0 .. max_len /\ \A q \in 0 .. Skipped - 1 : At(q) = Space
    BY <1>1, SkippedPlace
  <2> SUFFICES ASSUME Skipped # 0 PROVE FALSE
    OBVIOUS
  <2>2. 0 \in 0 .. Skipped - 1
    BY <1>1, <2>1
  <2> QED
    BY <1>5, <2>1, <2>2
<1>7. ~Blank
  BY <1>1, <1>5, <1>6 DEF Blank
<1>8. AfterSign = First(v)
  <2>1. CASE v < 0
    BY <1>3, <1>5, <1>6, <2>1 DEF AfterSign, Sign
  <2>2. CASE ~(v < 0)
    BY <1>3, <1>5, <1>6, <2>2 DEF AfterSign, Sign
  <2> QED
    BY <2>1, <2>2
<1>9. \A p : Detected(p) = base
  BY <1>3 DEF Detected
<1>10. AfterPrefix(First(v)) = First(v)
  <2> DEFINE f == First(v)
  <2>1. f \in Nat /\ f + 1 \in Nat /\ f + 1 <= Len(Bare)
    BY <1>2, <1>3
  <2>2. At(f + 1) = NUL \/ At(f + 1) \in 0 .. base - 1
    <3>1. CASE f + 1 = Len(Bare)
      BY <1>2, <3>1
    <3>2. CASE f + 1 # Len(Bare)
      <4>1. f + 1 \in f .. Len(Bare) - 1
        BY <1>2, <2>1, <3>2
      <4> QED
        BY <1>3, <4>1
    <3> QED
      BY <3>1, <3>2
  <2> HIDE DEF f
  <2>3. ~(Detected(f) = 16 /\ Prefix(f, LetterX)) /\ ~(Detected(f) = 2 /\ Prefix(f, LetterB))
    BY <1>3, <1>9, <2>2 DEF Prefix
  <2>4. AfterPrefix(f) = f
    BY <2>3 DEF AfterPrefix
  <2> QED
    BY <2>4 DEF f
<1> QED
  BY <1>3, <1>5, <1>6, <1>7, <1>8, <1>9, <1>10

(* One step of the call on such a text.                                     *)
LEMMA ReadingBegins ==
    ASSUME TInv, NEW v, NEW val, Sense(v, val), Progress(v, val), Len(str) - 1 <= max_len,
           status = "PARSING", ~Started, NoText \/ BadBase \/ Begin
    PROVE  Progress(v, val)'
<1>1. /\ ~Blank /\ Skipped = 0 /\ AfterSign = First(v) /\ Detected(AfterSign) = base
      /\ AfterPrefix(AfterSign) = First(v)
      /\ (signed /\ At(Skipped) = Minus) <=> v < 0
  <2>1. First(v) \in Int
    BY DEF First
  <2> QED
    BY <2>1, OwnTextBegins
<1>2. base \in 2 .. 36 /\ First(v) \in {0, 1} /\ First(v) < Len(Bare) /\ val[First(v)] = 0
  BY SenseFacts
<1>3. Begin
  BY <1>1, <1>2 DEF NoText, BadBase
<1>4. /\ idx' = First(v) /\ effective_base' = base /\ (is_negative' <=> v < 0)
      /\ value' = value /\ digits_found' = digits_found /\ status' = "PARSING"
      /\ base' = base /\ str' = str
  BY <1>1, <1>3 DEF Begin, input
<1>5. value = 0 /\ ~digits_found
  BY DEF TInv, IInv, Accumulator, Progress
<1>6. Len(Bare) \in Nat /\ Bare' = Bare
  BY <1>4, BareText DEF TInv, Bare
<1> QED
  BY <1>2, <1>4, <1>5, <1>6 DEF Progress, Started

LEMMA ReadingGoesOn ==
    ASSUME TInv, NEW v, NEW val, Sense(v, val), Progress(v, val), Len(str) - 1 <= max_len,
           status = "PARSING", Started, TakeDigit \/ TooManyDigits \/ NoDigits \/ Finish
    PROVE  Progress(v, val)'
<1> DEFINE L == Len(Bare)
           M == Magnitude(v)
<1>1. /\ TextOK /\ Registers /\ Accumulator /\ L \in Nat /\ L = Len(str) - 1 /\ At(L) = NUL
  BY BareText DEF TInv, IInv
<1>2. /\ base \in 2 .. 36 /\ base \in Nat /\ v \in Int
      /\ MinOf \in Int /\ MaxOf \in Int /\ v >= MinOf /\ v <= MaxOf
      /\ First(v) \in {0, 1} /\ First(v) < L /\ M \in Nat
      /\ (v < 0 => signed /\ M = -v) /\ (~(v < 0) => M = v)
      /\ val[L] = M
      /\ \A p \in First(v) .. L - 1 :
            /\ At(p) \in 0 .. base - 1
            /\ val[p] \in 0 .. M /\ val[p + 1] \in 0 .. M
            /\ val[p + 1] = val[p] * base + At(p)
  BY SenseFacts
<1>3. /\ effective_base = base /\ (is_negative <=> v < 0)
      /\ idx \in First(v) .. L /\ value = val[idx]
      /\ (digits_found <=> idx > First(v))
  BY DEF Progress
<1>4. M <= Limit /\ Limit \in Nat
  <2>1. /\ Limit \in Nat /\ (~is_negative => target <= Limit)
        /\ (is_negative => target + 1 <= Limit)
    BY <1>1, LimitInRange
  <2>2. CASE v < 0
    <3>1. is_negative /\ signed /\ target \in Nat /\ -(target + 1) <= v /\ M = -v
      BY <1>1, <1>2, <1>3, <2>2 DEF Registers, MinOf
    <3> QED
      BY <1>2, <2>1, <3>1
  <2>3. CASE ~(v < 0)
    BY <1>2, <1>3, <2>1, <2>3 DEF MaxOf
  <2> QED
    BY <2>1, <2>2, <2>3
<1> HIDE DEF L, M
<1>5. CASE idx < L
  <2>1. idx \in First(v) .. L - 1 /\ idx < max_len
    BY <1>1, <1>2, <1>3, <1>5 DEF TextOK
  <2>2. /\ At(idx) \in 0 .. base - 1 /\ val[idx + 1] \in 0 .. M
        /\ val[idx + 1] = value * base + At(idx)
    BY <1>2, <1>3, <2>1
  <2>3. AtDigit
    BY <1>3, <2>1, <2>2 DEF AtDigit, IsDigit
  <2>4. Extended(At(idx)) = val[idx + 1]
    BY <1>3, <2>2 DEF Extended
  <2>5. ~TooManyDigits
    <3> SUFFICES ASSUME TooManyDigits PROVE FALSE
      OBVIOUS
    <3>1. value' = val[idx + 1]
      BY <2>4 DEF TooManyDigits
    <3>2. value' > Limit
      BY RefusedIsBeyond DEF TInv
    <3> QED
      BY <1>2, <1>4, <2>2, <3>1, <3>2
  <2>6. /\ TakeDigit /\ idx' = idx + 1 /\ value' = val[idx + 1] /\ digits_found'
        /\ status' = "PARSING" /\ effective_base' = effective_base
        /\ is_negative' = is_negative /\ base' = base /\ str' = str
    BY <2>3, <2>4, <2>5 DEF TakeDigit, NoDigits, Finish, input
  <2>7. Bare' = Bare
    BY <2>6 DEF Bare
  <2>8. idx + 1 \in First(v) .. L /\ idx + 1 > First(v)
    BY <1>1, <1>2, <2>1
  <2>9. Started'
    BY <2>6 DEF Started
  <2> QED
    BY <1>3, <2>6, <2>7, <2>8, <2>9 DEF Progress, L
<1>6. CASE ~(idx < L)
  <2>1. idx = L /\ value = M /\ digits_found
    BY <1>1, <1>2, <1>3, <1>6
  <2>2. ~AtDigit
    BY <1>1, <1>2, <1>3, <2>1 DEF AtDigit, IsDigit, NUL
  <2>3. Finish
    BY <2>1, <2>2 DEF TakeDigit, TooManyDigits, NoDigits
  <2>4. Signed = v
    <3>1. value = result
      BY <1>1 DEF Accumulator
    <3> QED
      BY <1>2, <1>3, <2>1, <3>1 DEF Signed
  <2>5. status' = "OK" /\ out_val' = {v} /\ UNCHANGED <<input, scan, value>>
    BY <1>2, <2>3, <2>4 DEF Finish
  <2>6. Bare' = Bare
    BY <2>5 DEF Bare, input
  <2>7. Started'
    BY <2>5 DEF Started, scan
  <2> QED
    BY <1>3, <2>1, <2>5, <2>6, <2>7 DEF Progress, scan, input, L
<1> QED
  BY <1>5, <1>6

LEMMA NextRInv == RInv /\ [Next]_vars => RInv'
<1> SUFFICES ASSUME RInv, [Next]_vars PROVE RInv'
  OBVIOUS
<1>1. TInv /\ TInv'
  BY NextTInv DEF RInv
<1>2. UNCHANGED input
  BY DEF Next, NoText, BadBase, Begin, TakeDigit, TooManyDigits, NoDigits, Finish, Done,
         Return, vars
<1> SUFFICES ASSUME NEW v \in written, Len(str) - 1 <= max_len
             PROVE  \E val : Sense(v, val)' /\ Progress(v, val)'
  BY <1>1, <1>2 DEF RInv, input
<1>3. PICK val : Sense(v, val) /\ Progress(v, val)
  BY DEF RInv
<1>4. Sense(v, val)'
  BY <1>2, <1>3 DEF Sense, Bare, MinOf, MaxOf, input
<1>5. Progress(v, val)'
  <2>1. CASE NoText \/ BadBase \/ Begin
    <3>1. status = "PARSING" /\ ~Started
      BY <2>1 DEF NoText, BadBase, Begin
    <3> QED
      BY <1>1, <1>3, <2>1, <3>1, ReadingBegins
  <2>2. CASE TakeDigit \/ TooManyDigits \/ NoDigits \/ Finish
    <3>1. status = "PARSING" /\ Started
      BY <2>2 DEF TakeDigit, TooManyDigits, NoDigits, Finish
    <3> QED
      BY <1>1, <1>3, <2>2, <3>1, ReadingGoesOn
  <2>3. CASE Done \/ UNCHANGED vars
    BY <1>2, <1>3, <2>3 DEF Done, vars, Progress, Started, Bare, scan, input
  <2> QED
    BY <2>1, <2>2, <2>3 DEF Next
<1> QED
  BY <1>4, <1>5

LEMMA InitRInv == Init => RInv
<1> SUFFICES ASSUME Init PROVE RInv
  OBVIOUS
<1>1. TInv
  BY InitTInv
<1> SUFFICES ASSUME NEW v \in written PROVE \E val : Sense(v, val) /\ Progress(v, val)
  BY <1>1 DEF RInv
<1>2. Written
  BY DEF Init, Typed
<1>3. PICK pad \in Pads, size \in BufSizes :
          v \in MinOf .. MaxOf /\ str \in Formatted(v, base, pad, size)
  BY <1>2 DEF Written
<1> DEFINE t == Numeral(v, base, pad)
<1>4. str = Append(t, NUL)
  BY <1>3 DEF Formatted
<1>5. base \in 2 .. 36 /\ base \in Nat /\ base >= 2 /\ v \in Int /\ pad \in Nat
  BY <1>2, <1>3, TextAssumption DEF Written
<1>6. PICK val : t \in Seq(Int) /\ Reads(t, base, v, val)
  BY <1>5, NumeralReads
<1>7. Bare = t
  <2> HIDE DEF t
  <2>1. NUL \in Int
    BY DEF NUL
  <2>2. Len(str) = Len(t) + 1 /\ Len(t) \in Nat /\ \A k \in 1 .. Len(t) : str[k] = t[k]
    BY <1>4, <1>6, <2>1
  <2>3. Bare \in Seq(Int) /\ Len(Bare) = Len(str) - 1 /\ TextOK
        /\ \A p \in 0 .. Len(Bare) - 1 : At(p) = Bare[p + 1]
    BY <1>1, BareText DEF TInv
  <2>4. Len(Bare) = Len(t)
    BY <2>2, <2>3
  <2>5. ASSUME NEW k \in 1 .. Len(t) PROVE Bare[k] = t[k]
    <3>1. k - 1 \in 0 .. Len(Bare) - 1 /\ (k - 1) + 1 = k
      BY <2>2, <2>4
    <3>2. At(k - 1) = str[k]
      BY <3>1 DEF At
    <3> QED
      BY <2>2, <2>3, <3>1, <3>2
  <2> QED
    BY <1>6, <2>3, <2>4, <2>5, SeqEqual
<1>8. Sense(v, val)
  BY <1>3, <1>5, <1>6, <1>7 DEF Sense
<1>9. Progress(v, val)
  BY DEF Init, Progress, Started
<1> QED
  BY <1>8, <1>9

(* What EDC_U64_ToStringEx and EDC_I64_ToStringEx write, for every number of*)
(* every type, the least of a signed one included, in every base and with   *)
(* any padding, the functions that read numbers read back as the same       *)
(* number, to its last digit, if they may look that far                     *)
(* (edc_numeric.c:22-130, 225-504).                                         *)
THEOREM WrittenReadsBack == Spec => []ReadsBack
<1>1. RInv => ReadsBack
  <2> SUFFICES ASSUME RInv, NEW v \in written, status # "PARSING", Len(str) - 1 <= max_len
               PROVE  status = "OK" /\ out_val = {v} /\ idx = Len(str) - 1
    BY DEF ReadsBack
  <2>1. PICK val : Progress(v, val)
    BY DEF RInv
  <2>2. Len(Bare) = Len(str) - 1
    BY BareText DEF RInv, TInv
  <2> QED
    BY <2>1, <2>2 DEF Progress
<1> QED
  BY <1>1, InitRInv, NextRInv, PTL DEF Spec
=============================================================================
