------------------------------ MODULE NumberProofs ------------------------------
(***************************************************************************)
(* Proofs about rounded numbers, for every precision and range, and about  *)
(* the code that computes with them: the texts of numbers, and the         *)
(* coordinates of src/edc_gps.c.  From the bottom up: powers of two and    *)
(* multiples of them; rounding, and which results need none; what one      *)
(* operation makes of numbers with known bounds; the conversions.          *)
(***************************************************************************)
EXTENDS DecimalText, Coordinates, SequenceTheorems, WellFoundedInduction, TLAPS

-----------------------------------------------------------------------------
(* Scans for the first place where something holds: there is one.           *)
LEMMA LeastExists ==
    ASSUME NEW T, T \subseteq Nat, T # {}
    PROVE  \E x \in T : \A y \in T : x <= y
<1> DEFINE R == OpToRel(<, Nat)
<1>1. IsWellFoundedOn(R, Nat)
  BY NatLessThanWellFounded
<1>2. \A x, y \in Nat : y < x => <<y, x>> \in R
  BY DEF OpToRel
<1> HIDE DEF R
<1>3. PICK x \in T : \A y \in T : ~(<<y, x>> \in R)
  BY <1>1, WFMin
<1>4. ASSUME NEW y \in T PROVE x <= y
  <2>1. x \in Nat /\ y \in Nat
    OBVIOUS
  <2>2. ~(y < x)
    BY <1>2, <1>3, <2>1
  <2> QED
    BY <2>1, <2>2
<1> QED
  BY <1>4

(* Powers.  The recursive function that Power is the value of exists, and   *)
(* obeys the law of powers.                                                 *)
PowersUpTo(f, b, n) ==
    f = [k \in 0 .. n |-> IF k = 0 THEN 1 ELSE b * f[k - 1]]

LEMMA PowersDefined ==
    ASSUME NEW b \in Nat, NEW n \in Nat
    PROVE  \E f : PowersUpTo(f, b, n)
<1> DEFINE T == {k \in Nat : ~\E f : PowersUpTo(f, b, k)}
<1>1. SUFFICES ASSUME T # {} PROVE FALSE
  OBVIOUS
<1>2. PICK k \in T : \A j \in T : k <= j
  BY <1>1, LeastExists
<1>3. CASE k = 0
  <2> DEFINE f == [j \in 0 .. 0 |-> 1]
  <2>1. PowersUpTo(f, b, 0)
    BY DEF PowersUpTo
  <2> QED
    BY <1>3, <2>1
<1>4. CASE k # 0
  <2>1. k \in Nat /\ k - 1 \in Nat /\ k - 1 \notin T
    BY <1>2, <1>4
  <2>2. PICK g : PowersUpTo(g, b, k - 1)
    BY <2>1
  <2> DEFINE f == [j \in 0 .. k |-> IF j = k THEN b * g[k - 1] ELSE g[j]]
  <2>3. \A j \in 0 .. k - 1 : g[j] = (IF j = 0 THEN 1 ELSE b * g[j - 1])
    BY <2>2 DEF PowersUpTo
  <2>4. ASSUME NEW j \in 0 .. k PROVE f[j] = (IF j = 0 THEN 1 ELSE b * f[j - 1])
    <3>1. CASE j = k
      BY <1>4, <2>1, <3>1
    <3>2. CASE j # k
      BY <2>1, <2>3, <3>2
    <3> QED
      BY <3>1, <3>2
  <2>5. PowersUpTo(f, b, k)
    BY <2>4 DEF PowersUpTo
  <2> QED
    BY <1>2, <2>5
<1> QED
  BY <1>3, <1>4

(* Two such functions agree where both are defined.                         *)
LEMMA PowersAgree ==
    ASSUME NEW b \in Nat, NEW n \in Nat, NEW f, NEW g,
           PowersUpTo(f, b, n), PowersUpTo(g, b, n + 1)
    PROVE  f[n] = g[n]
<1> DEFINE T == {k \in 0 .. n : f[k] # g[k]}
<1>1. SUFFICES ASSUME T # {} PROVE FALSE
  BY n \in 0 .. n
<1>2. PICK k \in T : \A j \in T : k <= j
  <2>1. T \subseteq Nat
    OBVIOUS
  <2> QED
    BY <1>1, <2>1, LeastExists
<1>3. f[k] = (IF k = 0 THEN 1 ELSE b * f[k - 1])
  BY DEF PowersUpTo
<1>4. g[k] = (IF k = 0 THEN 1 ELSE b * g[k - 1])
  BY DEF PowersUpTo
<1>5. k # 0 => f[k - 1] = g[k - 1]
  BY <1>2
<1> QED
  BY <1>2, <1>3, <1>4, <1>5

LEMMA PowerValue ==
    ASSUME NEW b \in Nat, NEW n \in Nat
    PROVE  \E f : PowersUpTo(f, b, n) /\ Power(b, n) = f[n]
<1> DEFINE f == CHOOSE g : PowersUpTo(g, b, n)
<1>1. PowersUpTo(f, b, n)
  BY PowersDefined
<1>2. Power(b, n) = f[n]
  BY DEF Power, PowersUpTo
<1> QED
  BY <1>1, <1>2

LEMMA PowerZero ==
    ASSUME NEW b \in Nat
    PROVE  Power(b, 0) = 1
  BY PowerValue DEF PowersUpTo

LEMMA PowerNext ==
    ASSUME NEW b \in Nat, NEW n \in Nat
    PROVE  Power(b, n + 1) = b * Power(b, n)
<1>1. PICK f : PowersUpTo(f, b, n) /\ Power(b, n) = f[n]
  BY PowerValue
<1>2. PICK g : PowersUpTo(g, b, n + 1) /\ Power(b, n + 1) = g[n + 1]
  BY PowerValue
<1>3. g[n + 1] = b * g[n]
  BY <1>2 DEF PowersUpTo
<1>4. f[n] = g[n]
  BY <1>1, <1>2, PowersAgree
<1> QED
  BY <1>1, <1>2, <1>3, <1>4

LEMMA PowerPositive ==
    ASSUME NEW b \in Nat \ {0}, NEW n \in Nat
    PROVE  Power(b, n) \in Nat \ {0}
<1> DEFINE T == {k \in Nat : Power(b, k) \notin Nat \ {0}}
<1>1. SUFFICES ASSUME T # {} PROVE FALSE
  OBVIOUS
<1>2. PICK k \in T : \A j \in T : k <= j
  BY <1>1, LeastExists
<1>3. k # 0
  BY <1>2, PowerZero
<1>4. k - 1 \in Nat /\ Power(b, k - 1) \in Nat \ {0}
  BY <1>2, <1>3
<1>5. Power(b, k) = b * Power(b, k - 1)
  <2>1. k = (k - 1) + 1
    BY <1>2
  <2> QED
    BY <1>4, <2>1, PowerNext
<1> DEFINE p == Power(b, k - 1)
<1>6. p \in Nat \ {0}
  BY <1>4
<1> HIDE DEF p
<1>7. b * p \in Nat \ {0}
  BY <1>6
<1> QED
  BY <1>2, <1>5, <1>7 DEF p

LEMMA PowerSum ==
    ASSUME NEW b \in Nat \ {0}, NEW k \in Nat, NEW n \in Nat
    PROVE  Power(b, k + n) = Power(b, k) * Power(b, n)
<1> DEFINE T == {j \in Nat : Power(b, k + j) # Power(b, k) * Power(b, j)}
<1>1. SUFFICES ASSUME T # {} PROVE FALSE
  OBVIOUS
<1>2. PICK j \in T : \A x \in T : j <= x
  BY <1>1, LeastExists
<1>3. j # 0
  <2>1. Power(b, k + 0) = Power(b, k) * Power(b, 0)
    BY PowerZero, PowerPositive
  <2> QED
    BY <1>2, <2>1
<1>4. j - 1 \in Nat /\ Power(b, k + (j - 1)) = Power(b, k) * Power(b, j - 1)
  BY <1>2, <1>3
<1>5. Power(b, j) = b * Power(b, j - 1)
  <2>1. j = (j - 1) + 1
    BY <1>2
  <2> QED
    BY <1>4, <2>1, PowerNext
<1>6. Power(b, k + j) = b * Power(b, k + (j - 1))
  <2>1. k + j = (k + (j - 1)) + 1 /\ k + (j - 1) \in Nat
    BY <1>4
  <2> QED
    BY <2>1, PowerNext
<1> DEFINE x == Power(b, k)
           y == Power(b, j - 1)
<1>7. x \in Nat /\ y \in Nat
  BY <1>4, PowerPositive
<1> HIDE DEF x, y
<1>8. b * (x * y) = x * (b * y)
  BY <1>7
<1> QED
  BY <1>2, <1>4, <1>5, <1>6, <1>8 DEF x, y

LEMMA PowerGrows ==
    ASSUME NEW b \in Nat \ {0}, NEW k \in Nat, NEW n \in Nat, k <= n
    PROVE  Power(b, k) <= Power(b, n)
<1>1. n = k + (n - k) /\ n - k \in Nat
  OBVIOUS
<1> DEFINE x == Power(b, k)
           y == Power(b, n - k)
<1>2. x \in Nat /\ y \in Nat \ {0} /\ Power(b, n) = x * y
  BY <1>1, PowerSum, PowerPositive
<1> HIDE DEF x, y
<1>3. x <= x * y
  BY <1>2
<1> QED
  BY <1>2, <1>3 DEF x

-----------------------------------------------------------------------------
(* The powers of two divide each other.                                     *)
Multiple(t, n) == \E k \in Nat : n = k * t

LEMMA PowersType ==
    ASSUME NEW t \in Powers
    PROVE  t \in Nat \ {0} /\ t <= Infinity
<1>1. PICK k \in 0 .. DoubleBits : t = Power(2, k)
  BY DEF Powers
<1>2. DoubleBits \in Nat /\ k \in Nat /\ k <= DoubleBits
  BY FloatAssumption
<1>3. t \in Nat \ {0}
  BY <1>1, <1>2, PowerPositive
<1>4. t <= Infinity
  BY <1>1, <1>2, PowerGrows DEF Infinity
<1> QED
  BY <1>3, <1>4

LEMMA InPowers ==
    /\ 1 \in Powers /\ One \in Powers /\ Infinity \in Powers
    /\ DoubleSignificant \in Powers /\ FloatSignificant \in Powers /\ FloatLimit \in Powers
<1>1. /\ DoubleBits \in Nat /\ DoublePrecision \in 2 .. DoubleBits - 1
      /\ FloatPrecision \in 2 .. DoublePrecision /\ FloatBits \in FloatPrecision .. DoubleBits
  BY FloatAssumption
<1>2. PICK k \in 1 .. FloatBits - 1 : One = Power(2, k)
  BY FloatAssumption
<1>3. /\ 0 \in 0 .. DoubleBits /\ k \in 0 .. DoubleBits /\ DoubleBits \in 0 .. DoubleBits
      /\ DoublePrecision \in 0 .. DoubleBits /\ FloatPrecision \in 0 .. DoubleBits
      /\ FloatBits \in 0 .. DoubleBits
  BY <1>1
<1>4. 1 = Power(2, 0)
  BY PowerZero
<1> QED
  BY <1>2, <1>3, <1>4 DEF Powers, Infinity, DoubleSignificant, FloatSignificant, FloatLimit

(* Four at least are significant, and the limits are where they should be.  *)
LEMMA Limits ==
    /\ DoubleSignificant \in Nat /\ 4 <= FloatSignificant /\ FloatSignificant <= DoubleSignificant
    /\ 2 * DoubleSignificant <= Infinity
    /\ FloatSignificant <= FloatLimit /\ FloatLimit <= Infinity
    /\ 2 <= One /\ 2 * One <= FloatLimit /\ 10 * One < Infinity
<1>1. /\ DoubleBits \in Nat /\ DoublePrecision \in 2 .. DoubleBits - 1
      /\ FloatPrecision \in 2 .. DoublePrecision /\ FloatBits \in FloatPrecision .. DoubleBits
  BY FloatAssumption
<1>2. PICK k \in 1 .. FloatBits - 1 : One = Power(2, k)
  BY FloatAssumption
<1>3. Power(2, 1) = 2 /\ Power(2, 2) = 4
  <2>1. Power(2, 0) = 1 /\ Power(2, 0 + 1) = 2 * Power(2, 0) /\ Power(2, 1 + 1) = 2 * Power(2, 1)
    BY PowerZero, PowerNext
  <2> QED
    BY <2>1
<1>4. ASSUME NEW j \in Nat, NEW n \in Nat, j <= n PROVE Power(2, j) <= Power(2, n)
  <2>1. 2 \in Nat \ {0}
    OBVIOUS
  <2> QED
    BY <1>4, <2>1, PowerGrows
<1>5. ASSUME NEW j \in Nat PROVE Power(2, j) \in Nat /\ Power(2, j + 1) = 2 * Power(2, j)
  <2>1. 2 \in Nat \ {0} /\ 2 \in Nat
    OBVIOUS
  <2>2. Power(2, j) \in Nat
    BY <2>1, PowerPositive
  <2>3. Power(2, j + 1) = 2 * Power(2, j)
    BY <2>1, PowerNext
  <2> QED
    BY <2>2, <2>3
<1>6. 4 <= FloatSignificant /\ FloatSignificant <= DoubleSignificant /\ DoubleSignificant \in Nat
  <2>1. FloatPrecision \in Nat /\ DoublePrecision \in Nat /\ 2 \in Nat
        /\ 2 <= FloatPrecision /\ FloatPrecision <= DoublePrecision
    BY <1>1
  <2>2. Power(2, 2) <= Power(2, FloatPrecision)
    BY <1>4, <2>1
  <2>3. Power(2, FloatPrecision) <= Power(2, DoublePrecision)
    BY <1>4, <2>1
  <2> QED
    BY <1>3, <1>5, <2>1, <2>2, <2>3 DEF FloatSignificant, DoubleSignificant
<1>7. 2 * DoubleSignificant <= Infinity
  BY <1>1, <1>4, <1>5, DoublePrecision + 1 <= DoubleBits DEF DoubleSignificant, Infinity
<1>8. FloatSignificant <= FloatLimit /\ FloatLimit <= Infinity
  BY <1>1, <1>4 DEF FloatSignificant, FloatLimit, Infinity
<1>9. 2 <= One
  BY <1>2, <1>3, <1>4
<1>10. 2 * One <= FloatLimit
  BY <1>1, <1>2, <1>4, <1>5, k + 1 <= FloatBits DEF FloatLimit
<1>11. 10 * One < Infinity
  BY FloatAssumption DEF Infinity
<1> QED
  BY <1>6, <1>7, <1>8, <1>9, <1>10, <1>11

LEMMA PowersChain ==
    ASSUME NEW t \in Powers, NEW u \in Powers, t <= u
    PROVE  Multiple(t, u) /\ (t < u => Multiple(2 * t, u))
<1>1. PICK j \in 0 .. DoubleBits : t = Power(2, j)
  BY DEF Powers
<1>2. PICK k \in 0 .. DoubleBits : u = Power(2, k)
  BY DEF Powers
<1>3. DoubleBits \in Nat /\ j \in Nat /\ k \in Nat
  BY FloatAssumption
<1>4. t \in Nat \ {0} /\ u \in Nat \ {0}
  BY PowersType
<1>5. k < j => u <= t
  BY <1>1, <1>2, <1>3, PowerGrows
<1>6. CASE k < j
  <2>1. u = 1 * t
    BY <1>4, <1>5, <1>6
  <2> QED
    BY <1>4, <1>5, <1>6, <2>1 DEF Multiple
<1>7. CASE k = j
  <2>1. u = 1 * t /\ ~(t < u)
    BY <1>1, <1>2, <1>4, <1>7
  <2> QED
    BY <2>1 DEF Multiple
<1>8. CASE j < k
  <2>1. k - j - 1 \in Nat /\ k - j \in Nat /\ k = j + (k - j) /\ k - j = (k - j - 1) + 1
    BY <1>3, <1>8
  <2> DEFINE x == Power(2, k - j - 1)
  <2>2. x \in Nat
    BY <2>1, PowerPositive
  <2>3. Power(2, k - j) = 2 * x
    BY <2>1, PowerNext
  <2>4. u = t * (2 * x)
    BY <1>1, <1>2, <1>3, <2>1, <2>3, PowerSum
  <2> HIDE DEF x
  <2>5. u = x * (2 * t) /\ u = (2 * x) * t /\ 2 * x \in Nat
    BY <1>4, <2>2, <2>4
  <2> QED
    BY <2>2, <2>5 DEF Multiple
<1> QED
  BY <1>3, <1>6, <1>7, <1>8

LEMMA PowersHalf ==
    ASSUME NEW t \in Powers, t # 1
    PROVE  \E h \in Powers : t = 2 * h
<1>1. PICK k \in 0 .. DoubleBits : t = Power(2, k)
  BY DEF Powers
<1>2. DoubleBits \in Nat /\ k # 0
  BY <1>1, FloatAssumption, PowerZero
<1>3. k - 1 \in 0 .. DoubleBits /\ k - 1 \in Nat /\ k = (k - 1) + 1
  BY <1>2
<1>4. t = 2 * Power(2, k - 1)
  BY <1>1, <1>3, PowerNext
<1> QED
  BY <1>3, <1>4 DEF Powers

LEMMA PowersDouble ==
    ASSUME NEW t \in Powers, t < Infinity
    PROVE  2 * t \in Powers
<1>1. PICK k \in 0 .. DoubleBits : t = Power(2, k)
  BY DEF Powers
<1>2. DoubleBits \in Nat /\ k # DoubleBits
  BY <1>1, FloatAssumption, PowersType, InPowers DEF Infinity
<1>3. k + 1 \in 0 .. DoubleBits /\ k \in Nat
  BY <1>2
<1>4. 2 * t = Power(2, k + 1)
  BY <1>1, <1>3, PowerNext
<1> QED
  BY <1>3, <1>4 DEF Powers

LEMMA MultipleSum ==
    ASSUME NEW t \in Nat, NEW p \in Nat, NEW n \in Nat, Multiple(t, p), Multiple(t, n)
    PROVE  Multiple(t, p + n) /\ (p <= n => Multiple(t, n - p)) /\ (p < n => p + t <= n)
<1>1. PICK x \in Nat : p = x * t
  BY DEF Multiple
<1>2. PICK y \in Nat : n = y * t
  BY DEF Multiple
<1>3. p + n = (x + y) * t /\ x + y \in Nat
  BY <1>1, <1>2
<1>4. ASSUME p < n PROVE p + t <= n /\ y - x \in Nat
  <2>1. x < y
    BY <1>1, <1>2, <1>4
  <2>2. (x + 1) * t <= y * t
    <3>1. y = (x + 1) + (y - x - 1) /\ y - x - 1 \in Nat
      BY <2>1
    <3> DEFINE z == y - x - 1
    <3>2. z \in Nat /\ y = (x + 1) + z
      BY <3>1
    <3> HIDE DEF z
    <3>3. y * t = (x + 1) * t + z * t /\ z * t \in Nat /\ (x + 1) * t \in Nat
      BY <3>2
    <3> QED
      BY <3>3
  <2>3. (x + 1) * t = p + t
    BY <1>1
  <2> QED
    BY <1>2, <2>1, <2>2, <2>3
<1>5. ASSUME p <= n PROVE Multiple(t, n - p)
  <2>1. CASE p = n
    <3>1. n - p = 0 * t
      BY <2>1
    <3> QED
      BY <3>1 DEF Multiple
  <2>2. CASE p < n
    <3>1. n - p = (y - x) * t /\ y - x \in Nat
      BY <1>1, <1>2, <1>4, <2>2
    <3> QED
      BY <3>1 DEF Multiple
  <2> QED
    BY <1>5, <2>1, <2>2
<1> QED
  BY <1>3, <1>4, <1>5 DEF Multiple

LEMMA MultipleTimes ==
    ASSUME NEW t \in Nat, NEW n \in Nat, NEW c \in Nat, Multiple(t, n)
    PROVE  Multiple(t, c * n) /\ Multiple(c * t, c * n)
<1>1. PICK x \in Nat : n = x * t
  BY DEF Multiple
<1>2. c * n = (c * x) * t /\ c * x \in Nat /\ c * n = x * (c * t)
  BY <1>1
<1> QED
  BY <1>2 DEF Multiple

LEMMA MultipleOf ==
    ASSUME NEW t \in Nat, NEW u \in Nat, NEW n \in Nat, Multiple(t, u), Multiple(u, n)
    PROVE  Multiple(t, n)
<1>1. PICK x \in Nat : u = x * t
  BY DEF Multiple
<1>2. PICK y \in Nat : n = y * u
  BY DEF Multiple
<1>3. n = (y * x) * t /\ y * x \in Nat
  BY <1>1, <1>2
<1> QED
  BY <1>3 DEF Multiple

LEMMA MultipleTrivial ==
    ASSUME NEW t \in Nat
    PROVE  Multiple(t, t) /\ Multiple(t, 0) /\ \A n \in Nat : Multiple(1, n) /\ Multiple(t, n * t)
<1>1. t = 1 * t /\ 0 = 0 * t /\ \A n \in Nat : n = n * 1
  OBVIOUS
<1> QED
  BY <1>1 DEF Multiple

-----------------------------------------------------------------------------
(* Rounding to a whole number.                                              *)
LEMMA DivLess ==
    ASSUME NEW n \in Nat, NEW p \in Nat \ {0}, NEW c \in Nat
    PROVE  /\ n \div p \in Nat /\ p * (n \div p) <= n /\ n < p * (n \div p) + p
           /\ (n \div p < c) <=> (n < p * c)
           /\ (n \div p >= c) <=> (n >= p * c)
<1> DEFINE q == n \div p
           r == n % p
<1>1. q \in Nat /\ r \in Nat /\ r < p
  OBVIOUS
<1>2. n = p * q + r
  OBVIOUS
<1> HIDE DEF q, r
<1>3. p * q <= n /\ n < p * q + p
  BY <1>1, <1>2
<1>4. ASSUME q < c PROVE n < p * c
  <2>1. PICK x \in Nat : c = q + 1 + x
    <3>1. c - q - 1 \in Nat /\ c = q + 1 + (c - q - 1)
      BY <1>1, <1>4
    <3> QED
      BY <3>1
  <2>2. p * c = p * q + p + p * x /\ p * x \in Nat
    BY <1>1, <2>1
  <2> QED
    BY <1>1, <1>3, <2>2
<1>5. ASSUME q >= c PROVE n >= p * c
  <2>1. PICK x \in Nat : q = c + x
    <3>1. q - c \in Nat /\ q = c + (q - c)
      BY <1>1, <1>5
    <3> QED
      BY <3>1
  <2>2. p * q = p * c + p * x /\ p * x \in Nat
    BY <1>1, <2>1
  <2> QED
    BY <1>1, <1>3, <2>2
<1>6. p * c \in Nat
  OBVIOUS
<1> QED
  BY <1>1, <1>3, <1>4, <1>5, <1>6 DEF q

LEMMA ProductLess ==
    ASSUME NEW c \in Nat, NEW x \in Nat, NEW y \in Nat
    PROVE  /\ x <= y => c * x <= c * y
           /\ (c # 0 /\ x < y) => c * x + c <= c * y
           /\ (c # 0 /\ c * x <= c * y) => x <= y
<1>1. ASSUME x <= y PROVE c * x <= c * y
  <2>1. PICK z \in Nat : y = x + z
    <3>1. y - x \in Nat /\ y = x + (y - x)
      BY <1>1
    <3> QED
      BY <3>1
  <2>2. c * y = c * x + c * z /\ c * z \in Nat /\ c * x \in Nat
    BY <2>1
  <2> QED
    BY <2>2
<1>2. ASSUME x < y PROVE c * x + c <= c * y
  <2>1. PICK z \in Nat : y = x + 1 + z
    <3>1. y - x - 1 \in Nat /\ y = x + 1 + (y - x - 1)
      BY <1>2
    <3> QED
      BY <3>1
  <2>2. c * y = c * x + c + c * z /\ c * z \in Nat /\ c * x \in Nat
    BY <2>1
  <2> QED
    BY <2>2
<1>3. ASSUME c # 0, c * x <= c * y PROVE x <= y
  <2>1. SUFFICES ASSUME y < x PROVE FALSE
    OBVIOUS
  <2>2. PICK z \in Nat : x = y + 1 + z
    <3>1. x - y - 1 \in Nat /\ x = y + 1 + (x - y - 1)
      BY <2>1
    <3> QED
      BY <3>1
  <2>3. c * x = c * y + c + c * z /\ c * z \in Nat /\ c * y \in Nat
    BY <2>2
  <2> QED
    BY <1>3, <2>3
<1> QED
  BY <1>1, <1>2, <1>3

LEMMA NearestFacts ==
    ASSUME NEW n \in Nat, NEW p \in Nat \ {0}
    PROVE  /\ Nearest(n, p) \in Nat
           /\ 2 * (p * Nearest(n, p)) <= 2 * n + p
           /\ 2 * n <= 2 * (p * Nearest(n, p)) + p
<1> DEFINE q == n \div p
           r == n % p
           v == Nearest(n, p)
<1>1. q \in Nat /\ r \in Nat /\ r < p
  OBVIOUS
<1>2. n = p * q + r
  OBVIOUS
<1>3. \/ v = q /\ 2 * r <= p
      \/ v = q + 1 /\ p <= 2 * r
  BY <1>1 DEF Nearest
<1> HIDE DEF q, r, v
<1>4. p * (q + 1) = p * q + p /\ p * q \in Nat
  BY <1>1
<1>5. ASSUME v = q, 2 * r <= p
      PROVE  v \in Nat /\ 2 * (p * v) <= 2 * n + p /\ 2 * n <= 2 * (p * v) + p
  <2>1. p * v = p * q
    BY <1>5
  <2> QED
    BY <1>1, <1>2, <1>4, <1>5, <2>1
<1>6. ASSUME v = q + 1, p <= 2 * r
      PROVE  v \in Nat /\ 2 * (p * v) <= 2 * n + p /\ 2 * n <= 2 * (p * v) + p
  <2>1. p * v = p * q + p
    BY <1>4, <1>6
  <2> QED
    BY <1>1, <1>2, <1>4, <1>6, <2>1
<1>7. v \in Nat /\ 2 * (p * v) <= 2 * n + p /\ 2 * n <= 2 * (p * v) + p
  BY <1>3, <1>5, <1>6
<1> QED
  BY <1>7 DEF v

(* What is not above a whole number is not rounded above it.                *)
LEMMA NearestBounds ==
    ASSUME NEW n \in Nat, NEW p \in Nat \ {0}, NEW c \in Nat
    PROVE  /\ n <= p * c => Nearest(n, p) <= c
           /\ n >= p * c => Nearest(n, p) >= c
<1> DEFINE v == Nearest(n, p)
<1>1. v \in Nat /\ 2 * (p * v) <= 2 * n + p /\ 2 * n <= 2 * (p * v) + p
  BY NearestFacts
<1> HIDE DEF v
<1>2. ASSUME n <= p * c PROVE v <= c
  <2>1. SUFFICES ASSUME c < v PROVE FALSE
    BY <1>1
  <2>2. p * c + p <= p * v
    BY <1>1, <2>1, ProductLess
  <2>3. p * c \in Nat /\ p * v \in Nat
    BY <1>1
  <2> QED
    BY <1>1, <1>2, <2>2, <2>3
<1>3. ASSUME n >= p * c PROVE v >= c
  <2>1. SUFFICES ASSUME v < c PROVE FALSE
    BY <1>1
  <2>2. p * v + p <= p * c
    BY <1>1, <2>1, ProductLess
  <2>3. p * c \in Nat /\ p * v \in Nat
    BY <1>1
  <2> QED
    BY <1>1, <1>3, <2>2, <2>3
<1> QED
  BY <1>2, <1>3 DEF v

(* The distance of neighbours.                                              *)
LEMMA SpacingFacts ==
    ASSUME NEW n \in Nat, NEW sig \in Powers, n < sig * Infinity
    PROVE  /\ Spacing(n, sig) \in Powers
           /\ n < sig * Spacing(n, sig)
           /\ Spacing(n, sig) # 1 => sig * Spacing(n, sig) <= 2 * n
           /\ \A t \in Powers : n < sig * t => Spacing(n, sig) <= t
<1> DEFINE T == {t \in Powers : n \div t < sig}
           x == Spacing(n, sig)
<1>1. sig \in Nat \ {0}
  BY PowersType
<1>2. \A t \in Powers : t \in T <=> n < sig * t
  <2> SUFFICES ASSUME NEW t \in Powers PROVE t \in T <=> n < sig * t
    OBVIOUS
  <2>1. t \in Nat \ {0}
    BY PowersType
  <2>2. (n \div t < sig) <=> (n < t * sig)
    BY <1>1, <2>1, DivLess
  <2>3. t * sig = sig * t
    BY <1>1, <2>1
  <2> QED
    BY <2>2, <2>3
<1>3. T \subseteq Nat /\ T # {}
  BY <1>2, InPowers, PowersType
<1>4. \E t \in T : \A u \in T : t <= u
  BY <1>3, LeastExists
<1>5. x = CHOOSE t \in T : \A u \in T : t <= u
  BY DEF Spacing
<1>6. x \in T /\ \A u \in T : x <= u
  BY <1>4, <1>5
<1> HIDE DEF x, T
<1>7. x \in Powers /\ n < sig * x
  BY <1>2, <1>6 DEF T
<1>8. ASSUME x # 1 PROVE sig * x <= 2 * n
  <2>1. PICK h \in Powers : x = 2 * h
    BY <1>7, <1>8, PowersHalf
  <2>2. h \in Nat \ {0}
    BY PowersType
  <2>3. ~(n < sig * h)
    BY <1>2, <1>6, <2>1, <2>2
  <2>4. sig * x = 2 * (sig * h) /\ sig * h \in Nat
    BY <1>1, <2>1, <2>2
  <2> QED
    BY <2>3, <2>4
<1>9. \A t \in Powers : n < sig * t => x <= t
  BY <1>2, <1>6
<1> QED
  BY <1>7, <1>8, <1>9 DEF x

-----------------------------------------------------------------------------
(* What a format of so many significant numbers holds.                      *)
Held(r, sig) == \E t \in Powers : Multiple(t, r) /\ r <= sig * t

(* Rounding: what is got is held, within half a spacing of the exact value, *)
(* and on the same side of every held number.                               *)
RoundsTo(n, p, sig, lim, x, y) ==
    /\ x = Spacing(n \div p, sig)
    /\ Rounded(n, p, sig, lim) = IF y >= lim THEN Infinity ELSE y
    /\ Multiple(x, y) /\ y <= sig * x
    /\ 2 * (p * y) <= 2 * n + p * x /\ 2 * n <= 2 * (p * y) + p * x
    /\ n < p * (sig * x) /\ (x # 1 => p * (sig * x) <= 2 * n)
    /\ \A r \in Nat : Held(r, sig) => (n <= p * r => y <= r) /\ (n >= p * r => y >= r)

LEMMA RoundedFacts ==
    ASSUME NEW n \in Nat, NEW p \in Nat \ {0}, NEW sig \in Powers, 4 <= sig, NEW lim \in Nat,
           n < p * (sig * Infinity)
    PROVE  \E y \in Nat : \E x \in Powers : RoundsTo(n, p, sig, lim, x, y)
<1> DEFINE q == n \div p
           x == Spacing(q, sig)
           v == Nearest(n, p * x)
           y == v * x
<1>1. sig \in Nat \ {0} /\ Infinity \in Nat \ {0}
  BY InPowers, PowersType
<1>2. q \in Nat /\ p * q <= n /\ \A c \in Nat : ((q < c) <=> (n < p * c)) /\ ((q >= c) <=> (n >= p * c))
  BY DivLess
<1>3. q < sig * Infinity
  <2>1. sig * Infinity \in Nat
    BY <1>1
  <2> QED
    BY <1>2, <2>1
<1>5. Rounded(n, p, sig, lim) = IF y >= lim THEN Infinity ELSE y
  BY DEF Rounded
<1> HIDE DEF q
<1>4. /\ x \in Powers /\ q < sig * x /\ (x # 1 => sig * x <= 2 * q)
      /\ \A t \in Powers : q < sig * t => x <= t
  BY <1>2, <1>3, SpacingFacts
<1>6. x \in Nat \ {0}
  BY <1>4, PowersType
<1> HIDE DEF x
<1>7. p * x \in Nat \ {0}
  BY <1>6
<1>8. /\ v \in Nat
      /\ 2 * ((p * x) * v) <= 2 * n + p * x /\ 2 * n <= 2 * ((p * x) * v) + p * x
  BY <1>7, NearestFacts
<1>9. \A c \in Nat : (n <= (p * x) * c => v <= c) /\ (n >= (p * x) * c => v >= c)
  BY <1>7, NearestBounds
<1> HIDE DEF v
<1>10. y \in Nat /\ Multiple(x, y) /\ (p * x) * v = p * y
  BY <1>6, <1>8 DEF Multiple
<1>11. n < p * (sig * x)
  <2>1. sig * x \in Nat
    BY <1>1, <1>6
  <2> QED
    BY <1>2, <1>4, <2>1
<1>12. y <= sig * x
  <2>1. (p * x) * sig = p * (sig * x)
    BY <1>1, <1>6
  <2>2. n <= (p * x) * sig
    BY <1>11, <2>1, <1>1, <1>6
  <2>3. v <= sig
    BY <1>1, <1>9, <2>2
  <2>4. x * v <= x * sig
    BY <1>1, <1>6, <1>8, <2>3, ProductLess
  <2>5. x * v = v * x /\ x * sig = sig * x
    BY <1>1, <1>6, <1>8
  <2> QED
    BY <2>4, <2>5
<1>13. ASSUME x # 1 PROVE p * (sig * x) <= 2 * n
  <2>1. sig * x \in Nat /\ 2 * q \in Nat /\ sig * x <= 2 * q
    BY <1>1, <1>2, <1>4, <1>6, <1>13
  <2>2. p * (sig * x) <= p * (2 * q)
    BY <2>1, ProductLess
  <2>3. p * (2 * q) = 2 * (p * q) /\ p * q \in Nat /\ p * (sig * x) \in Nat
    BY <1>2, <2>1
  <2> QED
    BY <1>2, <2>2, <2>3
<1>14. ASSUME NEW r \in Nat, Multiple(x, r)
       PROVE  (n <= p * r => y <= r) /\ (n >= p * r => y >= r)
  <2>1. PICK c \in Nat : r = c * x
    BY <1>14 DEF Multiple
  <2>2. (p * x) * c = p * r
    BY <1>6, <2>1
  <2>3. (v <= c => v * x <= c * x) /\ (v >= c => v * x >= c * x)
    <3>1. (v <= c => x * v <= x * c) /\ (c <= v => x * c <= x * v)
      BY <1>6, <1>8, ProductLess
    <3>2. v * x = x * v /\ c * x = x * c
      BY <1>6, <1>8
    <3> QED
      BY <1>8, <3>1, <3>2
  <2> QED
    BY <1>9, <2>1, <2>2, <2>3
<1>15. ASSUME NEW r \in Nat, NEW t \in Powers, Multiple(t, r), r <= sig * t
       PROVE  (n <= p * r => y <= r) /\ (n >= p * r => y >= r)
  <2>1. t \in Nat \ {0}
    BY PowersType
  <2>2. CASE x <= t
    <3>1. Multiple(x, t)
      BY <1>4, <2>2, PowersChain
    <3>2. Multiple(x, r)
      BY <1>6, <1>15, <2>1, <3>1, MultipleOf
    <3> QED
      BY <1>14, <3>2
  <2>3. CASE t < x
    <3>1. PICK h \in Powers : x = 2 * h
      BY <1>4, <2>1, <2>3, PowersHalf
    <3>2. PICK u \in Powers : sig = 2 * u
      BY PowersHalf
    <3>3. h \in Nat \ {0} /\ u \in Nat \ {0}
      BY PowersType
    <3> DEFINE z == sig * h
    <3>4. z \in Nat /\ z = u * x
      BY <1>1, <3>1, <3>2, <3>3
    <3>5. z <= q
      <4>1. ~(q < sig * h)
        BY <1>4, <3>1, <3>3
      <4> QED
        BY <1>2, <3>4, <4>1
    <3>6. p * z <= n
      BY <1>2, <3>4, <3>5
    <3>7. r <= z
      <4>1. Multiple(2 * t, x)
        <5>1. t <= x
          BY <1>6, <2>1, <2>3
        <5> QED
          BY <1>4, <2>3, <5>1, PowersChain
      <4>2. PICK c \in Nat : x = c * (2 * t)
        BY <4>1 DEF Multiple
      <4>3. c # 0
        BY <1>6, <2>1, <4>2
      <4>4. h = t * c /\ t * 1 <= t * c
        <5>1. t * 1 <= t * c
          BY <2>1, <4>2, <4>3, ProductLess
        <5>2. 2 * h = 2 * (t * c)
          BY <2>1, <3>1, <4>2
        <5>3. t * c \in Nat
          BY <2>1, <4>2
        <5> QED
          BY <3>3, <5>1, <5>2, <5>3
      <4>5. t <= h
        BY <2>1, <4>4
      <4>6. sig * t <= sig * h
        BY <1>1, <2>1, <3>3, <4>5, ProductLess
      <4> QED
        BY <1>1, <1>15, <2>1, <3>3, <3>4, <4>6
    <3>8. Multiple(x, z)
      BY <3>3, <3>4 DEF Multiple
    <3> HIDE DEF z
    <3>9. y >= z
      BY <1>14, <3>4, <3>6, <3>8
    <3>10. y >= r
      BY <1>10, <3>4, <3>7, <3>9
    <3>11. ASSUME n <= p * r PROVE y <= r
      <4>1. p * z <= p * r
        <5>1. p * z \in Nat /\ p * r \in Nat
          BY <3>4
        <5> QED
          BY <3>6, <3>11, <5>1
      <4>2. z <= r
        BY <3>4, <4>1, ProductLess
      <4>3. z = r
        BY <3>4, <3>7, <4>2
      <4> QED
        BY <1>14, <3>8, <3>11, <4>3
    <3> QED
      BY <3>10, <3>11
  <2> QED
    BY <1>6, <2>1, <2>2, <2>3
<1>16. \A r \in Nat : Held(r, sig) => (n <= p * r => y <= r) /\ (n >= p * r => y >= r)
  BY <1>15 DEF Held
<1>17. 2 * (p * y) <= 2 * n + p * x /\ 2 * n <= 2 * (p * y) + p * x
  BY <1>8, <1>10
<1>18. x = Spacing(n \div p, sig)
  BY DEF x, q
<1> HIDE DEF y
<1> QED
  BY <1>4, <1>5, <1>10, <1>11, <1>12, <1>13, <1>16, <1>17, <1>18 DEF RoundsTo

(* The same of double.                                                      *)
IsDouble(r) == r \in Nat /\ r <= Infinity /\ Held(r, DoubleSignificant)

LEMMA DoubleFacts ==
    ASSUME NEW n \in Nat, NEW p \in Nat \ {0}, n < p * (DoubleSignificant * Infinity)
    PROVE  \E x \in Powers :
              /\ x = Spacing(n \div p, DoubleSignificant)
              /\ IsDouble(Double(n, p))
              /\ Double(n, p) < Infinity =>
                    /\ 2 * (p * Double(n, p)) <= 2 * n + p * x
                    /\ 2 * n <= 2 * (p * Double(n, p)) + p * x
                    /\ Multiple(x, Double(n, p))
              /\ n < p * (DoubleSignificant * x)
              /\ (x # 1 => p * (DoubleSignificant * x) <= 2 * n)
              /\ \A r : IsDouble(r) =>
                    (n <= p * r => Double(n, p) <= r) /\ (n >= p * r => Double(n, p) >= r)
<1> DEFINE S == DoubleSignificant
           z == Double(n, p)
<1>1. S \in Powers /\ Infinity \in Nat \ {0} /\ S \in Nat \ {0}
  BY InPowers, PowersType
<1>2. 4 <= S /\ Infinity \in Nat
  BY Limits, InPowers, PowersType
<1>10. n < p * (S * Infinity)
  OBVIOUS
<1> HIDE DEF S
<1>11. \E y \in Nat : \E x \in Powers : RoundsTo(n, p, S, Infinity, x, y)
  BY <1>1, <1>2, <1>10, RoundedFacts
<1>12. PICK y \in Nat : \E x \in Powers : RoundsTo(n, p, S, Infinity, x, y)
  BY <1>11
<1>13. PICK x \in Powers : RoundsTo(n, p, S, Infinity, x, y)
  BY <1>12
<1>3. /\ x = Spacing(n \div p, S)
      /\ Rounded(n, p, S, Infinity) = IF y >= Infinity THEN Infinity ELSE y
      /\ Multiple(x, y) /\ y <= S * x
      /\ 2 * (p * y) <= 2 * n + p * x /\ 2 * n <= 2 * (p * y) + p * x
      /\ n < p * (S * x) /\ (x # 1 => p * (S * x) <= 2 * n)
      /\ \A r \in Nat : Held(r, S) => (n <= p * r => y <= r) /\ (n >= p * r => y >= r)
  BY <1>13 DEF RoundsTo
<1>4. z = IF y >= Infinity THEN Infinity ELSE y
  <2>1. [over |-> n, under |-> p] \in Ratios
    BY DEF Ratios
  <2>2. z = Rounded(n, p, S, Infinity)
    BY <2>1 DEF Double, ToDouble, S
  <2> QED
    BY <1>3, <2>2
<1> HIDE DEF z
<1>5. IsDouble(z)
  <2>1. CASE y >= Infinity
    <3>1. Multiple(Infinity, Infinity)
      BY <1>1, MultipleTrivial
    <3>2. Infinity <= S * Infinity
      <4>1. Infinity * 1 <= Infinity * S
        BY <1>1, ProductLess
      <4> QED
        BY <1>1, <4>1
    <3> QED
      BY <1>1, <1>4, <2>1, <3>1, <3>2, InPowers DEF IsDouble, Held, S
  <2>2. CASE ~(y >= Infinity)
    <3>1. z = y /\ y \in Nat /\ y <= Infinity
      BY <1>1, <1>3, <1>4, <2>2
    <3>2. \E t \in Powers : Multiple(t, y) /\ y <= S * t
      BY <1>3
    <3> QED
      BY <3>1, <3>2 DEF IsDouble, Held, S
  <2> QED
    BY <2>1, <2>2
<1>6. ASSUME NEW r, IsDouble(r) PROVE (n <= p * r => z <= r) /\ (n >= p * r => z >= r)
  <2>1. r \in Nat /\ r <= Infinity /\ Held(r, S)
    BY <1>6 DEF IsDouble, S
  <2>2. (n <= p * r => y <= r) /\ (n >= p * r => y >= r)
    BY <1>3, <2>1
  <2> QED
    BY <1>1, <1>4, <2>1, <2>2
<1>7. z < Infinity => z = y
  BY <1>1, <1>4
<1> USE DEF S
<1>8. z < Infinity =>
          /\ 2 * (p * z) <= 2 * n + p * x /\ 2 * n <= 2 * (p * z) + p * x
          /\ Multiple(x, z)
  BY <1>3, <1>7
<1> HIDE DEF S
<1>9. /\ x \in Powers /\ x = Spacing(n \div p, S) /\ n < p * (S * x)
      /\ (x # 1 => p * (S * x) <= 2 * n)
  BY <1>3
<1> QED
  BY <1>5, <1>6, <1>8, <1>9 DEF S, z

LEMMA DoubleExact ==
    ASSUME NEW r, IsDouble(r), NEW p \in Nat \ {0}
    PROVE  Double(p * r, p) = r /\ p * r < p * (DoubleSignificant * Infinity)
<1> DEFINE z == Double(p * r, p)
<1>1. r \in Nat /\ p * r \in Nat
  BY DEF IsDouble
<1>2. p * r < p * (DoubleSignificant * Infinity)
  <2>1. DoubleSignificant \in Nat /\ 4 <= DoubleSignificant /\ Infinity \in Nat \ {0}
    BY Limits, InPowers, PowersType
  <2>2. Infinity * 4 <= Infinity * DoubleSignificant
    BY <2>1, ProductLess
  <2> DEFINE w == DoubleSignificant * Infinity
  <2>3. w \in Nat /\ w = Infinity * DoubleSignificant
    BY <2>1
  <2>4. r < w
    BY <1>1, <2>1, <2>2, <2>3 DEF IsDouble
  <2> HIDE DEF w
  <2>5. p * r + p <= p * w
    BY <1>1, <2>3, <2>4, ProductLess
  <2>6. p * w \in Nat
    BY <2>3
  <2>7. p * r < p * w
    BY <1>1, <2>5, <2>6
  <2> QED
    BY <2>7 DEF w
<1>3. z \in Nat /\ z <= r /\ z >= r
  BY <1>1, <1>2, DoubleFacts DEF IsDouble
<1> QED
  BY <1>1, <1>2, <1>3

(* What is rounded to itself, and finite, is a double; and the other way    *)
(* round.                                                                   *)
LEMMA DoubleItself ==
    ASSUME NEW r \in Nat, r < Infinity
    PROVE  IsDouble(r) <=> Double(r, 1) = r
<1>1. 1 * r = r /\ 1 \in Nat \ {0}
  OBVIOUS
<1>2. IsDouble(r) => Double(r, 1) = r
  <2>1. ASSUME IsDouble(r) PROVE Double(1 * r, 1) = r
    BY <2>1, <1>1, DoubleExact
  <2> QED
    BY <1>1, <2>1
<1>3. IsDouble(Double(r, 1))
  <2>1. DoubleSignificant \in Nat /\ 4 <= DoubleSignificant /\ Infinity \in Nat \ {0}
    BY Limits, InPowers, PowersType
  <2>2. Infinity * 4 <= Infinity * DoubleSignificant
    BY <2>1, ProductLess
  <2> DEFINE w == DoubleSignificant * Infinity
  <2>3. w \in Nat /\ w = Infinity * DoubleSignificant
    BY <2>1
  <2>4. r < 1 * w
    BY <2>1, <2>2, <2>3
  <2> QED
    BY <1>1, <2>4, DoubleFacts
<1> QED
  BY <1>2, <1>3

-----------------------------------------------------------------------------
(* Between a double and a greater number that is a multiple of a power of   *)
(* two lies at least that power, or one that the double's precision allows. *)
LEMMA GapBelow ==
    ASSUME NEW r, IsDouble(r), NEW o \in Powers, NEW w \in Nat, Multiple(o, w), r < w
    PROVE  w - r >= o \/ \E t \in Powers : w - r >= t /\ DoubleSignificant * t > r
<1> DEFINE S == DoubleSignificant
<1>1. PICK t \in Powers : Multiple(t, r) /\ r <= S * t
  BY DEF IsDouble, Held
<1>2. r \in Nat /\ S \in Powers /\ 4 <= S /\ S \in Nat /\ t \in Nat \ {0} /\ o \in Nat \ {0}
      /\ o <= Infinity /\ Infinity \in Nat
  BY InPowers, PowersType, Limits DEF IsDouble
<1> HIDE DEF S
<1>3. CASE o <= t
  <2>1. Multiple(o, t)
    BY <1>3, PowersChain
  <2>2. Multiple(o, r)
    BY <1>1, <1>2, <2>1, MultipleOf
  <2>3. r + o <= w
    BY <1>2, <2>2, MultipleSum
  <2> QED
    BY <1>2, <2>3
<1>4. CASE t < o
  <2>1. t <= o
    BY <1>2, <1>4
  <2>2. Multiple(t, o) /\ Multiple(2 * t, o)
    BY <1>4, <2>1, PowersChain
  <2>3. Multiple(t, w) /\ Multiple(2 * t, w)
    BY <1>2, <2>2, MultipleOf
  <2>4. CASE r < S * t
    <3>1. r + t <= w
      BY <1>1, <1>2, <2>3, MultipleSum
    <3> QED
      BY <1>2, <2>4, <3>1 DEF S
  <2>5. CASE r = S * t
    <3>1. PICK u \in Powers : S = 2 * u
      BY <1>2, PowersHalf
    <3>2. u \in Nat \ {0}
      BY PowersType
    <3>3. r = u * (2 * t)
      BY <1>2, <2>5, <3>1, <3>2
    <3>4. Multiple(2 * t, r)
      BY <3>2, <3>3 DEF Multiple
    <3>5. r + 2 * t <= w
      BY <1>2, <2>3, <3>4, MultipleSum
    <3>6. 2 * t \in Powers
      BY <1>2, <1>4, PowersDouble
    <3>7. S * (2 * t) > r
      <4>1. S * (2 * t) = 2 * (S * t) /\ S * t \in Nat
        BY <1>2
      <4>2. t * 4 <= t * S
        BY <1>2, ProductLess
      <4>3. t * S = S * t
        BY <1>2
      <4> QED
        BY <1>2, <2>5, <4>1, <4>2, <4>3
    <3> QED
      BY <1>2, <3>5, <3>6, <3>7 DEF S
  <2>6. S * t \in Nat
    BY <1>2
  <2> QED
    BY <1>1, <1>2, <2>4, <2>5, <2>6
<1> QED
  BY <1>2, <1>3, <1>4

LEMMA SmallWhole ==
    ASSUME NEW k \in Nat, k <= DoubleSignificant, k * One <= Infinity
    PROVE  IsDouble(k * One) /\ Multiple(One, k * One)
<1>1. One \in Powers /\ One \in Nat \ {0} /\ DoubleSignificant \in Nat
  BY InPowers, PowersType, Limits
<1>2. One * k <= One * DoubleSignificant
  BY <1>1, ProductLess
<1>3. One * k = k * One /\ One * DoubleSignificant = DoubleSignificant * One /\ k * One \in Nat
  BY <1>1
<1>4. Multiple(One, k * One)
  BY <1>1, MultipleTrivial
<1> QED
  BY <1>1, <1>2, <1>3, <1>4 DEF IsDouble, Held

(* A double below a power of two, multiplied by a whole number, stays below *)
(* the power multiplied by it.                                              *)
LEMMA ProductBelow ==
    ASSUME NEW r, IsDouble(r), NEW p \in Powers, r < p, NEW c \in Nat \ {0},
           IsDouble(c * p), c * p < Infinity
    PROVE  c * r \in Nat /\ c * r < c * p /\ Double(c * r, 1) < c * p
<1> DEFINE S == DoubleSignificant
           n == c * r
           z == Double(n, 1)
           g == p - r
<1>1. /\ r \in Nat /\ p \in Nat \ {0} /\ n \in Nat /\ c * p \in Nat
      /\ S \in Nat /\ 4 <= S /\ Infinity \in Nat \ {0}
      /\ g \in Nat \ {0} /\ p = r + g
  BY InPowers, PowersType, Limits DEF IsDouble
<1>2. n + c <= c * p
  BY <1>1, ProductLess
<1> HIDE DEF S
<1>3. n < 1 * (S * Infinity)
  <2>1. Infinity * 4 <= Infinity * S
    BY <1>1, ProductLess
  <2>2. Infinity * S = S * Infinity /\ S * Infinity \in Nat
    BY <1>1
  <2> QED
    BY <1>1, <1>2, <2>1, <2>2
<1>4. PICK x \in Powers :
         /\ z < Infinity => 2 * (1 * z) <= 2 * n + 1 * x /\ Multiple(x, z)
         /\ x # 1 => 1 * (S * x) <= 2 * n
         /\ \A k : IsDouble(k) => (n <= 1 * k => z <= k)
         /\ IsDouble(z)
  <2>1. 1 \in Nat \ {0}
    OBVIOUS
  <2> QED
    BY <1>1, <1>3, <2>1, DoubleFacts DEF S
<1>5. z \in Nat /\ x \in Nat \ {0}
  BY <1>4, PowersType DEF IsDouble
<1>6. z < Infinity
  <2>1. n <= 1 * (c * p)
    BY <1>1, <1>2
  <2>2. z <= c * p
    BY <1>4, <2>1
  <2> QED
    BY <1>1, <1>5, <2>2
<1> HIDE DEF z
<1>7. 2 * z <= 2 * n + x
  BY <1>4, <1>5, <1>6
<1>8. c * p = n + c * g /\ c * g \in Nat \ {0}
  BY <1>1
<1>9. ASSUME x = 1 PROVE z < c * p
  BY <1>1, <1>5, <1>7, <1>8, <1>9
<1>10. ASSUME x # 1 PROVE z < c * p
  <2>1. S * x <= 2 * n /\ S * x \in Nat
    BY <1>1, <1>4, <1>5, <1>10
  <2>2. g >= p \/ \E t \in Powers : g >= t /\ S * t > r
    BY <1>1, MultipleTrivial, GapBelow DEF S
  <2>3. CASE g >= p
    <3>1. r = 0 /\ n = 0
      BY <1>1, <2>3
    <3>2. S * x >= x
      <4>1. x * 4 <= x * S
        BY <1>1, <1>5, ProductLess
      <4>2. x * S = S * x
        BY <1>1, <1>5
      <4> QED
        BY <1>5, <2>1, <4>1, <4>2
    <3> QED
      BY <1>5, <2>1, <3>1, <3>2
  <2>4. ASSUME NEW t \in Powers, g >= t, S * t > r PROVE z < c * p
    <3>1. t \in Nat \ {0}
      BY PowersType
    <3>2. S * t <= S * g /\ S * g \in Nat /\ S * t \in Nat
      BY <1>1, <2>4, <3>1, ProductLess
    <3>3. c * r + c <= c * (S * g)
      <4>1. r < S * g
        BY <1>1, <2>4, <3>2
      <4> QED
        BY <1>1, <3>2, <4>1, ProductLess
    <3>4. c * (S * g) = S * (c * g)
      BY <1>1
    <3>5. S * x < S * (2 * (c * g))
      <4>1. S * (2 * (c * g)) = 2 * (S * (c * g)) /\ S * (c * g) \in Nat
        BY <1>1, <1>8
      <4> QED
        BY <1>1, <2>1, <3>3, <3>4, <4>1
    <3>6. x < 2 * (c * g)
      <4>1. 2 * (c * g) \in Nat
        BY <1>8
      <4>2. SUFFICES ASSUME 2 * (c * g) <= x PROVE FALSE
        BY <1>5, <4>1
      <4>3. S * (2 * (c * g)) <= S * x
        BY <1>1, <1>5, <4>1, <4>2, ProductLess
      <4>4. S * (2 * (c * g)) \in Nat
        BY <1>1, <4>1
      <4> QED
        BY <2>1, <3>5, <4>3, <4>4
    <3> QED
      BY <1>1, <1>5, <1>7, <1>8, <3>6
  <2> QED
    BY <2>2, <2>3, <2>4
<1>11. z < c * p
  BY <1>9, <1>10
<1> QED
  BY <1>1, <1>2, <1>11 DEF z

-----------------------------------------------------------------------------
(* The arithmetic of double, of whole numbers of units below the limits.    *)
LEMMA InBounds ==
    ASSUME NEW n \in Nat, n <= 2 * Infinity, NEW p \in Nat \ {0}
    PROVE  n < p * (DoubleSignificant * Infinity)
<1> DEFINE S == DoubleSignificant
<1>1. S \in Nat /\ 4 <= S /\ Infinity \in Nat \ {0}
  BY InPowers, PowersType, Limits
<1> HIDE DEF S
<1>2. Infinity * 4 <= Infinity * S
  BY <1>1, ProductLess
<1> DEFINE w == S * Infinity
<1>3. w \in Nat /\ w = Infinity * S
  BY <1>1
<1> HIDE DEF w
<1>4. w * 1 <= w * p
  BY <1>3, ProductLess
<1>5. w * 1 = w /\ w * p = p * w /\ p * w \in Nat
  BY <1>3
<1>6. n < p * w
  BY <1>1, <1>2, <1>3, <1>4, <1>5
<1> QED
  BY <1>6 DEF w, S

LEMMA NotInfinite ==
    ASSUME NEW r \in Int, r < Infinity
    PROVE  r # NaN /\ r # Infinity /\ NaN # Infinity /\ Infinity \in Nat
<1>1. Infinity \in Nat
  BY InPowers, PowersType
<1> QED
  BY <1>1 DEF NaN

LEMMA OneWhole ==
    ASSUME NEW c \in Nat
    PROVE  (c * One) \div One = c /\ One \in Nat \ {0} /\ One \in Powers
<1>1. One \in Nat \ {0} /\ One \in Powers
  BY InPowers, PowersType
<1>2. ((c * One) \div One < c + 1) <=> (c * One < One * (c + 1))
  BY <1>1, c * One \in Nat, DivLess
<1>3. ((c * One) \div One >= c) <=> (c * One >= One * c)
  BY <1>1, c * One \in Nat, DivLess
<1>4. One * (c + 1) = c * One + One /\ One * c = c * One /\ c * One \in Nat
  BY <1>1
<1>5. (c * One) \div One \in Nat
  BY <1>1, <1>4, DivLess
<1> QED
  BY <1>1, <1>2, <1>3, <1>4, <1>5

LEMMA SumFacts ==
    ASSUME NEW x \in Nat, NEW y \in Nat, x < Infinity, y < Infinity
    PROVE  /\ Sum(x, y) = Double(x + y, 1)
           /\ x + y < 1 * (DoubleSignificant * Infinity)
<1>1. Sum(x, y) = Double(x + y, 1)
  BY NotInfinite DEF Sum
<1>2. Infinity \in Nat
  BY NotInfinite
<1>3. x + y \in Nat /\ x + y <= 2 * Infinity /\ 1 \in Nat \ {0}
  BY <1>2
<1> QED
  BY <1>1, <1>3, InBounds

LEMMA TimesFacts ==
    ASSUME NEW x \in Nat, NEW c \in Nat, x < Infinity, c * One < Infinity, c * x < Infinity
    PROVE  Times(x, c * One) = Double(c * x, 1)
<1>1. (c * One) \div One = c /\ One \in Nat \ {0}
  BY OneWhole
<1>2. c * One \in Nat /\ c * x \in Nat
  BY <1>1
<1>3. /\ x # NaN /\ x # Infinity /\ c * One # NaN /\ c * One # Infinity
      /\ Infinity \in Nat
  BY <1>2, NotInfinite
<1>4. CASE x = 0
  <2>1. IsDouble(0)
    <3>1. 0 <= DoubleSignificant * 1 /\ Multiple(1, 0) /\ 1 \in Powers
      BY MultipleTrivial, InPowers, Limits
    <3> QED
      BY <1>3, <3>1 DEF IsDouble, Held
  <2>2. Double(0, 1) = 0
    BY <1>3, <1>4, <2>1, DoubleItself
  <2>3. c * x = 0
    BY <1>4
  <2>4. Times(x, c * One) = 0
    BY <1>3, <1>4 DEF Times
  <2> QED
    BY <2>2, <2>3, <2>4
<1>5. CASE x # 0
  <2> DEFINE q == (2 * Infinity) \div x
  <2>1. x * c = c * x /\ x \in Nat \ {0} /\ 2 * Infinity \in Nat
    BY <1>3, <1>5
  <2>2. q \in Nat /\ ((q >= c) <=> (2 * Infinity >= x * c))
    BY <2>1, DivLess
  <2>3. c <= q
    BY <1>2, <1>3, <2>1, <2>2
  <2>4. ~(c > q)
    BY <2>2, <2>3
  <2>5. Double(x * c, 1) = Double(c * x, 1)
    BY <2>1
  <2>6. ~((c * One) \div One > (2 * Infinity) \div x)
    BY <1>1, <2>4
  <2> QED
    BY <1>1, <1>3, <1>5, <2>5, <2>6 DEF Times
<1> QED
  BY <1>4, <1>5

LEMMA OverFacts ==
    ASSUME NEW x \in Nat, NEW c \in Nat \ {0}, x < Infinity, c * One < Infinity
    PROVE  /\ Over(x, c * One) = Double(x, c)
           /\ x < c * (DoubleSignificant * Infinity)
<1>1. (c * One) \div One = c /\ One \in Nat \ {0}
  BY OneWhole
<1>2. c * One \in Nat
  BY <1>1
<1>3. /\ x # NaN /\ x # Infinity /\ c * One # NaN /\ c * One # Infinity
      /\ Infinity \in Nat
  BY <1>2, NotInfinite
<1>4. Over(x, c * One) = Double(x, c)
  BY <1>1, <1>3 DEF Over
<1>5. x <= 2 * Infinity
  BY <1>3
<1> QED
  BY <1>4, <1>5, InBounds

(* The whole part of a double, and what exceeds it.                         *)
LEMMA WholePart ==
    ASSUME NEW x, IsDouble(x), x < Infinity
    PROVE  /\ x \div One \in Nat /\ Truncated(x) \in Nat /\ Truncated(x) <= x
           /\ Rest(x) = x - Truncated(x) /\ Rest(x) \in Nat /\ Rest(x) < One
           /\ IsDouble(Rest(x)) /\ IsDouble(Truncated(x)) /\ Multiple(One, Truncated(x))
<1> DEFINE q == x \div One
           w == Truncated(x)
           r == x - w
<1>1. x \in Nat /\ One \in Powers /\ One \in Nat \ {0} /\ DoubleSignificant \in Nat
      /\ Infinity \in Nat
  BY OneWhole, Limits, NotInfinite DEF IsDouble
<1>2. q \in Nat /\ One * q <= x /\ x < One * q + One
      /\ \A c \in Nat : ((q >= c) <=> (x >= One * c))
  BY <1>1, DivLess
<1>3. w = q * One
  BY DEF Truncated
<1> HIDE DEF q, w
<1>4. w = One * q /\ w \in Nat /\ w <= x /\ x < w + One
  BY <1>1, <1>2, <1>3
<1>5. r \in Nat /\ r <= x /\ r < One /\ x = w + r
  BY <1>1, <1>4
<1>6. Multiple(One, w)
  BY <1>2, <1>3 DEF Multiple
<1>7. PICK t \in Powers : Multiple(t, x) /\ x <= DoubleSignificant * t
  BY DEF IsDouble, Held
<1>8. t \in Nat \ {0} /\ DoubleSignificant * t \in Nat
  BY <1>1, PowersType
<1>9. IsDouble(w) /\ IsDouble(r)
  <2>1. CASE t <= One
    <3>1. Multiple(t, One)
      BY <1>1, <2>1, PowersChain
    <3>2. Multiple(t, w)
      BY <1>1, <1>4, <1>6, <1>8, <3>1, MultipleOf
    <3>3. Multiple(t, r)
      BY <1>1, <1>4, <1>7, <1>8, <3>2, MultipleSum
    <3> QED
      BY <1>1, <1>4, <1>5, <1>7, <1>8, <3>2, <3>3 DEF IsDouble, Held
  <2>2. CASE One <= t
    <3>1. Multiple(One, t)
      BY <1>1, <2>2, PowersChain
    <3>2. Multiple(One, x)
      BY <1>1, <1>7, <1>8, <3>1, MultipleOf
    <3>3. w = x
      <4>1. ~(w < x)
        <5>1. w < x => w + One <= x
          BY <1>1, <1>4, <1>6, <3>2, MultipleSum
        <5> QED
          BY <1>1, <1>4, <5>1
      <4> QED
        BY <1>1, <1>4, <4>1
    <3>4. r = 0
      BY <1>1, <3>3
    <3>5. 0 <= DoubleSignificant * 1 /\ Multiple(1, 0) /\ 1 \in Powers
      BY <1>1, MultipleTrivial, InPowers
    <3> HIDE DEF r
    <3> QED
      BY <1>1, <3>3, <3>4, <3>5 DEF IsDouble, Held
  <2> QED
    BY <1>1, <1>8, <2>1, <2>2
<1>10. Rest(x) = r
  <2>1. Difference(x, w) = Double(r, 1)
    BY <1>1, NotInfinite DEF Difference
  <2>2. Double(r, 1) = r
    BY <1>1, <1>5, <1>9, DoubleItself
  <2> QED
    BY <2>1, <2>2 DEF Rest, w
<1> QED
  BY <1>2, <1>4, <1>5, <1>6, <1>9, <1>10 DEF q, w

-----------------------------------------------------------------------------
(* The arithmetic of the coordinates.                                       *)
LEMMA DegreeLimits ==
    /\ MaxDegrees \in Nat /\ One \in Nat /\ DoubleSignificant \in Nat /\ Infinity \in Nat
    /\ 50 < One /\ DoubleSignificant <= 2 * One
    /\ 100 * ((MaxDegrees + 1) * One) + One <= DoubleSignificant * One
    /\ 100 * ((MaxDegrees + 1) * One) < Infinity /\ 3600 * One < Infinity
    /\ \A k \in 0 .. 100 * (MaxDegrees + 1) :
          IsDouble(k * One) /\ k * One < Infinity /\ Multiple(One, k * One)
<1> DEFINE S == DoubleSignificant
           O == One
           k100 == 100 * (MaxDegrees + 1)
<1>1. /\ MaxDegrees \in Nat /\ O \in Nat \ {0} /\ S \in Nat /\ Infinity \in Nat
      /\ k100 < S /\ k100 * O < Infinity /\ S <= 2 * O /\ k100 \in Nat \ {0} /\ 100 <= k100
      /\ 3600 * O < Infinity
  BY DegreesAssumption, OneWhole, Limits, NotInfinite
<1> HIDE DEF S, O
<1>2. 50 < O
  BY <1>1
<1>3. k100 * O = 100 * ((MaxDegrees + 1) * O)
  BY <1>1
<1>4. k100 * O + O <= S * O
  <2>1. O * k100 + O <= O * S
    BY <1>1, ProductLess
  <2>2. O * k100 = k100 * O /\ O * S = S * O
    BY <1>1
  <2> QED
    BY <2>1, <2>2
<1>5. ASSUME NEW k \in 0 .. k100
      PROVE  IsDouble(k * O) /\ k * O < Infinity /\ Multiple(O, k * O)
  <2>1. k \in Nat /\ k <= S /\ k <= k100
    BY <1>1
  <2>2. O * k <= O * k100
    BY <1>1, <2>1, ProductLess
  <2>3. O * k = k * O /\ O * k100 = k100 * O /\ k * O \in Nat /\ k100 * O \in Nat
    BY <1>1, <2>1
  <2>4. k * O < Infinity
    BY <1>1, <2>2, <2>3
  <2> QED
    BY <1>1, <2>1, <2>4, SmallWhole DEF S, O
<1> QED
  BY <1>1, <1>2, <1>3, <1>4, <1>5 DEF S, O

LEMMA MinutesFacts ==
    ASSUME NEW x, IsDouble(x), x < Infinity, NEW r, IsDouble(r), r < One
    PROVE  /\ Times(r, 60 * One) = Double(60 * r, 1)
           /\ IsDouble(Double(60 * r, 1)) /\ Double(60 * r, 1) < 60 * One
           /\ MinutesOf(x) = Double(60 * Rest(x), 1)
<1>1. /\ IsDouble(60 * One) /\ 60 * One < Infinity /\ One \in Powers /\ Infinity \in Nat
      /\ One \in Nat
  BY DegreeLimits, OneWhole, 60 \in 0 .. 100 * (MaxDegrees + 1)
<1>2. ASSUME NEW y, IsDouble(y), y < One
      PROVE  /\ Times(y, 60 * One) = Double(60 * y, 1)
             /\ IsDouble(Double(60 * y, 1)) /\ Double(60 * y, 1) < 60 * One
  <2>1. y \in Nat
    BY <1>2 DEF IsDouble
  <2>2. 60 * y \in Nat /\ 60 * y < 60 * One /\ y < Infinity /\ 60 * One \in Nat
    BY <1>1, <1>2, <2>1
  <2>3. Double(60 * y, 1) < 60 * One
    BY <1>1, <1>2, ProductBelow
  <2>4. 60 * y < 1 * (DoubleSignificant * Infinity)
    BY <1>1, <2>2, InBounds
  <2>5. IsDouble(Double(60 * y, 1))
    BY <2>2, <2>4, DoubleFacts
  <2>6. Times(y, 60 * One) = Double(60 * y, 1)
    BY <1>1, <2>1, <2>2, TimesFacts
  <2> QED
    BY <2>3, <2>5, <2>6
<1>3. MinutesOf(x) = Double(60 * Rest(x), 1)
  <2>1. IsDouble(Rest(x)) /\ Rest(x) < One
    BY WholePart
  <2> QED
    BY <1>2, <2>1 DEF MinutesOf
<1> QED
  BY <1>2, <1>3

(* A hundredth of less than k hundred is not rounded up to k.               *)
LEMMA QuotientBelow ==
    ASSUME NEW n, IsDouble(n), NEW k \in 1 .. MaxDegrees + 1, n < 100 * (k * One)
    PROVE  Double(n, 100) < k * One
<1> DEFINE S == DoubleSignificant
           O == One
           w == 100 * (k * O)
           z == Double(n, 100)
           g == w - n
<1>1. /\ MaxDegrees \in Nat /\ k \in Nat /\ O \in Nat /\ S \in Nat /\ Infinity \in Nat
      /\ 50 < O /\ S <= 2 * O /\ 100 * ((MaxDegrees + 1) * O) + O <= S * O
      /\ IsDouble(k * O) /\ k * O < Infinity
      /\ n \in Nat /\ O \in Powers /\ S \in Powers
  BY DegreeLimits, OneWhole, InPowers, k \in 0 .. 100 * (MaxDegrees + 1) DEF IsDouble
<1>2. 100 * (k * O) \in Nat /\ n <= Infinity /\ k * O \in Nat
  BY <1>1 DEF IsDouble
<1>3. n < 100 * (S * Infinity)
  BY <1>1, <1>2, InBounds
<1>4. PICK x \in Powers :
         /\ z < Infinity => 2 * (100 * z) <= 2 * n + 100 * x
         /\ x # 1 => 100 * (S * x) <= 2 * n
         /\ \A r : IsDouble(r) => (n <= 100 * r => z <= r)
         /\ IsDouble(z)
  BY <1>1, <1>3, DoubleFacts
<1>5. z \in Nat /\ x \in Nat \ {0}
  BY <1>4, PowersType DEF IsDouble
<1>6. z <= k * O
  <2>1. n <= 100 * (k * O)
    BY <1>1, <1>2
  <2> QED
    BY <1>1, <1>4, <2>1
<1> HIDE DEF S, O, z
<1>7. 2 * (100 * z) <= 2 * n + 100 * x
  BY <1>1, <1>2, <1>4, <1>5, <1>6
<1>8. g \in Nat \ {0} /\ w = n + g /\ w \in Nat /\ Multiple(O, w)
  <2>1. w = (100 * k) * O /\ 100 * k \in Nat
    BY <1>1
  <2>2. n < w
    BY DEF O
  <2> QED
    BY <1>1, <1>2, <2>1, <2>2 DEF Multiple
<1>9. O <= k * O /\ k * O <= (MaxDegrees + 1) * O
  <2>1. O * 1 <= O * k /\ O * k <= O * (MaxDegrees + 1)
    BY <1>1, ProductLess
  <2>2. O * 1 = O /\ O * k = k * O /\ O * (MaxDegrees + 1) = (MaxDegrees + 1) * O
    BY <1>1
  <2> QED
    BY <2>1, <2>2
<1>10. 100 * O <= w /\ w < S * O
  <2>1. (MaxDegrees + 1) * O \in Nat /\ k * O \in Nat /\ S * O \in Nat
    BY <1>1
  <2> QED
    BY <1>1, <1>9, <2>1
<1>11. g >= O \/ \E t \in Powers : g >= t /\ S * t > n
  BY <1>1, <1>8, GapBelow DEF S
<1>12. ASSUME NEW c \in Nat, x # 1, n < S * c PROVE 50 * x < c
  <2>1. S * x \in Nat /\ S * c \in Nat /\ 100 * (S * x) <= 2 * n /\ 50 * x \in Nat
    BY <1>1, <1>4, <1>5, <1>12
  <2>2. SUFFICES ASSUME c <= 50 * x PROVE FALSE
    BY <2>1
  <2>3. S * c <= S * (50 * x)
    BY <1>1, <2>1, <2>2, ProductLess
  <2>4. S * (50 * x) = 50 * (S * x)
    BY <1>1, <1>5
  <2> QED
    BY <1>1, <1>12, <2>1, <2>3, <2>4
<1>13. ASSUME g >= O PROVE 50 * x < g
  <2>1. n < S * O
    BY <1>1, <1>8, <1>10
  <2>2. x # 1 => 50 * x < O
    BY <1>1, <1>12, <2>1
  <2> QED
    BY <1>1, <1>5, <1>8, <1>13, <2>2
<1>14. ASSUME NEW t \in Powers, g >= t, S * t > n PROVE 50 * x < g
  <2>1. t \in Nat \ {0} /\ S * t \in Nat
    BY <1>1, PowersType
  <2>2. CASE x # 1
    <3>1. 50 * x < t
      BY <1>12, <1>14, <2>1, <2>2
    <3> QED
      BY <1>5, <1>8, <1>14, <2>1, <3>1
  <2>3. CASE x = 1
    <3>1. SUFFICES ASSUME g <= 50 PROVE FALSE
      BY <1>8, <2>3
    <3>2. t > 49
      <4>1. SUFFICES ASSUME t <= 49 PROVE FALSE
        BY <2>1
      <4>2. t * S <= t * (2 * O)
        BY <1>1, <2>1, ProductLess
      <4>3. O * t <= O * 49
        BY <1>1, <2>1, <4>1, ProductLess
      <4>4. t * S = S * t /\ t * (2 * O) = 2 * (O * t) /\ O * t \in Nat
        BY <1>1, <2>1
      <4> QED
        BY <1>1, <1>8, <1>10, <1>14, <2>1, <3>1, <4>2, <4>3, <4>4
    <3>3. t # 50
      <4>1. SUFFICES ASSUME t = 50 PROVE FALSE
        OBVIOUS
      <4>2. PICK h \in Powers : t = 2 * h
        BY <4>1, PowersHalf
      <4>3. h \in Nat \ {0} /\ h = 25
        BY <4>1, <4>2, PowersType
      <4>4. PICK u \in Powers : h = 2 * u
        BY <4>3, PowersHalf
      <4>5. u \in Nat
        BY PowersType
      <4> QED
        BY <4>3, <4>4, <4>5
    <3> QED
      BY <1>8, <1>14, <2>1, <3>1, <3>2, <3>3
  <2> QED
    BY <2>2, <2>3
<1>15. 50 * x < g
  BY <1>11, <1>13, <1>14
<1>16. z < k * O
  <2> DEFINE y == k * O
  <2>1. y \in Nat /\ 100 * y = n + g
    BY <1>2, <1>8 DEF O
  <2>2. n \in Nat /\ g \in Nat
    BY <1>1, <1>8
  <2> HIDE DEF g, y
  <2>3. z < y
    BY <1>5, <1>7, <1>15, <2>1, <2>2
  <2> QED
    BY <2>3 DEF y
<1> QED
  BY <1>16 DEF z, O

-----------------------------------------------------------------------------
(* Degrees and minutes in one number, and taken apart again.                *)
LEMMA HundredTimes ==
    ASSUME NEW k \in 0 .. MaxDegrees + 1
    PROVE  /\ k * One \in Nat /\ IsDouble(k * One) /\ k * One < Infinity
           /\ Times(k * One, 100 * One) = 100 * (k * One)
           /\ IsDouble(100 * (k * One)) /\ 100 * (k * One) < Infinity
<1>1. MaxDegrees \in Nat /\ One \in Nat /\ Infinity \in Nat
  BY DegreeLimits
<1>2. k \in Nat /\ 100 * k \in 0 .. 100 * (MaxDegrees + 1) /\ k \in 0 .. 100 * (MaxDegrees + 1)
      /\ 100 \in 0 .. 100 * (MaxDegrees + 1)
  BY <1>1
<1>3. /\ IsDouble(k * One) /\ k * One < Infinity /\ 100 * One < Infinity
      /\ IsDouble((100 * k) * One) /\ (100 * k) * One < Infinity
  <2>1. \A j \in 0 .. 100 * (MaxDegrees + 1) : IsDouble(j * One) /\ j * One < Infinity
    BY DegreeLimits
  <2> DEFINE j == 100 * k
  <2>2. j \in 0 .. 100 * (MaxDegrees + 1)
    BY <1>2
  <2> HIDE DEF j
  <2>3. IsDouble(j * One) /\ j * One < Infinity
    BY <2>1, <2>2
  <2> QED
    BY <1>2, <2>1, <2>3 DEF j
<1>4. (100 * k) * One = 100 * (k * One) /\ k * One \in Nat /\ 100 * (k * One) \in Nat
  BY <1>1, <1>2
<1>5. Times(k * One, 100 * One) = Double(100 * (k * One), 1)
  BY <1>3, <1>4, TimesFacts
<1>6. Double(100 * (k * One), 1) = 100 * (k * One)
  BY <1>3, <1>4, DoubleItself
<1> QED
  BY <1>3, <1>4, <1>5, <1>6

ToNMEA(x) == Sum(Times(Truncated(x), 100 * One), MinutesOf(x))

LEMMA ToNMEAFacts ==
    ASSUME NEW x, IsDouble(x), x <= MaxDegrees * One
    PROVE  /\ x < Infinity
           /\ x \div One \in 0 .. MaxDegrees
           /\ MinutesOf(x) = Double(60 * Rest(x), 1)
           /\ IsDouble(MinutesOf(x)) /\ MinutesOf(x) < 60 * One
           /\ ToNMEA(x) = Double(100 * Truncated(x) + MinutesOf(x), 1)
           /\ IsDouble(ToNMEA(x))
           /\ 100 * Truncated(x) <= ToNMEA(x) /\ ToNMEA(x) <= 100 * Truncated(x) + 60 * One
           /\ 100 * Truncated(x) + 60 * One <= 100 * ((MaxDegrees + 1) * One)
           /\ 100 * Truncated(x) + MinutesOf(x) < 1 * (DoubleSignificant * Infinity)
<1> DEFINE D == x \div One
           w == Truncated(x)
           t == MinutesOf(x)
           z == ToNMEA(x)
<1>1. /\ MaxDegrees \in Nat /\ One \in Nat /\ One \in Nat \ {0} /\ Infinity \in Nat
      /\ x \in Nat /\ MaxDegrees + 1 \in 0 .. MaxDegrees + 1
      /\ MaxDegrees \in 0 .. MaxDegrees + 1
  BY DegreeLimits, OneWhole DEF IsDouble
<1>2. MaxDegrees * One < Infinity /\ MaxDegrees * One \in Nat
  BY <1>1, HundredTimes
<1>3. x < Infinity
  BY <1>1, <1>2
<1>4. /\ D \in Nat /\ w \in Nat /\ w <= x /\ Rest(x) = x - w /\ Rest(x) \in Nat
      /\ Rest(x) < One /\ IsDouble(Rest(x)) /\ w = D * One
  BY <1>3, WholePart DEF Truncated
<1>5. D <= MaxDegrees
  <2>1. (D < MaxDegrees + 1) <=> (x < One * (MaxDegrees + 1))
    BY <1>1, DivLess
  <2>2. One * (MaxDegrees + 1) = MaxDegrees * One + One
    BY <1>1
  <2> QED
    BY <1>1, <1>2, <1>4, <2>1, <2>2
<1>6. t = Double(60 * Rest(x), 1) /\ IsDouble(t) /\ t < 60 * One
  BY <1>3, <1>4, MinutesFacts
<1>7. /\ IsDouble(D * One) /\ Times(w, 100 * One) = 100 * w
      /\ IsDouble(100 * w) /\ 100 * w < Infinity
  <2>1. D \in 0 .. MaxDegrees + 1
    BY <1>1, <1>4, <1>5
  <2> HIDE DEF D, w
  <2> QED
    BY <1>4, <2>1, HundredTimes
<1>8. (100 * D + 60) * One = 100 * w + 60 * One /\ 100 * D + 60 \in 0 .. 100 * (MaxDegrees + 1)
  BY <1>1, <1>4, <1>5
<1>9. IsDouble(100 * w + 60 * One) /\ 100 * w + 60 * One < Infinity
  BY <1>8, DegreeLimits
<1> HIDE DEF D, w, t
<1>10. t \in Nat /\ 100 * w \in Nat /\ 60 * One \in Nat
  BY <1>1, <1>4, <1>6 DEF IsDouble
<1>11. t < Infinity
  BY <1>1, <1>6, <1>9, <1>10
<1>12. z = Double(100 * w + t, 1) /\ 100 * w + t < 1 * (DoubleSignificant * Infinity)
  BY <1>7, <1>10, <1>11, SumFacts DEF ToNMEA, w, t
<1> HIDE DEF z
<1>13. IsDouble(z) /\ \A r : IsDouble(r) =>
          (100 * w + t <= 1 * r => z <= r) /\ (100 * w + t >= 1 * r => z >= r)
  <2>1. 100 * w + t \in Nat /\ 1 \in Nat \ {0}
    BY <1>10
  <2> QED
    BY <1>12, <2>1, DoubleFacts
<1>14. 100 * w <= z
  <2>1. 100 * w + t >= 1 * (100 * w)
    BY <1>10
  <2>2. z >= 100 * w
    BY <1>7, <1>13, <2>1
  <2>3. z \in Nat
    BY <1>13 DEF IsDouble
  <2> QED
    BY <1>10, <2>2, <2>3
<1>15. z <= 100 * w + 60 * One
  <2>1. 100 * w + t <= 1 * (100 * w + 60 * One)
    BY <1>6, <1>10
  <2> QED
    BY <1>9, <1>13, <2>1
<1>16. 100 * w + 60 * One <= 100 * ((MaxDegrees + 1) * One)
  <2>1. One * D <= One * MaxDegrees /\ One * D = w
    BY <1>1, <1>4, <1>5, ProductLess
  <2>2. (MaxDegrees + 1) * One = One * MaxDegrees + One /\ One * MaxDegrees \in Nat
    BY <1>1
  <2> QED
    BY <1>1, <1>4, <2>1, <2>2
<1> QED
  BY <1>1, <1>3, <1>4, <1>5, <1>6, <1>12, <1>13, <1>14, <1>15, <1>16 DEF D, w, t, z

LEMMA WholeDegreesFacts ==
    ASSUME IsDouble(nmea), nmea <= 100 * ((MaxDegrees + 1) * One)
    PROVE  \E k \in 0 .. MaxDegrees + 1 :
              /\ WholeDegrees = k * One
              /\ NmeaMinutes = nmea - 100 * (k * One) /\ NmeaMinutes \in Nat
              /\ NmeaMinutes < 100 * One
<1> DEFINE z == Double(nmea, 100)
           k == z \div One
<1>1. /\ MaxDegrees \in Nat /\ One \in Nat \ {0} /\ One \in Nat /\ Infinity \in Nat /\ nmea \in Nat
      /\ 100 * ((MaxDegrees + 1) * One) < Infinity
      /\ MaxDegrees + 1 \in 0 .. MaxDegrees + 1
  BY DegreeLimits, OneWhole DEF IsDouble
<1>2. nmea < Infinity /\ 100 * One < Infinity /\ 100 * ((MaxDegrees + 1) * One) \in Nat
  BY <1>1, DegreeLimits, 100 \in 0 .. 100 * (MaxDegrees + 1)
<1>3. Over(nmea, 100 * One) = z /\ nmea < 100 * (DoubleSignificant * Infinity)
  BY <1>1, <1>2, OverFacts, 100 \in Nat \ {0}
<1>4. IsDouble(z) /\ \A r : IsDouble(r) =>
          (nmea <= 100 * r => z <= r) /\ (nmea >= 100 * r => z >= r)
  BY <1>1, <1>3, DoubleFacts, 100 \in Nat \ {0}
<1>5. z <= (MaxDegrees + 1) * One
  BY <1>1, <1>4, HundredTimes
<1>6. z < Infinity /\ z \in Nat
  BY <1>1, <1>4, <1>5, HundredTimes DEF IsDouble
<1>7. WholeDegrees = k * One
  BY <1>3 DEF WholeDegrees, Truncated
<1> HIDE DEF z
<1>8. k \in Nat /\ One * k <= z /\ z < One * k + One
      /\ ((k < MaxDegrees + 2) <=> (z < One * (MaxDegrees + 2)))
  BY <1>1, <1>6, DivLess
<1>9. k <= MaxDegrees + 1
  <2>1. One * (MaxDegrees + 2) = (MaxDegrees + 1) * One + One /\ (MaxDegrees + 1) * One \in Nat
    BY <1>1
  <2> QED
    BY <1>1, <1>5, <1>6, <1>8, <2>1
<1> HIDE DEF k
<1>10. k \in 0 .. MaxDegrees + 1
  BY <1>1, <1>8, <1>9
<1>11. k * One \in Nat /\ One * k = k * One /\ Times(k * One, 100 * One) = 100 * (k * One)
  BY <1>1, <1>8, <1>10, HundredTimes
<1>12. NmeaMinutes = nmea - 100 * (k * One)
  BY <1>7, <1>11 DEF NmeaMinutes
<1>13. 100 * (k * One) <= nmea
  <2>1. SUFFICES ASSUME nmea < 100 * (k * One) PROVE FALSE
    BY <1>1, <1>11
  <2>2. k \in 1 .. MaxDegrees + 1
    BY <1>1, <1>10, <2>1
  <2>3. z < k * One
    BY <2>1, <2>2, QuotientBelow DEF z
  <2> QED
    BY <1>6, <1>8, <1>11, <2>3
<1>14. nmea < 100 * (k * One) + 100 * One
  <2>1. SUFFICES ASSUME 100 * (k * One) + 100 * One <= nmea PROVE FALSE
    BY <1>1, <1>11
  <2>2. (k + 1) * One = k * One + One
    BY <1>1, <1>8
  <2>3. k + 1 \in 0 .. MaxDegrees + 1
    <3>1. 100 * (k * One) + 100 * One <= 100 * ((MaxDegrees + 1) * One)
      BY <1>1, <1>2, <1>11, <2>1
    <3>2. (k + 1) * One <= (MaxDegrees + 1) * One
      BY <1>1, <1>11, <2>2, <3>1
    <3>3. One * (k + 1) <= One * (MaxDegrees + 1)
      BY <1>1, <1>8, <3>2
    <3>4. k + 1 <= MaxDegrees + 1
      BY <1>1, <1>8, <3>3, ProductLess
    <3> QED
      BY <1>1, <1>8, <3>4
  <2>4. IsDouble((k + 1) * One)
    BY <2>3, HundredTimes
  <2>5. nmea >= 100 * ((k + 1) * One)
    BY <1>1, <1>11, <2>1, <2>2
  <2>6. z >= (k + 1) * One
    BY <1>4, <2>4, <2>5
  <2> QED
    BY <1>1, <1>6, <1>8, <1>11, <2>2, <2>6
<1>15. NmeaMinutes \in Nat /\ NmeaMinutes < 100 * One
  BY <1>1, <1>11, <1>12, <1>13, <1>14
<1> QED
  BY <1>7, <1>10, <1>12, <1>15

-----------------------------------------------------------------------------
(* The coordinate conversions.  The inductive invariant: positions and      *)
(* coordinates are doubles within their range, the hemisphere is that of    *)
(* the position, and a text is what the conversion has made of the          *)
(* degrees, minutes and seconds in hand.                                    *)
PositionInv ==
    /\ deg \in Int /\ Abs(deg) <= MaxDegrees * One /\ IsDouble(Abs(deg))
    /\ is_lat \in BOOLEAN
    /\ nmea \in Int
    /\ nmea >= 0 => IsDouble(nmea) /\ nmea <= 100 * ((MaxDegrees + 1) * One)
    /\ hemisphere \in Hemispheres \cup {"X", "NONE"}
    /\ stage \in {"DECIMAL", "NMEA", "DMS", "DONE", "WRITTEN", "REFUSED"}
    /\ stage \in {"DMS", "WRITTEN"} => hemisphere = Hemisphere
    /\ minutes \in Nat
    /\ d \in 0 .. MaxDegrees /\ m \in 0 .. 59 /\ IsDouble(s) /\ s < 60 * One
    /\ stage = "WRITTEN" =>
           /\ buf_size \in TextSizes
           /\ \E seconds \in Seconds : buf = Assembled(PiecesFor(seconds), buf_size)

LEMMA ZeroIsDouble == IsDouble(0)
<1>1. 0 <= DoubleSignificant * 1 /\ Multiple(1, 0) /\ 1 \in Powers /\ Infinity \in Nat
  BY MultipleTrivial, InPowers, Limits, NotInfinite
<1> QED
  BY <1>1 DEF IsDouble, Held

LEMMA PositionInit_Inv ==
    ASSUME PositionInit
    PROVE  PositionInv
<1>1. /\ MaxDegrees \in Nat /\ One \in Nat /\ Infinity \in Nat /\ IsDouble(0)
      /\ 0 < One /\ MaxDegrees * One \in Nat
  BY DegreeLimits, ZeroIsDouble
<1>2. /\ MaxDegrees * One < Infinity
      /\ 100 * MaxDegrees * One <= 100 * ((MaxDegrees + 1) * One)
      /\ 100 * ((MaxDegrees + 1) * One) < Infinity
  <2>1. (MaxDegrees + 1) * One = MaxDegrees * One + One
    BY <1>1
  <2>2. 100 * MaxDegrees * One = 100 * (MaxDegrees * One)
    BY <1>1
  <2>3. 100 * ((MaxDegrees + 1) * One) < Infinity
    BY DegreeLimits
  <2> QED
    BY <1>1, <2>1, <2>2, <2>3
<1>3. deg \in Int /\ Abs(deg) <= MaxDegrees * One /\ IsDouble(Abs(deg))
  <2>1. CASE deg \in Positions
    <3>1. deg \in Int /\ Abs(deg) <= MaxDegrees * One /\ Double(Abs(deg), 1) = Abs(deg)
      BY <2>1, PositionsAssumption
    <3>2. Abs(deg) \in Nat
      BY <3>1 DEF Abs
    <3>3. Abs(deg) < Infinity
      BY <1>1, <1>2, <3>1, <3>2
    <3> QED
      BY <3>1, <3>2, <3>3, DoubleItself
  <2>2. CASE deg = 0
    BY <1>1, <2>2 DEF Abs
  <2> QED
    BY <2>1, <2>2 DEF PositionInit
<1>4. nmea \in Int /\ (nmea >= 0 => IsDouble(nmea) /\ nmea <= 100 * ((MaxDegrees + 1) * One))
  <2>1. CASE nmea \in Arriving
    <3>1. nmea \in Int /\ (nmea >= 0 => nmea <= 100 * MaxDegrees * One /\ Double(nmea, 1) = nmea)
      BY <2>1, PositionsAssumption
    <3>2. ASSUME nmea >= 0
          PROVE  nmea \in Nat /\ nmea < Infinity /\ nmea <= 100 * ((MaxDegrees + 1) * One)
      <4> DEFINE p == 100 * MaxDegrees * One
                 n == 100 * ((MaxDegrees + 1) * One)
      <4>1. p \in Nat /\ n \in Nat /\ p <= n /\ n < Infinity /\ nmea <= p
        BY <1>1, <1>2, <3>1, <3>2
      <4> HIDE DEF p, n
      <4>2. nmea \in Nat /\ nmea < Infinity /\ nmea <= n
        BY <1>1, <3>1, <3>2, <4>1
      <4> QED
        BY <4>2 DEF n
    <3> QED
      BY <3>1, <3>2, DoubleItself
  <2>2. CASE nmea = 0
    BY <1>1, <2>2
  <2> QED
    BY <2>1, <2>2 DEF PositionInit
<1>5. /\ hemisphere \in Hemispheres \cup {"X", "NONE"} /\ stage \in {"DECIMAL", "NMEA"}
      /\ is_lat \in BOOLEAN /\ minutes = 0 /\ d = 0 /\ m = 0 /\ s = 0
  BY DEF PositionInit
<1>6. s < 60 * One /\ d \in 0 .. MaxDegrees
  BY <1>1, <1>5
<1> QED
  BY <1>1, <1>3, <1>4, <1>5, <1>6 DEF PositionInv

LEMMA PositionNext_Inv ==
    ASSUME PositionInv, [PositionNext]_position_vars
    PROVE  PositionInv'
<1> DEFINE A == Abs(deg)
<1>1. /\ MaxDegrees \in Nat /\ One \in Nat \ {0} /\ One \in Nat /\ Infinity \in Nat
      /\ deg \in Int /\ A <= MaxDegrees * One /\ IsDouble(A)
  BY DegreeLimits, OneWhole DEF PositionInv
<1>2. CASE DecimalDegrees_ToNMEA
  <2>1. nmea' = ToNMEA(A)
    BY <1>2 DEF DecimalDegrees_ToNMEA, ToNMEA
  <2>2. IsDouble(ToNMEA(A)) /\ ToNMEA(A) <= 100 * ((MaxDegrees + 1) * One)
    <3> HIDE DEF A
    <3> DEFINE z == ToNMEA(A)
               p == 100 * Truncated(A) + 60 * One
               n == 100 * ((MaxDegrees + 1) * One)
    <3>1. IsDouble(z) /\ z <= p /\ p <= n /\ A < Infinity
      BY <1>1, ToNMEAFacts
    <3>2. Truncated(A) \in Nat
      BY <1>1, <3>1, WholePart
    <3>3. z \in Nat /\ p \in Nat /\ n \in Nat
      BY <1>1, <3>1, <3>2 DEF IsDouble
    <3> HIDE DEF z, p, n
    <3>4. z <= n
      BY <3>1, <3>3
    <3> QED
      BY <3>1, <3>4 DEF z, n
  <2>3. IsDouble(nmea') /\ nmea' <= 100 * ((MaxDegrees + 1) * One) /\ nmea' \in Int
    BY <2>1, <2>2 DEF IsDouble
  <2>4. hemisphere' \in Hemispheres \cup {"X", "NONE"} /\ stage' = "NMEA"
    BY <1>2 DEF DecimalDegrees_ToNMEA, Hemisphere, Hemispheres
  <2> QED
    BY <1>2, <2>3, <2>4
    DEF PositionInv, DecimalDegrees_ToNMEA, position, dms, written, Hemisphere, Seconds,
        PiecesFor
<1>3. CASE NMEA_ToDecimalDegrees
  <2>1. minutes' \in Nat
    <3>1. IsDouble(nmea) /\ nmea <= 100 * ((MaxDegrees + 1) * One)
      BY <1>3 DEF PositionInv, NMEA_ToDecimalDegrees
    <3>2. NmeaMinutes \in Nat
      BY <3>1, WholeDegreesFacts
    <3> QED
      BY <1>3, <3>2 DEF NMEA_ToDecimalDegrees
  <2> QED
    BY <1>3, <2>1 DEF PositionInv, NMEA_ToDecimalDegrees, position, dms, written
<1>4. CASE Refused
  BY <1>4 DEF PositionInv, Refused, position, dms, written
<1>5. CASE DecimalToDMS
  <2> DEFINE r == MinutesOf(A)
  <2> HIDE DEF A
  <2>1. /\ A < Infinity /\ A \div One \in 0 .. MaxDegrees
        /\ IsDouble(r) /\ r < 60 * One
    BY <1>1, ToNMEAFacts
  <2>2. 60 * One < Infinity
    BY DegreeLimits, 60 \in 0 .. 100 * (MaxDegrees + 1)
  <2> HIDE DEF r
  <2>3. r < Infinity /\ r \in Nat
    BY <1>1, <2>1, <2>2 DEF IsDouble
  <2>4. r \div One \in 0 .. 59
    <3>1. /\ r \div One \in Nat
          /\ ((r \div One < 60) <=> (r < One * 60))
      BY <1>1, <2>3, DivLess
    <3>2. One * 60 = 60 * One
      BY <1>1
    <3> QED
      BY <2>1, <3>1, <3>2
  <2>5. IsDouble(Rest(r)) /\ Rest(r) < One
    BY <2>1, <2>3, WholePart
  <2>6. IsDouble(Times(Rest(r), 60 * One)) /\ Times(Rest(r), 60 * One) < 60 * One
    BY <1>1, <2>1, <2>5, MinutesFacts
  <2>7. d' \in 0 .. MaxDegrees /\ m' \in 0 .. 59 /\ IsDouble(s') /\ s' < 60 * One
    BY <1>5, <2>1, <2>4, <2>6 DEF DecimalToDMS, A, r
  <2>8. hemisphere' = Hemisphere' /\ hemisphere' \in Hemispheres \cup {"X", "NONE"}
        /\ stage' = "DMS"
    BY <1>5 DEF DecimalToDMS, Hemisphere, Hemispheres, position
  <2> QED
    BY <1>5, <2>7, <2>8 DEF PositionInv, DecimalToDMS, position, written
<1>6. CASE DMSToDecimal
  BY <1>6 DEF PositionInv, DMSToDecimal, position, dms, written
<1>7. CASE FormatCoordinate
  <2>1. PICK size \in TextSizes, seconds \in Seconds :
           buf' = Assembled(PiecesFor(seconds), size) /\ buf_size' = size
    BY <1>7 DEF FormatCoordinate
  <2>2. /\ stage = "DMS" /\ stage' = "WRITTEN"
        /\ UNCHANGED <<position, hemisphere, nmea, minutes, dms, back>>
    BY <1>7 DEF FormatCoordinate
  <2>3. Seconds' = Seconds /\ PiecesFor(seconds)' = PiecesFor(seconds)
        /\ Hemisphere' = Hemisphere
    BY <2>2 DEF Seconds, PiecesFor, dms, Hemisphere, position
  <2>4. buf_size' \in TextSizes /\ \E x \in Seconds' : buf' = Assembled(PiecesFor(x), size)'
    BY <2>1, <2>2, <2>3 DEF PiecesFor, dms
  <2> QED
    BY <2>1, <2>2, <2>3, <2>4 DEF PositionInv, position, dms, PiecesFor
<1>8. CASE UNCHANGED position_vars
  BY <1>8 DEF PositionInv, position_vars, position, dms, written, Hemisphere, Seconds, PiecesFor
<1> QED
  BY <1>2, <1>3, <1>4, <1>5, <1>6, <1>7, <1>8 DEF PositionNext, Finished

LEMMA PositionInvariant == PositionSpec => []PositionInv
<1>1. PositionInit => PositionInv
  BY PositionInit_Inv
<1>2. PositionInv /\ [PositionNext]_position_vars => PositionInv'
  BY PositionNext_Inv
<1> QED
  BY <1>1, <1>2, PTL DEF PositionSpec

(* PositionTypeOK: whatever is rounded on the way, minutes and seconds stay *)
(* below sixty, so that EDC_GPS_DMSToDecimal takes what                     *)
(* EDC_GPS_DecimalToDMS returns, and the minutes of an NMEA coordinate are  *)
(* not negative.                                                            *)
THEOREM PositionTypeCorrect == PositionSpec => []PositionTypeOK
<1>1. PositionInv => PositionTypeOK
  <2> SUFFICES ASSUME PositionInv PROVE PositionTypeOK
    OBVIOUS
  <2>1. InRange
    BY DEF PositionInv, InRange, IsDouble
  <2>2. Hemisphere \in (IF is_lat THEN {"N", "S"} ELSE {"E", "W"})
    BY DEF Hemisphere
  <2> QED
    BY <2>1, <2>2, DegreeLimits DEF PositionInv, PositionTypeOK
<1> QED
  BY <1>1, PositionInvariant, PTL

-----------------------------------------------------------------------------
(* Digits, and how many there are.                                          *)
DigitsUpTo(f, base, v) ==
    f = [n \in 0 .. v |-> IF n < base THEN <<n>> ELSE Append(f[n \div base], n % base)]

LEMMA QuotientSmaller ==
    ASSUME NEW n \in Nat, NEW b \in Nat, b >= 2, n >= b
    PROVE  n \div b \in Nat /\ n \div b < n /\ n % b \in 0 .. b - 1
<1>1. n \div b \in Nat /\ ((n \div b >= n) <=> (n >= b * n))
  BY DivLess
<1>2. n * 2 <= n * b
  BY ProductLess
<1>3. n * b = b * n /\ b * n \in Nat
  OBVIOUS
<1>4. n \div b < n
  BY <1>1, <1>2, <1>3
<1>5. n % b \in 0 .. b - 1
  OBVIOUS
<1> QED
  BY <1>1, <1>4, <1>5

LEMMA DigitsDefined ==
    ASSUME NEW b \in Nat, b >= 2, NEW v \in Nat
    PROVE  \E f : DigitsUpTo(f, b, v)
<1> DEFINE T == {k \in Nat : ~\E f : DigitsUpTo(f, b, k)}
<1>1. SUFFICES ASSUME T # {} PROVE FALSE
  OBVIOUS
<1>2. PICK k \in T : \A j \in T : k <= j
  BY <1>1, LeastExists
<1>3. CASE k = 0
  <2> DEFINE f == [n \in 0 .. 0 |-> <<n>>]
  <2>1. DigitsUpTo(f, b, 0)
    BY DEF DigitsUpTo
  <2> QED
    BY <1>3, <2>1
<1>4. CASE k # 0
  <2>1. k \in Nat /\ k - 1 \in Nat /\ k - 1 \notin T
    BY <1>2, <1>4
  <2>2. PICK g : DigitsUpTo(g, b, k - 1)
    BY <2>1
  <2> DEFINE Last == IF k < b THEN <<k>> ELSE Append(g[k \div b], k % b)
             f == [n \in 0 .. k |-> IF n = k THEN Last ELSE g[n]]
  <2>3. \A n \in 0 .. k - 1 :
            g[n] = (IF n < b THEN <<n>> ELSE Append(g[n \div b], n % b))
    BY <2>2 DEF DigitsUpTo
  <2>4. ASSUME NEW n \in 0 .. k
        PROVE  f[n] = (IF n < b THEN <<n>> ELSE Append(f[n \div b], n % b))
    <3>1. ASSUME n >= b PROVE n \div b \in 0 .. k /\ n \div b # k /\ n \div b < n
      <4>1. n \in Nat
        OBVIOUS
      <4>2. n \div b \in Nat /\ n \div b < n
        BY <3>1, <4>1, QuotientSmaller
      <4> QED
        BY <2>1, <4>1, <4>2
    <3>2. CASE n = k
      BY <2>1, <3>1, <3>2
    <3>3. CASE n # k
      BY <2>1, <2>3, <3>1, <3>3
    <3> QED
      BY <3>2, <3>3
  <2>5. DigitsUpTo(f, b, k)
    BY <2>4 DEF DigitsUpTo
  <2> QED
    BY <1>2, <2>5
<1> QED
  BY <1>3, <1>4

LEMMA DecimalDigits ==
    ASSUME NEW v \in Nat
    PROVE  /\ Digits(v, 10) \in Seq(0 .. 9) /\ Len(Digits(v, 10)) >= 1
           /\ (v < 100 => Len(Digits(v, 10)) <= 2)
           /\ (v < 100000 => Len(Digits(v, 10)) <= 5)
<1> DEFINE f == CHOOSE g : DigitsUpTo(g, 10, v)
           Good(n) == /\ f[n] \in Seq(0 .. 9) /\ Len(f[n]) >= 1
                      /\ (n < 10 => Len(f[n]) <= 1) /\ (n < 100 => Len(f[n]) <= 2)
                      /\ (n < 1000 => Len(f[n]) <= 3) /\ (n < 10000 => Len(f[n]) <= 4)
                      /\ (n < 100000 => Len(f[n]) <= 5)
<1>1. DigitsUpTo(f, 10, v)
  BY DigitsDefined
<1>2. Digits(v, 10) = f[v]
  BY DEF Digits, DigitsUpTo
<1>3. \A n \in 0 .. v : f[n] = (IF n < 10 THEN <<n>> ELSE Append(f[n \div 10], n % 10))
  BY <1>1 DEF DigitsUpTo
<1> HIDE DEF f
<1> DEFINE T == {n \in 0 .. v : ~Good(n)}
<1>4. SUFFICES ASSUME T # {} PROVE FALSE
  BY <1>2 
<1>5. T \subseteq Nat
  OBVIOUS
<1> HIDE DEF T, Good
<1>6. PICK n \in T : \A k \in T : n <= k
  BY <1>4, <1>5, LeastExists
<1>7. n \in 0 .. v /\ n \in Nat /\ ~Good(n)
  BY <1>6 DEF T
<1>8. CASE n < 10
  <2>1. f[n] = <<n>>
    BY <1>3, <1>7, <1>8
  <2>2. <<n>> \in Seq(0 .. 9) /\ Len(<<n>>) = 1
    BY <1>7, <1>8
  <2> QED
    BY <1>7, <2>1, <2>2 DEF Good
<1>9. CASE ~(n < 10)
  <2> DEFINE q == n \div 10
             c == n % 10
  <2>1. q \in Nat /\ q < n /\ c \in 0 .. 9
    <3>1. n \in Nat /\ n >= 10 /\ 10 \in Nat /\ 10 >= 2
      BY <1>7, <1>9
    <3>2. q \in Nat /\ q < n /\ c \in 0 .. 10 - 1
      BY <3>1, QuotientSmaller
    <3> QED
      BY <3>2
  <2>2. (n < 100 => q < 10) /\ (n < 1000 => q < 100) /\ (n < 10000 => q < 1000)
        /\ (n < 100000 => q < 10000)
    BY <1>7
  <2>3. f[n] = Append(f[q], c)
    BY <1>3, <1>7, <1>9
  <2> HIDE DEF q, c
  <2>4. q \in 0 .. v /\ ~(n <= q)
    BY <1>7, <2>1
  <2>5. Good(q)
    BY <1>6, <2>4 DEF T
  <2>6. f[n] \in Seq(0 .. 9) /\ Len(f[n]) = Len(f[q]) + 1 /\ Len(f[q]) \in Nat
    BY <2>1, <2>3, <2>5 DEF Good
  <2> QED
    BY <1>7, <1>9, <2>2, <2>5, <2>6 DEF Good
<1> QED
  BY <1>8, <1>9

LEMMA PaddedFacts ==
    ASSUME NEW c \in Seq(0 .. 9), Len(c) <= 2
    PROVE  Padded(c, 2) \in Seq(0 .. 9) /\ Len(Padded(c, 2)) <= 2
<1>1. TempSize \in Nat \ {0}
  BY TempAssumption
<1> DEFINE wanted == IF 2 < TempSize THEN 2 ELSE TempSize - 1
           zeros  == IF Len(c) < wanted THEN wanted - Len(c) ELSE 0
           front  == [j \in 1 .. zeros |-> 0]
<1>2. wanted \in 0 .. 2 /\ zeros \in Nat /\ (zeros = 0 \/ zeros + Len(c) <= 2) /\ Len(c) \in Nat
  BY <1>1
<1>3. Padded(c, 2) = front \o c
  BY DEF Padded
<1> HIDE DEF zeros
<1>4. front \in Seq(0 .. 9) /\ Len(front) = zeros
  BY <1>2
<1> HIDE DEF front
<1>5. front \o c \in Seq(0 .. 9) /\ Len(front \o c) = zeros + Len(c)
  BY <1>4
<1> QED
  BY <1>2, <1>3, <1>5

-----------------------------------------------------------------------------
(* Texts of floating-point numbers: their recursive functions exist, the    *)
(* text has as many places as it should, fits its buffer and ends in NUL.   *)
HalvesUpTo(f, n) ==
    f = [k \in 0 .. n |-> IF k = 0 THEN One \div 2 ELSE Over(f[k - 1], Ten)]

LEMMA HalvesDefined ==
    ASSUME NEW n \in Nat
    PROVE  \E f : HalvesUpTo(f, n)
<1> DEFINE T == {k \in Nat : ~\E f : HalvesUpTo(f, k)}
<1>1. SUFFICES ASSUME T # {} PROVE FALSE
  OBVIOUS
<1>2. PICK k \in T : \A j \in T : k <= j
  BY <1>1, LeastExists
<1>3. CASE k = 0
  <2> DEFINE f == [j \in 0 .. 0 |-> One \div 2]
  <2>1. HalvesUpTo(f, 0)
    BY DEF HalvesUpTo
  <2> QED
    BY <1>3, <2>1
<1>4. CASE k # 0
  <2>1. k \in Nat /\ k - 1 \in Nat /\ k - 1 \notin T
    BY <1>2, <1>4
  <2>2. PICK g : HalvesUpTo(g, k - 1)
    BY <2>1
  <2> DEFINE f == [j \in 0 .. k |-> IF j = k THEN Over(g[k - 1], Ten) ELSE g[j]]
  <2>3. \A j \in 0 .. k - 1 : g[j] = (IF j = 0 THEN One \div 2 ELSE Over(g[j - 1], Ten))
    BY <2>2 DEF HalvesUpTo
  <2>4. ASSUME NEW j \in 0 .. k PROVE f[j] = (IF j = 0 THEN One \div 2 ELSE Over(f[j - 1], Ten))
    <3>1. CASE j = k
      BY <1>4, <2>1, <3>1
    <3>2. CASE j # k
      BY <2>1, <2>3, <3>2
    <3> QED
      BY <3>1, <3>2
  <2>5. HalvesUpTo(f, k)
    BY <2>4 DEF HalvesUpTo
  <2> QED
    BY <1>2, <2>5
<1> QED
  BY <1>3, <1>4

LEMMA RounderType ==
    ASSUME NEW prec \in Nat
    PROVE  IsDouble(Rounder(prec)) /\ Rounder(prec) <= One
<1> DEFINE f == CHOOSE g : HalvesUpTo(g, prec)
<1>1. HalvesUpTo(f, prec)
  BY HalvesDefined
<1>2. Rounder(prec) = f[prec]
  BY DEF Rounder, HalvesUpTo
<1>3. \A k \in 0 .. prec : f[k] = (IF k = 0 THEN One \div 2 ELSE Over(f[k - 1], Ten))
  BY <1>1 DEF HalvesUpTo
<1> HIDE DEF f
<1> DEFINE Good(k) == IsDouble(f[k]) /\ f[k] <= One
           T == {k \in 0 .. prec : ~Good(k)}
<1>4. SUFFICES ASSUME T # {} PROVE FALSE
  BY <1>2
<1>5. T \subseteq Nat
  OBVIOUS
<1>6. PICK k \in T : \A j \in T : k <= j
  BY <1>4, <1>5, LeastExists
<1>7. k \in 0 .. prec /\ ~Good(k) /\ (k # 0 => k - 1 \in 0 .. prec /\ Good(k - 1))
  BY <1>6
<1>8. One \in Nat \ {0} /\ One \in Powers /\ Infinity \in Nat /\ 10 * One < Infinity
      /\ DoubleSignificant \in Nat /\ 4 <= DoubleSignificant /\ 2 <= One
  BY InPowers, PowersType, Limits
<1> HIDE DEF T, Good
<1>9. CASE k = 0
  <2>1. PICK h \in Powers : One = 2 * h
    BY <1>8, PowersHalf
  <2>2. h \in Nat \ {0}
    BY PowersType
  <2>3. f[k] = h
    BY <1>3, <1>7, <1>9, <2>1, <2>2
  <2>4. h <= DoubleSignificant * h
    <3>1. h * 4 <= h * DoubleSignificant
      BY <1>8, <2>2, ProductLess
    <3>2. h * DoubleSignificant = DoubleSignificant * h /\ h * DoubleSignificant \in Nat
      BY <1>8, <2>2
    <3> QED
      BY <2>2, <3>1, <3>2
  <2>5. IsDouble(h) /\ h <= One
    BY <1>8, <2>1, <2>2, <2>4, MultipleTrivial DEF IsDouble, Held
  <2> QED
    BY <1>7, <2>3, <2>5 DEF Good
<1>10. CASE k # 0
  <2> DEFINE x == f[k - 1]
  <2>1. f[k] = Over(x, 10 * One) /\ IsDouble(x) /\ x <= One
    BY <1>3, <1>7, <1>10 DEF Ten, Good
  <2> HIDE DEF x
  <2>2. x \in Nat /\ x < Infinity /\ 10 \in Nat \ {0}
    BY <1>8, <2>1 DEF IsDouble
  <2>3. f[k] = Double(x, 10) /\ x < 10 * (DoubleSignificant * Infinity)
    BY <1>8, <2>1, <2>2, OverFacts
  <2>4. x <= 10 * x
    BY <2>2
  <2>5. IsDouble(Double(x, 10)) /\ Double(x, 10) <= x
    BY <2>1, <2>2, <2>3, <2>4, DoubleFacts
  <2>6. Double(x, 10) <= One
    BY <1>8, <2>1, <2>2, <2>5 DEF IsDouble
  <2> QED
    BY <1>7, <2>3, <2>5, <2>6 DEF Good
<1> QED
  BY <1>9, <1>10

NextPlace(x, saturating) == Place[[rest |-> x.rest, saturating |-> saturating]]

NextSplit(x, saturating) ==
    [rest   |-> NextPlace(x, saturating).rest,
     digits |-> Append(x.digits, NextPlace(x, saturating).digit)]

SplitsUpTo(f, fraction, saturating, n) ==
    f = [k \in 0 .. n |-> IF k = 0 THEN [rest |-> fraction, digits |-> << >>]
                          ELSE NextSplit(f[k - 1], saturating)]

LEMMA SplitsDefined ==
    ASSUME NEW fraction, NEW saturating, NEW n \in Nat
    PROVE  \E f : SplitsUpTo(f, fraction, saturating, n)
<1> DEFINE T == {k \in Nat : ~\E f : SplitsUpTo(f, fraction, saturating, k)}
<1>1. SUFFICES ASSUME T # {} PROVE FALSE
  OBVIOUS
<1>2. PICK k \in T : \A j \in T : k <= j
  BY <1>1, LeastExists
<1>3. CASE k = 0
  <2> DEFINE f == [j \in 0 .. 0 |-> [rest |-> fraction, digits |-> << >>]]
  <2>1. SplitsUpTo(f, fraction, saturating, 0)
    BY DEF SplitsUpTo
  <2> QED
    BY <1>3, <2>1
<1>4. CASE k # 0
  <2>1. k \in Nat /\ k - 1 \in Nat /\ k - 1 \notin T
    BY <1>2, <1>4
  <2>2. PICK g : SplitsUpTo(g, fraction, saturating, k - 1)
    BY <2>1
  <2> DEFINE f == [j \in 0 .. k |-> IF j = k THEN NextSplit(g[k - 1], saturating) ELSE g[j]]
  <2>3. \A j \in 0 .. k - 1 : g[j] = (IF j = 0 THEN [rest |-> fraction, digits |-> << >>] ELSE NextSplit(g[j - 1], saturating))
    BY <2>2 DEF SplitsUpTo
  <2>4. ASSUME NEW j \in 0 .. k PROVE f[j] = (IF j = 0 THEN [rest |-> fraction, digits |-> << >>] ELSE NextSplit(f[j - 1], saturating))
    <3>1. CASE j = k
      BY <1>4, <2>1, <3>1
    <3>2. CASE j # k
      BY <2>1, <2>3, <3>2
    <3> QED
      BY <3>1, <3>2
  <2>5. SplitsUpTo(f, fraction, saturating, k)
    BY <2>4 DEF SplitsUpTo
  <2> QED
    BY <1>2, <2>5
<1> QED
  BY <1>3, <1>4

LEMMA PlacesFacts ==
    ASSUME NEW fraction, NEW saturating, NEW prec \in Nat
    PROVE  \E X : Places(fraction, prec, saturating) \in Seq(X)
                  /\ Len(Places(fraction, prec, saturating)) = prec
<1> DEFINE f == CHOOSE g : SplitsUpTo(g, fraction, saturating, prec)
<1>1. SplitsUpTo(f, fraction, saturating, prec)
  BY SplitsDefined
<1>2. Places(fraction, prec, saturating) = f[prec].digits
  BY DEF Places, SplitsUpTo, NextSplit, NextPlace
<1>3. \A k \in 0 .. prec : f[k] = (IF k = 0 THEN [rest |-> fraction, digits |-> << >>]
                                   ELSE NextSplit(f[k - 1], saturating))
  BY <1>1 DEF SplitsUpTo
<1> HIDE DEF f
<1> DEFINE X == {NextPlace(f[k], saturating).digit : k \in 0 .. prec}
           Good(k) == f[k].digits \in Seq(X) /\ Len(f[k].digits) = k
           T == {k \in 0 .. prec : ~Good(k)}
<1>4. SUFFICES ASSUME T # {} PROVE FALSE
  BY <1>2 
<1>5. T \subseteq Nat
  OBVIOUS
<1> HIDE DEF X, Good
<1>6. PICK k \in T : \A j \in T : k <= j
  BY <1>4, <1>5, LeastExists
<1>7. k \in 0 .. prec /\ ~Good(k) /\ (k # 0 => k - 1 \in 0 .. prec /\ Good(k - 1))
  BY <1>6
<1> HIDE DEF T
<1>8. CASE k = 0
  <2>1. f[k].digits = << >>
    BY <1>3, <1>7, <1>8
  <2> QED
    BY <1>7, <1>8, <2>1 DEF Good
<1>9. CASE k # 0
  <2> DEFINE before == f[k - 1].digits
             digit  == NextPlace(f[k - 1], saturating).digit
  <2>1. f[k].digits = Append(before, digit)
    <3>1. f[k] = NextSplit(f[k - 1], saturating)
      BY <1>3, <1>7, <1>9
    <3>2. NextSplit(f[k - 1], saturating).digits = Append(before, digit)
      BY DEF NextSplit
    <3> QED
      BY <3>1, <3>2
  <2>2. digit \in X
    BY <1>7, <1>9 DEF X
  <2>3. before \in Seq(X) /\ Len(before) = k - 1
    BY <1>7, <1>9 DEF Good
  <2> HIDE DEF before, digit
  <2>4. Append(before, digit) \in Seq(X) /\ Len(Append(before, digit)) = k
    BY <1>7, <2>2, <2>3
  <2> QED
    BY <1>7, <2>1, <2>4 DEF Good
<1> QED
  BY <1>8, <1>9

LEMMA ConcatFacts ==
    ASSUME NEW X, NEW w \in Seq(X), NEW t \in Seq(X)
    PROVE  /\ w \o t \in Seq(X) /\ Len(w \o t) = Len(w) + Len(t)
           /\ Len(w) \in Nat /\ Len(t) \in Nat
           /\ \A j \in 1 .. Len(w) : (w \o t)[j] = w[j]
           /\ \A j \in Len(w) + 1 .. Len(w) + Len(t) : (w \o t)[j] = t[j - Len(w)]
  OBVIOUS

IsText(t, size) ==
    \E Y : Int \subseteq Y /\ t \in Seq(Y) /\ Len(t) \in 1 .. size /\ t[Len(t)] = NUL

LEMMA WrittenFacts ==
    ASSUME NEW parts, parts.negative \in BOOLEAN,
           NEW X, parts.whole \in Seq(X), parts.places \in Seq(X),
           NEW prec \in Nat, Len(parts.places) = prec, NEW size \in Nat,
           NEW t \in Written(parts, prec, size)
    PROVE  IsText(t, size)
<1> DEFINE Y == X \cup Int
           W == parts.whole
           P == parts.places
           sign == IF parts.negative THEN <<Minus>> ELSE << >>
           rest == IF P # << >> THEN <<Dot>> \o P ELSE << >>
<1>1. W \in Seq(Y) /\ P \in Seq(Y) /\ Len(P) = prec
  OBVIOUS
<1>2. Minus \in Y /\ Dot \in Y /\ NUL \in Y
  BY DEF Minus, Dot, NUL
<1>3. ~(size < Needed(parts, prec)) /\ t = Append(TextOf(parts), NUL)
  BY DEF Written
<1>4. TextOf(parts) = (sign \o W) \o rest
  BY DEF TextOf
<1>5. Needed(parts, prec) = Len(sign) + Len(W) + (IF prec > 0 THEN 1 + prec ELSE 0) + 1
  BY DEF Needed
<1>6. Int \subseteq Y
  OBVIOUS
<1> HIDE DEF Y, W, P
<1>7. sign \in Seq(Y) /\ Len(sign) \in Nat
  BY <1>2
<1>8. rest \in Seq(Y) /\ Len(rest) = IF prec > 0 THEN 1 + prec ELSE 0
  <2>1. CASE P = << >>
    BY <1>1, <2>1
  <2>2. CASE P # << >>
    <3>1. <<Dot>> \o P \in Seq(Y) /\ Len(<<Dot>> \o P) = 1 + Len(P)
      BY <1>1, <1>2
    <3>2. Len(P) # 0
      BY <1>1, <2>2
    <3> QED
      BY <1>1, <2>2, <3>1, <3>2
  <2> QED
    BY <2>1, <2>2
<1> HIDE DEF sign, rest
<1>9. sign \o W \in Seq(Y) /\ Len(sign \o W) = Len(sign) + Len(W) /\ Len(W) \in Nat
  BY <1>1, <1>7
<1> DEFINE front == sign \o W
           all   == front \o rest
<1> HIDE DEF front
<1>10. all \in Seq(Y) /\ Len(all) = Len(front) + Len(rest) /\ front \in Seq(Y)
  <2>1. front \in Seq(Y)
    BY <1>9 DEF front
  <2>2. front \o rest \in Seq(Y) /\ Len(front \o rest) = Len(front) + Len(rest)
    BY <1>8, <2>1, ConcatFacts
  <2> QED
    BY <2>1, <2>2
<1>11. t = Append(all, NUL)
  BY <1>3, <1>4 DEF front
<1> HIDE DEF all
<1>12. t \in Seq(Y) /\ Len(t) = Len(all) + 1 /\ t[Len(t)] = NUL /\ Len(all) \in Nat
  BY <1>2, <1>10, <1>11
<1>13. Len(all) + 1 = Needed(parts, prec)
  BY <1>5, <1>8, <1>9, <1>10 DEF front
<1>14. Len(t) \in 1 .. size
  BY <1>3, <1>12, <1>13
<1> QED
  BY <1>6, <1>12, <1>14 DEF IsText

LEMMA ShortText ==
    ASSUME NEW w \in Seq(Int), NEW size \in Nat, Len(w) + 1 <= size
    PROVE  IsText(Append(w, NUL), size)
<1>1. NUL \in Int /\ Len(w) \in Nat
  BY DEF NUL
<1>2. /\ Append(w, NUL) \in Seq(Int) /\ Len(Append(w, NUL)) = Len(w) + 1
      /\ Append(w, NUL)[Len(w) + 1] = NUL
  BY <1>1
<1> QED
  BY <1>1, <1>2 DEF IsText

(* What EDC_Double_ToString is given: any value of double.                  *)
IsValue(x) == x \in Int /\ (x = NaN \/ (-Infinity <= x /\ x <= Infinity))

LEMMA DoubleTextFacts ==
    ASSUME NEW val, IsValue(val), NEW decimals \in Nat, NEW size \in Nat,
           NEW t \in Double_ToString(val, decimals, size)
    PROVE  IsText(t, size)
<1>1. Infinity \in Nat \ {0} /\ NaN = Infinity + 1
  BY InPowers, PowersType DEF NaN
<1>2. WordNaN \in Seq(Int) /\ Len(WordNaN) = 3 /\ WordInf \in Seq(Int) /\ Len(WordInf) = 3
  BY DEF WordNaN, WordInf
<1>3. CASE val = NaN
  <2>1. ~(size < 4) /\ t = Append(WordNaN, NUL)
    BY <1>3 DEF Double_ToString
  <2>2. Len(WordNaN) + 1 <= size
    BY <1>2, <2>1
  <2> QED
    BY <1>2, <2>1, <2>2, ShortText
<1>4. CASE val = Infinity
  <2>1. val # NaN
    BY <1>1, <1>4
  <2>2. ~(size < 4) /\ t = Append(WordInf, NUL)
    BY <1>4, <2>1 DEF Double_ToString
  <2>3. Len(WordInf) + 1 <= size
    BY <1>2, <2>2
  <2> QED
    BY <1>2, <2>2, <2>3, ShortText
<1>5. CASE val = -Infinity
  <2>1. val # NaN /\ val # Infinity
    BY <1>1, <1>5
  <2>2. ~(size < 5) /\ t = <<Minus>> \o Append(WordInf, NUL)
    BY <1>5, <2>1 DEF Double_ToString
  <2>3. <<Minus>> \o Append(WordInf, NUL) = Append(<<Minus, 18, 23, 15>>, NUL)
    BY DEF WordInf
  <2>4. <<Minus, 18, 23, 15>> \in Seq(Int) /\ Len(<<Minus, 18, 23, 15>>) = 4
    BY DEF Minus
  <2>5. Len(<<Minus, 18, 23, 15>>) + 1 <= size
    BY <2>2, <2>4
  <2> QED
    BY <2>2, <2>3, <2>4, <2>5, ShortText
<1>6. CASE val # NaN /\ val # Infinity /\ val # -Infinity
  <2> DEFINE prec == Decimals(decimals)
             v    == Sum(Abs(val), Rounder(prec))
  <2>1. prec \in Nat
    BY FixedAssumption DEF Decimals, Least
  <2>2. Abs(val) \in Nat /\ Abs(val) < Infinity
    BY <1>1, <1>6 DEF IsValue, Abs
  <2>3. IsDouble(Rounder(prec)) /\ Rounder(prec) <= One
    BY <2>1, RounderType
  <2> HIDE DEF prec
  <2>4. Rounder(prec) \in Nat /\ Rounder(prec) < Infinity /\ One \in Nat \ {0}
    <3>1. One \in Nat \ {0} /\ 10 * One < Infinity
      BY InPowers, PowersType, Limits
    <3> QED
      BY <1>1, <2>3, <3>1 DEF IsDouble
  <2>5. v \in Nat
    <3> DEFINE n == Abs(val) + Rounder(prec)
    <3>1. n \in Nat /\ 1 \in Nat \ {0} /\ v = Double(n, 1) /\ n < 1 * (DoubleSignificant * Infinity)
      BY <2>2, <2>4, SumFacts
    <3> HIDE DEF n
    <3>2. IsDouble(Double(n, 1))
      BY <3>1, DoubleFacts
    <3> QED
      BY <3>1, <3>2 DEF IsDouble
  <2>6. PICK saturating \in BOOLEAN : t \in Written(DoubleParts(val < 0, v, prec, saturating), prec, size)
    BY <1>6 DEF Double_ToString, FiniteText, prec
  <2> HIDE DEF v
  <2> DEFINE whole == Cast(v, UMax64, saturating)
             parts == DoubleParts(val < 0, v, prec, saturating)
  <2>7. whole \in Nat
    <3>1. UMax64 \in Nat
      BY FixedAssumption DEF UMax64
    <3>2. v \div One \in Nat
      BY <2>4, <2>5, DivLess
    <3> QED
      BY <3>1, <3>2 DEF Cast
  <2>8. /\ parts.negative = (val < 0) /\ parts.whole = Digits(whole, 10)
        /\ parts.places = Places(Difference(v, Double(whole * One, 1)), prec, saturating)
    BY DEF DoubleParts
  <2> HIDE DEF whole, parts
  <2>9. PICK X : parts.places \in Seq(X) /\ Len(parts.places) = prec
    <3> DEFINE fraction == Difference(v, Double(whole * One, 1))
    <3> HIDE DEF fraction
    <3>1. \E X : Places(fraction, prec, saturating) \in Seq(X)
                  /\ Len(Places(fraction, prec, saturating)) = prec
      BY <2>1, PlacesFacts
    <3> QED
      BY <2>8, <3>1 DEF fraction
  <2> DEFINE Z == X \cup (0 .. 9)
  <2>10. parts.places \in Seq(Z)
    BY <2>9
  <2>11. parts.whole \in Seq(Z)
    <3>1. parts.whole \in Seq(0 .. 9)
      BY <2>7, <2>8, DecimalDigits
    <3> QED
      BY <3>1
  <2> HIDE DEF Z
  <2>12. t \in Written(parts, prec, size)
    BY <2>6 DEF parts
  <2>13. (val < 0) \in BOOLEAN
    OBVIOUS
  <2>14. parts.negative \in BOOLEAN
    BY <2>8, <2>13
  <2> QED
    BY <2>1, <2>9, <2>10, <2>11, <2>12, <2>14, WrittenFacts
<1> QED
  BY <1>3, <1>4, <1>5, <1>6

-----------------------------------------------------------------------------
(* A coordinate's text, put together piece by piece as long as there is     *)
(* room, compared with what becomes of it in a buffer of 64, which is       *)
(* enough for all of it.                                                    *)
NextPut(before, piece, size) ==
    IF HasRoom(Len(before), piece, size) THEN before \o piece ELSE before

PutsUpTo(f, pieces, size, n) ==
    f = [k \in 0 .. n |-> IF k = 0 THEN << >> ELSE NextPut(f[k - 1], pieces[k], size)]

LEMMA PutsDefined ==
    ASSUME NEW pieces, NEW size, NEW n \in Nat
    PROVE  \E f : PutsUpTo(f, pieces, size, n)
<1> DEFINE T == {k \in Nat : ~\E f : PutsUpTo(f, pieces, size, k)}
<1>1. SUFFICES ASSUME T # {} PROVE FALSE
  OBVIOUS
<1>2. PICK k \in T : \A j \in T : k <= j
  BY <1>1, LeastExists
<1>3. CASE k = 0
  <2> DEFINE f == [j \in 0 .. 0 |-> << >>]
  <2>1. PutsUpTo(f, pieces, size, 0)
    BY DEF PutsUpTo
  <2> QED
    BY <1>3, <2>1
<1>4. CASE k # 0
  <2>1. k \in Nat /\ k - 1 \in Nat /\ k - 1 \notin T
    BY <1>2, <1>4
  <2>2. PICK g : PutsUpTo(g, pieces, size, k - 1)
    BY <2>1
  <2> DEFINE f == [j \in 0 .. k |-> IF j = k THEN NextPut(g[k - 1], pieces[k], size) ELSE g[j]]
  <2>3. \A j \in 0 .. k - 1 : g[j] = (IF j = 0 THEN << >> ELSE NextPut(g[j - 1], pieces[j], size))
    BY <2>2 DEF PutsUpTo
  <2>4. ASSUME NEW j \in 0 .. k PROVE f[j] = (IF j = 0 THEN << >> ELSE NextPut(f[j - 1], pieces[j], size))
    <3>1. CASE j = k
      BY <1>4, <2>1, <3>1
    <3>2. CASE j # k
      BY <2>1, <2>3, <3>2
    <3> QED
      BY <3>1, <3>2
  <2>5. PutsUpTo(f, pieces, size, k)
    BY <2>4 DEF PutsUpTo
  <2> QED
    BY <1>2, <2>5
<1> QED
  BY <1>3, <1>4

LEMMA AssembledIs ==
    ASSUME NEW pieces, Len(pieces) \in Nat, NEW size
    PROVE  \E f : PutsUpTo(f, pieces, size, Len(pieces))
                  /\ Assembled(pieces, size) = Append(f[Len(pieces)], NUL)
<1> DEFINE f == CHOOSE g : PutsUpTo(g, pieces, size, Len(pieces))
<1>1. PutsUpTo(f, pieces, size, Len(pieces))
  BY PutsDefined
<1>2. Assembled(pieces, size) = Append(f[Len(pieces)], NUL)
  BY DEF Assembled, PutsUpTo, NextPut
<1> QED
  BY <1>1, <1>2

(* Single characters, but for one of two bytes behind the first nd, which a *)
(* space follows.                                                           *)
Coordinate(P, nd, X) ==
    /\ P \in Seq(Seq(X)) /\ nd \in Nat /\ nd + 2 <= Len(P) /\ Len(P) <= 50
    /\ \A j \in 1 .. Len(P) : Len(P[j]) = IF j = nd + 1 THEN 2 ELSE 1
    /\ P[nd + 2] = <<Space>>

LengthAfter(k, nd) == IF k <= nd THEN k ELSE k + 1

RoomFor(k, nd, z) ==
    IF k <= nd THEN (IF k < z THEN k ELSE z - 1)
    ELSE IF z >= nd + 3 THEN (IF k + 1 < z THEN k + 1 ELSE z - 1)
    ELSE IF z = nd + 2 THEN (IF k = nd + 1 THEN nd ELSE nd + 1)
    ELSE z - 1

RoomStep(k, nd, z, p) ==
    /\ RoomFor(k, nd, z) =
           IF RoomFor(k - 1, nd, z) + p < z THEN RoomFor(k - 1, nd, z) + p
           ELSE RoomFor(k - 1, nd, z)
    /\ LengthAfter(k, nd) = LengthAfter(k - 1, nd) + p
    /\ RoomFor(k - 1, nd, z) \in Nat /\ RoomFor(k - 1, nd, z) <= LengthAfter(k - 1, nd)
    /\ (RoomFor(k - 1, nd, z) + p < z /\ ~(z = nd + 2 /\ k >= nd + 2))
           => RoomFor(k - 1, nd, z) = LengthAfter(k - 1, nd)
    /\ (RoomFor(k - 1, nd, z) + p < z /\ z = nd + 2 /\ k >= nd + 2)
           => k = nd + 2 /\ RoomFor(k - 1, nd, z) = nd

LEMMA RoomGrows ==
    ASSUME NEW nd \in Nat, NEW z \in Nat \ {0}, NEW k \in Nat \ {0}, NEW p \in Nat,
           p = IF k = nd + 1 THEN 2 ELSE 1
    PROVE  RoomStep(k, nd, z, p)
  BY DEF RoomFor, LengthAfter, RoomStep

LEMMA Assembling ==
    ASSUME NEW X, NEW P, NEW nd, Coordinate(P, nd, X), NEW z \in Nat \ {0},
           NEW F, PutsUpTo(F, P, 64, Len(P)), NEW f, PutsUpTo(f, P, z, Len(P)),
           NEW k \in 0 .. Len(P)
    PROVE  /\ F[k] \in Seq(X) /\ Len(F[k]) = LengthAfter(k, nd)
           /\ f[k] \in Seq(X) /\ Len(f[k]) = RoomFor(k, nd, z)
           /\ \A j \in 1 .. Len(f[k]) : (z = nd + 2 => j <= nd) => f[k][j] = F[k][j]
           /\ (z = nd + 2 /\ k >= nd + 2) => f[k][nd + 1] = Space
<1> DEFINE Good(n) ==
             /\ F[n] \in Seq(X) /\ Len(F[n]) = LengthAfter(n, nd)
             /\ f[n] \in Seq(X) /\ Len(f[n]) = RoomFor(n, nd, z)
             /\ \A j \in 1 .. Len(f[n]) : (z = nd + 2 => j <= nd) => f[n][j] = F[n][j]
             /\ (z = nd + 2 /\ n >= nd + 2) => f[n][nd + 1] = Space
           T == {n \in 0 .. Len(P) : ~Good(n)}
<1>1. SUFFICES ASSUME T # {} PROVE FALSE
  OBVIOUS
<1>2. Len(P) \in Nat /\ Len(P) <= 50 /\ nd \in Nat /\ nd + 2 <= Len(P)
  BY DEF Coordinate
<1>3. T \subseteq Nat
  BY <1>2
<1> HIDE DEF Good
<1>4. PICK n \in T : \A j \in T : n <= j
  BY <1>1, <1>3, LeastExists
<1>5. n \in 0 .. Len(P) /\ ~Good(n) /\ (n # 0 => n - 1 \in 0 .. Len(P) /\ Good(n - 1))
  BY <1>2, <1>4
<1> HIDE DEF T
<1>6. F[n] = (IF n = 0 THEN << >> ELSE NextPut(F[n - 1], P[n], 64))
  BY <1>5 DEF PutsUpTo
<1>7. f[n] = (IF n = 0 THEN << >> ELSE NextPut(f[n - 1], P[n], z))
  BY <1>5 DEF PutsUpTo
<1>8. CASE n = 0
  <2>1. F[n] = << >> /\ f[n] = << >>
    BY <1>6, <1>7, <1>8
  <2>2. LengthAfter(n, nd) = 0 /\ RoomFor(n, nd, z) = 0
    BY <1>2, <1>8 DEF LengthAfter, RoomFor
  <2>3. ~(n >= nd + 2)
    BY <1>2, <1>8
  <2> QED
    BY <1>5, <2>1, <2>2, <2>3 DEF Good
<1>9. CASE n # 0
  <2> DEFINE A == F[n - 1]
             a == f[n - 1]
             piece == P[n]
             p == Len(piece)
             q == LengthAfter(n - 1, nd)
             r == RoomFor(n - 1, nd, z)
  <2>1. n \in Nat \ {0} /\ n \in 1 .. Len(P) /\ Good(n - 1)
    BY <1>2, <1>5, <1>9
  <2>2. piece \in Seq(X) /\ p \in 1 .. 2 /\ p = (IF n = nd + 1 THEN 2 ELSE 1)
    <3>1. P \in Seq(Seq(X)) /\ \A j \in 1 .. Len(P) : Len(P[j]) = IF j = nd + 1 THEN 2 ELSE 1
      BY DEF Coordinate
    <3>2. piece \in Seq(X)
      BY <2>1, <3>1
    <3>3. p = IF n = nd + 1 THEN 2 ELSE 1
      BY <2>1, <3>1
    <3> QED
      BY <3>2, <3>3
  <2>3. /\ A \in Seq(X) /\ Len(A) = q /\ a \in Seq(X) /\ Len(a) = r
        /\ \A j \in 1 .. Len(a) : (z = nd + 2 => j <= nd) => a[j] = A[j]
        /\ (z = nd + 2 /\ n - 1 >= nd + 2) => a[nd + 1] = Space
    BY <2>1 DEF Good
  <2>4. /\ RoomFor(n, nd, z) = IF r + p < z THEN r + p ELSE r
        /\ LengthAfter(n, nd) = q + p
        /\ r \in Nat /\ r <= q
        /\ (r + p < z /\ ~(z = nd + 2 /\ n >= nd + 2)) => r = q
        /\ (r + p < z /\ z = nd + 2 /\ n >= nd + 2) => n = nd + 2 /\ r = nd
    <3> HIDE DEF p
    <3>1. p \in Nat /\ p = (IF n = nd + 1 THEN 2 ELSE 1) /\ nd \in Nat /\ n \in Nat \ {0}
      BY <1>2, <2>1, <2>2
    <3>2. RoomStep(n, nd, z, p)
      BY <3>1, RoomGrows
    <3> QED
      BY <3>2 DEF RoomStep
  <2>5. q \in Nat /\ q + p < 64
    BY <1>2, <2>1, <2>2 DEF LengthAfter
  <2>6. F[n] = A \o piece
    BY <1>6, <1>9, <2>3, <2>5 DEF NextPut, HasRoom
  <2>7. f[n] = IF r + p < z THEN a \o piece ELSE a
    BY <1>7, <1>9, <2>3 DEF NextPut, HasRoom
  <2>8. n = nd + 2 => piece = <<Space>>
    BY DEF Coordinate
  <2> HIDE DEF A, a, piece, p, q, r
  <2>9. F[n] \in Seq(X) /\ Len(F[n]) = q + p /\ \A j \in 1 .. q : F[n][j] = A[j]
    <3>1. /\ A \o piece \in Seq(X) /\ Len(A \o piece) = Len(A) + Len(piece)
          /\ \A j \in 1 .. Len(A) : (A \o piece)[j] = A[j]
      BY <2>2, <2>3, ConcatFacts
    <3> QED
      BY <2>3, <2>6, <3>1 DEF p
  <2>10. \A j \in q + 1 .. q + p : F[n][j] = piece[j - q]
    <3>1. \A j \in Len(A) + 1 .. Len(A) + Len(piece) : (A \o piece)[j] = piece[j - Len(A)]
      BY <2>2, <2>3, ConcatFacts
    <3> QED
      BY <2>3, <2>6, <3>1 DEF p
  <2>11. CASE ~(r + p < z)
    <3>1. f[n] = a /\ Len(f[n]) = r
      BY <2>3, <2>7, <2>11
    <3>2. \A j \in 1 .. Len(f[n]) : (z = nd + 2 => j <= nd) => f[n][j] = F[n][j]
      BY <2>3, <2>4, <2>5, <2>9, <3>1
    <3>3. (z = nd + 2 /\ n >= nd + 2) => n - 1 >= nd + 2
      <4>1. SUFFICES ASSUME z = nd + 2, n = nd + 2 PROVE FALSE
        BY <1>2, <2>1
      <4>2. r = nd /\ p = 1
        BY <1>2, <2>2, <4>1 DEF r, RoomFor
      <4> QED
        BY <1>2, <2>11, <4>1, <4>2
    <3> QED
      BY <1>5, <2>3, <2>4, <2>9, <2>11, <3>1, <3>2, <3>3 DEF Good
  <2>12. CASE r + p < z
    <3>1. f[n] = a \o piece
      BY <2>7, <2>12
    <3>2. /\ f[n] \in Seq(X) /\ Len(f[n]) = r + p
          /\ \A j \in 1 .. r : f[n][j] = a[j]
          /\ \A j \in r + 1 .. r + p : f[n][j] = piece[j - r]
      <4>1. /\ a \o piece \in Seq(X) /\ Len(a \o piece) = Len(a) + Len(piece)
            /\ \A j \in 1 .. Len(a) : (a \o piece)[j] = a[j]
            /\ \A j \in Len(a) + 1 .. Len(a) + Len(piece) :
                  (a \o piece)[j] = piece[j - Len(a)]
        BY <2>2, <2>3, ConcatFacts
      <4> QED
        BY <2>3, <3>1, <4>1 DEF p
    <3>3. ASSUME NEW j \in 1 .. Len(f[n]), z = nd + 2 => j <= nd PROVE f[n][j] = F[n][j]
      <4>1. CASE j <= r
        <5>1. f[n][j] = a[j] /\ a[j] = A[j] /\ F[n][j] = A[j]
          BY <2>3, <2>4, <2>5, <2>9, <3>2, <3>3, <4>1
        <5> QED
          BY <5>1
      <4>2. CASE j > r
        <5>1. r = q
          <6>1. ~(z = nd + 2 /\ n >= nd + 2)
            BY <1>2, <2>4, <2>12, <3>3, <4>2
          <6> QED
            BY <2>4, <2>12, <6>1
        <5>2. j \in r + 1 .. r + p
          BY <2>2, <2>4, <3>2, <4>2
        <5> QED
          BY <2>10, <3>2, <5>1, <5>2
      <4> QED
        BY <2>4, <4>1, <4>2
    <3>4. (z = nd + 2 /\ n >= nd + 2) => f[n][nd + 1] = Space
      <4>1. SUFFICES ASSUME z = nd + 2, n >= nd + 2 PROVE f[n][nd + 1] = Space
        OBVIOUS
      <4>2. n = nd + 2 /\ r = nd
        BY <2>4, <2>12, <4>1
      <4>3. nd + 1 \in r + 1 .. r + p /\ (nd + 1) - r = 1
        BY <1>2, <2>2, <4>2
      <4>4. f[n][nd + 1] = piece[1]
        BY <3>2, <4>3
      <4> QED
        BY <2>8, <4>2, <4>4
    <3> QED
      BY <1>5, <2>4, <2>9, <2>12, <3>2, <3>3, <3>4 DEF Good
  <2> QED
    BY <2>11, <2>12
<1> QED
  BY <1>8, <1>9

LEMMA SamePrefix ==
    ASSUME NEW X, NEW v \in Seq(X), NEW w \in Seq(X), NEW n \in Nat, n <= Len(v), n <= Len(w),
           \A j \in 1 .. n : v[j] = w[j]
    PROVE  SubSeq(v, 1, n) = SubSeq(w, 1, n)
<1>1. SubSeq(v, 1, n) = [j \in 1 .. n |-> v[j]]
  OBVIOUS
<1>2. SubSeq(w, 1, n) = [j \in 1 .. n |-> w[j]]
  OBVIOUS
<1> QED
  BY <1>1, <1>2

LEMMA SingleFacts ==
    ASSUME NEW X, NEW w \in Seq(X)
    PROVE  /\ Single(w) \in Seq(Seq(X)) /\ Len(Single(w)) = Len(w)
           /\ \A j \in 1 .. Len(w) : Single(w)[j] = <<w[j]>> /\ Len(Single(w)[j]) = 1
<1>1. \A j \in 1 .. Len(w) : <<w[j]>> \in Seq(X)
  OBVIOUS
<1>2. Len(w) \in Nat
  OBVIOUS
<1>3. [j \in 1 .. Len(w) |-> <<w[j]>>] \in [1 .. Len(w) -> Seq(X)]
  BY <1>1
<1>4. /\ Single(w) \in Seq(Seq(X)) /\ Len(Single(w)) = Len(w)
      /\ \A j \in 1 .. Len(w) : Single(w)[j] = <<w[j]>>
  BY <1>2, <1>3 DEF Single
<1>5. \A j \in 1 .. Len(w) : Len(<<w[j]>>) = 1
  OBVIOUS
<1> QED
  BY <1>4, <1>5

LEMMA FrontFacts ==
    ASSUME NEW X, NEW w \in Seq(X), Len(w) # 0
    PROVE  SubSeq(w, 1, Len(w) - 1) \in Seq(X) /\ Len(SubSeq(w, 1, Len(w) - 1)) = Len(w) - 1
<1> DEFINE n == Len(w) - 1
<1>1. n \in Nat /\ n \in Int /\ 1 \in Int /\ 1 .. n \subseteq 1 .. Len(w)
  OBVIOUS
<1>2. \A j \in 1 .. n : w[j] \in X
  BY <1>1
<1> HIDE DEF n
<1>3. /\ SubSeq(w, 1, n) \in Seq(X)
      /\ Len(SubSeq(w, 1, n)) = IF 1 <= n THEN n - 1 + 1 ELSE 0
  BY <1>1, <1>2, SubSeqProperties
<1>4. Len(SubSeq(w, 1, n)) = n
  BY <1>1, <1>3
<1> QED
  BY <1>3, <1>4 DEF n

LEMMA SecondsFacts ==
    ASSUME IsDouble(s), s < 60 * One, NEW seconds \in Seconds
    PROVE  \E X : Int \subseteq X /\ seconds \in Seq(X) /\ Len(seconds) <= 15
<1>1. PICK t \in Double_ToString(s, 2, 16) : seconds = SubSeq(t, 1, Len(t) - 1)
  BY DEF Seconds
<1>2. s \in Nat /\ Infinity \in Nat /\ 60 * One < Infinity
  BY NotInfinite, DegreeLimits, 60 \in 0 .. 100 * (MaxDegrees + 1) DEF IsDouble
<1>3. IsValue(s)
  <2>1. One \in Nat
    BY DegreeLimits
  <2> QED
    BY <1>2, <2>1 DEF IsValue
<1>4. IsText(t, 16)
  BY <1>1, <1>3, DoubleTextFacts
<1>5. PICK X : Int \subseteq X /\ t \in Seq(X) /\ Len(t) \in 1 .. 16 /\ t[Len(t)] = NUL
  BY <1>4 DEF IsText
<1>6. Len(t) # 0 /\ Len(t) - 1 <= 15
  <2> DEFINE n == Len(t)
  <2>1. n \in 1 .. 16
    BY <1>5
  <2> HIDE DEF n
  <2>2. n # 0 /\ n - 1 <= 15
    BY <2>1
  <2> QED
    BY <2>2 DEF n
<1>7. seconds \in Seq(X) /\ Len(seconds) = Len(t) - 1
  BY <1>1, <1>5, <1>6, FrontFacts
<1> QED
  BY <1>5, <1>6, <1>7

LEMMA FirstStays ==
    ASSUME NEW X, NEW w \in Seq(X), Len(w) # 0, NEW t \in Seq(X)
    PROVE  /\ w \o t \in Seq(X) /\ Len(w \o t) = Len(w) + Len(t) /\ (w \o t)[1] = w[1]
           /\ Len(w) \in Nat /\ Len(t) \in Nat
<1>1. /\ w \o t \in Seq(X) /\ Len(w \o t) = Len(w) + Len(t)
      /\ Len(w) \in Nat /\ Len(t) \in Nat
      /\ \A j \in 1 .. Len(w) : (w \o t)[j] = w[j]
  BY ConcatFacts
<1>2. 1 \in 1 .. Len(w)
  BY <1>1
<1> QED
  BY <1>1, <1>2

LEMMA PiecesFacts ==
    ASSUME PositionInv, hemisphere = Hemisphere, NEW seconds \in Seconds
    PROVE  \E X : Int \subseteq X
                  /\ Coordinate(PiecesFor(seconds), Len(Digits(d, 10)), X)
<1>1. d \in Nat /\ d <= 32767 /\ m \in 0 .. 59 /\ IsDouble(s) /\ s < 60 * One
  BY DegreesAssumption DEF PositionInv
<1>2. PICK X : Int \subseteq X /\ seconds \in Seq(X) /\ Len(seconds) <= 15
  BY <1>1, SecondsFacts
<1> DEFINE D == Digits(d, 10)
           M == Padded(Digits(m, 10), 2)
           front == <<Space>>
           one == front \o M
           two == one \o <<Prime, Space>>
           three == two \o seconds
           all == three \o <<DoublePrime, Space, Letter(hemisphere)>>
           P1 == Single(D) \o <<DegreeSign>>
           P == P1 \o Single(all)
<1>3. D \in Seq(0 .. 9) /\ Len(D) \in 1 .. 5
  <2>1. D \in Seq(0 .. 9) /\ Len(D) >= 1 /\ Len(D) <= 5
    <3>1. d \in Nat /\ d < 100000
      BY <1>1
    <3> QED
      BY <3>1, DecimalDigits
  <2> DEFINE n == Len(D)
  <2>2. n \in Nat /\ n >= 1 /\ n <= 5
    BY <2>1
  <2> HIDE DEF n
  <2>3. n \in 1 .. 5
    BY <2>2
  <2> QED
    BY <2>1, <2>3 DEF n
<1> HIDE DEF D
<1>4. M \in Seq(0 .. 9) /\ Len(M) <= 2
  <2>1. Digits(m, 10) \in Seq(0 .. 9) /\ Len(Digits(m, 10)) <= 2
    <3>1. m \in Nat /\ m < 100
      BY <1>1
    <3> QED
      BY <3>1, DecimalDigits
  <2> QED
    BY <2>1, PaddedFacts
<1>5. Letter(hemisphere) \in Int
  <2>1. hemisphere \in {"N", "S", "E", "W"}
    BY DEF Hemisphere
  <2>2. \E c \in 10 .. 35 : <<hemisphere, c>> \in {<<"N", 23>>, <<"S", 28>>, <<"E", 14>>, <<"W", 32>>}
    <3>1. 23 \in 10 .. 35 /\ 28 \in 10 .. 35 /\ 14 \in 10 .. 35 /\ 32 \in 10 .. 35
      OBVIOUS
    <3> QED
      BY <2>1, <3>1
  <2>3. Letter(hemisphere) \in 10 .. 35
    BY <2>2 DEF Letter
  <2> QED
    BY <2>3
<1>6. D \in Seq(X) /\ M \in Seq(X)
  BY <1>2, <1>3, <1>4
<1>7. /\ front \in Seq(X) /\ <<Prime, Space>> \in Seq(X)
      /\ <<DoublePrime, Space, Letter(hemisphere)>> \in Seq(X) /\ DegreeSign \in Seq(X)
      /\ Len(front) = 1 /\ Len(<<Prime, Space>>) = 2
      /\ Len(<<DoublePrime, Space, Letter(hemisphere)>>) = 3 /\ Len(DegreeSign) = 2
      /\ front[1] = Space
  <2>1. Space \in X /\ Prime \in X /\ DoublePrime \in X /\ Letter(hemisphere) \in X
        /\ -7 \in X /\ -8 \in X
    BY <1>2, <1>5 DEF Space, Prime, DoublePrime
  <2> QED
    BY <2>1 DEF DegreeSign
<1>8. PiecesFor(seconds) = P
  BY DEF PiecesFor, D
<1> HIDE DEF D, M, front
<1>9. one \in Seq(X) /\ Len(one) = 1 + Len(M) /\ one[1] = Space /\ Len(M) \in Nat
  <2>1. /\ front \o M \in Seq(X) /\ Len(front \o M) = Len(front) + Len(M)
        /\ Len(front) \in Nat /\ Len(M) \in Nat
        /\ \A j \in 1 .. Len(front) : (front \o M)[j] = front[j]
    BY <1>6, <1>7, ConcatFacts
  <2>2. 1 \in 1 .. Len(front)
    BY <1>7
  <2> QED
    BY <1>7, <2>1, <2>2
<1> HIDE DEF one
<1>10. two \in Seq(X) /\ Len(two) = Len(one) + 2 /\ two[1] = Space
  BY <1>7, <1>9, FirstStays
<1> HIDE DEF two
<1>11. three \in Seq(X) /\ Len(three) = Len(two) + Len(seconds) /\ three[1] = Space
       /\ Len(seconds) \in Nat
  <2>1. Len(two) = (1 + Len(M)) + 2
    BY <1>9, <1>10
  <2>2. Len(two) # 0
    BY <1>9, <2>1
  <2> QED
    BY <1>2, <1>10, <2>2, FirstStays
<1> HIDE DEF three
<1>12. all \in Seq(X) /\ Len(all) = Len(three) + 3 /\ all[1] = Space
  <2>1. Len(three) # 0
    BY <1>9, <1>10, <1>11
  <2> QED
    BY <1>7, <1>11, <2>1, FirstStays
<1> HIDE DEF all
<1>13. Len(all) \in 1 .. 23
  <2>1. Len(seconds) <= 15 /\ Len(M) <= 2
    BY <1>2, <1>4
  <2>2. Len(all) = (((1 + Len(M)) + 2) + Len(seconds)) + 3
    BY <1>9, <1>10, <1>11, <1>12
  <2>3. Len(seconds) \in Nat /\ Len(M) \in Nat
    BY <1>9, <1>11
  <2> QED
    BY <2>1, <2>2, <2>3
<1> DEFINE Y == Seq(X)
           nd == Len(D)
<1>14. /\ Single(D) \in Seq(Y) /\ Len(Single(D)) = nd /\ nd \in 1 .. 5
       /\ \A j \in 1 .. nd : Len(Single(D)[j]) = 1
  BY <1>3, <1>6, SingleFacts
<1>15. /\ Single(all) \in Seq(Y) /\ Len(Single(all)) = Len(all)
       /\ \A j \in 1 .. Len(all) : Len(Single(all)[j]) = 1
       /\ Single(all)[1] = <<Space>>
  BY <1>12, <1>13, SingleFacts
<1>16. <<DegreeSign>> \in Seq(Y) /\ Len(<<DegreeSign>>) = 1 /\ <<DegreeSign>>[1] = DegreeSign
  BY <1>7
<1> HIDE DEF Y, nd
<1>17. /\ P1 \in Seq(Y) /\ Len(P1) = nd + 1
       /\ \A j \in 1 .. nd : Len(P1[j]) = 1
       /\ Len(P1[nd + 1]) = 2
  <2>1. /\ P1 \in Seq(Y) /\ Len(P1) = Len(Single(D)) + Len(<<DegreeSign>>)
        /\ \A j \in 1 .. Len(Single(D)) : P1[j] = Single(D)[j]
        /\ \A j \in Len(Single(D)) + 1 .. Len(Single(D)) + Len(<<DegreeSign>>) :
              P1[j] = <<DegreeSign>>[j - Len(Single(D))]
    BY <1>14, <1>16, ConcatFacts
  <2> HIDE DEF P1
  <2>2. P1[nd + 1] = DegreeSign
    <3>1. nd + 1 \in Len(Single(D)) + 1 .. Len(Single(D)) + Len(<<DegreeSign>>)
          /\ (nd + 1) - Len(Single(D)) = 1
      BY <1>14, <1>16
    <3>2. P1[nd + 1] = <<DegreeSign>>[(nd + 1) - Len(Single(D))]
      BY <2>1, <3>1
    <3> QED
      BY <1>16, <3>1, <3>2
  <2>3. Len(P1) = nd + 1
    BY <1>14, <1>16, <2>1
  <2>4. \A j \in 1 .. nd : Len(P1[j]) = 1
    BY <1>14, <2>1
  <2> QED
    BY <1>7, <2>1, <2>2, <2>3, <2>4
<1> HIDE DEF P1
<1>18. /\ P \in Seq(Y) /\ Len(P) = Len(P1) + Len(Single(all))
       /\ \A j \in 1 .. Len(P1) : P[j] = P1[j]
       /\ \A j \in Len(P1) + 1 .. Len(P1) + Len(Single(all)) : P[j] = Single(all)[j - Len(P1)]
  <2> DEFINE R == Single(all)
  <2>1. P1 \in Seq(Y) /\ R \in Seq(Y)
    BY <1>15, <1>17
  <2> HIDE DEF R
  <2>2. /\ P1 \o R \in Seq(Y) /\ Len(P1 \o R) = Len(P1) + Len(R)
        /\ \A j \in 1 .. Len(P1) : (P1 \o R)[j] = P1[j]
        /\ \A j \in Len(P1) + 1 .. Len(P1) + Len(R) : (P1 \o R)[j] = R[j - Len(P1)]
    BY <2>1, ConcatFacts
  <2> QED
    BY <2>2 DEF R
<1> HIDE DEF P
<1>19. Len(P) = nd + 1 + Len(all) /\ nd \in Nat /\ nd + 2 <= Len(P) /\ Len(P) <= 50
  <2> DEFINE n == Len(all)
  <2>1. Len(P) = (nd + 1) + n
    BY <1>15, <1>17, <1>18
  <2>2. n \in 1 .. 23 /\ nd \in 1 .. 5
    BY <1>13, <1>14
  <2> HIDE DEF n
  <2>3. Len(P) = nd + 1 + n /\ nd \in Nat /\ nd + 2 <= Len(P) /\ Len(P) <= 50
    BY <2>1, <2>2
  <2> QED
    BY <2>3 DEF n
<1>20. ASSUME NEW j \in 1 .. Len(P) PROVE Len(P[j]) = IF j = nd + 1 THEN 2 ELSE 1
  <2>1. CASE j <= nd + 1
    <3>1. j \in 1 .. Len(P1) /\ P[j] = P1[j]
      BY <1>17, <1>18, <1>19, <2>1
    <3>2. j # nd + 1 => j \in 1 .. nd
      BY <1>19, <2>1
    <3> QED
      BY <1>17, <3>1, <3>2
  <2>2. CASE j > nd + 1
    <3>1. j \in Len(P1) + 1 .. Len(P1) + Len(Single(all)) /\ j - Len(P1) \in 1 .. Len(all)
      BY <1>13, <1>15, <1>17, <1>19, <2>2
    <3>2. P[j] = Single(all)[j - Len(P1)]
      BY <1>18, <3>1
    <3>3. Len(P[j]) = 1
      BY <1>15, <3>1, <3>2
    <3> QED
      BY <1>19, <2>2, <3>3
  <2> QED
    BY <1>19, <2>1, <2>2
<1>21. P[nd + 2] = <<Space>>
  <2>1. nd + 2 \in Len(P1) + 1 .. Len(P1) + Len(Single(all)) /\ (nd + 2) - Len(P1) = 1
    BY <1>13, <1>15, <1>17, <1>19
  <2>2. P[nd + 2] = Single(all)[(nd + 2) - Len(P1)]
    BY <1>18, <2>1
  <2> QED
    BY <1>15, <2>1, <2>2
<1>22. Coordinate(P, nd, X)
  BY <1>18, <1>19, <1>20, <1>21 DEF Coordinate, Y
<1> QED
  BY <1>2, <1>8, <1>22 DEF nd, D

(* CutAtCharacter: EDC_GPS_FormatCoordinate never leaves half a degree      *)
(* sign, and a text cut short is the beginning of the whole, or its whole   *)
(* degrees and a space.                                                     *)
THEOREM CutOnlyAtCharacter == PositionSpec => []CutAtCharacter
<1>1. PositionInv => CutAtCharacter
  <2> SUFFICES ASSUME PositionInv, stage = "WRITTEN" PROVE CutAtCharacter
    BY DEF CutAtCharacter
  <2>1. buf_size \in TextSizes /\ hemisphere = Hemisphere
    BY DEF PositionInv
  <2>2. PICK seconds \in Seconds : buf = Assembled(PiecesFor(seconds), buf_size)
    BY DEF PositionInv
  <2> DEFINE P == PiecesFor(seconds)
             nd == Len(Digits(d, 10))
             z == buf_size
             N == Len(P)
  <2>3. PICK X : Int \subseteq X /\ Coordinate(P, nd, X)
    BY <2>1, PiecesFacts
  <2>4. z \in Nat \ {0}
    BY <2>1, TextSizesAssumption
  <2> HIDE DEF P, nd, z
  <2>5. N \in Nat /\ N <= 50 /\ nd \in Nat /\ nd + 2 <= N
    BY <2>3 DEF Coordinate
  <2>6. PICK f : PutsUpTo(f, P, z, N) /\ Assembled(P, z) = Append(f[N], NUL)
    BY <2>5, AssembledIs
  <2>7. PICK F : PutsUpTo(F, P, 64, N) /\ Assembled(P, 64) = Append(F[N], NUL)
    BY <2>5, AssembledIs
  <2> DEFINE L == RoomFor(N, nd, z)
             v == f[N]
             w == F[N]
             whole == Append(w, NUL)
             t == Append(whole, NUL)
  <2>8. /\ w \in Seq(X) /\ Len(w) = N + 1 /\ v \in Seq(X) /\ Len(v) = L
        /\ \A j \in 1 .. L : (z = nd + 2 => j <= nd) => v[j] = w[j]
        /\ z = nd + 2 => v[nd + 1] = Space
    <3>1. N \in 0 .. Len(P)
      BY <2>5
    <3>2. LengthAfter(N, nd) = N + 1
      BY <2>5 DEF LengthAfter
    <3> HIDE DEF N
    <3>3. /\ F[N] \in Seq(X) /\ Len(F[N]) = LengthAfter(N, nd)
          /\ f[N] \in Seq(X) /\ Len(f[N]) = RoomFor(N, nd, z)
          /\ \A j \in 1 .. Len(f[N]) : (z = nd + 2 => j <= nd) => f[N][j] = F[N][j]
          /\ (z = nd + 2 /\ N >= nd + 2) => f[N][nd + 1] = Space
      BY <2>3, <2>4, <2>6, <2>7, <3>1, Assembling DEF N
    <3> QED
      BY <2>5, <3>2, <3>3
  <2>9. buf = Append(v, NUL) /\ t \in Full
    BY <2>2, <2>6, <2>7 DEF Full, P, z
  <2>10. /\ L \in Nat /\ L < z
         /\ z = nd + 2 => L = nd + 1
         /\ z # nd + 2 => L # nd + 1 /\ (L = z - 1 \/ L = N + 1) /\ L <= N + 1
    BY <2>4, <2>5 DEF RoomFor
  <2> HIDE DEF N, v, w, L
  <2>11. NUL \in X
    BY <2>3 DEF NUL
  <2>12. /\ buf \in Seq(X) /\ Len(buf) = L + 1 /\ buf[L + 1] = NUL
         /\ \A j \in 1 .. L : buf[j] = v[j]
    BY <2>8, <2>9, <2>11
  <2>13. /\ whole \in Seq(X) /\ Len(whole) = N + 2
         /\ \A j \in 1 .. N + 1 : whole[j] = w[j]
    BY <2>5, <2>8, <2>11
  <2> HIDE DEF whole
  <2>14. /\ t \in Seq(X) /\ Len(t) = N + 3
         /\ \A j \in 1 .. N + 2 : t[j] = whole[j]
    BY <2>5, <2>11, <2>13
  <2> HIDE DEF t
  <2>15. CASE z # nd + 2
    <3>1. \A j \in 1 .. L : buf[j] = t[j]
      BY <2>5, <2>8, <2>10, <2>12, <2>13, <2>14, <2>15
    <3>2. SubSeq(buf, 1, L) = SubSeq(t, 1, L) /\ L <= Len(t)
      BY <2>5, <2>10, <2>12, <2>14, <2>15, <3>1, SamePrefix
    <3>3. Len(buf) - 1 = L /\ L = L + 1 - 1 /\ (L = z - 1 \/ L = Len(t) - 2) /\ L # nd + 1
      BY <2>5, <2>10, <2>12, <2>14, <2>15
    <3> QED
      BY <2>9, <2>10, <2>12, <3>2, <3>3 DEF CutAtCharacter, nd, z
  <2>16. CASE z = nd + 2
    <3>1. \A j \in 1 .. nd : buf[j] = t[j]
      BY <2>5, <2>8, <2>10, <2>12, <2>13, <2>14, <2>16
    <3>2. SubSeq(buf, 1, nd) = SubSeq(t, 1, nd) /\ nd <= Len(t)
      BY <2>5, <2>10, <2>12, <2>14, <2>16, <3>1, SamePrefix
    <3>3. Len(buf) - 1 = L /\ L = nd + 1 /\ buf[L] = Space
      BY <2>5, <2>8, <2>10, <2>12, <2>16
    <3> QED
      BY <2>9, <2>10, <2>12, <2>16, <3>2, <3>3 DEF CutAtCharacter, nd, z
  <2> QED
    BY <2>15, <2>16
<1> QED
  BY <1>1, PositionInvariant, PTL

-----------------------------------------------------------------------------
(* Rounding errors.                                                         *)
LEMMA InfinityIsDouble == IsDouble(Infinity) /\ Infinity \in Nat \ {0}
<1>1. Infinity \in Powers /\ Infinity \in Nat \ {0} /\ DoubleSignificant \in Nat /\ 4 <= DoubleSignificant
  BY InPowers, PowersType, Limits
<1>2. Multiple(Infinity, Infinity)
  BY <1>1, MultipleTrivial
<1>3. Infinity * 1 <= Infinity * DoubleSignificant
  BY <1>1, ProductLess
<1>4. Infinity <= DoubleSignificant * Infinity
  BY <1>1, <1>3
<1> QED
  BY <1>1, <1>2, <1>4 DEF IsDouble, Held

LEMMA PowerIsDouble ==
    ASSUME NEW u \in Powers, DoubleSignificant * u <= Infinity
    PROVE  IsDouble(DoubleSignificant * u)
<1>1. DoubleSignificant \in Nat /\ u \in Nat
  BY Limits, PowersType
<1>2. Multiple(u, DoubleSignificant * u)
  BY <1>1, MultipleTrivial
<1> QED
  BY <1>1, <1>2 DEF IsDouble, Held

(* The error is half the spacing; u is a spacing if the number is in reach. *)
Errs(n, p, z, u) == 2 * (p * z) <= 2 * n + p * u /\ 2 * n <= 2 * (p * z) + p * u

LEMMA ErrorFacts ==
    ASSUME NEW n \in Nat, NEW p \in Nat \ {0}, NEW u \in Powers,
           n <= p * (DoubleSignificant * u), Double(n, p) < Infinity,
           n < p * (DoubleSignificant * Infinity)
    PROVE  Errs(n, p, Double(n, p), u)
<1> DEFINE S == DoubleSignificant
           z == Double(n, p)
<1>1. S \in Nat \ {0} /\ u \in Nat \ {0} /\ Infinity \in Nat \ {0} /\ S \in Powers
  BY InPowers, PowersType
<1>2. PICK x \in Powers :
              /\ x = Spacing(n \div p, S)
              /\ IsDouble(z)
              /\ z < Infinity =>
                    2 * (p * z) <= 2 * n + p * x /\ 2 * n <= 2 * (p * z) + p * x
              /\ \A r : IsDouble(r) =>
                    (n <= p * r => z <= r) /\ (n >= p * r => z >= r)
  BY DoubleFacts
<1>3. x \in Nat \ {0} /\ z \in Nat
  BY <1>2, PowersType DEF IsDouble
<1> HIDE DEF z
<1>4. 2 * (p * z) <= 2 * n + p * x /\ 2 * n <= 2 * (p * z) + p * x
  BY <1>2 DEF z
<1> DEFINE e == S * u
<1>5. e \in Nat
  BY <1>1
<1>6. CASE n < p * e
  <2>1. n \div p \in Nat /\ n \div p < S * u /\ n \div p < S * Infinity
    <3> DEFINE w == S * Infinity
    <3>1. w \in Nat
      BY <1>1
    <3> HIDE DEF e, w
    <3>2. n < p * w
      BY DEF w, S
    <3>3. n \div p \in Nat /\ n \div p < e /\ n \div p < w
      BY <1>5, <1>6, <3>1, <3>2, DivLess
    <3> QED
      BY <3>3 DEF e, w
  <2>2. x <= u
    BY <1>1, <1>2, <2>1, SpacingFacts
  <2>3. p * x <= p * u
    BY <1>1, <1>3, <2>2, ProductLess
  <2>4. p * x \in Nat /\ p * u \in Nat /\ p * z \in Nat
    BY <1>1, <1>3
  <2> QED
    BY <1>4, <2>3, <2>4 DEF Errs, z
<1>7. CASE n = p * e
  <2>1. e <= Infinity
    <3>1. SUFFICES ASSUME e > Infinity PROVE FALSE
      BY <1>1, <1>5
    <3>2. p * Infinity <= p * e
      BY <1>1, <1>5, <3>1, ProductLess
    <3>3. z >= Infinity
      BY <1>2, <1>7, <3>2, InfinityIsDouble DEF z
    <3> QED
      BY <1>1, <1>3, <3>3 DEF z
  <2>2. IsDouble(e)
    BY <2>1, PowerIsDouble
  <2>3. n <= p * e /\ n >= p * e
    BY <1>7
  <2>4. z = e
    BY <1>2, <1>3, <1>5, <2>2, <2>3 DEF z
  <2>5. p * u \in Nat /\ p * e \in Nat
    BY <1>1, <1>5
  <2> QED
    BY <1>7, <2>4, <2>5 DEF Errs, z
<1>8. p * e \in Nat /\ n <= p * e
  BY <1>5
<1> QED
  BY <1>6, <1>7, <1>8

(* What was rounded to at most v is spaced at most as v is.                 *)
LEMMA SpacingGrows ==
    ASSUME NEW n \in Nat, NEW p \in Nat \ {0}, n < p * (DoubleSignificant * Infinity),
           NEW v \in Nat, v < Infinity, Double(n, p) <= v
    PROVE  /\ Spacing(v, DoubleSignificant) \in Powers
           /\ v < DoubleSignificant * Spacing(v, DoubleSignificant)
           /\ Errs(n, p, Double(n, p), Spacing(v, DoubleSignificant))
<1> DEFINE S == DoubleSignificant
           z == Double(n, p)
           w == Spacing(v, S)
<1>1. S \in Nat \ {0} /\ Infinity \in Nat \ {0} /\ S \in Powers /\ 4 <= S
  BY InPowers, PowersType, Limits
<1>2. PICK x \in Powers :
              /\ x = Spacing(n \div p, S)
              /\ IsDouble(z)
              /\ z < Infinity =>
                    2 * (p * z) <= 2 * n + p * x /\ 2 * n <= 2 * (p * z) + p * x
              /\ x # 1 => p * (S * x) <= 2 * n
              /\ \A r : IsDouble(r) =>
                    (n <= p * r => z <= r) /\ (n >= p * r => z >= r)
  BY DoubleFacts
<1>3. v < S * Infinity
  <2>1. Infinity * 4 <= Infinity * S
    BY <1>1, ProductLess
  <2> QED
    BY <1>1, <2>1
<1>4. w \in Powers /\ v < S * w /\ w \in Nat \ {0}
  BY <1>1, <1>3, SpacingFacts, PowersType
<1> HIDE DEF w
<1>5. z \in Nat /\ x \in Nat \ {0} /\ z < Infinity /\ z <= v
  BY <1>1, <1>2, PowersType DEF IsDouble
<1>6. x <= w
  <2>1. CASE x = 1
    BY <1>4, <2>1
  <2>2. CASE x # 1
    <3>1. PICK h \in Powers : x = 2 * h
      BY <2>2, PowersHalf
    <3>2. h \in Nat \ {0}
      BY <3>1, PowersType
    <3> DEFINE e == S * h
    <3>3. e \in Nat /\ S * x = 2 * e
      BY <1>1, <3>1, <3>2
    <3>4. p * e <= n
      <4>1. p * (2 * e) <= 2 * n
        BY <1>2, <2>2, <3>3
      <4>2. p * (2 * e) = 2 * (p * e) /\ p * e \in Nat
        BY <3>3
      <4> QED
        BY <4>1, <4>2
    <3> HIDE DEF z
    <3>5. e <= Infinity
      <4>1. SUFFICES ASSUME e > Infinity PROVE FALSE
        BY <1>1, <3>3
      <4> HIDE DEF e
      <4>2. p * Infinity <= p * e
        BY <1>1, <3>3, <4>1, ProductLess
      <4>3. n >= p * Infinity
        BY <1>1, <3>3, <3>4, <4>2
      <4>4. z >= Infinity
        BY <1>2, <4>3, InfinityIsDouble
      <4> QED
        BY <1>1, <1>5, <4>4
    <3>6. IsDouble(e)
      BY <3>1, <3>5, PowerIsDouble
    <3>7. z >= e
      BY <1>2, <3>3, <3>4, <3>6
    <3>8. S * h < S * w
      <4>1. S * w \in Nat
        BY <1>1, <1>4
      <4> QED
        BY <1>4, <1>5, <3>3, <3>7, <4>1
    <3>9. h < w
      <4>1. SUFFICES ASSUME w <= h PROVE FALSE
        BY <1>4, <3>2
      <4>2. S * w <= S * h
        BY <1>1, <1>4, <3>2, <4>1, ProductLess
      <4>3. S * w \in Nat /\ S * h \in Nat
        BY <1>1, <1>4, <3>2
      <4> QED
        BY <3>8, <4>2, <4>3
    <3>10. Multiple(2 * h, w)
      BY <1>4, <3>1, <3>9, PowersChain
    <3>11. PICK k \in Nat : w = k * x
      BY <3>1, <3>10 DEF Multiple
    <3>12. k >= 1 /\ x * k = w
      BY <1>4, <1>5, <3>11
    <3>13. x * 1 <= x * k
      BY <1>5, <3>12, ProductLess
    <3> QED
      BY <1>4, <1>5, <3>12, <3>13
  <2> QED
    BY <2>1, <2>2
<1>7. 2 * (p * z) <= 2 * n + p * x /\ 2 * n <= 2 * (p * z) + p * x
  BY <1>2, <1>5
<1> HIDE DEF z
<1>8. p * x <= p * w
  BY <1>4, <1>5, <1>6, ProductLess
<1>9. p * x \in Nat /\ p * w \in Nat /\ p * z \in Nat
  BY <1>4, <1>5
<1>10. Errs(n, p, z, w)
  BY <1>7, <1>8, <1>9 DEF Errs
<1> QED
  BY <1>4, <1>10 DEF w, z

-----------------------------------------------------------------------------
(* A coordinate in NMEA form read.                                          *)
LEMMA SmallPowers ==
    /\ 2 \in Powers /\ 32 \in Powers /\ 64 \in Powers /\ 2048 \in Powers /\ 4096 \in Powers
    /\ 4096 < Infinity /\ 2048 * One < Infinity
<1>1. One \in Nat /\ 50 < One /\ 3600 * One < Infinity /\ Infinity \in Nat
  BY DegreeLimits
<1>2. 4096 < Infinity /\ 2048 * One < Infinity
  BY <1>1
<1>3. 2 \in Powers
  <2>1. 1 \in Powers /\ 1 < Infinity
    BY <1>1, <1>2, InPowers
  <2>2. 2 * 1 \in Powers
    BY <2>1, PowersDouble
  <2> QED
    BY <2>2
<1>4. ASSUME NEW c \in 1 .. 4095, c \in Powers PROVE 2 * c \in Powers
  BY <1>1, <1>2, <1>4, PowersDouble
<1>5. 2 * 2 \in Powers /\ 2 * 2 = 4
  BY <1>3, <1>4, 2 \in 1 .. 4095
<1>6. 2 * 4 \in Powers /\ 2 * 4 = 8
  BY <1>4, <1>5, 4 \in 1 .. 4095
<1>7. 2 * 8 \in Powers /\ 2 * 8 = 16
  BY <1>4, <1>6, 8 \in 1 .. 4095
<1>8. 2 * 16 \in Powers /\ 2 * 16 = 32
  BY <1>4, <1>7, 16 \in 1 .. 4095
<1>9. 2 * 32 \in Powers /\ 2 * 32 = 64
  BY <1>4, <1>8, 32 \in 1 .. 4095
<1>10. 2 * 64 \in Powers /\ 2 * 64 = 128
  BY <1>4, <1>9, 64 \in 1 .. 4095
<1>11. 2 * 128 \in Powers /\ 2 * 128 = 256
  BY <1>4, <1>10, 128 \in 1 .. 4095
<1>12. 2 * 256 \in Powers /\ 2 * 256 = 512
  BY <1>4, <1>11, 256 \in 1 .. 4095
<1>13. 2 * 512 \in Powers /\ 2 * 512 = 1024
  BY <1>4, <1>12, 512 \in 1 .. 4095
<1>14. 2 * 1024 \in Powers /\ 2 * 1024 = 2048
  BY <1>4, <1>13, 1024 \in 1 .. 4095
<1>15. 2 * 2048 \in Powers /\ 2 * 2048 = 4096
  BY <1>4, <1>14, 2048 \in 1 .. 4095
<1> QED
  BY <1>2, <1>3, <1>8, <1>9, <1>14, <1>15

LEMMA PowersProduct ==
    ASSUME NEW t \in Powers, NEW u \in Powers, t * u <= Infinity
    PROVE  t * u \in Powers
<1>1. DoubleBits \in Nat
  BY FloatAssumption
<1>2. PICK j \in 0 .. DoubleBits : t = Power(2, j)
  BY DEF Powers
<1>3. PICK k \in 0 .. DoubleBits : u = Power(2, k)
  BY DEF Powers
<1>4. j \in Nat /\ k \in Nat /\ 2 \in Nat \ {0} /\ 2 \in Nat
  BY <1>1, <1>2, <1>3
<1>5. Power(2, j + k) = t * u
  BY <1>2, <1>3, <1>4, PowerSum
<1>6. j + k <= DoubleBits
  <2>1. SUFFICES ASSUME DoubleBits + 1 <= j + k PROVE FALSE
    BY <1>1, <1>4
  <2>2. Power(2, DoubleBits + 1) <= Power(2, j + k)
    BY <1>1, <1>4, <2>1, PowerGrows
  <2>3. Power(2, DoubleBits + 1) = 2 * Infinity
    BY <1>1, <1>4, PowerNext DEF Infinity
  <2>4. Infinity \in Nat \ {0} /\ t \in Nat /\ u \in Nat
    BY InPowers, PowersType
  <2> QED
    BY <1>5, <2>2, <2>3, <2>4
<1>7. j + k \in 0 .. DoubleBits
  BY <1>1, <1>4, <1>6
<1> QED
  BY <1>5, <1>7 DEF Powers

LEMMA HeldTimes ==
    ASSUME NEW x \in Nat, NEW sig \in Powers, Held(x, sig), NEW c \in Powers, c * x <= Infinity
    PROVE  Held(c * x, sig)
<1>1. x \in Nat /\ c \in Nat \ {0} /\ sig \in Nat /\ Infinity \in Nat /\ c * x \in Nat
  BY PowersType, InPowers
<1>2. CASE x = 0
  <2>1. c * x = 0 * 1 /\ 0 <= sig * 1 /\ 1 \in Powers
    BY <1>1, <1>2, InPowers
  <2> QED
    BY <1>1, <2>1 DEF Held, Multiple
<1>3. CASE x # 0
  <2>1. PICK t \in Powers : Multiple(t, x) /\ x <= sig * t
    BY DEF Held
  <2>2. t \in Nat \ {0}
    BY PowersType
  <2>3. PICK k \in Nat : x = k * t
    BY <2>1 DEF Multiple
  <2>4. t <= x
    <3>1. k >= 1 /\ t * k = x
      BY <1>1, <1>3, <2>2, <2>3
    <3>2. t * 1 <= t * k
      BY <2>2, <3>1, ProductLess
    <3> QED
      BY <1>1, <2>2, <3>1, <3>2
  <2>5. c * t <= c * x
    BY <1>1, <2>2, <2>4, ProductLess
  <2>6. c * t \in Nat
    BY <1>1, <2>2
  <2>7. c * t \in Powers
    <3>1. c * t <= Infinity
      BY <1>1, <2>5, <2>6
    <3> QED
      BY <3>1, PowersProduct
  <2>8. Multiple(c * t, c * x)
    BY <1>1, <2>1, <2>2, MultipleTimes
  <2>9. c * x <= sig * (c * t)
    <3> DEFINE e == sig * t
    <3>1. e \in Nat
      BY <1>1, <2>2
    <3>2. sig * (c * t) = c * e
      BY <1>1, <2>2
    <3> HIDE DEF e
    <3>3. c * x <= c * e
      BY <1>1, <2>1, <3>1, ProductLess DEF e
    <3> QED
      BY <3>2, <3>3
  <2> QED
    BY <2>7, <2>8, <2>9 DEF Held
<1> QED
  BY <1>2, <1>3

LEMMA TimesPower ==
    ASSUME NEW x, IsDouble(x), NEW c \in Powers, c * x <= Infinity
    PROVE  IsDouble(c * x) /\ c * x \in Nat
<1>1. x \in Nat /\ c \in Nat /\ c * x \in Nat /\ Held(x, DoubleSignificant)
  BY PowersType DEF IsDouble
<1>2. Held(c * x, DoubleSignificant)
  BY <1>1, InPowers, HeldTimes
<1> QED
  BY <1>1, <1>2 DEF IsDouble

AngleOf(k, n) == Double(k * One + Double(n, 60), 1)

LEMMA AngleFacts ==
    ASSUME NEW k \in 0 .. MaxDegrees + 1, NEW n \in Nat, n < 100 * One
    PROVE  /\ Added(k * One, MinutesOver(n)) = AngleOf(k, n)
           /\ IsDouble(Double(n, 60)) /\ Double(n, 60) \in Nat /\ Double(n, 60) < Infinity
           /\ IsDouble(AngleOf(k, n)) /\ AngleOf(k, n) \in Nat /\ AngleOf(k, n) < Infinity
           /\ n < 60 * (DoubleSignificant * Infinity)
           /\ k * One + Double(n, 60) < 1 * (DoubleSignificant * Infinity)
           /\ Double(n, 60) <= AngleOf(k, n) /\ k * One <= AngleOf(k, n)
<1> DEFINE Q == Double(n, 60)
           w == k * One
           z == AngleOf(k, n)
<1>1. MaxDegrees \in Nat /\ One \in Nat \ {0} /\ One \in Nat /\ Infinity \in Nat /\ 50 < One
  BY DegreeLimits
<1>2. /\ 100 * One < Infinity /\ 60 * One < Infinity
      /\ IsDouble(2 * One) /\ 2 * One < Infinity
  BY <1>1, DegreeLimits, 100 \in 0 .. 100 * (MaxDegrees + 1), 60 \in 0 .. 100 * (MaxDegrees + 1),
     2 \in 0 .. 100 * (MaxDegrees + 1)
<1>3. n < Infinity
  BY <1>1, <1>2
<1>4. Over(n, 60 * One) = Q /\ n < 60 * (DoubleSignificant * Infinity)
  BY <1>2, <1>3, OverFacts, 60 \in Nat \ {0}
<1>5. IsDouble(Q) /\ Q <= 2 * One
  <2>1. n <= 60 * (2 * One)
    BY <1>1
  <2>2. 60 \in Nat \ {0}
    OBVIOUS
  <2> QED
    BY <1>2, <1>4, <2>1, <2>2, DoubleFacts
<1>6. Q \in Nat /\ Q < Infinity
  BY <1>1, <1>2, <1>5 DEF IsDouble
<1>7. MinutesOver(n) = Q
  BY <1>4 DEF MinutesOver, PerDegree
<1>8. /\ IsDouble(w) /\ w \in Nat /\ w < Infinity
      /\ w + 2 * One = (k + 2) * One /\ IsDouble((k + 2) * One) /\ (k + 2) * One < Infinity
  <2>1. k \in Nat /\ k + 2 \in 0 .. 100 * (MaxDegrees + 1)
    BY <1>1
  <2>2. IsDouble((k + 2) * One) /\ (k + 2) * One < Infinity
    <3> DEFINE j == k + 2
    <3>1. j \in 0 .. 100 * (MaxDegrees + 1)
      BY <2>1
    <3> HIDE DEF j
    <3>2. IsDouble(j * One) /\ j * One < Infinity
      BY <3>1, DegreeLimits
    <3> QED
      BY <3>2 DEF j
  <2> QED
    BY <1>1, <2>1, <2>2, HundredTimes
<1> HIDE DEF Q, w
<1>9. Added(w, Q) = Double(w + Q, 1) /\ w + Q < 1 * (DoubleSignificant * Infinity)
  <2>1. ~(Q < 0)
    BY <1>6
  <2> QED
    BY <1>6, <1>8, <2>1, SumFacts DEF Added
<1>10. z = Double(w + Q, 1)
  BY DEF AngleOf, w, Q
<1>11. IsDouble(z) /\ z <= (k + 2) * One /\ Q <= z /\ w <= z
  <2>1. w + Q \in Nat /\ 1 \in Nat \ {0} /\ w + Q <= 1 * ((k + 2) * One)
        /\ w + Q >= 1 * Q /\ w + Q >= 1 * w
    BY <1>1, <1>5, <1>6, <1>8
  <2>2. IsDouble(z) /\ z >= Q /\ z >= w /\ z <= (k + 2) * One
    BY <1>5, <1>8, <1>9, <1>10, <2>1, DoubleFacts
  <2>3. z \in Nat
    BY <2>2 DEF IsDouble
  <2> QED
    BY <1>6, <1>8, <2>2, <2>3
<1>12. z \in Nat /\ z < Infinity
  BY <1>1, <1>8, <1>11 DEF IsDouble
<1> HIDE DEF z
<1> QED
  BY <1>4, <1>5, <1>6, <1>7, <1>9, <1>10, <1>11, <1>12 DEF Q, w, z

-----------------------------------------------------------------------------
LEMMA HundredthOf ==
    ASSUME NEW y \in Nat, NEW k \in Nat, 100 * (k * One) <= y, y < 100 * (k * One) + 100 * One
    PROVE  y \div (100 * One) = k
<1> DEFINE h == 100 * One
<1>1. One \in Nat \ {0}
  BY InPowers, PowersType
<1>2. h \in Nat \ {0} /\ h * k = 100 * (k * One) /\ h * (k + 1) = 100 * (k * One) + 100 * One
  BY <1>1
<1> HIDE DEF h
<1>3. /\ y \div h \in Nat
      /\ (y \div h >= k) <=> (y >= h * k)
      /\ (y \div h < k + 1) <=> (y < h * (k + 1))
  BY <1>2, DivLess
<1>4. h * k \in Nat /\ y >= h * k /\ y < h * (k + 1)
  BY <1>2
<1> QED
  BY <1>3, <1>4 DEF h

(* The angle read is that many sixtieths, up to two spacings.               *)
LEMMA AngleRead ==
    ASSUME NEW k \in 0 .. MaxDegrees + 1, NEW n \in Nat, n < 100 * One
    PROVE  /\ Spacing(AngleOf(k, n), DoubleSignificant) \in Nat
           /\ 60 * (AngleOf(k, n) - k * One) - n
                 <= 60 * Spacing(AngleOf(k, n), DoubleSignificant)
           /\ n - 60 * (AngleOf(k, n) - k * One)
                 <= 60 * Spacing(AngleOf(k, n), DoubleSignificant)
<1> DEFINE Q == Double(n, 60)
           w == k * One
           z == AngleOf(k, n)
           u == Spacing(z, DoubleSignificant)
<1>1. One \in Nat /\ k \in Nat /\ w \in Nat /\ 60 \in Nat \ {0} /\ 1 \in Nat \ {0}
  BY DegreeLimits
<1>2. /\ Q \in Nat /\ z \in Nat /\ z < Infinity /\ Q <= z
      /\ n < 60 * (DoubleSignificant * Infinity)
      /\ w + Q < 1 * (DoubleSignificant * Infinity)
  BY AngleFacts
<1>3. Errs(n, 60, Q, u) /\ u \in Powers
  <2> HIDE DEF z
  <2> QED
    BY <1>1, <1>2, SpacingGrows
<1>4. Errs(w + Q, 1, z, u)
  <2> DEFINE v == w + Q
  <2>1. v \in Nat /\ v < 1 * (DoubleSignificant * Infinity) /\ z = Double(v, 1)
    BY <1>1, <1>2 DEF AngleOf
  <2> HIDE DEF z, v
  <2>2. Double(v, 1) <= z
    BY <1>2, <2>1
  <2>3. Errs(v, 1, Double(v, 1), u)
    BY <1>1, <1>2, <2>1, <2>2, SpacingGrows
  <2> QED
    BY <2>1, <2>3 DEF v
<1>5. u \in Nat
  BY <1>3, PowersType
<1> HIDE DEF Q, w, z, u
<1>6. 60 * (z - w) - n <= 60 * u /\ n - 60 * (z - w) <= 60 * u
  BY <1>1, <1>2, <1>3, <1>4, <1>5 DEF Errs
<1> QED
  BY <1>5, <1>6 DEF w, z, u

(* The spacing of a position.                                               *)
LEMMA PositionSpacing ==
    ASSUME NEW x, IsDouble(x), x <= MaxDegrees * One
    PROVE  /\ x \in Nat /\ x < Infinity
           /\ Spacing(x, DoubleSignificant) \in Powers
           /\ Spacing(x, DoubleSignificant) \in Nat \ {0}
           /\ x < DoubleSignificant * Spacing(x, DoubleSignificant)
           /\ 2 * Spacing(x, DoubleSignificant) \in Powers
           /\ \A t \in Powers : x < DoubleSignificant * t => Spacing(x, DoubleSignificant) <= t
<1> DEFINE s0 == Spacing(x, DoubleSignificant)
<1>1. /\ x \in Nat /\ x < Infinity /\ Infinity \in Nat \ {0} /\ DoubleSignificant \in Powers
      /\ DoubleSignificant \in Nat /\ 4 <= DoubleSignificant
  BY ToNMEAFacts, InPowers, PowersType, Limits DEF IsDouble
<1>2. x < DoubleSignificant * Infinity
  <2>1. Infinity * 4 <= Infinity * DoubleSignificant
    BY <1>1, ProductLess
  <2> QED
    BY <1>1, <2>1
<1>3. /\ s0 \in Powers /\ x < DoubleSignificant * s0
      /\ s0 # 1 => DoubleSignificant * s0 <= 2 * x
      /\ \A t \in Powers : x < DoubleSignificant * t => s0 <= t
  BY <1>1, <1>2, SpacingFacts
<1>4. s0 \in Nat \ {0}
  BY <1>3, PowersType
<1> HIDE DEF s0
<1>5. s0 < Infinity
  <2>1. CASE s0 = 1
    BY <1>1, <2>1, SmallPowers
  <2>2. CASE s0 # 1
    <3>1. s0 * 4 <= s0 * DoubleSignificant
      BY <1>1, <1>4, ProductLess
    <3>2. s0 * DoubleSignificant <= 2 * x
      BY <1>1, <1>3, <1>4, <2>2
    <3>3. s0 * DoubleSignificant \in Nat
      BY <1>1, <1>4
    <3> QED
      BY <1>1, <1>4, <3>1, <3>2, <3>3
  <2> QED
    BY <2>1, <2>2
<1>6. 2 * s0 \in Powers
  BY <1>3, <1>5, PowersDouble
<1> QED
  BY <1>1, <1>3, <1>4, <1>6 DEF s0

(* A position made a coordinate in NMEA form and read again.                *)
LEMMA NmeaKept ==
    ASSUME NEW x, IsDouble(x), x <= MaxDegrees * One, NEW k, k = x \div One,
           NEW y, y = ToNMEA(x), NEW n, n = y - 100 * (k * One)
    PROVE  /\ k \in 0 .. MaxDegrees + 1 /\ n \in Nat /\ n < 100 * One
           /\ y \in Nat /\ y \div (100 * One) = k
           /\ Spacing(x, DoubleSignificant) \in Nat /\ Spacing(y, DoubleSignificant) \in Nat
           /\ 60 * (AngleOf(k, n) - x)
                 <= 120 * Spacing(x, DoubleSignificant) + Spacing(y, DoubleSignificant)
           /\ 60 * (x - AngleOf(k, n))
                 <= 120 * Spacing(x, DoubleSignificant) + Spacing(y, DoubleSignificant)
<1> DEFINE w == k * One
           r == Rest(x)
           M == MinutesOf(x)
           Q == Double(n, 60)
           z == AngleOf(k, n)
           S == DoubleSignificant
           u == Spacing(x, S)
           v == Spacing(y, S)
<1>1. /\ MaxDegrees \in Nat /\ One \in Nat \ {0} /\ One \in Nat /\ Infinity \in Nat
      /\ S \in Nat /\ 100 * ((MaxDegrees + 1) * One) < Infinity /\ 1 \in Nat \ {0}
      /\ 60 \in Nat \ {0}
  BY DegreeLimits
<1>2. /\ x \in Nat /\ x < Infinity /\ u \in Powers /\ u \in Nat \ {0} /\ x < S * u
      /\ 2 * u \in Powers
  BY PositionSpacing
<1>3. /\ k \in 0 .. MaxDegrees /\ Truncated(x) = w
      /\ M = Double(60 * r, 1) /\ IsDouble(M) /\ M < 60 * One
      /\ y = Double(100 * w + M, 1) /\ IsDouble(y)
      /\ 100 * w <= y /\ y <= 100 * w + 60 * One
      /\ 100 * w + 60 * One <= 100 * ((MaxDegrees + 1) * One)
      /\ 100 * w + M < 1 * (S * Infinity)
  <2>1. Truncated(x) = w
    BY DEF Truncated
  <2> QED
    BY <2>1, ToNMEAFacts
<1>4. w \in Nat /\ w <= x /\ r = x - w /\ r \in Nat /\ r < One
  BY <1>2, <1>3, WholePart
<1>5. M \in Nat /\ y \in Nat /\ y < Infinity
  <2> DEFINE b == 100 * ((MaxDegrees + 1) * One)
  <2>1. b \in Nat /\ b < Infinity /\ M \in Nat /\ y \in Nat
    BY <1>1, <1>3 DEF IsDouble
  <2>2. 100 * w + 60 * One <= b
    BY <1>3
  <2> HIDE DEF b, M, w
  <2> QED
    BY <1>1, <1>3, <1>4, <2>1, <2>2 DEF b
<1> HIDE DEF w, M, r
<1>6. n = y - 100 * w /\ n \in Nat /\ n <= 60 * One /\ n < 100 * One
  <2>1. n = y - 100 * w
    BY DEF w
  <2> QED
    BY <1>1, <1>3, <1>4, <1>5, <2>1
<1>7. k \in Nat /\ k \in 0 .. MaxDegrees + 1
  BY <1>1, <1>3
<1>8. y \div (100 * One) = k
  <2>1. 100 * (k * One) <= y /\ y < 100 * (k * One) + 100 * One
    BY <1>1, <1>3, <1>4, <1>5 DEF w
  <2> QED
    BY <1>5, <1>7, <2>1, HundredthOf
<1>9. /\ IsDouble(Q) /\ Q \in Nat /\ Q < Infinity
      /\ z \in Nat /\ z < Infinity /\ z = Double(w + Q, 1)
      /\ n < 60 * (S * Infinity) /\ w + Q < 1 * (S * Infinity)
  BY <1>6, <1>7, AngleFacts DEF AngleOf, w
<1> HIDE DEF z
<1>10. v \in Powers /\ v \in Nat /\ Errs(100 * w + M, 1, y, v)
  <2> DEFINE b == 100 * w + M
  <2>1. b \in Nat /\ b < 1 * (S * Infinity) /\ y = Double(b, 1)
    BY <1>3, <1>4, <1>5
  <2> HIDE DEF b
  <2>2. Double(b, 1) <= y
    BY <1>5, <2>1
  <2>3. v \in Powers /\ Errs(b, 1, Double(b, 1), v)
    BY <1>1, <1>5, <2>1, <2>2, SpacingGrows
  <2> QED
    BY <2>1, <2>3, PowersType DEF b
<1>11. Errs(60 * r, 1, M, v)
  <2> DEFINE b == 60 * r
             e == 100 * w + M
  <2>1. b \in Nat /\ b <= 60 * Infinity
    BY <1>1, <1>2, <1>4
  <2>2. b < 1 * (S * Infinity)
    <3>1. b <= 60 * One /\ 60 * One <= 2 * Infinity
      BY <1>1, <1>4, DegreeLimits
    <3>2. b <= 2 * Infinity
      BY <1>1, <2>1, <3>1
    <3> QED
      BY <1>1, <2>1, <3>2, InBounds
  <2>3. M <= y
    <3>1. e \in Nat /\ e >= 1 * M /\ e < 1 * (S * Infinity) /\ y = Double(e, 1)
      BY <1>3, <1>4, <1>5
    <3> HIDE DEF e
    <3>2. y >= M
      BY <1>1, <1>3, <3>1, DoubleFacts
    <3> QED
      BY <1>5, <3>2
  <2> HIDE DEF b, e
  <2>4. M = Double(b, 1)
    BY <1>3 DEF b
  <2>5. Errs(b, 1, Double(b, 1), v)
    BY <1>1, <1>5, <2>1, <2>2, <2>3, <2>4, SpacingGrows
  <2> QED
    BY <2>4, <2>5 DEF b
<1>12. n <= 60 * (S * (2 * u)) /\ w + Q <= 1 * (S * (2 * u))
  <2> DEFINE e == S * u
  <2>1. e \in Nat /\ S * (2 * u) = 2 * e /\ x < e
    BY <1>1, <1>2
  <2> HIDE DEF e
  <2>2. n <= 120 * x /\ w + Q <= 2 * x
    <3>1. IsDouble(2 * x) /\ 2 * x \in Nat /\ (k = 0 => IsDouble(64 * x) /\ 64 * x \in Nat)
      <4>1. 2 * x <= Infinity
        <5>1. MaxDegrees * One \in Nat /\ 100 * ((MaxDegrees + 1) * One) = 100 * (MaxDegrees * One) + 100 * One
          BY <1>1
        <5> QED
          BY <1>1, <1>2, <5>1
      <4>2. k = 0 => 64 * x <= Infinity
        <5>1. SUFFICES ASSUME k = 0 PROVE 64 * x <= Infinity
          OBVIOUS
        <5>2. w = 0 /\ x < One
          BY <1>1, <1>2, <1>4, <5>1 DEF w
        <5> QED
          BY <1>1, <1>2, <5>2, SmallPowers
      <4> QED
        BY <4>1, <4>2, SmallPowers, TimesPower
    <3>2. CASE k = 0
      <4>1. w = 0 /\ r = x
        BY <1>1, <1>2, <1>4, <3>2 DEF w
      <4>2. n = y
        BY <1>5, <1>6, <4>1
      <4>3. M <= 64 * x
        <5> DEFINE b == 60 * r
        <5>1. b \in Nat /\ b <= 1 * (64 * x)
          BY <1>2, <4>1
        <5>2. b < 1 * (S * Infinity)
          <6>1. b <= 2 * Infinity
            <7>1. 60 * One < Infinity
              BY <1>1, DegreeLimits
            <7> QED
              BY <1>1, <1>4, <7>1
          <6> QED
            BY <1>1, <5>1, <6>1, InBounds
        <5> HIDE DEF b
        <5>3. M = Double(b, 1)
          BY <1>3 DEF b
        <5> QED
          BY <1>1, <3>1, <3>2, <5>1, <5>2, <5>3, DoubleFacts
      <4>4. y <= 64 * x
        <5> DEFINE b == 100 * w + M
        <5>1. b \in Nat /\ b <= 1 * (64 * x) /\ b < 1 * (S * Infinity) /\ y = Double(b, 1)
          BY <1>2, <1>3, <1>5, <4>1, <4>3
        <5> HIDE DEF b
        <5> QED
          BY <1>1, <3>1, <3>2, <5>1, DoubleFacts
      <4>5. n <= 120 * x /\ n <= 60 * (2 * x)
        BY <1>2, <1>5, <4>2, <4>4
      <4>6. Q <= 2 * x
        BY <1>1, <1>6, <1>9, <3>1, <4>5, DoubleFacts
      <4> QED
        BY <1>2, <1>9, <4>1, <4>5, <4>6
    <3>3. CASE k # 0
      <4>1. One <= w
        <5>1. k >= 1
          BY <1>7, <3>3
        <5>2. One * 1 <= One * k
          BY <1>1, <1>7, <5>1, ProductLess
        <5> QED
          BY <1>1, <1>7, <5>2 DEF w
      <4>2. n <= 60 * x /\ n <= 60 * One
        BY <1>1, <1>2, <1>4, <1>6, <4>1
      <4>3. Q <= One
        <5>1. IsDouble(One)
          <6>1. IsDouble(1 * One)
            BY <1>1, DegreeLimits, 1 \in 0 .. 100 * (MaxDegrees + 1)
          <6> QED
            BY <1>1, <6>1
        <5> QED
          BY <1>1, <1>6, <1>9, <4>2, <5>1, DoubleFacts
      <4> QED
        BY <1>1, <1>2, <1>4, <1>6, <1>9, <4>1, <4>2, <4>3
    <3> QED
      BY <3>2, <3>3
  <2>3. 60 * (2 * e) = 120 * e /\ 1 * (2 * e) = 2 * e
    BY <2>1
  <2> QED
    BY <1>2, <1>4, <1>6, <1>9, <2>1, <2>2, <2>3
<1>13. Errs(n, 60, Q, 2 * u)
  BY <1>1, <1>2, <1>6, <1>9, <1>12, ErrorFacts
<1>14. Errs(w + Q, 1, z, 2 * u)
  <2> DEFINE b == w + Q
             e == 2 * u
  <2>1. b \in Nat /\ b <= 1 * (S * e) /\ b < 1 * (S * Infinity) /\ z = Double(b, 1) /\ e \in Powers
    BY <1>2, <1>4, <1>9, <1>12
  <2> HIDE DEF b, e
  <2>2. Errs(b, 1, Double(b, 1), e)
    BY <1>1, <1>9, <2>1, ErrorFacts
  <2> QED
    BY <2>1, <2>2 DEF b, e
<1> HIDE DEF u, v, Q
<1>15. 60 * (z - x) <= 120 * u + v /\ 60 * (x - z) <= 120 * u + v
  BY <1>2, <1>4, <1>5, <1>6, <1>9, <1>10, <1>11, <1>13, <1>14 DEF Errs
<1> QED
  BY <1>2, <1>5, <1>6, <1>7, <1>8, <1>10, <1>15 DEF u, v, z

-----------------------------------------------------------------------------
(* Degrees, minutes and seconds.                                            *)
MinutePart(x) == MinutesOf(x) \div One
SecondPart(x) == Times(Rest(MinutesOf(x)), 60 * One)

(* The sum of the three.                                                    *)
Minute(a) == Double(a * One, 60)
Second(b) == Double(b, 3600)
Both(k, a) == Double(k * One + Minute(a), 1)
DMSAngle(k, a, b) == Double(Both(k, a) + Second(b), 1)

LEMMA DMSAngleFacts ==
    ASSUME NEW k \in 0 .. MaxDegrees, NEW a \in 0 .. 59, NEW b, IsDouble(b), b < 60 * One
    PROVE  /\ Sum(Sum(k * One, Over(a * One, 60 * One)), Over(b, PerMinute)) = DMSAngle(k, a, b)
           /\ Minute(a) \in Nat /\ Second(b) \in Nat /\ Both(k, a) \in Nat
           /\ DMSAngle(k, a, b) \in Nat /\ DMSAngle(k, a, b) < Infinity
           /\ Minute(a) <= One /\ Second(b) <= One
           /\ IsDouble(Minute(a)) /\ IsDouble(Second(b)) /\ IsDouble(Both(k, a))
           /\ Both(k, a) <= (k + 1) * One /\ (k + 1) * One < Infinity
           /\ a * One < 60 * (DoubleSignificant * Infinity)
           /\ b < 3600 * (DoubleSignificant * Infinity)
           /\ k * One + Minute(a) < 1 * (DoubleSignificant * Infinity)
           /\ Both(k, a) + Second(b) < 1 * (DoubleSignificant * Infinity)
<1> DEFINE S == DoubleSignificant
           w == k * One
           e == a * One
           P == Minute(a)
           U == Second(b)
           T == Both(k, a)
           z == DMSAngle(k, a, b)
<1>1. /\ MaxDegrees \in Nat /\ One \in Nat \ {0} /\ One \in Nat /\ Infinity \in Nat
      /\ S \in Nat /\ 60 \in Nat \ {0} /\ 3600 \in Nat \ {0} /\ 1 \in Nat \ {0}
      /\ 50 < One /\ 3600 * One < Infinity /\ k \in Nat /\ a \in Nat /\ b \in Nat
  BY DegreeLimits DEF IsDouble
<1>2. /\ e \in Nat /\ e <= 60 * One /\ 60 * One < Infinity /\ One < Infinity /\ e < Infinity
      /\ b < Infinity
  <2>1. One * a <= One * 60
    BY <1>1, ProductLess
  <2> QED
    BY <1>1, <2>1
<1>3. IsDouble(One)
  <2>1. IsDouble(1 * One)
    BY <1>1, DegreeLimits, 1 \in 0 .. 100 * (MaxDegrees + 1)
  <2> QED
    BY <1>1, <2>1
<1>4. /\ w \in Nat /\ w < Infinity /\ IsDouble(w)
      /\ IsDouble((k + 1) * One) /\ (k + 1) * One < Infinity /\ (k + 1) * One = w + One
      /\ IsDouble((k + 2) * One) /\ (k + 2) * One < Infinity /\ (k + 2) * One = w + 2 * One
  <2>1. k \in 0 .. MaxDegrees + 1 /\ k + 1 \in 0 .. MaxDegrees + 1
        /\ k + 2 \in 0 .. 100 * (MaxDegrees + 1)
    BY <1>1
  <2>2. IsDouble((k + 2) * One) /\ (k + 2) * One < Infinity
    <3> DEFINE j == k + 2
    <3>1. j \in 0 .. 100 * (MaxDegrees + 1)
      BY <2>1
    <3> HIDE DEF j
    <3>2. IsDouble(j * One) /\ j * One < Infinity
      BY <3>1, DegreeLimits
    <3> QED
      BY <3>2 DEF j
  <2>3. w \in Nat /\ w < Infinity /\ IsDouble(w)
    BY <2>1, HundredTimes
  <2>4. IsDouble((k + 1) * One) /\ (k + 1) * One < Infinity
    BY <2>1, HundredTimes
  <2>5. (k + 1) * One = w + One /\ (k + 2) * One = w + 2 * One
    BY <1>1
  <2> QED
    BY <2>2, <2>3, <2>4, <2>5
<1> HIDE DEF e, w
<1>5. Over(e, 60 * One) = Double(e, 60) /\ e < 60 * (S * Infinity)
  BY <1>1, <1>2, OverFacts
<1>6. Over(b, PerMinute) = U /\ b < 3600 * (S * Infinity)
  BY <1>1, <1>2, OverFacts DEF PerMinute, Second
<1>7. P = Double(e, 60)
  BY DEF Minute, e
<1> HIDE DEF P
<1>8. IsDouble(P) /\ P <= One
  BY <1>1, <1>2, <1>3, <1>5, <1>7, DoubleFacts
<1>9. P \in Nat /\ P < Infinity
  BY <1>1, <1>2, <1>8 DEF IsDouble
<1>10. IsDouble(U) /\ U <= One
  <2>1. b <= 3600 * One
    BY <1>1
  <2> QED
    BY <1>1, <1>3, <1>6, <2>1, DoubleFacts DEF Second
<1>11. U \in Nat /\ U < Infinity
  BY <1>1, <1>2, <1>10 DEF IsDouble
<1>12. Sum(w, P) = Double(w + P, 1) /\ w + P < 1 * (S * Infinity)
  BY <1>4, <1>9, SumFacts
<1>13. T = Double(w + P, 1)
  BY DEF Both, w, P
<1> HIDE DEF T, U
<1>14. IsDouble(T) /\ T <= (k + 1) * One
  <2> DEFINE v == w + P
  <2>1. v \in Nat /\ v <= 1 * ((k + 1) * One) /\ v < 1 * (S * Infinity) /\ T = Double(v, 1)
    BY <1>1, <1>4, <1>8, <1>9, <1>12, <1>13
  <2> HIDE DEF v
  <2> QED
    BY <1>1, <1>4, <2>1, DoubleFacts
<1>15. T \in Nat /\ T < Infinity
  BY <1>1, <1>4, <1>14 DEF IsDouble
<1>16. Sum(T, U) = Double(T + U, 1) /\ T + U < 1 * (S * Infinity)
  BY <1>11, <1>15, SumFacts
<1>17. z = Double(T + U, 1)
  BY DEF DMSAngle, T, U
<1> HIDE DEF z
<1>18. IsDouble(z) /\ z <= (k + 2) * One
  <2> DEFINE v == T + U
  <2>1. v \in Nat /\ v <= 1 * ((k + 2) * One) /\ v < 1 * (S * Infinity) /\ z = Double(v, 1)
    BY <1>1, <1>4, <1>10, <1>11, <1>14, <1>15, <1>16, <1>17
  <2> HIDE DEF v
  <2> QED
    BY <1>1, <1>4, <2>1, DoubleFacts
<1>19. z \in Nat /\ z < Infinity
  BY <1>1, <1>4, <1>18 DEF IsDouble
<1>20. Sum(Sum(w, Over(e, 60 * One)), Over(b, PerMinute)) = z
  BY <1>5, <1>6, <1>7, <1>12, <1>13, <1>16, <1>17
<1> QED
  BY <1>4, <1>5, <1>6, <1>8, <1>9, <1>10, <1>11, <1>12, <1>14, <1>15, <1>16, <1>19, <1>20
  DEF w, e, P, U, T, z

LEMMA ErrorIs ==
    ASSUME NEW n \in Nat, NEW p \in Nat \ {0}, NEW v \in Powers, NEW z, z = Double(n, p),
           z < Infinity, NEW c, c = DoubleSignificant * v, n <= p * c,
           n < p * (DoubleSignificant * Infinity)
    PROVE  Errs(n, p, z, v)
  BY ErrorFacts

LEMMA NoError ==
    ASSUME NEW z, IsDouble(z), z < Infinity
    PROVE  Double(z, 1) = z /\ Errs(z, 1, z, 0)
<1>1. z \in Nat
  BY DEF IsDouble
<1>2. Double(z, 1) = z
  BY <1>1, DoubleItself
<1> QED
  BY <1>1, <1>2 DEF Errs

LEMMA NothingOver ==
    ASSUME NEW p \in Nat \ {0}
    PROVE  Double(0, p) = 0 /\ Errs(0, p, 0, 0)
<1>1. p * 0 = 0
  OBVIOUS
<1>2. Double(p * 0, p) = 0
  BY ZeroIsDouble, DoubleExact
<1> QED
  BY <1>1, <1>2 DEF Errs

(* One is half a power of two times the precision.                          *)
LEMMA OneSpacing ==
    \E g \in Powers :
        /\ g \in Nat \ {0} /\ DoubleSignificant * g = 2 * One /\ 2 * g <= One
        /\ g = Spacing(One, DoubleSignificant)
        /\ \A t \in Powers : One < DoubleSignificant * t => g <= t
        /\ \A c \in Powers : c <= 4096 => c * g \in Powers
<1> DEFINE S == DoubleSignificant
           g == Spacing(One, S)
<1>1. /\ S \in Powers /\ S \in Nat /\ 4 <= S /\ S <= 2 * One /\ One \in Powers /\ One \in Nat \ {0}
      /\ Infinity \in Nat \ {0} /\ 3600 * One < Infinity
  BY DegreeLimits, InPowers, PowersType, Limits
<1>2. One < S * Infinity
  <2>1. Infinity * 4 <= Infinity * S
    BY <1>1, ProductLess
  <2> QED
    BY <1>1, <2>1
<1>3. /\ g \in Powers /\ One < S * g /\ (g # 1 => S * g <= 2 * One)
      /\ \A t \in Powers : One < S * t => g <= t
  BY <1>1, <1>2, SpacingFacts
<1>4. g \in Nat \ {0}
  BY <1>3, PowersType
<1> HIDE DEF g, S
<1> DEFINE e == S * g
<1>5. e \in Nat /\ e <= 2 * One
  <2>1. CASE g = 1
    BY <1>1, <2>1
  <2>2. CASE g # 1
    BY <1>1, <1>3, <1>4, <2>2
  <2> QED
    BY <2>1, <2>2
<1>6. e \in Powers
  <2>1. e <= Infinity
    BY <1>1, <1>5
  <2> QED
    BY <1>1, <1>3, <2>1, PowersProduct
<1>7. 2 * One <= e
  <2>1. One < e
    BY <1>3
  <2> HIDE DEF e
  <2>2. Multiple(2 * One, e)
    BY <1>1, <1>5, <1>6, <2>1, PowersChain
  <2>3. PICK j \in Nat : e = j * (2 * One)
    BY <2>2 DEF Multiple
  <2>4. j >= 1
    BY <1>1, <2>1, <2>3
  <2>5. (2 * One) * 1 <= (2 * One) * j
    BY <1>1, <2>4, ProductLess
  <2> QED
    BY <1>1, <2>3, <2>5
<1>8. e = 2 * One
  BY <1>1, <1>5, <1>7
<1>9. 2 * g <= One
  <2>1. g * 4 <= g * S
    BY <1>1, <1>4, ProductLess
  <2> QED
    BY <1>1, <1>4, <1>8, <2>1
<1>10. ASSUME NEW c \in Powers, c <= 4096 PROVE c * g \in Powers
  <2>1. c \in Nat
    BY PowersType
  <2>2. g * c <= g * 4096
    BY <1>4, <1>10, <2>1, ProductLess
  <2>3. g * c = c * g /\ c * g \in Nat
    BY <1>4, <2>1
  <2>4. c * g <= Infinity
    BY <1>1, <1>4, <1>9, <2>2, <2>3, SmallPowers
  <2> QED
    BY <1>3, <2>4, PowersProduct
<1> QED
  BY <1>3, <1>4, <1>8, <1>9, <1>10 DEF g, S

LEMMA DMSKept ==
    ASSUME NEW x, IsDouble(x), x <= MaxDegrees * One, NEW k, k = x \div One,
           NEW a, a = MinutePart(x), NEW b, b = SecondPart(x)
    PROVE  /\ k \in 0 .. MaxDegrees /\ a \in 0 .. 59 /\ IsDouble(b) /\ b < 60 * One
           /\ x \in Nat /\ Spacing(x, DoubleSignificant) \in Nat
           /\ DMSAngle(k, a, b) \in Nat
           /\ DMSAngle(k, a, b) - x <= 3 * Spacing(x, DoubleSignificant)
           /\ x - DMSAngle(k, a, b) <= 3 * Spacing(x, DoubleSignificant)
<1> DEFINE S == DoubleSignificant
           w == k * One
           r == Rest(x)
           M == MinutesOf(x)
           e == a * One
           R == Rest(M)
           P == Minute(a)
           U == Second(b)
           T == Both(k, a)
           z == DMSAngle(k, a, b)
           u == Spacing(x, S)
<1>1. /\ MaxDegrees \in Nat /\ One \in Nat \ {0} /\ One \in Nat /\ Infinity \in Nat
      /\ S \in Nat \ {0} /\ S \in Nat /\ 1 \in Nat \ {0} /\ 60 \in Nat \ {0} /\ 3600 \in Nat \ {0}
      /\ 60 * One < Infinity /\ 3600 * One < Infinity
  BY DegreeLimits, InPowers, PowersType
<1>2. /\ x \in Nat /\ x < Infinity /\ u \in Powers /\ u \in Nat \ {0} /\ x < S * u
      /\ 2 * u \in Powers /\ \A t \in Powers : x < S * t => u <= t
  BY PositionSpacing
<1>3. /\ k \in 0 .. MaxDegrees /\ k \in Nat /\ Truncated(x) = w
      /\ M = Double(60 * r, 1) /\ IsDouble(M) /\ M < 60 * One
  <2>1. Truncated(x) = w
    BY DEF Truncated
  <2> QED
    BY <2>1, ToNMEAFacts
<1>4. w \in Nat /\ w <= x /\ r = x - w /\ r \in Nat /\ r < One
  BY <1>2, <1>3, WholePart
<1> HIDE DEF w, r, u, M
<1>5. M \in Nat /\ M < Infinity
  BY <1>1, <1>3 DEF IsDouble
<1>6. /\ a = M \div One /\ a \in 0 .. 59 /\ a \in Nat /\ e = Truncated(M) /\ e \in Nat /\ e <= M
      /\ R = M - e /\ R \in Nat /\ R < One /\ IsDouble(R) /\ IsDouble(e)
  <2>1. a = M \div One
    BY DEF MinutePart, M
  <2>2. a \in Nat /\ ((a < 60) <=> (M < One * 60))
    BY <1>1, <1>5, <2>1, DivLess
  <2>3. One * 60 = 60 * One
    BY <1>1
  <2>4. e = Truncated(M)
    BY <2>1 DEF Truncated
  <2>5. a \in 0 .. 59
    BY <1>3, <2>2, <2>3
  <2> QED
    BY <1>3, <1>5, <2>1, <2>4, <2>5, WholePart
<1> HIDE DEF R, e
<1>7. b = Double(60 * R, 1) /\ IsDouble(b) /\ b < 60 * One
  <2>1. b = Times(R, 60 * One)
    BY DEF SecondPart, R, M
  <2> QED
    BY <1>3, <1>5, <1>6, <2>1, MinutesFacts
<1>8. b \in Nat /\ b < Infinity
  BY <1>1, <1>7 DEF IsDouble
<1>9. /\ P \in Nat /\ U \in Nat /\ T \in Nat /\ z \in Nat /\ z < Infinity
      /\ P <= One /\ U <= One /\ IsDouble(P) /\ IsDouble(U)
      /\ T <= (k + 1) * One /\ (k + 1) * One < Infinity
      /\ e < 60 * (S * Infinity) /\ b < 3600 * (S * Infinity)
      /\ w + P < 1 * (S * Infinity) /\ T + U < 1 * (S * Infinity)
  BY <1>3, <1>6, <1>7, DMSAngleFacts DEF w, e
<1>10. P = Double(e, 60) /\ U = Double(b, 3600) /\ T = Double(w + P, 1) /\ z = Double(T + U, 1)
  BY DEF Minute, Second, Both, DMSAngle, w, e
<1> HIDE DEF P, U, T, z
<1>11. P < Infinity /\ U < Infinity /\ T < Infinity
  <2> DEFINE c == (k + 1) * One
  <2>1. c \in Nat
    BY <1>1, <1>3
  <2> HIDE DEF c
  <2> QED
    BY <1>1, <1>9, <2>1 DEF c
<1>12. 60 * r \in Nat /\ 60 * r < 1 * (S * Infinity) /\ 60 * R \in Nat /\ 60 * R < 1 * (S * Infinity)
  <2>1. 60 * r \in Nat /\ 60 * r <= 2 * Infinity /\ 60 * R \in Nat /\ 60 * R <= 2 * Infinity
    BY <1>1, <1>4, <1>6
  <2> QED
    BY <1>1, <2>1, InBounds
<1>13. PICK g \in Powers :
          /\ g \in Nat \ {0} /\ S * g = 2 * One /\ 2 * g <= One
          /\ \A t \in Powers : One < S * t => g <= t
          /\ \A c \in Powers : c <= 4096 => c * g \in Powers
  BY OneSpacing
<1>14. 2 * x \in Nat /\ S * (2 * u) = 2 * (S * u) /\ S * u \in Nat /\ M = e + R /\ x = w + r
       /\ w + P \in Nat /\ T + U \in Nat
  BY <1>1, <1>2, <1>4, <1>5, <1>6, <1>9
<1> DEFINE SoNear(u1, u2, u3, u4, u5, u6) ==
             /\ Errs(60 * r, 1, M, u1) /\ Errs(60 * R, 1, b, u2) /\ Errs(e, 60, P, u3)
             /\ Errs(b, 3600, U, u4) /\ Errs(w + P, 1, T, u5) /\ Errs(T + U, 1, z, u6)
             /\ 60 * u1 + u2 + 3600 * u3 + 3600 * u4 + 3600 * u5 + 3600 * u6 <= 21600 * u
<1>15. ASSUME NEW u1 \in Nat, NEW u2 \in Nat, NEW u3 \in Nat, NEW u4 \in Nat, NEW u5 \in Nat,
              NEW u6 \in Nat, SoNear(u1, u2, u3, u4, u5, u6)
       PROVE  z - x <= 3 * u /\ x - z <= 3 * u
  <2>1. 2 * M - 120 * r <= u1 /\ 120 * r - 2 * M <= u1
    BY <1>4, <1>5, <1>15 DEF Errs
  <2>2. 2 * b - 120 * R <= u2 /\ 120 * R - 2 * b <= u2
    BY <1>6, <1>8, <1>15 DEF Errs
  <2>3. 120 * P - 2 * e <= 60 * u3 /\ 2 * e - 120 * P <= 60 * u3
    BY <1>6, <1>9, <1>15 DEF Errs
  <2>4. 7200 * U - 2 * b <= 3600 * u4 /\ 2 * b - 7200 * U <= 3600 * u4
    BY <1>8, <1>9, <1>15 DEF Errs
  <2>5. 2 * T - 2 * w - 2 * P <= u5 /\ 2 * w + 2 * P - 2 * T <= u5
    BY <1>4, <1>9, <1>15 DEF Errs
  <2>6. 2 * z - 2 * T - 2 * U <= u6 /\ 2 * T + 2 * U - 2 * z <= u6
    BY <1>9, <1>15 DEF Errs
  <2> QED
    BY <1>2, <1>4, <1>5, <1>6, <1>8, <1>9, <1>14, <1>15, <2>1, <2>2, <2>3, <2>4, <2>5, <2>6
<1> HIDE DEF SoNear
<1>16. CASE k # 0
  <2>1. One <= w
    <3>1. k >= 1
      BY <1>3, <1>16
    <3>2. One * 1 <= One * k
      BY <1>1, <1>3, <3>1, ProductLess
    <3> QED
      BY <1>1, <1>3, <3>2 DEF w
  <2>2. g <= u
    <3>1. One < S * u
      BY <1>1, <1>2, <1>4, <1>14, <2>1
    <3> QED
      BY <1>2, <1>13, <3>1
  <2>3. (k + 1) * One <= S * u
    <3>1. PICK j \in Nat : u = j * g
      BY <1>2, <1>13, <2>2, PowersChain DEF Multiple
    <3>2. S * u = j * (2 * One)
      <4>1. S * (j * g) = j * (S * g)
        BY <1>1, <1>13
      <4> QED
        BY <1>13, <3>1, <4>1
    <3>3. S * u = One * (2 * j) /\ w = One * k
      BY <1>1, <1>3, <3>2 DEF w
    <3>4. k < 2 * j
      <4>1. SUFFICES ASSUME 2 * j <= k PROVE FALSE
        BY <1>3
      <4>2. One * (2 * j) <= One * k
        BY <1>1, <1>3, <4>1, ProductLess
      <4> QED
        BY <1>2, <1>4, <1>14, <3>3, <4>2
    <3>5. One * (k + 1) <= One * (2 * j)
      BY <1>1, <1>3, <3>4, ProductLess
    <3>6. (k + 1) * One = One * (k + 1)
      BY <1>1, <1>3
    <3> QED
      BY <3>3, <3>5, <3>6
  <2>4. (k + 1) * One = w + One
    BY <1>1, <1>3 DEF w
  <2> DEFINE h == 32 * g
  <2>5. h \in Powers /\ h \in Nat /\ S * h = 64 * One /\ 60 * r <= 1 * (S * h) /\ 60 * R <= 1 * (S * h)
    <3>1. S * h = 32 * (S * g)
      BY <1>1, <1>13
    <3>2. h \in Powers /\ h \in Nat
      BY <1>13, SmallPowers
    <3> HIDE DEF h
    <3> QED
      BY <1>1, <1>4, <1>6, <1>13, <3>1, <3>2
  <2>6. Errs(60 * r, 1, M, h) /\ Errs(60 * R, 1, b, h)
    <3> DEFINE v1 == 60 * r
               v2 == 60 * R
    <3> HIDE DEF h
    <3>1. /\ v1 \in Nat /\ M = Double(v1, 1) /\ v1 <= 1 * (S * h) /\ v1 < 1 * (S * Infinity)
          /\ v2 \in Nat /\ b = Double(v2, 1) /\ v2 <= 1 * (S * h) /\ v2 < 1 * (S * Infinity)
      BY <1>3, <1>7, <1>12, <2>5
    <3> HIDE DEF v1, v2
    <3>2. Errs(v1, 1, M, h)
      BY <1>1, <1>5, <2>5, <3>1, ErrorIs
    <3>3. Errs(v2, 1, b, h)
      BY <1>1, <1>8, <2>5, <3>1, ErrorIs
    <3> QED
      BY <3>2, <3>3 DEF v1, v2
  <2>7. Errs(e, 60, P, g)
    <3>1. e <= 60 * (S * g)
      BY <1>1, <1>3, <1>5, <1>6, <1>13
    <3> QED
      BY <1>1, <1>6, <1>9, <1>10, <1>11, <3>1, ErrorIs
  <2>8. Errs(b, 3600, U, g)
    <3>1. b <= 3600 * (S * g)
      BY <1>1, <1>7, <1>8, <1>13
    <3> QED
      BY <1>1, <1>8, <1>9, <1>10, <1>11, <3>1, ErrorIs
  <2>9. Errs(w + P, 1, T, u)
    <3> DEFINE v == w + P
    <3>1. v \in Nat /\ v <= 1 * (S * u) /\ v < 1 * (S * Infinity) /\ T = Double(v, 1)
      BY <1>1, <1>4, <1>9, <1>10, <1>14, <2>3, <2>4
    <3> HIDE DEF v
    <3>2. Errs(v, 1, T, u)
      BY <1>1, <1>2, <1>11, <3>1, ErrorIs
    <3> QED
      BY <3>2 DEF v
  <2>10. Errs(T + U, 1, z, 2 * u)
    <3> DEFINE v == T + U
               c == 2 * u
    <3>1. v \in Nat /\ v < 1 * (S * Infinity) /\ z = Double(v, 1) /\ c \in Powers
      BY <1>2, <1>9, <1>10, <1>14
    <3>2. v <= 1 * (S * c)
      <4>1. T <= S * u /\ U <= S * u
        BY <1>1, <1>3, <1>4, <1>9, <1>14, <2>3, <2>4
      <4> QED
        BY <1>9, <1>14, <4>1
    <3> HIDE DEF v, c
    <3>3. Errs(v, 1, z, c)
      BY <1>1, <1>9, <3>1, <3>2, ErrorIs
    <3> QED
      BY <3>3 DEF v, c
  <2>11. 60 * h + h + 3600 * g + 3600 * g + 3600 * u + 3600 * (2 * u) <= 21600 * u
    BY <1>2, <1>13, <2>2
  <2> HIDE DEF h
  <2>12. z - x <= 3 * u /\ x - z <= 3 * u
    <3> DEFINE c == 2 * u
    <3>1. SoNear(h, h, g, g, u, c)
      BY <2>6, <2>7, <2>8, <2>9, <2>10, <2>11 DEF SoNear
    <3>2. c \in Nat /\ 0 \in Nat /\ u \in Nat
      BY <1>2
    <3> HIDE DEF c
    <3> QED
      BY <1>13, <1>15, <2>5, <3>1, <3>2
  <2> QED
    BY <1>2, <1>3, <1>6, <1>7, <1>9, <2>12 DEF u, z
<1>17. CASE k = 0
  <2>1. w = 0 /\ r = x /\ x < One /\ w + P = P
    <3>1. w = 0
      BY <1>1, <1>17 DEF w
    <3> QED
      BY <1>2, <1>4, <1>9, <3>1
  <2>2. u <= g
    <3>1. x < S * g
      BY <1>1, <1>2, <1>13, <2>1
    <3> QED
      BY <1>2, <1>13, <3>1
  <2>3. ASSUME NEW c \in Powers, c <= 4096
        PROVE  c * u \in Powers /\ c * u \in Nat /\ S * (c * u) = c * (S * u) /\ c \in Nat
               /\ c * (S * u) \in Nat
    <3>1. c \in Nat
      BY PowersType
    <3>2. c * u <= c * g
      BY <1>2, <1>13, <2>2, <3>1, ProductLess
    <3>3. c * g \in Powers
      BY <1>13, <2>3
    <3>4. c * g <= Infinity /\ c * g \in Nat /\ c * u \in Nat
      BY <1>2, <1>13, <3>1, <3>3, PowersType
    <3>5. c * u <= Infinity
      BY <1>1, <3>2, <3>4
    <3>6. S * (c * u) = c * (S * u) /\ c * (S * u) \in Nat
      BY <1>1, <1>2, <3>1
    <3> QED
      BY <1>2, <3>1, <3>4, <3>5, <3>6, PowersProduct
  <2> DEFINE u1 == 64 * u
             u2 == 2048 * u
             u3 == 4096 * u
             E  == S * u
  <2>4. /\ u1 \in Powers /\ u1 \in Nat /\ S * u1 = 64 * E
        /\ u2 \in Powers /\ u2 \in Nat /\ S * u2 = 2048 * E
        /\ u3 \in Powers /\ u3 \in Nat /\ S * u3 = 4096 * E
        /\ E \in Nat /\ x < E /\ S * (2 * u) = 2 * E
    BY <1>2, <1>14, <2>3, SmallPowers
  <2> HIDE DEF u1, u2, u3, E
  <2>5. IsDouble(2 * x) /\ IsDouble(64 * x) /\ IsDouble(4096 * x)
    <3>1. 2 * x <= Infinity /\ 64 * x <= Infinity /\ 4096 * x <= Infinity
      <4>1. 4096 * x <= Infinity
        <5> DEFINE c == 2048 * One
        <5>1. c \in Nat /\ c < Infinity /\ 4096 * x <= 2 * c
          BY <1>1, <1>2, <2>1, SmallPowers
        <5>2. c \in Powers
          BY <1>1, <5>1, SmallPowers, InPowers, PowersProduct
        <5> HIDE DEF c
        <5>3. 2 * c \in Powers
          BY <5>1, <5>2, PowersDouble
        <5>4. 2 * c <= Infinity
          BY <5>3, PowersType
        <5> QED
          BY <1>1, <1>2, <5>1, <5>4
      <4> QED
        BY <1>1, <1>2, <4>1
    <3> QED
      BY <3>1, SmallPowers, TimesPower
  <2>6. M <= 64 * x
    <3> DEFINE v == 60 * r
    <3>1. v \in Nat /\ v <= 1 * (64 * x) /\ v < 1 * (S * Infinity) /\ M = Double(v, 1)
      BY <1>2, <1>3, <1>12, <2>1
    <3> HIDE DEF v
    <3> QED
      BY <1>1, <2>5, <3>1, DoubleFacts
  <2>7. Errs(60 * r, 1, M, u1)
    <3> DEFINE v == 60 * r
    <3>1. v \in Nat /\ v <= 1 * (S * u1) /\ v < 1 * (S * Infinity) /\ M = Double(v, 1)
      BY <1>2, <1>3, <1>12, <2>1, <2>4
    <3> HIDE DEF v
    <3>2. Errs(v, 1, M, u1)
      BY <1>1, <1>5, <2>4, <3>1, ErrorIs
    <3> QED
      BY <3>2 DEF v
  <2>8. T = P /\ Errs(w + P, 1, T, 0)
    BY <1>9, <1>10, <1>11, <2>1, NoError
  <2>9. CASE e = 0
    <3>1. P = 0 /\ Errs(e, 60, P, 0)
      BY <1>10, <2>9, NothingOver
    <3>2. R = M
      BY <1>5, <1>6, <2>9
    <3>3. Errs(60 * R, 1, b, u3) /\ b <= 4096 * x
      <4> DEFINE v == 60 * R
      <4>1. /\ v \in Nat /\ v <= 1 * (S * u3) /\ v <= 1 * (4096 * x) /\ v < 1 * (S * Infinity)
            /\ b = Double(v, 1)
        BY <1>2, <1>5, <1>7, <1>12, <2>4, <2>6, <3>2
      <4> HIDE DEF v
      <4>2. Errs(v, 1, b, u3)
        BY <1>1, <1>8, <2>4, <4>1, ErrorIs
      <4>3. b <= 4096 * x
        BY <1>1, <2>5, <4>1, DoubleFacts
      <4> QED
        BY <4>2, <4>3 DEF v
    <3>4. Errs(b, 3600, U, 2 * u)
      <4>1. b <= 3600 * (S * (2 * u))
        BY <1>2, <1>8, <2>4, <3>3
      <4> QED
        BY <1>1, <1>2, <1>8, <1>9, <1>10, <1>11, <4>1, ErrorIs
    <3>5. Errs(T + U, 1, z, 0)
      <4>1. T + U = U
        BY <1>9, <2>8, <3>1
      <4> QED
        BY <1>9, <1>10, <1>11, <4>1, NoError
    <3>6. 60 * u1 + u3 + 3600 * 0 + 3600 * (2 * u) + 3600 * 0 + 3600 * 0 <= 21600 * u
      BY <1>2 DEF u1, u3
    <3>7. z - x <= 3 * u /\ x - z <= 3 * u
      <4> DEFINE c == 2 * u
                 o == 0
      <4>1. SoNear(u1, u3, o, c, o, o)
        BY <2>7, <2>8, <3>1, <3>3, <3>4, <3>5, <3>6 DEF SoNear
      <4>2. c \in Nat /\ o \in Nat /\ u \in Nat /\ u1 \in Nat /\ u2 \in Nat /\ u3 \in Nat
        BY <1>2, <2>4
      <4> HIDE DEF c, o
      <4> QED
        BY <1>15, <4>1, <4>2
    <3> QED
      BY <1>2, <1>3, <1>6, <1>7, <1>9, <3>7 DEF u, z
  <2>10. CASE e # 0 /\ e <= 60 * x
    <3>1. One <= e
      <4>1. a >= 1
        BY <1>1, <1>6, <2>10 DEF e
      <4>2. One * 1 <= One * a
        BY <1>1, <1>6, <4>1, ProductLess
      <4> QED
        BY <1>1, <1>6, <4>2 DEF e
    <3>2. Errs(e, 60, P, u) /\ P <= x
      <4>1. e <= 60 * (S * u)
        BY <1>2, <1>6, <2>4, <2>10 DEF E
      <4>2. Errs(e, 60, P, u)
        BY <1>1, <1>2, <1>6, <1>9, <1>10, <1>11, <4>1, ErrorIs
      <4>3. P <= x
        BY <1>1, <1>6, <1>9, <1>10, <2>10, DoubleFacts
      <4> QED
        BY <4>2, <4>3
    <3>3. Errs(60 * R, 1, b, u2)
      <4> DEFINE v == 60 * R
      <4>1. v \in Nat /\ v <= 1 * (S * u2) /\ v < 1 * (S * Infinity) /\ b = Double(v, 1)
        <5>1. 2 * R <= 64 * x
          BY <1>1, <1>2, <1>5, <1>6, <2>6, <3>1
        <5>2. v <= 2048 * E
          BY <1>2, <1>6, <2>4, <5>1
        <5> QED
          BY <1>7, <1>12, <2>4, <5>2
      <4> HIDE DEF v
      <4>2. Errs(v, 1, b, u2)
        BY <1>1, <1>8, <2>4, <4>1, ErrorIs
      <4> QED
        BY <4>2 DEF v
    <3>4. b <= 3600 * x
      BY <1>1, <1>2, <1>6, <1>7, <1>8, <2>10, <3>1
    <3>5. Errs(b, 3600, U, u) /\ U <= x
      <4>1. b <= 3600 * (S * u)
        BY <1>2, <1>8, <2>4, <3>4 DEF E
      <4>2. Errs(b, 3600, U, u)
        BY <1>1, <1>2, <1>8, <1>9, <1>10, <1>11, <4>1, ErrorIs
      <4>3. U <= x
        BY <1>1, <1>8, <1>9, <1>10, <3>4, DoubleFacts
      <4> QED
        BY <4>2, <4>3
    <3>6. Errs(T + U, 1, z, 2 * u)
      <4> DEFINE v == T + U
                 c == 2 * u
      <4>1. v \in Nat /\ v < 1 * (S * Infinity) /\ z = Double(v, 1) /\ c \in Powers
        BY <1>2, <1>9, <1>10, <1>14
      <4>2. v <= 1 * (S * c)
        BY <1>2, <1>9, <2>4, <2>8, <3>2, <3>5
      <4> HIDE DEF v, c
      <4>3. Errs(v, 1, z, c)
        BY <1>1, <1>9, <4>1, <4>2, ErrorIs
      <4> QED
        BY <4>3 DEF v, c
    <3>7. 60 * u1 + u2 + 3600 * u + 3600 * u + 3600 * 0 + 3600 * (2 * u) <= 21600 * u
      BY <1>2 DEF u1, u2
    <3>8. z - x <= 3 * u /\ x - z <= 3 * u
      <4> DEFINE c == 2 * u
                 o == 0
      <4>1. SoNear(u1, u2, u, u, o, c)
        BY <2>7, <2>8, <3>2, <3>3, <3>5, <3>6, <3>7 DEF SoNear
      <4>2. c \in Nat /\ o \in Nat /\ u \in Nat /\ u1 \in Nat /\ u2 \in Nat /\ u3 \in Nat
        BY <1>2, <2>4
      <4> HIDE DEF c, o
      <4> QED
        BY <1>15, <4>1, <4>2
    <3> QED
      BY <1>2, <1>3, <1>6, <1>7, <1>9, <3>8 DEF u, z
  <2>11. CASE 60 * x < e
    <3>1. R = 0
      <4> DEFINE v == 60 * r
      <4>1. v \in Nat /\ v <= 1 * e /\ v < 1 * (S * Infinity) /\ M = Double(v, 1)
        BY <1>2, <1>3, <1>6, <1>12, <2>1, <2>11
      <4> HIDE DEF v
      <4>2. M <= e
        BY <1>1, <1>6, <4>1, DoubleFacts
      <4> QED
        BY <1>5, <1>6, <4>2
    <3>2. 60 * R = 0 /\ b = 0 /\ Errs(60 * R, 1, b, 0)
      <4>1. 60 * R = 0
        BY <3>1
      <4> QED
        BY <1>1, <1>7, <4>1, NothingOver
    <3>3. U = 0 /\ Errs(b, 3600, U, 0)
      BY <1>1, <1>10, <3>2, NothingOver
    <3>4. Errs(e, 60, P, 2 * u)
      <4>1. e <= 60 * (S * (2 * u))
        BY <1>2, <1>5, <1>6, <2>4, <2>6
      <4> QED
        BY <1>1, <1>2, <1>6, <1>9, <1>10, <1>11, <4>1, ErrorIs
    <3>5. Errs(T + U, 1, z, 0)
      <4>1. T + U = P
        BY <1>9, <2>8, <3>3
      <4> QED
        BY <1>9, <1>10, <1>11, <4>1, NoError
    <3>6. 60 * u1 + 0 + 3600 * (2 * u) + 3600 * 0 + 3600 * 0 + 3600 * 0 <= 21600 * u
      BY <1>2 DEF u1
    <3>7. z - x <= 3 * u /\ x - z <= 3 * u
      <4> DEFINE c == 2 * u
                 o == 0
      <4>1. SoNear(u1, o, c, o, o, o)
        BY <2>7, <2>8, <3>2, <3>3, <3>4, <3>5, <3>6 DEF SoNear
      <4>2. c \in Nat /\ o \in Nat /\ u \in Nat /\ u1 \in Nat /\ u2 \in Nat /\ u3 \in Nat
        BY <1>2, <2>4
      <4> HIDE DEF c, o
      <4> QED
        BY <1>15, <4>1, <4>2
    <3> QED
      BY <1>2, <1>3, <1>6, <1>7, <1>9, <3>7 DEF u, z
  <2> QED
    BY <1>2, <1>6, <2>9, <2>10, <2>11
<1> QED
  BY <1>2, <1>3, <1>6, <1>7, <1>9, <1>16, <1>17 DEF u, z

-----------------------------------------------------------------------------
(* What a conversion leaves for the one back.                               *)
Kept ==
    /\ stage = "DECIMAL" => nmea = 0
    /\ (stage = "NMEA" /\ deg # 0) => nmea = ToNMEA(Abs(deg)) /\ hemisphere = Hemisphere
    /\ stage = "DMS" =>
           /\ d = Abs(deg) \div One /\ m = MinutePart(Abs(deg)) /\ s = SecondPart(Abs(deg))
           /\ nmea = 0
    /\ PositionReadsBack

LEMMA SignedBack ==
    ASSUME NEW a \in Nat, NEW y \in Int, NEW slack \in Nat,
           a - Abs(y) <= slack, Abs(y) - a <= slack
    PROVE  Within(IF y < 0 THEN -a ELSE a, y, slack)
<1>1. CASE y < 0
  <2>1. Abs(y) = -y
    BY <1>1 DEF Abs
  <2>2. -a - y \in Int /\ -a - y <= slack /\ -(-a - y) <= slack
    BY <2>1
  <2> QED
    BY <1>1, <2>2 DEF Within, Abs
<1>2. CASE ~(y < 0)
  <2>1. Abs(y) = y
    BY <1>2 DEF Abs
  <2>2. a - y \in Int /\ a - y <= slack /\ -(a - y) <= slack
    BY <2>1
  <2> QED
    BY <1>2, <2>2 DEF Within, Abs
<1> QED
  BY <1>1, <1>2

LEMMA SixtiethsLost ==
    ASSUME NEW c \in Int, NEW u \in Nat, NEW v \in Nat, 60 * c <= 120 * u + v
    PROVE  c <= 3 * u + v \div 60 /\ 3 * u + v \div 60 \in Nat
<1>1. v \div 60 \in Nat /\ v < 60 * (v \div 60) + 60
  BY 60 \in Nat \ {0}, DivLess
<1> DEFINE q == v \div 60
<1> HIDE DEF q
<1>2. q \in Nat /\ v < 60 * q + 60
  BY <1>1 DEF q
<1>3. c <= 3 * u + q /\ 3 * u + q \in Nat
  BY <1>2
<1> QED
  BY <1>3 DEF q

LEMMA NothingKept ==
    /\ MinutePart(0) = 0 /\ SecondPart(0) = 0 /\ DMSAngle(0, 0, 0) = 0 /\ AngleOf(0, 0) = 0
    /\ Spacing(0, DoubleSignificant) \in Nat
<1>1. One \in Nat \ {0} /\ MaxDegrees \in Nat /\ MaxDegrees * One \in Nat
      /\ 0 \div One = 0 /\ 0 * One = 0 /\ 0 # NaN /\ 0 # Infinity /\ 60 * One # NaN
      /\ 60 * One # Infinity
  BY DegreeLimits, NotInfinite, 60 \in 0 .. 100 * (MaxDegrees + 1)
<1>2. Truncated(0) = 0
  BY <1>1 DEF Truncated
<1>3. Rest(0) = 0
  BY <1>1, <1>2, NothingOver, 1 \in Nat \ {0} DEF Rest, Difference
<1>4. MinutesOf(0) = 0
  BY <1>1, <1>3 DEF MinutesOf, Times
<1>5. MinutePart(0) = 0 /\ SecondPart(0) = 0
  BY <1>1, <1>3, <1>4 DEF MinutePart, SecondPart, Times
<1>6. /\ Double(0, 1) = 0 /\ Double(0, 60) = 0 /\ Double(0, 3600) = 0
      /\ Double(0 + 0, 1) = 0 /\ 0 + 0 = 0
  BY NothingOver, 1 \in Nat \ {0}, 60 \in Nat \ {0}, 3600 \in Nat \ {0}
<1>7. Minute(0) = 0 /\ Second(0) = 0
  BY <1>1, <1>6 DEF Minute, Second
<1>8. Both(0, 0) = 0
  BY <1>1, <1>6, <1>7 DEF Both
<1>9. DMSAngle(0, 0, 0) = 0
  BY <1>6, <1>7, <1>8 DEF DMSAngle
<1>10. AngleOf(0, 0) = 0
  BY <1>1, <1>6 DEF AngleOf
<1>11. Spacing(0, DoubleSignificant) \in Nat
  BY <1>1, ZeroIsDouble, PositionSpacing
<1> QED
  BY <1>5, <1>9, <1>10, <1>11

LEMMA NmeaReadsBack ==
    ASSUME PositionInv, Kept, NMEA_ToDecimalDegrees
    PROVE  PositionReadsBack'
<1> DEFINE y == nmea
           A == Abs(deg)
           V == Spacing(y, DoubleSignificant)
           S == Spacing(A, DoubleSignificant)
<1>1. /\ IsDouble(y) /\ y <= 100 * ((MaxDegrees + 1) * One) /\ y \in Nat
      /\ deg \in Int /\ IsDouble(A) /\ A <= MaxDegrees * One /\ A \in Nat
      /\ stage = "NMEA" /\ UNCHANGED <<position, hemisphere, nmea>>
      /\ hemisphere \in Hemispheres /\ deg' = deg /\ is_lat' = is_lat
  BY DEF PositionInv, NMEA_ToDecimalDegrees, IsDouble, position
<1>2. PICK k \in 0 .. MaxDegrees + 1 :
          /\ WholeDegrees = k * One
          /\ NmeaMinutes = y - 100 * (k * One) /\ NmeaMinutes \in Nat
          /\ NmeaMinutes < 100 * One
  BY <1>1, WholeDegreesFacts
<1> DEFINE n == y - 100 * (k * One)
           z == AngleOf(k, n)
           x == IF hemisphere \in Negatives THEN -z ELSE z
           T == Spacing(z, DoubleSignificant)
<1>3. One \in Nat \ {0} /\ k \in Nat /\ n \in Nat /\ n < 100 * One /\ MaxDegrees \in Nat
  BY <1>2, DegreeLimits
<1>4. /\ Added(WholeDegrees, MinutesOver(NmeaMinutes)) = z
      /\ z \in Nat
  <2> HIDE DEF n
  <2>1. /\ Added(k * One, MinutesOver(n)) = AngleOf(k, n)
        /\ AngleOf(k, n) \in Nat
    BY <1>2, <1>3, AngleFacts
  <2>2. NmeaMinutes = n
    BY <1>2 DEF n
  <2> QED
    BY <1>2, <2>1, <2>2
<1>5. y \div (100 * One) = k
  <2>1. 100 * (k * One) <= y /\ y < 100 * (k * One) + 100 * One
    <3> DEFINE w == k * One
    <3>1. w \in Nat
      BY <1>3
    <3>2. n = y - 100 * w
      OBVIOUS
    <3> HIDE DEF w, n
    <3>3. 100 * w <= y /\ y < 100 * w + 100 * One
      BY <1>1, <1>3, <3>1, <3>2
    <3> QED
      BY <3>3 DEF w
  <2> QED
    BY <1>1, <1>3, <2>1, HundredthOf
<1>6. /\ T \in Nat /\ 60 * (z - k * One) - n <= 60 * T /\ n - 60 * (z - k * One) <= 60 * T
  <2> HIDE DEF n
  <2> QED
    BY <1>2, <1>3, AngleRead
<1>7. back' = {x} /\ x \in Int /\ Abs(x) = z /\ (x < 0 => hemisphere \in Negatives)
  <2> HIDE DEF z
  <2>1. back' = {x}
    BY <1>4 DEF NMEA_ToDecimalDegrees
  <2>2. x \in Int /\ Abs(x) = z /\ (x < 0 => hemisphere \in Negatives)
    BY <1>4 DEF Abs
  <2> QED
    BY <2>1, <2>2
<1>8. nmea' = y /\ hemisphere' = hemisphere /\ deg' = deg
  BY <1>1
<1> HIDE DEF z, x, T, V, S
<1>9. CoordinateRead'
  <2>1. Step(x) = T
    BY <1>7 DEF Step, T
  <2> DEFINE whole == k * One
             c == 60 * (Abs(x) - whole)
             e == n
  <2>2. Within(c, e, 60 * T)
    <3>1. c = 60 * (z - k * One) /\ c \in Int /\ e \in Nat
      BY <1>3, <1>4, <1>7
    <3>2. c - e <= 60 * T /\ e - c <= 60 * T
      BY <1>6, <3>1
    <3> HIDE DEF c, e
    <3> QED
      BY <1>6, <3>1, <3>2 DEF Within, Abs
  <2>3. Within(60 * (Abs(x) - (y \div (100 * One)) * One), y - 100 * ((y \div (100 * One)) * One), 60 * Step(x))
    BY <1>5, <2>1, <2>2
  <2> QED
    BY <1>7, <1>8, <2>3 DEF CoordinateRead, Step, Within
<1>10. ASSUME deg # 0 \/ y = 0 PROVE Within(x, deg, 3 * S + V \div 60)
  <2>1. CASE deg # 0
    <3>1. y = ToNMEA(A) /\ hemisphere = Hemisphere
      BY <1>1, <2>1 DEF Kept
    <3>2. A \div One = k
      <4> DEFINE j == A \div One
      <4>1. j = A \div One
        OBVIOUS
      <4> HIDE DEF j
      <4> DEFINE o == y - 100 * (j * One)
      <4>2. y \div (100 * One) = j
        BY <1>1, <3>1, <4>1, NmeaKept, o = y - 100 * (j * One)
      <4> QED
        BY <1>5, <4>1, <4>2
    <3>3. /\ S \in Nat /\ V \in Nat
          /\ 60 * (z - A) <= 120 * S + V /\ 60 * (A - z) <= 120 * S + V
      BY <1>1, <3>1, <3>2, NmeaKept DEF S, V, z
    <3>4. z - A <= 3 * S + V \div 60 /\ A - z <= 3 * S + V \div 60 /\ 3 * S + V \div 60 \in Nat
      <4>1. z - A \in Int /\ A - z \in Int
        BY <1>1, <1>4
      <4> QED
        BY <3>3, <4>1, SixtiethsLost
    <3>5. hemisphere \in Negatives <=> deg < 0
      BY <3>1 DEF Hemisphere, Negatives
    <3> DEFINE slack == 3 * S + V \div 60
    <3> HIDE DEF slack, A
    <3>6. slack \in Nat /\ z - A <= slack /\ A - z <= slack
      BY <3>4 DEF slack
    <3>7. Within(IF deg < 0 THEN -z ELSE z, deg, slack)
      BY <1>1, <1>4, <3>6, SignedBack DEF A
    <3> QED
      BY <3>5, <3>7 DEF x, slack
  <2>2. CASE deg = 0 /\ y = 0
    <3>1. k = 0 /\ n = 0
      BY <1>3, <1>5, <2>2
    <3>2. z = 0 /\ x = 0
      <4>1. z = 0
        BY <3>1, NothingKept DEF z
      <4>2. -z = 0 - z
        BY <1>4
      <4> QED
        BY <4>1, <4>2 DEF x
    <3>3. A = 0 /\ S \in Nat /\ V \in Nat
      <4>1. A = 0
        BY <2>2 DEF Abs
      <4> QED
        BY <2>2, <4>1, NothingKept DEF S, V
    <3>4. 3 * S + V \div 60 \in Nat
      BY <3>3, SixtiethsLost, 60 * 0 <= 120 * S + V, 0 \in Int
    <3> QED
      BY <2>2, <3>2, <3>4 DEF Within, Abs
  <2> QED
    BY <1>10, <2>1, <2>2
<1>11. PositionKept'
  <2>1. Step(deg) = S
    BY DEF Step, S
  <2>2. Step(nmea) = V
    BY <1>1 DEF Step, V, Abs
  <2> QED
    BY <1>7, <1>8, <1>10, <2>1, <2>2 DEF PositionKept, Lost, Step, Within
<1> QED
  BY <1>9, <1>11 DEF PositionReadsBack

LEMMA DMSReadsBack ==
    ASSUME PositionInv, Kept, DMSToDecimal
    PROVE  PositionReadsBack'
<1> DEFINE A == Abs(deg)
           S == Spacing(A, DoubleSignificant)
           z == DMSAngle(d, m, s)
           x == IF hemisphere \in Negatives THEN -z ELSE z
<1>1. /\ deg \in Int /\ IsDouble(A) /\ A <= MaxDegrees * One /\ A \in Nat
      /\ stage = "DMS" /\ hemisphere = Hemisphere
      /\ deg' = deg /\ is_lat' = is_lat /\ hemisphere' = hemisphere /\ nmea' = nmea
      /\ d \in 0 .. MaxDegrees /\ m \in 0 .. 59 /\ IsDouble(s) /\ s < 60 * One
  BY DEF PositionInv, DMSToDecimal, IsDouble, position
<1>2. nmea = 0 /\ d = A \div One /\ m = MinutePart(A) /\ s = SecondPart(A)
  BY <1>1 DEF Kept
<1>3. Sum(Sum(d * One, Over(m * One, 60 * One)), Over(s, PerMinute)) = z /\ z \in Nat
  BY <1>1, DMSAngleFacts
<1>4. S \in Nat /\ z - A <= 3 * S /\ A - z <= 3 * S
  BY <1>1, <1>2, DMSKept
<1>5. back' = {x} /\ x \in Int /\ Abs(x) = z /\ (x < 0 => hemisphere \in Negatives)
  <2> HIDE DEF z
  <2>1. back' = {x}
    BY <1>3 DEF DMSToDecimal
  <2>2. x \in Int /\ Abs(x) = z /\ (x < 0 => hemisphere \in Negatives)
    BY <1>3 DEF Abs
  <2> QED
    BY <2>1, <2>2
<1>6. deg = 0 => z = 0
  <2>1. SUFFICES ASSUME deg = 0 PROVE z = 0
    OBVIOUS
  <2>2. A = 0
    BY <2>1 DEF Abs
  <2>3. d = 0
    BY <1>2, <2>2, DegreeLimits
  <2>4. m = 0 /\ s = 0
    BY <1>2, <2>2, NothingKept
  <2> QED
    BY <2>3, <2>4, NothingKept
<1>7. hemisphere \in Negatives <=> deg < 0
  BY <1>1 DEF Hemisphere, Negatives
<1> HIDE DEF z, x, S, A
<1>8. Within(x, deg, 3 * S + Spacing(0, DoubleSignificant) \div 60)
  <2> DEFINE slack == 3 * S + Spacing(0, DoubleSignificant) \div 60
  <2>1. slack \in Nat /\ z - A <= slack /\ A - z <= slack
    <3> DEFINE u == Spacing(0, DoubleSignificant)
    <3>1. u \in Nat
      BY NothingKept
    <3> HIDE DEF u
    <3>2. u \div 60 \in Nat
      BY <3>1
    <3> QED
      BY <1>1, <1>3, <1>4, <3>2 DEF u
  <2> HIDE DEF slack
  <2>2. Within(IF deg < 0 THEN -z ELSE z, deg, slack)
    BY <1>1, <1>3, <2>1, SignedBack DEF A
  <2> QED
    BY <1>7, <2>1, <2>2 DEF x, slack
<1>9. PositionKept'
  <2>1. Step(deg) = S
    BY DEF Step, S, A
  <2>2. Step(0) = Spacing(0, DoubleSignificant)
    BY DEF Step, Abs
  <2> QED
    BY <1>1, <1>2, <1>5, <1>8, <2>1, <2>2 DEF PositionKept, Lost, Step, Within
<1>10. CoordinateRead'
  <2>1. One \in Nat \ {0} /\ 0 \div (100 * One) = 0 /\ 0 * One = 0 /\ 0 - 100 * 0 = 0
    BY DegreeLimits
  <2>2. ASSUME deg = 0
        PROVE  /\ Within(60 * (Abs(x) - (0 \div (100 * One)) * One),
                         0 - 100 * ((0 \div (100 * One)) * One), 60 * Step(x))
               /\ ~(x < 0)
    <3>1. z = 0
      BY <1>6, <2>2
    <3>2. x = 0 /\ Abs(x) = 0 /\ 60 * (0 - 0) = 0 /\ 0 - 0 = 0 /\ Abs(0) = 0
      <4>1. -z = 0 - z
        BY <1>3
      <4> QED
        BY <3>1, <4>1 DEF x, Abs
    <3>3. Step(x) \in Nat
      BY <3>2, NothingKept DEF Step
    <3> QED
      BY <2>1, <3>2, <3>3 DEF Within
  <2> QED
    BY <1>1, <1>2, <1>5, <2>2 DEF CoordinateRead, Step, Within
<1> QED
  BY <1>9, <1>10 DEF PositionReadsBack

LEMMA KeptInit ==
    ASSUME PositionInit
    PROVE  Kept
<1>1. stage \in {"DECIMAL", "NMEA"} /\ (stage = "DECIMAL" => nmea = 0) /\ (stage = "NMEA" => deg = 0)
  BY DEF PositionInit
<1> QED
  BY <1>1 DEF Kept, PositionReadsBack, PositionKept, CoordinateRead

LEMMA KeptNext ==
    ASSUME PositionInv, Kept, [PositionNext]_position_vars
    PROVE  Kept'
<1>1. CASE DecimalDegrees_ToNMEA
  <2>1. /\ stage' = "NMEA" /\ deg' = deg /\ is_lat' = is_lat /\ nmea' = ToNMEA(Abs(deg))
        /\ hemisphere' = Hemisphere
    BY <1>1 DEF DecimalDegrees_ToNMEA, ToNMEA, position
  <2>2. Hemisphere' = Hemisphere
    BY <2>1 DEF Hemisphere
  <2> QED
    BY <2>1, <2>2 DEF Kept, PositionReadsBack, PositionKept, CoordinateRead, ToNMEA, MinutesOf,
       Truncated, Rest, Abs
<1>2. CASE NMEA_ToDecimalDegrees
  <2>1. stage' = "DONE"
    BY <1>2 DEF NMEA_ToDecimalDegrees
  <2>2. PositionReadsBack'
    BY <1>2, NmeaReadsBack
  <2> QED
    BY <2>1, <2>2 DEF Kept
<1>3. CASE Refused
  <2>1. stage' = "REFUSED"
    BY <1>3 DEF Refused
  <2> QED
    BY <2>1 DEF Kept, PositionReadsBack, PositionKept, CoordinateRead
<1>4. CASE DecimalToDMS
  <2>1. /\ stage' = "DMS" /\ deg' = deg /\ nmea' = nmea /\ nmea = 0
        /\ d' = Abs(deg) \div One /\ m' = MinutePart(Abs(deg)) /\ s' = SecondPart(Abs(deg))
    BY <1>4 DEF DecimalToDMS, position, Kept, MinutePart, SecondPart
  <2>2. /\ (Abs(deg))' = Abs(deg) /\ MinutePart(Abs(deg))' = MinutePart(Abs(deg))
        /\ SecondPart(Abs(deg))' = SecondPart(Abs(deg))
    BY <2>1 DEF MinutePart, SecondPart, MinutesOf, Rest, Truncated, Abs
  <2> QED
    BY <2>1, <2>2 DEF Kept, PositionReadsBack, PositionKept, CoordinateRead
<1>5. CASE DMSToDecimal
  <2>1. stage' = "DONE"
    BY <1>5 DEF DMSToDecimal
  <2>2. PositionReadsBack'
    BY <1>5, DMSReadsBack
  <2> QED
    BY <2>1, <2>2 DEF Kept
<1>6. CASE FormatCoordinate
  <2>1. stage' = "WRITTEN"
    BY <1>6 DEF FormatCoordinate
  <2> QED
    BY <2>1 DEF Kept, PositionReadsBack, PositionKept, CoordinateRead
<1>7. CASE UNCHANGED position_vars
  <2>1. UNCHANGED <<deg, is_lat, hemisphere, nmea, d, m, s, back, stage>>
    BY <1>7 DEF position_vars, position, dms, written
  <2>2. PositionReadsBack' <=> PositionReadsBack
    BY <2>1 DEF PositionReadsBack, PositionKept, CoordinateRead, Lost, Step, Within, Abs
  <2>3. /\ (Abs(deg))' = Abs(deg) /\ MinutePart(Abs(deg))' = MinutePart(Abs(deg))
        /\ SecondPart(Abs(deg))' = SecondPart(Abs(deg)) /\ ToNMEA(Abs(deg))' = ToNMEA(Abs(deg))
        /\ Hemisphere' = Hemisphere
    BY <2>1 DEF MinutePart, SecondPart, ToNMEA, MinutesOf, Rest, Truncated, Abs, Hemisphere
  <2> QED
    BY <2>1, <2>2, <2>3 DEF Kept
<1> QED
  BY <1>1, <1>2, <1>3, <1>4, <1>5, <1>6, <1>7 DEF PositionNext, Finished

(* PositionReadsBack: what EDC_GPS_DecimalDegrees_ToNMEA and                *)
(* EDC_GPS_DecimalToDMS make of a position, EDC_GPS_NMEA_ToDecimalDegrees   *)
(* and EDC_GPS_DMSToDecimal turn back into it, up to the last bits and in   *)
(* the right hemisphere; and a coordinate that arrives is read as what it   *)
(* says.                                                                    *)
THEOREM PositionComesBack == PositionSpec => []PositionReadsBack
<1>1. PositionInit => Kept
  BY KeptInit
<1>2. PositionInv /\ Kept /\ [PositionNext]_position_vars => Kept'
  BY KeptNext
<1>3. Kept => PositionReadsBack
  BY DEF Kept
<1> QED
  BY <1>1, <1>2, <1>3, PositionInvariant, PTL DEF PositionSpec

-----------------------------------------------------------------------------
(* The texts that are read.                                                 *)
IsString(t) == IsText(t, Len(t))

LEMMA TextIsString ==
    ASSUME NEW t, NEW size \in Nat, IsText(t, size)
    PROVE  IsString(t) /\ Len(t) \in Nat \ {0} /\ Len(t) <= size /\ t[Len(t)] = NUL
<1>1. PICK Y : Int \subseteq Y /\ t \in Seq(Y) /\ Len(t) \in 1 .. size /\ t[Len(t)] = NUL
  BY DEF IsText
<1> DEFINE n == Len(t)
<1>2. n \in 1 .. size /\ n \in Nat
  BY <1>1
<1> HIDE DEF n
<1>3. n \in Nat \ {0} /\ n <= size /\ n \in 1 .. n
  BY <1>2
<1>4. Len(t) \in 1 .. Len(t)
  BY <1>3 DEF n
<1> QED
  BY <1>1, <1>3, <1>4 DEF IsString, IsText, n

LEMMA StringFacts ==
    ASSUME NEW t, IsString(t)
    PROVE  Len(t) \in Nat \ {0} /\ t[Len(t)] = NUL
<1>1. PICK Y : Int \subseteq Y /\ t \in Seq(Y) /\ Len(t) \in 1 .. Len(t) /\ t[Len(t)] = NUL
  BY DEF IsText, IsString
<1> DEFINE n == Len(t)
<1>2. n \in 1 .. n /\ n \in Nat
  BY <1>1
<1> HIDE DEF n
<1>3. n \in Nat \ {0}
  BY <1>2
<1> QED
  BY <1>1, <1>3 DEF n

(* What is no NUL is followed by something.                                 *)
LEMMA NotAtEnd ==
    ASSUME IsString(str), NEW p \in 0 .. Len(str) - 1, At(p) # NUL
    PROVE  p + 1 \in 0 .. Len(str) - 1
<1> DEFINE n == Len(str)
<1>1. n \in Nat \ {0} /\ str[n] = NUL /\ p \in 0 .. n - 1
  BY StringFacts
<1>2. str[p + 1] # NUL
  BY DEF At
<1> HIDE DEF n
<1>3. p + 1 # n
  BY <1>1, <1>2
<1>4. p + 1 \in 0 .. n - 1
  BY <1>1, <1>3
<1> QED
  BY <1>4 DEF n

LEMMA Letters ==
    /\ NUL \notin 0 .. 35 /\ NUL \notin 0 .. 9 /\ NUL # Space /\ NUL # Minus /\ NUL # Plus
    /\ NUL # Dot /\ NUL # LetterE
    /\ WordNaN \in Seq(0 .. 35) /\ Len(WordNaN) = 3
    /\ WordInf \in Seq(0 .. 35) /\ Len(WordInf) = 3
    /\ WordInity \in Seq(0 .. 35) /\ Len(WordInity) = 5
<1>1. NUL \notin 0 .. 35 /\ NUL \notin 0 .. 9 /\ NUL # Space /\ NUL # Minus /\ NUL # Plus
      /\ NUL # Dot /\ NUL # LetterE
  BY DEF NUL, Space, Minus, Plus, Dot, LetterE
<1>2. 23 \in 0 .. 35 /\ 10 \in 0 .. 35 /\ 18 \in 0 .. 35 /\ 15 \in 0 .. 35 /\ 29 \in 0 .. 35
      /\ 34 \in 0 .. 35
  OBVIOUS
<1>3. WordNaN \in Seq(0 .. 35) /\ Len(WordNaN) = 3
  BY <1>2 DEF WordNaN
<1>4. WordInf \in Seq(0 .. 35) /\ Len(WordInf) = 3
  BY <1>2 DEF WordInf
<1>5. WordInity \in Seq(0 .. 35) /\ Len(WordInity) = 5
  BY <1>2 DEF WordInity
<1> QED
  BY <1>1, <1>3, <1>4, <1>5

(* The first character that is no space stands in front of the NUL, or is it*)
LEMMA SkippedFacts ==
    ASSUME IsString(str), max_len \in Nat
    PROVE  Skipped \in 0 .. Len(str) - 1 /\ Skipped <= max_len
<1> DEFINE n == Len(str)
           Ends(p) == p = max_len \/ At(p) # Space
           T == {p \in 0 .. max_len : Ends(p)}
<1>1. n \in Nat \ {0} /\ str[n] = NUL
  BY StringFacts
<1>2. T \subseteq Nat /\ max_len \in T
  OBVIOUS
<1>3. PICK p \in T : \A q \in T : p <= q
  BY <1>2, LeastExists
<1>4. \A q \in 0 .. p - 1 : At(q) = Space
  <2> SUFFICES ASSUME NEW q \in 0 .. p - 1 PROVE At(q) = Space
    OBVIOUS
  <2>1. p \in Nat /\ p <= max_len /\ ~(p <= q) /\ q \in 0 .. max_len
    BY <1>3
  <2>2. q \notin T
    BY <1>3, <2>1
  <2> QED
    BY <2>1, <2>2
<1> DEFINE Good(k) == (k = max_len \/ At(k) # Space) /\ \A q \in 0 .. k - 1 : At(q) = Space
<1>5. \E k \in 0 .. max_len : Good(k)
  BY <1>3, <1>4
<1>6. Skipped = CHOOSE k \in 0 .. max_len : Good(k)
  BY DEF Skipped
<1>7. Skipped \in 0 .. max_len /\ Good(Skipped)
  BY <1>5, <1>6
<1> DEFINE k == Skipped
<1>8. k \in Nat /\ k <= max_len /\ \A q \in 0 .. k - 1 : At(q) = Space
  BY <1>7
<1> HIDE DEF k, Good, n, T
<1>9. k <= n - 1
  <2>1. SUFFICES ASSUME n <= k PROVE FALSE
    BY <1>1, <1>8
  <2>2. n - 1 \in 0 .. k - 1 /\ (n - 1) + 1 = n
    BY <1>1, <1>8, <2>1
  <2>3. At(n - 1) = Space /\ At(n - 1) = str[n]
    BY <1>8, <2>2 DEF At
  <2> QED
    BY <1>1, <2>3, Letters
<1> QED
  BY <1>1, <1>8, <1>9 DEF k, n

(* A word does not reach beyond the text.                                   *)
LEMMA WordFits ==
    ASSUME IsString(str), max_len \in Nat, NEW p \in 0 .. Len(str) - 1,
           NEW word \in Seq(0 .. 35), WordAt(p, word)
    PROVE  p + Len(word) \in 0 .. Len(str) - 1 /\ p + Len(word) <= max_len
<1> DEFINE n == Len(str)
           z == Len(word)
           Good(k) == At(p + k - 1) = word[k] /\ p + k \in 0 .. n - 1
           T == {k \in 1 .. z : ~Good(k)}
<1>1. n \in Nat \ {0} /\ z \in Nat /\ p \in Nat /\ p + z <= max_len /\ p \in 0 .. n - 1
  BY StringFacts DEF WordAt
<1>4. \A j \in 1 .. z : word[j] \in 0 .. 35
  BY ElementOfSeq
<1>2. ASSUME T # {} PROVE FALSE
  <2>1. T \subseteq Nat
    BY <1>1
  <2>2. PICK k \in T : \A q \in T : k <= q
    BY <1>2, <2>1, LeastExists
  <2>3. k \in 1 .. z /\ k \in Nat /\ ~Good(k)
    BY <1>1, <2>2
  <2>4. \A q \in 1 .. k - 1 : Good(q)
    <3> SUFFICES ASSUME NEW q \in 1 .. k - 1 PROVE Good(q)
      OBVIOUS
    <3>1. q \in 1 .. z /\ ~(k <= q)
      BY <1>1, <2>3
    <3>2. q \notin T
      BY <2>2, <3>1
    <3> QED
      BY <3>1, <3>2
  <2>5. At(p + k - 1) = word[k]
    BY <2>3, <2>4 DEF WordAt
  <2>6. p + k - 1 \in 0 .. n - 1
    <3>1. CASE k = 1
      BY <1>1, <3>1
    <3>2. CASE k # 1
      <4> DEFINE q == k - 1
      <4>1. q \in 1 .. k - 1 /\ p + k - 1 = p + q
        BY <1>1, <2>3, <3>2
      <4> HIDE DEF q
      <4>2. p + q \in 0 .. n - 1
        BY <2>4, <4>1
      <4> QED
        BY <4>1, <4>2
    <3> QED
      BY <3>1, <3>2
  <2>7. word[k] \in 0 .. 35
    BY <1>4, <2>3
  <2> DEFINE q == p + k - 1
  <2>8. At(q) # NUL /\ q \in 0 .. Len(str) - 1
    BY <2>5, <2>6, <2>7, Letters
  <2> HIDE DEF q
  <2>9. q + 1 \in 0 .. Len(str) - 1
    BY <2>8, NotAtEnd
  <2>10. q + 1 = p + k
    BY <1>1, <2>3 DEF q
  <2> QED
    BY <2>3, <2>5, <2>9, <2>10
<1>3. p + z \in 0 .. n - 1
  <2>1. CASE z = 0
    BY <1>1, <2>1
  <2>2. CASE z # 0
    <3>1. z \in 1 .. z
      BY <1>1, <2>2
    <3>2. z \notin T
      BY <1>2
    <3> QED
      BY <3>1, <3>2
  <2> QED
    BY <2>1, <2>2
<1> QED
  BY <1>1, <1>3

LEMMA WordEndFacts ==
    ASSUME IsString(str), max_len \in Nat
    PROVE  WordEnd \in 0 .. Len(str) - 1 /\ WordEnd <= max_len
<1> DEFINE n == Len(str)
           b == Skipped
           Ends(e) == e = max_len \/ At(e) \notin 0 .. 35 \/ e - b = WordSize - 1
           T == {e \in b .. max_len : Ends(e)}
           Good(e) == Ends(e) /\ \A p \in b .. e - 1 : At(p) \in 0 .. 35
<1>1. n \in Nat \ {0} /\ str[n] = NUL /\ b \in Nat /\ b <= n - 1 /\ b <= max_len
  BY StringFacts, SkippedFacts
<1>2. T \subseteq Nat /\ max_len \in T
  BY <1>1
<1>3. PICK e \in T : \A q \in T : e <= q
  BY <1>2, LeastExists
<1>4. \A q \in b .. e - 1 : At(q) \in 0 .. 35
  <2> SUFFICES ASSUME NEW q \in b .. e - 1 PROVE At(q) \in 0 .. 35
    OBVIOUS
  <2>1. e \in Nat /\ e <= max_len /\ ~(e <= q) /\ q \in b .. max_len
    BY <1>1, <1>3
  <2>2. q \notin T
    BY <1>3, <2>1
  <2> QED
    BY <2>1, <2>2
<1>5. \E k \in b .. max_len : Good(k)
  BY <1>3, <1>4
<1>6. WordEnd = CHOOSE k \in b .. max_len : Good(k)
  BY DEF WordEnd
<1>7. WordEnd \in b .. max_len /\ Good(WordEnd)
  BY <1>5, <1>6
<1> DEFINE k == WordEnd
<1>8. k \in Nat /\ k <= max_len /\ \A q \in b .. k - 1 : At(q) \in 0 .. 35
  BY <1>1, <1>7
<1> HIDE DEF k, Good, n, T, b
<1>9. k <= n - 1
  <2>1. SUFFICES ASSUME n <= k PROVE FALSE
    BY <1>1, <1>8
  <2>2. n - 1 \in b .. k - 1 /\ (n - 1) + 1 = n
    BY <1>1, <1>8, <2>1
  <2>3. At(n - 1) \in 0 .. 35 /\ At(n - 1) = str[n]
    BY <1>8, <2>2 DEF At
  <2> QED
    BY <1>1, <2>3, Letters
<1> QED
  BY <1>1, <1>8, <1>9 DEF k, n

-----------------------------------------------------------------------------
(* What fixed-point numbers are written as.                                 *)
QDigit(x, bits) == Least((x.rest * 10) \div Power(2, bits), 9)

NextQSplit(x, bits) ==
    [rest   |-> (x.rest * 10) % Power(2, bits),
     digits |-> Append(x.digits, QDigit(x, bits))]

QSplitsUpTo(f, fraction, bits, n) ==
    f = [k \in 0 .. n |-> IF k = 0 THEN [rest |-> fraction, digits |-> << >>]
                          ELSE NextQSplit(f[k - 1], bits)]

LEMMA QSplitsDefined ==
    ASSUME NEW fraction, NEW bits, NEW n \in Nat
    PROVE  \E f : QSplitsUpTo(f, fraction, bits, n)
<1> DEFINE T == {k \in Nat : ~\E f : QSplitsUpTo(f, fraction, bits, k)}
<1>1. SUFFICES ASSUME T # {} PROVE FALSE
  OBVIOUS
<1>2. PICK k \in T : \A j \in T : k <= j
  BY <1>1, LeastExists
<1>3. CASE k = 0
  <2> DEFINE f == [j \in 0 .. 0 |-> [rest |-> fraction, digits |-> << >>]]
  <2>1. QSplitsUpTo(f, fraction, bits, 0)
    BY DEF QSplitsUpTo
  <2> QED
    BY <1>3, <2>1
<1>4. CASE k # 0
  <2>1. k \in Nat /\ k - 1 \in Nat /\ k - 1 \notin T
    BY <1>2, <1>4
  <2>2. PICK g : QSplitsUpTo(g, fraction, bits, k - 1)
    BY <2>1
  <2> DEFINE f == [j \in 0 .. k |-> IF j = k THEN NextQSplit(g[k - 1], bits) ELSE g[j]]
  <2>3. \A j \in 0 .. k - 1 : g[j] = (IF j = 0 THEN [rest |-> fraction, digits |-> << >>]
                                      ELSE NextQSplit(g[j - 1], bits))
    BY <2>2 DEF QSplitsUpTo
  <2>4. ASSUME NEW j \in 0 .. k
        PROVE  f[j] = (IF j = 0 THEN [rest |-> fraction, digits |-> << >>]
                       ELSE NextQSplit(f[j - 1], bits))
    <3>1. CASE j = k
      BY <1>4, <2>1, <3>1
    <3>2. CASE j # k
      BY <2>1, <2>3, <3>2
    <3> QED
      BY <3>1, <3>2
  <2>5. QSplitsUpTo(f, fraction, bits, k)
    BY <2>4 DEF QSplitsUpTo
  <2> QED
    BY <1>2, <2>5
<1> QED
  BY <1>3, <1>4

LEMMA QPlacesFacts ==
    ASSUME NEW fraction, NEW bits, NEW prec \in Nat
    PROVE  \E X : QPlaces(fraction, bits, prec) \in Seq(X)
                  /\ Len(QPlaces(fraction, bits, prec)) = prec
<1> DEFINE f == CHOOSE g : QSplitsUpTo(g, fraction, bits, prec)
<1>1. QSplitsUpTo(f, fraction, bits, prec)
  BY QSplitsDefined
<1>2. QPlaces(fraction, bits, prec) = f[prec].digits
  BY DEF QPlaces, QSplitsUpTo, NextQSplit, QDigit
<1>3. \A k \in 0 .. prec : f[k] = (IF k = 0 THEN [rest |-> fraction, digits |-> << >>]
                                   ELSE NextQSplit(f[k - 1], bits))
  BY <1>1 DEF QSplitsUpTo
<1> HIDE DEF f
<1> DEFINE X == {QDigit(f[k], bits) : k \in 0 .. prec}
           Good(k) == f[k].digits \in Seq(X) /\ Len(f[k].digits) = k
           T == {k \in 0 .. prec : ~Good(k)}
<1>4. SUFFICES ASSUME T # {} PROVE FALSE
  BY <1>2
<1>5. T \subseteq Nat
  OBVIOUS
<1> HIDE DEF X, Good
<1>6. PICK k \in T : \A j \in T : k <= j
  BY <1>4, <1>5, LeastExists
<1>7. k \in 0 .. prec /\ ~Good(k) /\ (k # 0 => k - 1 \in 0 .. prec /\ Good(k - 1))
  BY <1>6
<1> HIDE DEF T
<1>8. CASE k = 0
  <2>1. f[k].digits = << >>
    BY <1>3, <1>7, <1>8
  <2> QED
    BY <1>7, <1>8, <2>1 DEF Good
<1>9. CASE k # 0
  <2> DEFINE before == f[k - 1].digits
             digit  == QDigit(f[k - 1], bits)
  <2>1. f[k].digits = Append(before, digit)
    <3>1. f[k] = NextQSplit(f[k - 1], bits)
      BY <1>3, <1>7, <1>9
    <3>2. NextQSplit(f[k - 1], bits).digits = Append(before, digit)
      BY DEF NextQSplit
    <3> QED
      BY <3>1, <3>2
  <2>2. digit \in X
    BY <1>7, <1>9 DEF X
  <2>3. before \in Seq(X) /\ Len(before) = k - 1
    BY <1>7, <1>9 DEF Good
  <2> HIDE DEF before, digit
  <2>4. Append(before, digit) \in Seq(X) /\ Len(Append(before, digit)) = k
    BY <1>7, <2>2, <2>3
  <2> QED
    BY <1>7, <2>1, <2>4 DEF Good
<1> QED
  BY <1>8, <1>9

LEMMA QTextFacts ==
    ASSUME NEW q \in Int, NEW bits \in Nat, NEW decimals \in Nat, NEW size \in Nat,
           NEW t \in Q_ToString(q, bits, decimals, size)
    PROVE  IsText(t, size)
<1> DEFINE prec  == Decimals(decimals)
           parts == QParts(q, bits, prec)
           whole == Abs(q) \div Power(2, bits)
           fraction == Abs(q) % Power(2, bits)
<1>1. prec \in Nat
  BY FixedAssumption DEF Decimals, Least
<1>2. t \in Written(parts, prec, size)
  BY DEF Q_ToString
<1>3. parts.negative = (q < 0) /\ parts.whole = Digits(whole, 10)
      /\ parts.places = QPlaces(fraction, bits, prec)
  BY DEF QParts
<1>4. whole \in Nat
  <2>1. Power(2, bits) \in Nat \ {0}
    BY PowerPositive
  <2>2. Abs(q) \in Nat
    BY DEF Abs
  <2> QED
    BY <2>1, <2>2, DivLess
<1> HIDE DEF prec, whole, fraction, parts
<1>5. PICK X : parts.places \in Seq(X) /\ Len(parts.places) = prec
  BY <1>1, <1>3, QPlacesFacts
<1> DEFINE Z == X \cup (0 .. 9)
<1>6. parts.places \in Seq(Z)
  BY <1>5
<1>7. parts.whole \in Seq(Z)
  <2>1. parts.whole \in Seq(0 .. 9)
    BY <1>3, <1>4, DecimalDigits
  <2> QED
    BY <2>1
<1> HIDE DEF Z
<1>8. (q < 0) \in BOOLEAN
  OBVIOUS
<1>9. parts.negative \in BOOLEAN
  BY <1>3, <1>8
<1> QED
  BY <1>1, <1>2, <1>5, <1>6, <1>7, <1>9, WrittenFacts

LEMMA BoolTextFacts ==
    ASSUME NEW v \in BOOLEAN, NEW words \in WordPairs, NEW size \in Nat,
           NEW t \in Bool_ToString(v, words, size)
    PROVE  IsText(t, size)
<1> DEFINE w == IF v THEN words[1] ELSE words[2]
<1>1. t = Append(w, NUL) /\ size > Len(w)
  BY DEF Bool_ToString
<1>2. w \in Seq(Int)
  <2> DEFINE IsPair(x, y) == words = <<x, y>> /\ x \in Seq(Int) /\ y \in Seq(Int)
  <2>1. \/ IsPair(<<29, 27, 30, 14>>, <<15, 10, 21, 28, 14>>)
        \/ IsPair(<<1>>, <<0>>)
        \/ IsPair(<<34, 14, 28>>, <<23, 24>>)
        \/ IsPair(<<24, 23>>, <<24, 15, 15>>)
    BY DEF WordPairs
  <2>2. ASSUME NEW x, NEW y, IsPair(x, y) PROVE words[1] \in Seq(Int) /\ words[2] \in Seq(Int)
    BY <2>2
  <2> HIDE DEF IsPair
  <2>3. words[1] \in Seq(Int) /\ words[2] \in Seq(Int)
    BY <2>1, <2>2
  <2> QED
    BY <2>3
<1> HIDE DEF w
<1>3. Len(w) + 1 <= size
  BY <1>1, <1>2
<1> QED
  BY <1>1, <1>2, <1>3, ShortText

-----------------------------------------------------------------------------
(* What EDC_Double_ToScientific writes.                                     *)
LEMMA PaddedType ==
    ASSUME NEW c \in Seq(0 .. 9)
    PROVE  Padded(c, 2) \in Seq(Int)
<1>1. TempSize \in Nat \ {0}
  BY TempAssumption
<1> DEFINE wanted == IF 2 < TempSize THEN 2 ELSE TempSize - 1
           zeros  == IF Len(c) < wanted THEN wanted - Len(c) ELSE 0
           front  == [j \in 1 .. zeros |-> 0]
<1>2. wanted \in 0 .. 2 /\ zeros \in Nat
  BY <1>1
<1>3. Padded(c, 2) = front \o c
  BY DEF Padded
<1> HIDE DEF zeros
<1>4. front \in Seq(Int)
  BY <1>2
<1>5. c \in Seq(Int)
  OBVIOUS
<1> HIDE DEF front
<1> QED
  BY <1>3, <1>4, <1>5, ConcatFacts

LEMMA ScientificTextFacts ==
    ASSUME NEW v, IsValue(v), NEW e \in Int, NEW decimals \in Nat, NEW size \in Nat,
           NEW negative \in BOOLEAN, NEW t \in Scientific(negative, v, e, decimals, size)
    PROVE  IsText(t, size)
<1>1. CASE v = NaN
  <2>1. t \in Double_ToString(NaN, decimals, size) /\ IsValue(NaN)
    BY <1>1 DEF Scientific
  <2> QED
    BY <2>1, DoubleTextFacts
<1>2. CASE v # NaN
  <2> DEFINE sign == IF negative THEN <<Minus>> ELSE << >>
             mark == <<LetterE, IF e >= 0 THEN Plus ELSE Minus>>
             tens == Padded(Digits(Abs(e), 10), 2)
  <2>1. PICK w \in Double_ToString(v, decimals, 32) :
            /\ t = sign \o SubSeq(w, 1, Len(w) - 1) \o mark \o tens \o <<NUL>>
            /\ Len(t) <= size
    BY <1>2 DEF Scientific
  <2>2. IsText(w, 32)
    BY DoubleTextFacts
  <2>3. PICK Y : Int \subseteq Y /\ w \in Seq(Y) /\ Len(w) \in 1 .. 32
    BY <2>2 DEF IsText
  <2>4. Minus \in Y /\ Plus \in Y /\ LetterE \in Y /\ NUL \in Y
    BY <2>3 DEF Minus, Plus, LetterE, NUL
  <2>5. sign \in Seq(Y) /\ mark \in Seq(Y) /\ <<NUL>> \in Seq(Y)
    BY <2>4
  <2>6. tens \in Seq(Y)
    <3>1. Abs(e) \in Nat
      BY DEF Abs
    <3>2. tens \in Seq(Int)
      BY <3>1, DecimalDigits, PaddedType
    <3> QED
      BY <2>3, <3>2
  <2> DEFINE front == SubSeq(w, 1, Len(w) - 1)
  <2>7. front \in Seq(Y)
    <3> DEFINE n == Len(w)
    <3>1. n \in 1 .. 32
      BY <2>3
    <3> HIDE DEF n
    <3>2. n # 0
      BY <3>1
    <3>3. Len(w) # 0
      BY <3>2 DEF n
    <3> QED
      BY <2>3, <3>3, FrontFacts
  <2> DEFINE last == <<NUL>>
  <2>8. last \in Seq(Y) /\ Len(last) = 1 /\ last[1] = NUL
    BY <2>5
  <2>9. t = sign \o front \o mark \o tens \o last
    BY <2>1
  <2> HIDE DEF sign, mark, tens, front, last
  <2> DEFINE a == sign \o front
             b == a \o mark
             c == b \o tens
  <2>10. a \in Seq(Y)
    BY <2>5, <2>7, ConcatFacts
  <2> HIDE DEF a
  <2>11. b \in Seq(Y)
    BY <2>5, <2>10, ConcatFacts
  <2> HIDE DEF b
  <2>12. c \in Seq(Y)
    BY <2>6, <2>11, ConcatFacts
  <2>13. t = c \o last
    BY <2>9 DEF a, b
  <2> HIDE DEF c
  <2>14. /\ t \in Seq(Y) /\ Len(t) = Len(c) + 1 /\ Len(c) \in Nat
         /\ \A j \in Len(c) + 1 .. Len(c) + 1 : t[j] = last[j - Len(c)]
    BY <2>8, <2>12, <2>13, ConcatFacts
  <2> DEFINE n == Len(c)
  <2>15. n \in Nat /\ n + 1 \in n + 1 .. n + 1 /\ (n + 1) - n = 1
    BY <2>14
  <2>16. t[n + 1] = last[(n + 1) - n]
    BY <2>14, <2>15
  <2>17. t[Len(t)] = NUL /\ Len(t) \in 1 .. size
    <3>1. Len(t) = n + 1
      BY <2>14
    <3> HIDE DEF n
    <3> QED
      BY <2>1, <2>8, <2>15, <2>16, <3>1
  <2> QED
    BY <2>3, <2>14, <2>17 DEF IsText
<1> QED
  BY <1>1, <1>2

-----------------------------------------------------------------------------
(* Ten times, and a tenth.                                                  *)
LEMMA TenFacts ==
    /\ One \in Nat \ {0} /\ Ten \in Nat \ {0} /\ Ten < Infinity /\ Ten \div One = 10
    /\ Ten = 10 * One /\ Infinity \in Nat \ {0} /\ NaN = Infinity + 1
<1>1. One \in Nat \ {0} /\ 10 * One < Infinity /\ Infinity \in Nat \ {0}
  BY InPowers, PowersType, Limits
<1>2. (10 * One) \div One = 10
  BY OneWhole
<1> QED
  BY <1>1, <1>2 DEF Ten, NaN

LEMMA TenTimes ==
    ASSUME NEW a \in Nat, a # 0, a <= Infinity
    PROVE  /\ Times(a, Ten) \in Nat /\ Times(a, Ten) <= Infinity /\ IsDouble(Times(a, Ten))
           /\ \A r : (IsDouble(r) /\ r <= a) => r <= Times(a, Ten)
<1>1. /\ One \in Nat \ {0} /\ Ten \in Nat \ {0} /\ Ten < Infinity /\ Ten \div One = 10
      /\ Infinity \in Nat \ {0} /\ NaN = Infinity + 1
  BY TenFacts
<1>2. a # NaN /\ Ten # NaN /\ Ten # 0 /\ Ten # Infinity
  BY <1>1
<1>3. CASE a = Infinity \/ 10 > (2 * Infinity) \div a
  <2>1. Times(a, Ten) = Infinity
    BY <1>1, <1>2, <1>3 DEF Times
  <2>2. IsDouble(Infinity)
    BY InfinityIsDouble
  <2>3. ASSUME NEW r, IsDouble(r) PROVE r <= Infinity
    BY <2>3 DEF IsDouble
  <2> QED
    BY <1>1, <2>1, <2>2, <2>3
<1>4. CASE a # Infinity /\ ~(10 > (2 * Infinity) \div a)
  <2> DEFINE w == 2 * Infinity
             n == a * 10
  <2>1. w \in Nat /\ n \in Nat /\ a \in Nat \ {0} /\ 10 \in Nat
    BY <1>1
  <2>2. Times(a, Ten) = Double(n, 1)
    BY <1>1, <1>2, <1>4 DEF Times
  <2>3. w \div a \in Nat /\ ((w \div a >= 10) <=> (w >= n))
    BY <2>1, DivLess
  <2>4. ~(10 > w \div a)
    BY <1>4
  <2>5. n <= w
    BY <2>1, <2>3, <2>4
  <2>6. 1 \in Nat \ {0} /\ n < 1 * (DoubleSignificant * Infinity)
    BY <2>1, <2>5, InBounds
  <2>7. a <= n
    OBVIOUS
  <2> HIDE DEF n
  <2>8. IsDouble(Double(n, 1))
        /\ \A r : IsDouble(r) => (n >= 1 * r => Double(n, 1) >= r)
    BY <2>1, <2>6, DoubleFacts
  <2>9. ASSUME NEW r, IsDouble(r), r <= a PROVE r <= Double(n, 1)
    <3>1. r \in Nat /\ Double(n, 1) \in Nat
      BY <2>8, <2>9 DEF IsDouble
    <3>2. n >= 1 * r
      BY <2>1, <2>7, <2>9, <3>1
    <3> QED
      BY <2>8, <2>9, <3>1, <3>2
  <2> QED
    BY <2>2, <2>8, <2>9 DEF IsDouble
<1> QED
  BY <1>3, <1>4

LEMMA TenOver ==
    ASSUME NEW a \in Nat, a <= Infinity
    PROVE  Over(a, Ten) \in Nat /\ Over(a, Ten) <= Infinity
<1>1. /\ One \in Nat \ {0} /\ Ten \in Nat \ {0} /\ Ten < Infinity /\ Ten = 10 * One
      /\ Infinity \in Nat \ {0} /\ NaN = Infinity + 1
  BY TenFacts
<1>2. CASE a = Infinity
  <2>1. a # NaN /\ Ten # NaN /\ Ten # Infinity
    BY <1>1, <1>2
  <2>2. Over(a, Ten) = Infinity
    BY <1>2, <2>1 DEF Over
  <2> QED
    BY <1>1, <2>2
<1>3. CASE a # Infinity
  <2>1. a < Infinity /\ 10 \in Nat \ {0} /\ 10 * One < Infinity
    BY <1>1, <1>3
  <2>2. Over(a, Ten) = Double(a, 10) /\ a < 10 * (DoubleSignificant * Infinity)
    BY <1>1, <2>1, OverFacts
  <2>3. IsDouble(Double(a, 10))
    BY <2>1, <2>2, DoubleFacts
  <2> QED
    BY <2>2, <2>3 DEF IsDouble
<1> QED
  BY <1>2, <1>3

-----------------------------------------------------------------------------
(* The invariant of a call that reads a text: where it reads; that the text *)
(* written before fits its buffer; the number that is being scaled; the     *)
(* power of ten; the places behind a fixed-point number's point, which are  *)
(* fewer than they are divided by.                                          *)
Outcomes == {"RUNNING", "OK", "INVALID_FORMAT", "BUFFER_TOO_SMALL", "OVERFLOW", "UNDERFLOW"}
TextPhases == {"SCALING", "START", "INTEGER", "FRACTION", "EXPONENT", "CONVERTING"}

PlaceInv ==
    /\ IsString(str) /\ max_len \in Nat
    /\ idx \in 0 .. Len(str) - 1 /\ idx <= max_len
    /\ phase = "SCALING" => idx = 0

RoomInv ==
    \A p \in printed :
        /\ parser \notin Converters => p.size \in Nat /\ Len(str) <= p.size
        /\ \A q \in printed : p = q

ScalingInv ==
    phase = "SCALING" =>
        /\ parser \in FloatParsers /\ result \in 0 .. NaN
        /\ exponent \in -(SciExponentMax + 1) .. SciExponentMax
        /\ \A p \in printed : p.decimals \in Nat

PowerInv ==
    /\ exponent \in -(ExponentMax + 1) .. ExponentMax
    /\ IsDouble(scale) /\ One <= scale

PlacesInv ==
    parser = "StringTo_Q" =>
        /\ frac_bits \in FracBits
        /\ frac_div \in 1 .. 10 * PlacesLimit
        /\ frac_accum \in Nat /\ frac_accum < frac_div
        /\ phase \in {"START", "INTEGER"} => frac_accum = 0

TextInv ==
    /\ status \in Outcomes /\ phase \in TextPhases /\ parser \in Functions
    /\ PlaceInv /\ RoomInv /\ ScalingInv /\ PowerInv /\ PlacesInv

(* A text at the start of a call.                                           *)
LEMMA LengthsFacts ==
    ASSUME NEW t, Len(t) \in Nat \ {0}, NEW n \in Lengths(t)
    PROVE  n \in Nat
<1> DEFINE z == Len(t)
<1>1. z \in Nat \ {0} /\ StrCap \in Nat
  BY TextAssumption
<1>2. n = StrCap \/ n = z - 1
  BY DEF Lengths
<1> HIDE DEF z
<1> QED
  BY <1>1, <1>2

LEMMA PlaceAtStart ==
    ASSUME IsString(str), max_len \in Lengths(str), idx = 0
    PROVE  PlaceInv
<1>1. Len(str) \in Nat \ {0}
  BY StringFacts
<1>2. max_len \in Nat
  BY <1>1, LengthsFacts
<1> QED
  BY <1>1, <1>2 DEF PlaceInv

LEMMA NothingIsText ==
    ASSUME NEW size \in Nat \ {0}
    PROVE  IsText(<<NUL>>, size) /\ Len(<<NUL>>) = 1
<1>1. << >> \in Seq(Int) /\ Len(<< >>) + 1 <= size /\ <<NUL>> = Append(<< >>, NUL)
  OBVIOUS
<1> QED
  BY <1>1, ShortText

LEMMA TypedFacts ==
    ASSUME Typed, parser \in Functions
    PROVE  IsString(str) /\ RoomInv /\ ScalingInv
<1>1. PICK t \in Texts : str = Append(t, NUL)
  BY DEF Typed
<1> DEFINE n == Len(t) + 1
<1>2. t \in Seq(Int) /\ n \in Nat /\ Len(t) + 1 <= n
  BY TextAssumption
<1> HIDE DEF n
<1>3. IsText(str, n)
  BY <1>1, <1>2, ShortText
<1>4. IsString(str)
  BY <1>2, <1>3, TextIsString
<1> QED
  BY <1>4 DEF Typed, RoomInv, ScalingInv

LEMMA DoublesAreValues ==
    ASSUME NEW v \in Doubles
    PROVE  IsValue(v) /\ Abs(v) \in 0 .. NaN
<1>1. v \in -Infinity .. NaN
  BY TextAssumption
<1>2. Infinity \in Nat \ {0} /\ NaN = Infinity + 1
  BY TenFacts
<1> QED
  BY <1>1, <1>2 DEF IsValue, Abs

LEMMA DecimalsType ==
    ASSUME NEW decimals \in DecimalCounts
    PROVE  decimals \in Nat /\ Decimals(decimals) \in Nat
  BY TextAssumption, FixedAssumption DEF Decimals, Least

(* What is written fits.                                                    *)
LEMMA WrittenRoom ==
    ASSUME NEW size \in Nat, IsText(str, size), NEW r, r.size = size, printed = {r}
    PROVE  IsString(str) /\ RoomInv
<1>1. IsString(str) /\ Len(str) <= size
  BY TextIsString
<1> QED
  BY <1>1 DEF RoomInv

LEMMA PrintedPlainFacts ==
    ASSUME PrintedPlain
    PROVE  IsString(str) /\ RoomInv /\ ScalingInv
<1>1. PICK v \in Doubles, decimals \in DecimalCounts, size \in BufSizes :
          /\ str \in Double_ToString(v, decimals, size)
          /\ printed = {[value |-> v, decimals |-> Decimals(decimals), size |-> size,
                         scientific |-> FALSE]}
  BY DEF PrintedPlain
<1>2. size \in Nat /\ decimals \in Nat /\ IsValue(v)
  BY TextAssumption, DecimalsType, DoublesAreValues
<1>3. IsText(str, size)
  BY <1>1, <1>2, DoubleTextFacts
<1> DEFINE r == [value |-> v, decimals |-> Decimals(decimals), size |-> size, scientific |-> FALSE]
<1>4. printed = {r} /\ r.size = size
  BY <1>1
<1> HIDE DEF r
<1> QED
  BY <1>2, <1>3, <1>4, WrittenRoom DEF PrintedPlain, ScalingInv

LEMMA PrintingScientificFacts ==
    ASSUME PrintingScientific, exponent = 0
    PROVE  IsString(str) /\ RoomInv /\ ScalingInv
<1>1. PICK v \in Doubles, decimals \in DecimalCounts, size \in BufSizes :
          /\ printed = {[value |-> v, decimals |-> Decimals(decimals), size |-> size,
                         scientific |-> TRUE]}
          /\ result = Abs(v)
  BY DEF PrintingScientific
<1>2. size \in Nat \ {0} /\ Decimals(decimals) \in Nat /\ Abs(v) \in 0 .. NaN
  BY TextAssumption, DecimalsType, DoublesAreValues
<1>3. IsText(str, size)
  BY <1>2, NothingIsText DEF PrintingScientific
<1> DEFINE r == [value |-> v, decimals |-> Decimals(decimals), size |-> size, scientific |-> TRUE]
<1>4. printed = {r} /\ r.size = size /\ r.decimals = Decimals(decimals)
  BY <1>1
<1> HIDE DEF r
<1>5. IsString(str) /\ RoomInv
  BY <1>2, <1>3, <1>4, WrittenRoom
<1>6. 0 \in -(SciExponentMax + 1) .. SciExponentMax
  BY LimitsAssumption
<1> QED
  BY <1>1, <1>2, <1>4, <1>5, <1>6 DEF PrintingScientific, ScalingInv

LEMMA PrintedQFacts ==
    ASSUME PrintedQ, frac_bits \in FracBits
    PROVE  IsString(str) /\ RoomInv /\ ScalingInv
<1>1. PICK q \in -(QMax + 1) .. QMax, decimals \in DecimalCounts, size \in BufSizes :
          /\ str \in Q_ToString(q, frac_bits, decimals, size)
          /\ printed = {[value |-> q, decimals |-> Decimals(decimals), size |-> size]}
  BY DEF PrintedQ
<1>2. size \in Nat /\ decimals \in Nat /\ q \in Int /\ frac_bits \in Nat
  BY TextAssumption, DecimalsType, FixedAssumption
<1>3. IsText(str, size)
  BY <1>1, <1>2, QTextFacts
<1> DEFINE r == [value |-> q, decimals |-> Decimals(decimals), size |-> size]
<1>4. printed = {r} /\ r.size = size
  BY <1>1
<1> HIDE DEF r
<1> QED
  BY <1>2, <1>3, <1>4, WrittenRoom DEF PrintedQ, ScalingInv

LEMMA PrintedBoolFacts ==
    ASSUME PrintedBool
    PROVE  IsString(str) /\ RoomInv /\ ScalingInv
<1>1. PICK v \in BOOLEAN, words \in WordPairs, size \in BufSizes :
          /\ str \in Bool_ToString(v, words, size)
          /\ printed = {[value |-> v, size |-> size]}
  BY DEF PrintedBool
<1>2. size \in Nat
  BY TextAssumption
<1>3. IsText(str, size)
  BY <1>1, <1>2, BoolTextFacts
<1> DEFINE r == [value |-> v, size |-> size]
<1>4. printed = {r} /\ r.size = size
  BY <1>1
<1> HIDE DEF r
<1> QED
  BY <1>2, <1>3, <1>4, WrittenRoom DEF PrintedBool, ScalingInv

LEMMA ConvertingFacts ==
    ASSUME Converting \/ ConvertingBack
    PROVE  IsString(str) /\ RoomInv /\ ScalingInv
<1>1. str = <<NUL>> /\ phase = "CONVERTING" /\ parser \in Converters
  BY DEF Converting, ConvertingBack, Converters
<1>2. IsText(str, 1)
  BY <1>1, NothingIsText
<1>3. IsString(str)
  BY <1>2, TextIsString
<1>4. \A p \in printed : \A q \in printed : p = q
  <2>1. CASE Converting
    BY <2>1 DEF Converting
  <2>2. CASE ConvertingBack
    <3>1. \E r : printed = {r}
      BY <2>2 DEF ConvertingBack
    <3> QED
      BY <3>1
  <2> QED
    BY <2>1, <2>2
<1> QED
  BY <1>1, <1>3, <1>4 DEF RoomInv, ScalingInv

LEMMA TextInit_Inv ==
    ASSUME Init
    PROVE  TextInv
<1>1. parser \in Functions /\ exponent = 0 /\ idx = 0 /\ scale = One /\ max_len \in Lengths(str)
      /\ status = "RUNNING" /\ frac_accum = 0 /\ frac_div = 1
  BY DEF Init
<1>2. parser = "StringTo_Q" => frac_bits \in FracBits
  BY DEF Init
<1>3. IsString(str) /\ RoomInv /\ ScalingInv /\ phase \in TextPhases
  <2>1. CASE Typed
    BY <1>1, <2>1, TypedFacts DEF Typed, TextPhases
  <2>2. CASE PrintedPlain
    BY <2>2, PrintedPlainFacts DEF PrintedPlain, TextPhases
  <2>3. CASE PrintingScientific
    BY <1>1, <2>3, PrintingScientificFacts DEF PrintingScientific, TextPhases
  <2>4. CASE PrintedQ
    BY <1>2, <2>4, PrintedQFacts DEF PrintedQ, TextPhases
  <2>5. CASE PrintedBool
    BY <2>5, PrintedBoolFacts DEF PrintedBool, TextPhases
  <2>6. CASE Converting \/ ConvertingBack
    BY <2>6, ConvertingFacts DEF Converting, ConvertingBack, TextPhases
  <2> QED
    BY <2>1, <2>2, <2>3, <2>4, <2>5, <2>6 DEF Init
<1>4. PlaceInv
  BY <1>1, <1>3, PlaceAtStart
<1>5. PowerInv
  <2>1. 1 \in Nat /\ 1 <= DoubleSignificant /\ 1 * One <= Infinity /\ 1 * One = One /\ One <= One
    BY TenFacts, InPowers, PowersType, Limits DEF Ten
  <2>2. IsDouble(1 * One)
    BY <2>1, SmallWhole
  <2>3. 0 \in -(ExponentMax + 1) .. ExponentMax
    BY LimitsAssumption
  <2> QED
    BY <1>1, <2>1, <2>2, <2>3 DEF PowerInv
<1>6. PlacesInv
  <2>1. 1 \in 1 .. 10 * PlacesLimit
    BY LimitsAssumption
  <2> QED
    BY <1>1, <1>2, <2>1 DEF PlacesInv
<1> QED
  BY <1>1, <1>3, <1>4, <1>5, <1>6 DEF TextInv, Outcomes

-----------------------------------------------------------------------------
(* The steps of a call.                                                     *)
LEMMA Returning ==
    ASSUME TextInv, status' \in Outcomes, UNCHANGED <<call, text, scan>>
    PROVE  TextInv'
<1>1. /\ parser' = parser /\ frac_bits' = frac_bits /\ printed' = printed
      /\ str' = str /\ max_len' = max_len /\ phase' = phase /\ idx' = idx
      /\ result' = result /\ frac_accum' = frac_accum /\ frac_div' = frac_div
      /\ exponent' = exponent /\ scale' = scale
  BY DEF call, text, scan, number, power
<1>2. PlaceInv' /\ RoomInv' /\ ScalingInv'
  BY <1>1 DEF TextInv, PlaceInv, RoomInv, ScalingInv
<1>3. PowerInv' /\ PlacesInv'
  BY <1>1 DEF TextInv, PowerInv, PlacesInv
<1> QED
  BY <1>1, <1>2, <1>3 DEF TextInv

(* A step that reads on, and leaves the fixed-point places alone.           *)
LEMMA Reading ==
    ASSUME TextInv, UNCHANGED <<call, text>>, status' \in Outcomes, phase' \in TextPhases,
           phase' = "SCALING" => phase = "SCALING" /\ UNCHANGED <<result, exponent, idx>>,
           idx' \in 0 .. Len(str) - 1, idx' <= max_len, PowerInv', PlacesInv'
    PROVE  TextInv'
<1>1. /\ parser' = parser /\ frac_bits' = frac_bits /\ printed' = printed
      /\ str' = str /\ max_len' = max_len
  BY DEF call, text
<1>2. PlaceInv' /\ RoomInv' /\ ScalingInv'
  BY <1>1 DEF TextInv, PlaceInv, RoomInv, ScalingInv
<1> QED
  BY <1>1, <1>2 DEF TextInv

LEMMA Advance ==
    ASSUME PlaceInv, idx < max_len, At(idx) # NUL
    PROVE  idx + 1 \in 0 .. Len(str) - 1 /\ idx + 1 <= max_len
<1>1. IsString(str) /\ max_len \in Nat /\ idx \in 0 .. Len(str) - 1
  BY DEF PlaceInv
<1>2. idx + 1 \in 0 .. Len(str) - 1
  BY <1>1, NotAtEnd
<1>3. idx \in Nat
  BY <1>1
<1> QED
  BY <1>1, <1>2, <1>3

LEMMA AfterSignFacts ==
    ASSUME PlaceInv, ~Blank
    PROVE  /\ Skipped \in 0 .. Len(str) - 1 /\ Skipped <= max_len
           /\ AfterSign \in 0 .. Len(str) - 1 /\ AfterSign <= max_len
<1> DEFINE p == Skipped
<1>1. IsString(str) /\ max_len \in Nat
  BY DEF PlaceInv
<1>2. p \in 0 .. Len(str) - 1 /\ p <= max_len /\ p # max_len
  BY <1>1, SkippedFacts DEF Blank
<1>3. AfterSign = (IF At(p) \in {Plus, Minus} THEN p + 1 ELSE p)
  BY DEF AfterSign
<1> HIDE DEF p
<1>4. p \in Nat /\ p + 1 <= max_len
  BY <1>1, <1>2
<1>5. At(p) \in {Plus, Minus} => p + 1 \in 0 .. Len(str) - 1
  BY <1>1, <1>2, Letters, NotAtEnd
<1>6. AfterSign \in 0 .. Len(str) - 1 /\ AfterSign <= max_len
  BY <1>2, <1>3, <1>4, <1>5
<1> QED
  BY <1>2, <1>6 DEF p

(* The number that is written is scaled.                                    *)
LEMMA ScalingSteps ==
    ASSUME TextInv, Divide \/ Multiply
    PROVE  TextInv'
<1>1. /\ phase = "SCALING" /\ status = "RUNNING"
      /\ parser' = parser /\ frac_bits' = frac_bits /\ printed' = printed
      /\ str' = str /\ max_len' = max_len /\ phase' = phase /\ idx' = idx
      /\ frac_accum' = frac_accum /\ frac_div' = frac_div /\ scale' = scale /\ status' = status
  BY DEF Divide, Multiply, Scaling, call, text
<1>2. /\ parser \in FloatParsers /\ result \in 0 .. NaN
      /\ exponent \in -(SciExponentMax + 1) .. SciExponentMax
      /\ \A p \in printed : p.decimals \in Nat
  BY <1>1 DEF TextInv, ScalingInv
<1>3. result' \in 0 .. NaN
  <2>1. Infinity \in Nat \ {0} /\ NaN = Infinity + 1 /\ One \in Nat \ {0} /\ Ten = 10 * One /\ 10 * One < Infinity
    BY TenFacts
  <2>2. CASE Divide
    <3>1. result # NaN /\ result' = Over(result, Ten)
      BY <2>2 DEF Divide
    <3>2. result \in Nat /\ result <= Infinity
      BY <1>2, <2>1, <3>1
    <3> QED
      BY <2>1, <3>1, <3>2, TenOver
  <2>3. CASE Multiply
    <3>1. result > 0 /\ result < One /\ result' = Times(result, Ten)
      BY <2>3 DEF Multiply
    <3>2. result \in Nat /\ result # 0 /\ result <= Infinity
      BY <1>2, <2>1, <3>1
    <3> QED
      BY <2>1, <3>1, <3>2, TenTimes
  <2> QED
    BY <2>2, <2>3
<1>4. exponent' \in -(SciExponentMax + 1) .. SciExponentMax
  <2>1. PICK n \in Int : exponent' = Int16(n)
    <3>1. exponent' = Int16(exponent + 1) \/ exponent' = Int16(exponent - 1)
      BY DEF Divide, Multiply
    <3>2. exponent + 1 \in Int /\ exponent - 1 \in Int
      BY <1>2, LimitsAssumption
    <3> QED
      BY <3>1, <3>2
  <2> DEFINE w == 2 * (SciExponentMax + 1)
             r == (n + SciExponentMax + 1) % w
  <2>2. SciExponentMax \in Nat /\ w \in Nat \ {0} /\ n + SciExponentMax + 1 \in Int
    BY LimitsAssumption
  <2>3. r \in 0 .. w - 1
    BY <2>2
  <2>4. exponent' = r - (SciExponentMax + 1)
    BY <2>1 DEF Int16
  <2> HIDE DEF r
  <2> QED
    BY <2>2, <2>3, <2>4
<1>5. PlaceInv' /\ RoomInv' /\ ScalingInv'
  <2>1. PlaceInv' /\ RoomInv'
    BY <1>1 DEF TextInv, PlaceInv, RoomInv
  <2> QED
    BY <1>1, <1>2, <1>3, <1>4, <2>1 DEF ScalingInv
<1>6. PowerInv'
  <2>1. exponent' \in -(ExponentMax + 1) .. ExponentMax
    BY <1>4, LimitsAssumption
  <2> QED
    BY <1>1, <2>1 DEF TextInv, PowerInv
<1>7. PlacesInv'
  BY <1>1 DEF TextInv, PlacesInv
<1> QED
  BY <1>1, <1>5, <1>6, <1>7 DEF TextInv

LEMMA PrintScientificStep ==
    ASSUME TextInv, PrintScientific
    PROVE  TextInv'
<1>1. /\ phase = "SCALING" /\ status = "RUNNING" /\ phase' = "START" /\ exponent' = 0
      /\ parser' = parser /\ frac_bits' = frac_bits /\ printed' = printed
      /\ max_len' \in Lengths(str') /\ idx' = idx
      /\ frac_accum' = frac_accum /\ frac_div' = frac_div /\ scale' = scale /\ status' = status
  BY DEF PrintScientific, Scaled, Scaling, call
<1>2. /\ parser \in FloatParsers /\ result \in 0 .. NaN
      /\ exponent \in -(SciExponentMax + 1) .. SciExponentMax
      /\ \A p \in printed : p.decimals \in Nat
  BY <1>1 DEF TextInv, ScalingInv
<1>3. PICK p \in printed : str' \in Scientific(p.value < 0, result, exponent, p.decimals, p.size)
  BY DEF PrintScientific, Forms
<1>4. p.size \in Nat /\ p.decimals \in Nat /\ \A q \in printed : p = q
  BY <1>2, <1>3 DEF TextInv, RoomInv, FloatParsers, Converters
<1>5. IsText(str', p.size)
  <2> DEFINE negative == p.value < 0
  <2>1. negative \in BOOLEAN
    OBVIOUS
  <2>2. IsValue(result) /\ exponent \in Int
    <3>1. Infinity \in Nat \ {0} /\ NaN = Infinity + 1
      BY TenFacts
    <3> QED
      BY <1>2, <3>1, LimitsAssumption DEF IsValue
  <2>3. str' \in Scientific(negative, result, exponent, p.decimals, p.size)
    BY <1>3
  <2> HIDE DEF negative
  <2> DEFINE t == str'
  <2>4. t \in Scientific(negative, result, exponent, p.decimals, p.size)
    BY <2>3
  <2> HIDE DEF t
  <2>5. IsText(t, p.size)
    BY <1>4, <2>1, <2>2, <2>4, ScientificTextFacts
  <2> QED
    BY <2>5 DEF t
<1>6. IsString(str') /\ Len(str') \in Nat \ {0} /\ Len(str') <= p.size
  BY <1>4, <1>5, TextIsString
<1>7. max_len' \in Nat
  BY <1>1, <1>6, LengthsFacts
<1>8. PlaceInv'
  <2>1. idx' = 0
    BY <1>1 DEF TextInv, PlaceInv
  <2> QED
    BY <1>1, <1>6, <1>7, <2>1 DEF PlaceInv
<1>9. RoomInv'
  BY <1>1, <1>4, <1>6 DEF RoomInv
<1>10. ScalingInv' /\ PowerInv'
  <2>1. 0 \in -(ExponentMax + 1) .. ExponentMax
    BY LimitsAssumption
  <2> QED
    BY <1>1, <2>1 DEF TextInv, ScalingInv, PowerInv
<1>11. PlacesInv'
  BY <1>1, <1>2 DEF PlacesInv, FloatParsers
<1> QED
  BY <1>1, <1>8, <1>9, <1>10, <1>11 DEF TextInv, TextPhases

(* The beginning of the text.                                               *)
LEMMA BeginningSteps ==
    ASSUME TextInv, NotANumber \/ Infinite \/ Begin \/ ReadBool
    PROVE  TextInv'
<1>1. PlaceInv /\ IsString(str) /\ max_len \in Nat
  BY DEF TextInv, PlaceInv
<1>2. /\ phase = "START" /\ ~Blank /\ UNCHANGED <<call, text>>
      /\ frac_accum' = frac_accum /\ frac_div' = frac_div /\ scale' = scale
      /\ exponent' = exponent /\ parser' = parser /\ frac_bits' = frac_bits
  BY DEF NotANumber, Infinite, Begin, ReadBool, Starting, call, number, power
<1>3. /\ Skipped \in 0 .. Len(str) - 1 /\ Skipped <= max_len
      /\ AfterSign \in 0 .. Len(str) - 1 /\ AfterSign <= max_len
  BY <1>1, <1>2, AfterSignFacts
<1>4. status' \in Outcomes /\ phase' \in {"START", "INTEGER"}
  BY <1>2 DEF NotANumber, Infinite, Begin, ReadBool, Deliver, Outcomes, TextInv
<1>5. idx' \in 0 .. Len(str) - 1 /\ idx' <= max_len
  <2>1. CASE NotANumber
    <3>1. WordAt(Skipped, WordNaN) /\ idx' = Skipped + 3
      BY <2>1 DEF NotANumber, IsNaN
    <3> QED
      BY <1>1, <1>3, <3>1, Letters, WordFits
  <2>2. CASE Infinite
    <3> DEFINE p == AfterSign + 3
    <3>1. WordAt(AfterSign, WordInf) /\ idx' = AfterSign + (IF WordAt(p, WordInity) THEN 8 ELSE 3)
      BY <2>2 DEF Infinite, IsInf
    <3>2. p \in 0 .. Len(str) - 1 /\ p <= max_len
      BY <1>1, <1>3, <3>1, Letters, WordFits
    <3>3. AfterSign \in Nat
      BY <1>3
    <3>4. idx' = IF WordAt(p, WordInity) THEN p + 5 ELSE p
      BY <3>1, <3>3
    <3> HIDE DEF p
    <3>5. CASE WordAt(p, WordInity)
      <4>1. p + 5 \in 0 .. Len(str) - 1 /\ p + 5 <= max_len
        BY <1>1, <3>2, <3>5, Letters, WordFits
      <4> QED
        BY <3>4, <3>5, <4>1
    <3>6. CASE ~WordAt(p, WordInity)
      BY <3>2, <3>4, <3>6
    <3> QED
      BY <3>5, <3>6
  <2>3. CASE Begin
    BY <1>3, <2>3 DEF Begin
  <2>4. CASE ReadBool
    BY <1>1, <2>4, WordEndFacts DEF ReadBool
  <2> QED
    BY <2>1, <2>2, <2>3, <2>4
<1>6. PowerInv' /\ PlacesInv'
  BY <1>2, <1>4 DEF TextInv, PowerInv, PlacesInv
<1> QED
  BY <1>2, <1>4, <1>5, <1>6, Reading DEF TextPhases

(* The digits and the point.                                                *)
LEMMA DigitSteps ==
    ASSUME TextInv, IntegerDigit \/ Point
    PROVE  TextInv'
<1>1. PlaceInv
  BY DEF TextInv
<1>2. /\ phase = "INTEGER" /\ UNCHANGED <<call, text>> /\ phase' \in {"INTEGER", "FRACTION"}
      /\ frac_accum' = frac_accum /\ frac_div' \in {frac_div, 1, Ten} /\ scale' = scale
      /\ (parser = "StringTo_Q" => frac_div' \in {frac_div, 1})
      /\ exponent' = exponent /\ parser' = parser /\ frac_bits' = frac_bits
      /\ status' = status /\ idx' = idx + 1 /\ idx < max_len /\ At(idx) \in (0 .. 9) \cup {Dot}
  BY DEF IntegerDigit, Point, AtPoint, AtDigit, Took, call, power, number
<1>3. idx' \in 0 .. Len(str) - 1 /\ idx' <= max_len
  BY <1>1, <1>2, Advance, Letters
<1>4. PowerInv'
  BY <1>2 DEF TextInv, PowerInv
<1>5. PlacesInv'
  <2>1. PlacesLimit \in Nat \ {0}
    BY LimitsAssumption
  <2> QED
    BY <1>2, <2>1 DEF TextInv, PlacesInv
<1>6. status' \in Outcomes /\ phase' \in TextPhases /\ phase' # "SCALING"
  BY <1>2 DEF TextInv, TextPhases
<1> QED
  BY <1>2, <1>3, <1>4, <1>5, <1>6, Reading

(* The places stay below what they are divided by.                          *)
LEMMA PlaceTaken ==
    ASSUME NEW a \in Nat, NEW b \in Nat, a < b, b <= PlacesLimit, NEW c \in 0 .. 9
    PROVE  /\ b * 10 \in 1 .. 10 * PlacesLimit
           /\ (a * 10 + c) % (UMax64 + 1) \in Nat
           /\ (a * 10 + c) % (UMax64 + 1) < b * 10
<1> DEFINE n == a * 10 + c
           w == UMax64 + 1
<1>1. w \in Nat \ {0} /\ PlacesLimit \in Nat
  BY FixedAssumption, LimitsAssumption DEF UMax64
<1>2. n \in Nat /\ n < b * 10
  OBVIOUS
<1>3. b * 10 \in 1 .. 10 * PlacesLimit
  BY <1>1
<1> HIDE DEF n, w
<1>4. n % w \in Nat /\ n % w <= n
  <2> DEFINE q == n \div w
             r == n % w
  <2>1. q \in Nat /\ r \in Nat
    BY <1>1, <1>2
  <2>2. n = w * q + r
    BY <1>1, <1>2
  <2> HIDE DEF q, r
  <2>3. w * q \in Nat
    BY <1>1, <2>1
  <2>4. r <= n
    BY <2>1, <2>2, <2>3
  <2> QED
    BY <2>1, <2>4 DEF r
<1>5. n % w < b * 10
  BY <1>2, <1>4
<1> QED
  BY <1>3, <1>4, <1>5 DEF n, w

LEMMA FractionStep ==
    ASSUME TextInv, FractionDigit
    PROVE  TextInv'
<1>1. PlaceInv
  BY DEF TextInv
<1>2. /\ phase = "FRACTION" /\ UNCHANGED <<call, text>> /\ phase' = phase
      /\ scale' = scale /\ exponent' = exponent /\ parser' = parser /\ frac_bits' = frac_bits
      /\ status' = status /\ idx' = idx + 1 /\ idx < max_len /\ At(idx) \in 0 .. 9
      /\ (parser = "StringTo_Q" =>
             /\ frac_div <= PlacesLimit /\ frac_div' = frac_div * 10
             /\ frac_accum' = (frac_accum * 10 + At(idx)) % (UMax64 + 1))
  BY DEF FractionDigit, AtPlace, MoreAllowed, AtDigit, Digit, Took, call, power
<1>3. idx' \in 0 .. Len(str) - 1 /\ idx' <= max_len
  BY <1>1, <1>2, Advance, Letters
<1>4. PowerInv'
  BY <1>2 DEF TextInv, PowerInv
<1>5. PlacesInv'
  <2>1. SUFFICES ASSUME parser = "StringTo_Q" PROVE PlacesInv'
    BY <1>2 DEF PlacesInv
  <2>2. frac_bits \in FracBits /\ frac_div \in Nat /\ frac_accum \in Nat /\ frac_accum < frac_div
    BY <2>1 DEF TextInv, PlacesInv
  <2> DEFINE c == At(idx)
  <2>3. c \in 0 .. 9
    BY <1>2
  <2> HIDE DEF c
  <2>4. /\ frac_div * 10 \in 1 .. 10 * PlacesLimit
        /\ (frac_accum * 10 + c) % (UMax64 + 1) \in Nat
        /\ (frac_accum * 10 + c) % (UMax64 + 1) < frac_div * 10
    BY <1>2, <2>1, <2>2, <2>3, PlaceTaken
  <2>5. frac_accum' = (frac_accum * 10 + c) % (UMax64 + 1) /\ frac_div' = frac_div * 10
    BY <1>2, <2>1 DEF c
  <2>6. frac_div' \in 1 .. 10 * PlacesLimit /\ frac_accum' \in Nat /\ frac_accum' < frac_div'
    BY <2>4, <2>5
  <2> QED
    BY <1>2, <2>1, <2>2, <2>6 DEF PlacesInv
<1>6. status' \in Outcomes /\ phase' \in TextPhases /\ phase' # "SCALING"
  BY <1>2 DEF TextInv
<1> QED
  BY <1>2, <1>3, <1>4, <1>5, <1>6, Reading

(* The exponent, and the power of ten.                                      *)
LEMMA ExponentSteps ==
    ASSUME TextInv, Exponent \/ ExponentDigit
    PROVE  TextInv'
<1>1. PlaceInv /\ IsString(str) /\ max_len \in Nat /\ idx \in 0 .. Len(str) - 1
  BY DEF TextInv, PlaceInv
<1>2. /\ UNCHANGED <<call, text>> /\ phase' = "EXPONENT"
      /\ frac_accum' = frac_accum /\ frac_div' = frac_div /\ scale' = scale
      /\ parser' = parser /\ frac_bits' = frac_bits
      /\ status' = status /\ idx < max_len /\ At(idx) \in (0 .. 9) \cup {LetterE}
      /\ (idx' = idx + 1 \/ (idx' = idx + 2 /\ idx + 1 < max_len /\ At(idx + 1) \in {Plus, Minus}))
  BY DEF Exponent, ExponentDigit, AtExponent, ExponentSign, AtDigit, call, number
<1>3. idx + 1 \in 0 .. Len(str) - 1 /\ idx + 1 <= max_len
  BY <1>1, <1>2, Advance, Letters
<1>4. idx' \in 0 .. Len(str) - 1 /\ idx' <= max_len
  <2>1. CASE idx' = idx + 1
    BY <1>3, <2>1
  <2>2. CASE idx' = idx + 2 /\ idx + 1 < max_len /\ At(idx + 1) \in {Plus, Minus}
    <3> DEFINE p == idx + 1
    <3>1. p \in 0 .. Len(str) - 1 /\ At(p) # NUL /\ p < max_len
      BY <1>3, <2>2, Letters
    <3>2. idx' = p + 1
      BY <1>1, <2>2
    <3> HIDE DEF p
    <3>3. p + 1 \in 0 .. Len(str) - 1
      BY <1>1, <3>1, NotAtEnd
    <3>4. p \in Nat
      BY <3>1
    <3> QED
      BY <1>1, <3>1, <3>2, <3>3, <3>4
  <2> QED
    BY <1>2, <2>1, <2>2
<1>5. PowerInv'
  <2>1. exponent' \in -(ExponentMax + 1) .. ExponentMax
    <3>1. CASE Exponent
      BY <3>1 DEF Exponent, TextInv, PowerInv
    <3>2. CASE ExponentDigit
      <4>1. exponent' \in 0 .. ExponentMax \/ exponent' \in -(ExponentMax + 1) .. ExponentMax
        BY <3>2 DEF ExponentDigit
      <4> QED
        BY <4>1, LimitsAssumption
    <3> QED
      BY <3>1, <3>2
  <2> QED
    BY <1>2, <2>1 DEF TextInv, PowerInv
<1>6. PlacesInv'
  BY <1>2 DEF TextInv, PlacesInv
<1>7. status' \in Outcomes /\ phase' \in TextPhases /\ phase' # "SCALING"
  BY <1>2 DEF TextInv, TextPhases
<1> QED
  BY <1>2, <1>4, <1>5, <1>6, <1>7, Reading

LEMMA PowerStep ==
    ASSUME TextInv, PowerOfTen
    PROVE  TextInv'
<1>1. /\ UNCHANGED <<call, text>> /\ phase = "EXPONENT" /\ phase' = phase
      /\ frac_accum' = frac_accum /\ frac_div' = frac_div /\ scale' = Times(scale, Ten)
      /\ parser' = parser /\ frac_bits' = frac_bits /\ exponent' = exponent
      /\ status' = status /\ idx' = idx
  BY DEF PowerOfTen, call, number
<1>2. PowerInv'
  <2>1. IsDouble(scale) /\ One <= scale /\ scale \in Nat /\ scale <= Infinity
    BY DEF TextInv, PowerInv, IsDouble
  <2>2. One \in Nat \ {0}
    BY TenFacts
  <2>3. scale # 0
    BY <2>1, <2>2
  <2> DEFINE z == Times(scale, Ten)
  <2>4. z \in Nat /\ IsDouble(z) /\ scale <= z
    BY <2>1, <2>3, TenTimes
  <2> HIDE DEF z
  <2>5. One <= z
    BY <2>1, <2>2, <2>4
  <2>6. scale' = z
    BY <1>1 DEF z
  <2> QED
    BY <1>1, <2>4, <2>5, <2>6 DEF TextInv, PowerInv
<1>3. PlacesInv'
  BY <1>1 DEF TextInv, PlacesInv
<1>4. status' \in Outcomes /\ phase' \in TextPhases /\ phase' # "SCALING"
  BY <1>1 DEF TextInv
<1>5. idx' \in 0 .. Len(str) - 1 /\ idx' <= max_len
  BY <1>1 DEF TextInv, PlaceInv
<1> QED
  BY <1>1, <1>2, <1>3, <1>4, <1>5, Reading

LEMMA ReturnSteps ==
    ASSUME TextInv,
           \/ DoesNotFit \/ NoText \/ NoDigits \/ Finish \/ FinishQ \/ TooGreat \/ NoBool
           \/ Convert \/ Saturate \/ DoesNotSaturate
    PROVE  TextInv'
<1>1. status' \in Outcomes /\ UNCHANGED <<call, text, scan>>
  BY DEF DoesNotFit, NoText, NoDigits, Finish, FinishQ, TooGreat, NoBool, Convert, Saturate,
         DoesNotSaturate, Return, Deliver, Outcomes
<1> QED
  BY <1>1, Returning

LEMMA TextNext_Inv ==
    ASSUME TextInv, [Next]_vars
    PROVE  TextInv'
<1>1. CASE Divide \/ Multiply
  BY <1>1, ScalingSteps
<1>2. CASE PrintScientific
  BY <1>2, PrintScientificStep
<1>3. CASE NotANumber \/ Infinite \/ Begin \/ ReadBool
  BY <1>3, BeginningSteps
<1>4. CASE IntegerDigit \/ Point
  BY <1>4, DigitSteps
<1>5. CASE FractionDigit
  BY <1>5, FractionStep
<1>6. CASE Exponent \/ ExponentDigit
  BY <1>6, ExponentSteps
<1>7. CASE PowerOfTen
  BY <1>7, PowerStep
<1>8. CASE \/ DoesNotFit \/ NoText \/ NoDigits \/ Finish \/ FinishQ \/ TooGreat \/ NoBool
           \/ Convert \/ Saturate \/ DoesNotSaturate
  BY <1>8, ReturnSteps
<1>9. CASE UNCHANGED vars
  <2>1. status' = status /\ UNCHANGED <<call, text, scan>>
    BY <1>9 DEF vars
  <2>2. status' \in Outcomes
    BY <2>1 DEF TextInv
  <2> QED
    BY <2>1, <2>2, Returning
<1>10. Returned => UNCHANGED vars
  BY DEF Returned
<1> QED
  BY <1>1, <1>2, <1>3, <1>4, <1>5, <1>6, <1>7, <1>8, <1>9, <1>10 DEF Next

LEMMA TextInvariant == Spec => []TextInv
<1>1. Init => TextInv
  BY TextInit_Inv
<1>2. TextInv /\ [Next]_vars => TextInv'
  BY TextNext_Inv
<1> QED
  BY <1>1, <1>2, PTL DEF Spec

(* The ten places, scaled and rounded, fit 64 bits.                         *)
LEMMA PlacesFit ==
    ASSUME NEW f \in FracBits, NEW a \in Nat, NEW b \in 1 .. 10 * PlacesLimit, a < b
    PROVE  a * Power(2, f) + b \div 2 <= UMax64
<1> DEFINE z == Power(2, f)
           w == 10 * PlacesLimit
           x == 5 * PlacesLimit
<1>1. f \in Nat /\ 2 \in Nat \ {0}
  BY TextAssumption
<1>2. z \in Nat \ {0} /\ PlacesLimit \in Nat
  BY <1>1, PowerPositive, LimitsAssumption
<1>3. w * z + x <= UMax64 /\ UMax64 \in Nat
  BY FixedAssumption, LimitsAssumption DEF UMax64
<1>4. b \div 2 <= x /\ b \div 2 \in Nat /\ a <= w /\ w \in Nat /\ x \in Nat
  BY <1>2
<1> DEFINE y == b \div 2
<1> HIDE DEF z, w, x, y
<1>5. z * a <= z * w
  BY <1>2, <1>4, ProductLess
<1>6. z * a = a * z /\ z * w = w * z /\ a * z \in Nat /\ w * z \in Nat
  BY <1>2, <1>4
<1>7. a * z + y <= UMax64
  BY <1>3, <1>4, <1>5, <1>6 DEF y
<1> QED
  BY <1>7 DEF y, z

(* TypeOK: EDC_StringToDouble, EDC_StringToFloat, EDC_StringTo_Q and        *)
(* EDC_StringToBool read nothing behind the NUL, nothing that is written is *)
(* longer than its buffer, and the places of a fixed-point number do not    *)
(* overflow the 64 bits in which they are scaled and rounded.               *)
THEOREM TextTypeCorrect == Spec => []TypeOK
<1>1. ASSUME TextInv PROVE TypeOK
  <2>1. /\ status \in Outcomes /\ phase \in TextPhases
        /\ idx \in 0 .. Len(str) - 1 /\ idx <= max_len
        /\ \A p \in printed : parser \notin Converters => Len(str) <= p.size
    BY <1>1 DEF TextInv, PlaceInv, RoomInv
  <2>2. parser = "StringTo_Q" => frac_accum * Power(2, frac_bits) + frac_div \div 2 <= UMax64
    BY <1>1, PlacesFit DEF TextInv, PlacesInv
  <2>3. exponent \in -(ExponentMax + 1) .. ExponentMax /\ scale \in One .. Infinity
    <3>1. One \in Nat /\ Infinity \in Nat
      BY TenFacts
    <3> QED
      BY <1>1, <3>1 DEF TextInv, PowerInv, IsDouble
  <2> QED
    BY <2>1, <2>2, <2>3 DEF TypeOK, Outcomes, TextPhases
<1>2. TextInv => TypeOK
  BY <1>1
<1> QED
  BY <1>2, TextInvariant, PTL

-----------------------------------------------------------------------------
(* Quotients and remainders.                                                *)
LEMMA QuotientIs ==
    ASSUME NEW n \in Nat, NEW p \in Nat \ {0}, NEW q \in Nat, NEW r \in Nat,
           n = p * q + r, r < p
    PROVE  n \div p = q /\ n % p = r
<1>1. p * q \in Nat /\ q + 1 \in Nat /\ p * (q + 1) = p * q + p
  OBVIOUS
<1> DEFINE w == p * q
           v == p * (q + 1)
<1>2. w \in Nat /\ v = w + p /\ n = w + r
  BY <1>1
<1>3. n >= p * q /\ n < p * (q + 1)
  <2> HIDE DEF w, v
  <2>1. n >= w /\ n < v
    BY <1>2
  <2> QED
    BY <2>1 DEF w, v
<1>4. n \div p \in Nat /\ n \div p >= q /\ n \div p < q + 1
  <2>1. (n \div p >= q) <=> (n >= p * q)
    BY DivLess
  <2> DEFINE c == q + 1
  <2>2. c \in Nat /\ n < p * c
    BY <1>3
  <2> HIDE DEF c
  <2>3. (n \div p < c) <=> (n < p * c)
    BY <2>2, DivLess
  <2>4. n \div p \in Nat
    BY DivLess
  <2> QED
    BY <1>3, <2>1, <2>2, <2>3, <2>4 DEF c
<1>5. n \div p = q
  BY <1>4
<1>6. n = p * (n \div p) + (n % p) /\ n % p \in Nat
  <2> DEFINE x == n \div p
             y == n % p
  <2>1. n = p * x + y /\ y \in Nat
    OBVIOUS
  <2> QED
    BY <2>1
<1> DEFINE y == n % p
<1>7. n = w + y /\ y \in Nat
  BY <1>5, <1>6
<1> HIDE DEF y, w
<1>8. y = r
  BY <1>2, <1>7
<1> QED
  BY <1>5, <1>8 DEF y

LEMMA QuotientOf ==
    ASSUME NEW n \in Nat, NEW p \in Nat \ {0}
    PROVE  n = p * (n \div p) + (n % p) /\ n \div p \in Nat /\ n % p \in Nat /\ n % p < p
<1> DEFINE q == n \div p
           r == n % p
<1>1. q \in Nat /\ r \in Nat /\ r < p
  OBVIOUS
<1>2. n = p * q + r
  OBVIOUS
<1> QED
  BY <1>1, <1>2

(* A digit more, of what is known modulo p.                                 *)
LEMMA DigitModulo ==
    ASSUME NEW n \in Nat, NEW p \in Nat \ {0}, NEW c \in Nat
    PROVE  ((n % p) * 10 + c) % p = (n * 10 + c) % p
<1> DEFINE q == n \div p
           r == n % p
           x == r * 10 + c
<1>1. n = p * q + r /\ q \in Nat /\ r \in Nat
  BY QuotientOf
<1> HIDE DEF q, r
<1>2. x \in Nat
  BY <1>1
<1> DEFINE k == x \div p
           z == x % p
<1>3. x = p * k + z /\ k \in Nat /\ z \in Nat /\ z < p
  BY <1>2, QuotientOf
<1> HIDE DEF k, z
<1>4. n * 10 + c = p * (10 * q + k) + z
  <2> DEFINE w == p * q
             v == p * k
  <2>1. w \in Nat /\ v \in Nat
    BY <1>1, <1>3
  <2>2. p * (10 * q + k) = 10 * w + v
    BY <1>1, <1>3
  <2>3. n = w + r /\ r * 10 + c = v + z
    BY <1>1, <1>3
  <2> HIDE DEF w, v
  <2> QED
    BY <1>1, <1>3, <2>1, <2>2, <2>3
<1>5. 10 * q + k \in Nat /\ n * 10 + c \in Nat
  BY <1>1, <1>3
<1> DEFINE a == n * 10 + c
           b == 10 * q + k
<1>6. a \in Nat /\ b \in Nat /\ a = p * b + z
  BY <1>4, <1>5
<1> HIDE DEF a, b, x
<1>7. a % p = z
  BY <1>3, <1>6, QuotientIs
<1> QED
  BY <1>7 DEF a, x, z, r

(* A digit more behind the point.                                           *)
LEMMA DigitBehind ==
    ASSUME NEW n \in Nat, NEW p \in Nat \ {0}, NEW c \in 0 .. 9
    PROVE  /\ (n * 10 + c) \div (p * 10) = n \div p
           /\ (n * 10 + c) % (p * 10) = (n % p) * 10 + c
           /\ (n % p) * 10 + c < p * 10
<1> DEFINE q == n \div p
           r == n % p
           a == n * 10 + c
           b == p * 10
           x == r * 10 + c
<1>1. n = p * q + r /\ q \in Nat /\ r \in Nat /\ r < p
  BY QuotientOf
<1> HIDE DEF q, r
<1>2. a \in Nat /\ b \in Nat \ {0} /\ x \in Nat /\ x < b
  BY <1>1
<1>3. a = b * q + x
  <2> DEFINE w == p * q
  <2>1. w \in Nat /\ b * q = 10 * w /\ n = w + r
    BY <1>1
  <2> HIDE DEF w, b
  <2> QED
    BY <1>1, <2>1
<1> HIDE DEF a, b, x
<1>4. a \div b = q /\ a % b = x
  BY <1>1, <1>2, <1>3, QuotientIs
<1> QED
  BY <1>2, <1>4 DEF a, b, x, q, r

(* Ten's powers are even, or one.                                           *)
LEMMA TensEven ==
    ASSUME NEW n \in Nat
    PROVE  /\ Power(10, n) \in Nat \ {0}
           /\ Power(10, n) = 1 \/ \E h \in Nat \ {0} : Power(10, n) = 2 * h
<1>1. 10 \in Nat \ {0} /\ 10 \in Nat
  OBVIOUS
<1>2. Power(10, n) \in Nat \ {0}
  BY <1>1, PowerPositive
<1>3. CASE n = 0
  BY <1>1, <1>2, <1>3, PowerZero
<1>4. CASE n # 0
  <2> DEFINE k == n - 1
             z == Power(10, k)
  <2>1. k \in Nat /\ n = k + 1
    BY <1>4
  <2> HIDE DEF k
  <2>2. z \in Nat \ {0}
    BY <1>1, <2>1, PowerPositive
  <2>3. Power(10, n) = 10 * z
    BY <1>1, <2>1, PowerNext
  <2> HIDE DEF z
  <2>4. 5 * z \in Nat \ {0} /\ Power(10, n) = 2 * (5 * z)
    BY <2>2, <2>3
  <2> QED
    BY <1>2, <2>4
<1> QED
  BY <1>3, <1>4

(* Rounding the places is rounding the whole.                               *)
LEMMA RoundedWhole ==
    ASSUME NEW w \in Nat, NEW a \in Nat, NEW z \in Nat, NEW b \in Nat \ {0}, a < b,
           b = 1 \/ \E h \in Nat \ {0} : b = 2 * h
    PROVE  (2 * (w * b + a) * z + b) \div (2 * b)
               = w * z + (IF b > 1 THEN (a * z + b \div 2) \div b ELSE 0)
<1> DEFINE x == a * z
           y == w * z
           n == 2 * (w * b + a) * z + b
           p == 2 * b
<1>1. x \in Nat /\ y \in Nat /\ p \in Nat \ {0}
  OBVIOUS
<1>2. n = p * y + (2 * x + b) /\ n \in Nat
  OBVIOUS
<1>3. CASE b = 1
  <2>1. a = 0
    BY <1>3
  <2>2. x = 0
    BY <2>1
  <2>3. n = p * y + 1 /\ 1 < p
    BY <1>1, <1>2, <1>3, <2>2
  <2> HIDE DEF n, p, x, y
  <2>4. n \div p = y
    BY <1>1, <1>2, <2>3, QuotientIs
  <2>5. (IF b > 1 THEN (a * z + b \div 2) \div b ELSE 0) = 0
    BY <1>3
  <2> QED
    BY <1>1, <2>4, <2>5 DEF n, p, y
<1>4. CASE \E h \in Nat \ {0} : b = 2 * h
  <2>1. PICK h \in Nat \ {0} : b = 2 * h
    BY <1>4
  <2>2. b \div 2 = h /\ b > 1
    BY <2>1
  <2> DEFINE k == (x + h) \div b
             r == (x + h) % b
  <2>3. x + h \in Nat
    BY <1>1
  <2>4. x + h = b * k + r /\ k \in Nat /\ r \in Nat /\ r < b
    BY <2>3, QuotientOf
  <2> HIDE DEF x, y, k, r
  <2>5. 2 * x + b = p * k + 2 * r
    <3> DEFINE u == b * k
    <3>1. u \in Nat /\ p * k = 2 * u
      BY <2>4
    <3> HIDE DEF u, p
    <3>2. x + h = u + r
      BY <2>4 DEF u
    <3> QED
      BY <1>1, <2>1, <2>4, <3>1, <3>2
  <2>6. n = p * (y + k) + 2 * r
    <3>1. p * (y + k) = p * y + p * k
      BY <1>1, <2>4
    <3> DEFINE u == p * y
               v == p * k
    <3>2. u \in Nat /\ v \in Nat
      BY <1>1, <2>4
    <3> HIDE DEF u, v, n, p
    <3>3. n = u + (2 * x + b) /\ p * (y + k) = u + v /\ 2 * x + b = v + 2 * r
      BY <1>2, <2>5, <3>1 DEF u, v
    <3> QED
      BY <1>1, <2>4, <3>2, <3>3
  <2>7. 2 * r \in Nat /\ 2 * r < p /\ y + k \in Nat
    BY <1>1, <2>4
  <2> DEFINE c == y + k
             e == 2 * r
  <2>8. c \in Nat /\ e \in Nat /\ e < p /\ n = p * c + e /\ n \in Nat
    BY <1>2, <2>6, <2>7
  <2> HIDE DEF n, p, c, e
  <2>9. n \div p = c
    BY <1>1, <2>8, QuotientIs
  <2>10. (IF b > 1 THEN (a * z + b \div 2) \div b ELSE 0) = k
    BY <2>2 DEF k, x
  <2> QED
    BY <2>9, <2>10 DEF n, p, c, y
<1> QED
  BY <1>3, <1>4

-----------------------------------------------------------------------------
(* EDC_StringTo_Q: what has been read so far is the digits' numeral, the    *)
(* whole part of it modulo 2^32; what it returned is that, scaled and       *)
(* rounded.                                                                 *)
FixedInv ==
    parser = "StringTo_Q" =>
        /\ numeral \in Nat /\ places \in Nat
        /\ phase \in {"START", "INTEGER", "FRACTION"}
        /\ phase # "FRACTION" => places = 0
        /\ frac_div = Power(10, places)
        /\ result = (numeral \div frac_div) % (UMax32 + 1)
        /\ frac_accum = numeral % frac_div
        /\ status = "OK" => QVal <= QMax /\ out_val = {IF is_negative THEN -QVal ELSE QVal}
        /\ status \in {"OVERFLOW", "UNDERFLOW"} => QVal > QMax

LEMMA TenToZero == Power(10, 0) = 1
  BY PowerZero

LEMMA FixedInit_Inv ==
    ASSUME Init
    PROVE  FixedInv
<1>1. numeral = 0 /\ places = 0 /\ frac_div = 1 /\ frac_accum = 0 /\ status = "RUNNING"
  BY DEF Init
<1>2. SUFFICES ASSUME parser = "StringTo_Q" PROVE FixedInv
  BY DEF FixedInv
<1>3. result = 0 /\ phase = "START"
  BY <1>2 DEF Init, Typed, PrintedPlain, PrintingScientific, PrintedQ, PrintedBool, Converting,
              ConvertingBack, FloatParsers, Converters
<1>4. UMax32 + 1 \in Nat \ {0}
  BY FixedAssumption DEF UMax32
<1> DEFINE w == UMax32 + 1
<1>5. w \in Nat \ {0}
  BY <1>4
<1>6. 0 = w * 0 + 0 /\ 0 < w
  BY <1>5
<1>7. 0 % w = 0
  BY <1>5, <1>6, QuotientIs
<1>8. 0 \div 1 = 0 /\ 0 % 1 = 0
  OBVIOUS
<1>9. result = (numeral \div frac_div) % w
  BY <1>1, <1>3, <1>7, <1>8
<1> QED
  BY <1>1, <1>3, <1>8, <1>9, TenToZero DEF FixedInv

LEMMA FixedReturns ==
    ASSUME FixedInv, UNCHANGED <<call, text, scan>>,
           parser = "StringTo_Q" =>
               /\ status' = "OK" => QVal <= QMax /\ out_val' = {IF is_negative THEN -QVal ELSE QVal}
               /\ status' \in {"OVERFLOW", "UNDERFLOW"} => QVal > QMax
    PROVE  FixedInv'
<1>1. /\ parser' = parser /\ frac_bits' = frac_bits /\ phase' = phase /\ is_negative' = is_negative
      /\ result' = result /\ frac_accum' = frac_accum /\ frac_div' = frac_div
      /\ numeral' = numeral /\ places' = places
  BY DEF call, scan, number, history
<1>2. QVal' = QVal
  BY <1>1 DEF QVal, FracQ
<1> QED
  BY <1>1, <1>2 DEF FixedInv

LEMMA FixedNext_Inv ==
    ASSUME TextInv, FixedInv, [Next]_vars
    PROVE  FixedInv'
<1>1. SUFFICES ASSUME parser' = "StringTo_Q" PROVE FixedInv'
  BY DEF FixedInv
<1>2. parser = "StringTo_Q" /\ frac_bits' = frac_bits
  BY <1>1 DEF Next, Divide, Multiply, PrintScientific, DoesNotFit, NoText, NotANumber, Infinite, Begin,
              IntegerDigit, Point, FractionDigit, NoDigits, Exponent, ExponentDigit, PowerOfTen,
              Finish, FinishQ, TooGreat, ReadBool, NoBool, Convert, Saturate, DoesNotSaturate,
              Returned, Return, vars, call
<1>3. /\ numeral \in Nat /\ places \in Nat
      /\ phase \in {"START", "INTEGER", "FRACTION"}
      /\ phase # "FRACTION" => places = 0
      /\ frac_div = Power(10, places)
      /\ result = (numeral \div frac_div) % (UMax32 + 1)
      /\ frac_accum = numeral % frac_div
  BY <1>2 DEF FixedInv
<1>4. frac_div \in Nat \ {0} /\ UMax32 + 1 \in Nat \ {0}
  BY <1>3, TensEven, FixedAssumption DEF UMax32
<1>5. parser \notin FloatParsers /\ parser # "StringToBool"
  BY <1>2 DEF FloatParsers
<1>6. CASE Begin
  <2>1. /\ phase = "START" /\ phase' = "INTEGER" /\ status' = "RUNNING" /\ numeral' = numeral
        /\ places' = places /\ result' = result /\ frac_div' = frac_div /\ frac_accum' = frac_accum
    BY <1>6 DEF Begin, Starting, number, history
  <2> QED
    BY <1>1, <1>3, <2>1 DEF FixedInv
<1>7. CASE IntegerDigit
  <2>1. /\ phase = "INTEGER" /\ phase' = phase /\ status' = "RUNNING"
        /\ places' = places /\ frac_div' = frac_div /\ frac_accum' = frac_accum
        /\ numeral' = numeral * 10 + At(idx) /\ At(idx) \in 0 .. 9
        /\ result' = (result * 10 + At(idx)) % (UMax32 + 1)
    BY <1>2, <1>7 DEF IntegerDigit, WholeDigit, Digit, AtDigit, Took
  <2> DEFINE c == At(idx)
             w == UMax32 + 1
  <2>2. c \in Nat /\ w \in Nat \ {0}
    BY <1>4, <2>1
  <2>3. places = 0 /\ frac_div = 1
    BY <1>3, <2>1, TenToZero
  <2>4. result = numeral % w /\ frac_accum = 0
    <3>1. numeral \div 1 = numeral /\ numeral % 1 = 0
      BY <1>3
    <3> QED
      BY <1>3, <2>3, <3>1
  <2>5. numeral' = numeral * 10 + c /\ result' = (result * 10 + c) % w
    BY <2>1
  <2> HIDE DEF c, w
  <2>6. ((numeral % w) * 10 + c) % w = (numeral * 10 + c) % w
    BY <1>3, <2>2, DigitModulo
  <2>7. numeral' \in Nat /\ result' = numeral' % w
    BY <1>3, <2>2, <2>4, <2>5, <2>6
  <2>8. numeral' \div 1 = numeral' /\ numeral' % 1 = 0
    <3> DEFINE v == numeral'
    <3>1. v \in Nat
      BY <2>7
    <3> HIDE DEF v
    <3>2. v \div 1 = v /\ v % 1 = 0
      BY <3>1
    <3> QED
      BY <3>2 DEF v
  <2>9. result' = (numeral' \div frac_div') % w /\ frac_accum' = numeral' % frac_div'
    BY <2>1, <2>3, <2>4, <2>7, <2>8
  <2> QED
    BY <1>1, <1>3, <2>1, <2>3, <2>7, <2>9, TenToZero DEF FixedInv, w
<1>8. CASE Point
  <2>1. /\ phase = "INTEGER" /\ phase' = "FRACTION" /\ status' = "RUNNING"
        /\ places' = places /\ frac_div' = 1 /\ frac_accum' = frac_accum
        /\ numeral' = numeral /\ result' = result
    BY <1>2, <1>8 DEF Point, AtPoint, history
  <2>2. places = 0 /\ frac_div = 1
    BY <1>3, <2>1, TenToZero
  <2> QED
    BY <1>1, <1>3, <2>1, <2>2 DEF FixedInv
<1>9. CASE FractionDigit
  <2>1. /\ phase = "FRACTION" /\ phase' = phase /\ status' = "RUNNING"
        /\ places' = places + 1 /\ frac_div' = frac_div * 10 /\ result' = result
        /\ numeral' = numeral * 10 + At(idx) /\ At(idx) \in 0 .. 9
        /\ frac_accum' = (frac_accum * 10 + At(idx)) % (UMax64 + 1)
        /\ frac_div <= PlacesLimit
    BY <1>2, <1>9 DEF FractionDigit, AtPlace, MoreAllowed, Digit, AtDigit, Took
  <2> DEFINE c == At(idx)
             w == UMax64 + 1
  <2>2. /\ (numeral * 10 + c) \div (frac_div * 10) = numeral \div frac_div
        /\ (numeral * 10 + c) % (frac_div * 10) = (numeral % frac_div) * 10 + c
        /\ (numeral % frac_div) * 10 + c < frac_div * 10
    <3>1. c \in 0 .. 9
      BY <2>1
    <3> HIDE DEF c
    <3> QED
      BY <1>3, <1>4, <3>1, DigitBehind
  <2> DEFINE x == frac_accum * 10 + c
  <2>3. x \in Nat /\ x < frac_div * 10
    <3>1. frac_accum \in Nat
      BY <1>2 DEF TextInv, PlacesInv
    <3> QED
      BY <1>3, <2>1, <2>2, <3>1
  <2>4. w \in Nat \ {0} /\ x < w
    <3>1. frac_bits \in FracBits /\ PlacesLimit \in Nat \ {0}
      BY <1>2, LimitsAssumption DEF TextInv, PlacesInv
    <3> DEFINE z == Power(2, frac_bits)
               u == 10 * PlacesLimit
               v == 5 * PlacesLimit
    <3>2. u * z + v <= UMax64 /\ UMax64 \in Nat
      BY <3>1, LimitsAssumption, FixedAssumption DEF UMax64
    <3>3. z \in Nat \ {0}
      BY <3>1, TextAssumption, PowerPositive
    <3>4. u \in Nat /\ v \in Nat /\ frac_div * 10 <= u
      BY <1>4, <2>1, <3>1
    <3> HIDE DEF z, u, v, x
    <3>5. u * 1 <= u * z
      BY <3>3, <3>4, ProductLess
    <3>6. u * z \in Nat /\ u <= u * z
      BY <3>3, <3>4, <3>5
    <3> QED
      BY <1>4, <2>3, <3>2, <3>4, <3>6
  <2>5. x % w = x
    <3>1. 0 \in Nat /\ x = w * 0 + x
      BY <2>3, <2>4
    <3> HIDE DEF x, w
    <3> QED
      BY <2>3, <2>4, <3>1, QuotientIs
  <2>6. frac_accum' = numeral' % frac_div'
    BY <1>3, <2>1, <2>2, <2>5
  <2>7. result' = (numeral' \div frac_div') % (UMax32 + 1)
    BY <1>3, <2>1, <2>2
  <2>8. frac_div' = Power(10, places')
    <3>1. Power(10, places + 1) = 10 * Power(10, places)
      BY <1>3, PowerNext
    <3> QED
      BY <1>3, <1>4, <2>1, <3>1
  <2>9. numeral' \in Nat /\ places' \in Nat
    BY <1>3, <2>1
  <2> QED
    BY <1>1, <2>1, <2>6, <2>7, <2>8, <2>9 DEF FixedInv
<1>10. CASE FinishQ
  <2>1. /\ UNCHANGED <<call, text, scan>> /\ status' = "OK"
        /\ QVal <= QMax /\ out_val' = {IF is_negative THEN -QVal ELSE QVal}
    BY <1>10 DEF FinishQ, Deliver
  <2> QED
    BY <2>1, FixedReturns
<1>11. CASE TooGreat
  <2>1. UNCHANGED <<call, text, scan>> /\ status' \in {"OVERFLOW", "UNDERFLOW"} /\ QVal > QMax
    BY <1>11 DEF TooGreat, Return
  <2> QED
    BY <2>1, FixedReturns
<1>12. CASE NoText \/ NoDigits \/ NoBool
  <2>1. UNCHANGED <<call, text, scan>> /\ status' = "INVALID_FORMAT"
    BY <1>12 DEF NoText, NoDigits, NoBool, Return
  <2> QED
    BY <2>1, FixedReturns
<1>13. CASE UNCHANGED vars \/ Returned
  <2>1. UNCHANGED <<call, text, scan>> /\ status' = status /\ out_val' = out_val
    BY <1>13 DEF vars, Returned
  <2> QED
    BY <2>1, FixedReturns DEF FixedInv
<1>14. ~(Divide \/ Multiply \/ PrintScientific \/ DoesNotFit \/ Exponent \/ ExponentDigit
         \/ PowerOfTen \/ Finish \/ ReadBool \/ NotANumber \/ Infinite
         \/ Convert \/ Saturate \/ DoesNotSaturate)
  BY <1>3, <1>5 DEF Divide, Multiply, PrintScientific, DoesNotFit, Scaled, Scaling, Exponent,
       ExponentDigit, PowerOfTen, Finish, ReadBool, NotANumber, Infinite, IsNaN, IsInf, AtExponent,
       Convert, Saturate, DoesNotSaturate
<1> QED
  BY <1>6, <1>7, <1>8, <1>9, <1>10, <1>11, <1>12, <1>13, <1>14 DEF Next

(* FixedExact: EDC_StringTo_Q returns the fixed-point number nearest to the *)
(* one that is written, up to its tenth place, the whole part taken modulo  *)
(* 2^32, and rejects only what is too great.                                *)
THEOREM FixedIsNearest == Spec => []FixedExact
<1>1. ASSUME TextInv, FixedInv PROVE FixedExact
  <2> DEFINE tens    == Power(10, places)
             whole   == (numeral \div tens) % (UMax32 + 1)
             rest    == numeral % tens
             z       == Power(2, frac_bits)
             nearest == (2 * (whole * tens + rest) * z + tens) \div (2 * tens)
  <2>1. SUFFICES ASSUME parser = "StringTo_Q" PROVE FixedExact
    BY DEF FixedExact
  <2>2. /\ numeral \in Nat /\ places \in Nat /\ frac_div = tens /\ result = whole
        /\ frac_accum = rest
        /\ status = "OK" => QVal <= QMax /\ out_val = {IF is_negative THEN -QVal ELSE QVal}
        /\ status \in {"OVERFLOW", "UNDERFLOW"} => QVal > QMax
    BY <1>1, <2>1 DEF FixedInv
  <2>3. /\ frac_bits \in FracBits /\ frac_div \in 1 .. 10 * PlacesLimit
        /\ frac_accum \in Nat /\ frac_accum < frac_div
    BY <1>1, <2>1 DEF TextInv, PlacesInv
  <2>4. tens \in Nat \ {0} /\ (tens = 1 \/ \E h \in Nat \ {0} : tens = 2 * h)
    BY <2>2, TensEven
  <2>5. z \in Nat \ {0}
    BY <2>3, TextAssumption, PowerPositive
  <2>6. whole \in Nat
    <3>1. numeral \div tens \in Nat /\ UMax32 + 1 \in Nat \ {0}
      BY <2>2, <2>4, DivLess, FixedAssumption DEF UMax32
    <3> QED
      BY <3>1, QuotientOf
  <2>7. rest \in Nat /\ rest < tens
    BY <2>2, <2>3
  <2>8. rest * z + tens \div 2 <= UMax64
    BY <2>2, <2>3, PlacesFit
  <2> HIDE DEF tens, whole, rest, z
  <2>9. nearest = whole * z + (IF tens > 1 THEN (rest * z + tens \div 2) \div tens ELSE 0)
    BY <2>4, <2>5, <2>6, <2>7, RoundedWhole
  <2>10. (rest * z + tens \div 2) % (UMax64 + 1) = rest * z + tens \div 2
    <3> DEFINE x == rest * z + tens \div 2
               w == UMax64 + 1
    <3>1. x \in Nat
      <4>1. rest * z \in Nat /\ tens \div 2 \in Nat
        BY <2>4, <2>5, <2>7
      <4> QED
        BY <4>1
    <3>2. w \in Nat \ {0}
      BY FixedAssumption DEF UMax64
    <3>3. x < w
      BY <2>8, <3>1, FixedAssumption DEF UMax64
    <3> HIDE DEF x, w
    <3>4. 0 \in Nat /\ x = w * 0 + x
      BY <3>1, <3>2
    <3>5. x % w = x
      BY <3>1, <3>2, <3>3, <3>4, QuotientIs
    <3> QED
      BY <3>5 DEF x, w
  <2>11. QVal = whole * z + (IF tens > 1 THEN (rest * z + tens \div 2) \div tens ELSE 0)
    BY <2>2, <2>10 DEF QVal, FracQ, z
  <2>12. QVal = nearest
    BY <2>9, <2>11
  <2> HIDE DEF nearest
  <2>13. /\ status = "OK" =>
               nearest <= QMax /\ out_val = {IF is_negative THEN -nearest ELSE nearest}
         /\ status \in {"OVERFLOW", "UNDERFLOW"} => nearest > QMax
    BY <2>2, <2>12
  <2> QED
    BY <2>13 DEF FixedExact, nearest, tens, whole, rest, z
<1>2. TextInv /\ FixedInv => FixedExact
  BY <1>1
<1>3. Init => FixedInv
  BY FixedInit_Inv
<1>4. TextInv /\ FixedInv /\ [Next]_vars => FixedInv'
  BY FixedNext_Inv
<1> QED
  BY <1>2, <1>3, <1>4, TextInvariant, PTL DEF Spec

-----------------------------------------------------------------------------
(* A half, added to round to the nearest whole number.                      *)
Half == One \div 2

LEMMA HalfFacts ==
    /\ Half \in Powers /\ Half \in Nat \ {0} /\ One = 2 * Half /\ One \in Powers
    /\ DoubleSignificant \div 2 \in Nat \ {0}
    /\ DoubleSignificant = 2 * (DoubleSignificant \div 2)
    /\ (DoubleSignificant \div 2) * One = DoubleSignificant * Half
    /\ Multiple(One, DoubleSignificant * Half)
<1> DEFINE S == DoubleSignificant
           e == S \div 2
<1>1. One \in Powers /\ S \in Powers /\ S \in Nat /\ 4 <= S /\ 2 <= One /\ One \in Nat
  BY InPowers, Limits, PowersType
<1>2. \E t \in Powers : One = 2 * t
  <2>1. One # 1
    BY <1>1
  <2> QED
    BY <1>1, <2>1, PowersHalf
<1>3. PICK t \in Powers : One = 2 * t
  BY <1>2
<1>4. \E u \in Powers : S = 2 * u
  <2>1. S # 1
    BY <1>1
  <2> HIDE DEF S
  <2> QED
    BY <1>1, <2>1, PowersHalf
<1>5. PICK u \in Powers : S = 2 * u
  BY <1>4
<1>6. t \in Nat \ {0} /\ u \in Nat \ {0}
  BY PowersType
<1>7. Half = t
  BY <1>3, <1>6 DEF Half
<1> HIDE DEF S
<1>8. e = u
  BY <1>5, <1>6
<1> HIDE DEF e
<1>9. e * One = S * t
  BY <1>3, <1>5, <1>6, <1>8
<1>10. Multiple(One, S * t)
  BY <1>1, <1>6, <1>8, <1>9 DEF Multiple
<1> QED
  BY <1>1, <1>3, <1>5, <1>6, <1>7, <1>8, <1>9, <1>10 DEF e, S

(* A number and a half more, before it is rounded.                          *)
LEMMA HalfMore ==
    ASSUME NEW v, IsDouble(v), NEW y, y = Double(v + Half, 1), y < Infinity
    PROVE  \E x \in Powers :
              /\ v \in Nat /\ y \in Nat /\ x \in Nat \ {0} /\ v <= y
              /\ 2 * y <= 2 * v + One + x /\ 2 * v + One <= 2 * y + x
              /\ Multiple(x, y)
              /\ v + Half < DoubleSignificant * x
              /\ x # 1 => DoubleSignificant * x <= 2 * v + One
              /\ \A r : IsDouble(r) => (v + Half <= r => y <= r) /\ (v + Half >= r => y >= r)
              /\ \/ Multiple(x, v)
                 \/ \E w \in Powers : \E t \in Powers :
                       x = 2 * w /\ t <= w /\ Multiple(t, v) /\ v <= DoubleSignificant * t
<1> DEFINE S == DoubleSignificant
           n == v + Half
<1>1. /\ Half \in Powers /\ Half \in Nat \ {0} /\ One = 2 * Half /\ One \in Nat
      /\ S \in Nat \ {0} /\ Infinity \in Nat \ {0} /\ One < Infinity /\ 1 \in Nat \ {0}
  <2>1. S \in Nat \ {0}
    BY InPowers, PowersType
  <2> QED
    BY <2>1, HalfFacts, InPowers, PowersType, Limits
<1>2. v \in Nat /\ v <= Infinity /\ Held(v, S) /\ n \in Nat /\ n <= 2 * Infinity
  BY <1>1 DEF IsDouble
<1>3. n < 1 * (S * Infinity)
  <2> HIDE DEF n
  <2> QED
    BY <1>1, <1>2, InBounds
<1>4. \E x \in Powers :
         /\ IsDouble(Double(n, 1))
         /\ Double(n, 1) < Infinity =>
               /\ 2 * (1 * Double(n, 1)) <= 2 * n + 1 * x
               /\ 2 * n <= 2 * (1 * Double(n, 1)) + 1 * x
               /\ Multiple(x, Double(n, 1))
         /\ n < 1 * (S * x)
         /\ (x # 1 => 1 * (S * x) <= 2 * n)
         /\ \A r : IsDouble(r) =>
               (n <= 1 * r => Double(n, 1) <= r) /\ (n >= 1 * r => Double(n, 1) >= r)
  <2> HIDE DEF n
  <2> QED
    BY <1>1, <1>2, <1>3, DoubleFacts
<1>5. PICK x \in Powers :
         /\ IsDouble(y)
         /\ y < Infinity =>
               /\ 2 * (1 * y) <= 2 * n + 1 * x
               /\ 2 * n <= 2 * (1 * y) + 1 * x
               /\ Multiple(x, y)
         /\ n < 1 * (S * x)
         /\ (x # 1 => 1 * (S * x) <= 2 * n)
         /\ \A r : IsDouble(r) => (n <= 1 * r => y <= r) /\ (n >= 1 * r => y >= r)
  BY <1>4
<1>6. x \in Nat \ {0} /\ y \in Nat
  BY <1>5, PowersType DEF IsDouble
<1>7. \A r : IsDouble(r) => (n <= r => y <= r) /\ (n >= r => y >= r)
  <2> TAKE r
  <2>1. SUFFICES ASSUME IsDouble(r) PROVE (n <= r => y <= r) /\ (n >= r => y >= r)
    OBVIOUS
  <2>2. r \in Nat
    BY <2>1 DEF IsDouble
  <2> HIDE DEF n
  <2>3. 1 * r = r
    BY <2>2
  <2> QED
    BY <1>5, <2>1, <2>3
<1>8. v <= y
  <2>1. n >= v
    BY <1>1, <1>2
  <2> HIDE DEF n
  <2> QED
    BY <1>7, <2>1
<1>9. \/ Multiple(x, v)
      \/ \E w \in Powers : \E t \in Powers :
            x = 2 * w /\ t <= w /\ Multiple(t, v) /\ v <= S * t
  <2>1. PICK t \in Powers : Multiple(t, v) /\ v <= S * t
    BY <1>2 DEF Held
  <2>2. t \in Nat \ {0}
    BY <2>1, PowersType
  <2>3. CASE x <= t
    <3>1. Multiple(x, t)
      BY <1>5, <2>3, PowersChain
    <3> QED
      BY <1>2, <1>6, <2>1, <2>2, <3>1, MultipleOf
  <2>4. CASE t < x
    <3>1. x # 1
      BY <1>6, <2>2, <2>4
    <3>2. PICK w \in Powers : x = 2 * w
      BY <3>1, PowersHalf
    <3>3. w \in Nat \ {0}
      BY PowersType
    <3>4. Multiple(2 * t, x)
      BY <1>5, <1>6, <2>2, <2>4, PowersChain
    <3>5. 2 * t <= x
      <4>1. PICK k \in Nat : x = k * (2 * t)
        BY <3>4 DEF Multiple
      <4>2. k # 0
        BY <1>6, <2>2, <4>1
      <4>3. (2 * t) * 1 <= (2 * t) * k
        BY <2>2, <4>1, <4>2, ProductLess
      <4> QED
        BY <2>2, <4>1, <4>3
    <3>6. t <= w
      BY <2>2, <3>2, <3>3, <3>5
    <3> QED
      BY <2>1, <3>2, <3>6
  <2> QED
    BY <1>6, <2>2, <2>3, <2>4
<1>10. n = v + Half
  OBVIOUS
<1>11. /\ 2 * y <= 2 * v + One + x /\ 2 * v + One <= 2 * y + x /\ Multiple(x, y)
  BY <1>1, <1>2, <1>5, <1>6
<1>12. n < S * x /\ (x # 1 => S * x <= 2 * v + One)
  BY <1>1, <1>2, <1>5, <1>6
<1> QED
  BY <1>2, <1>6, <1>7, <1>8, <1>9, <1>10, <1>11, <1>12

-----------------------------------------------------------------------------
LEMMA WholeOf ==
    ASSUME NEW y \in Nat
    PROVE  /\ y \div One \in Nat /\ (y \div One) * One <= y /\ y < (y \div One) * One + One
           /\ Multiple(One, y) => (y \div One) * One = y
           /\ \A b \in Nat : (Multiple(One, b) /\ b <= y /\ y < b + One) => (y \div One) * One = b
<1> DEFINE q == y \div One
<1>1. One \in Nat \ {0}
  BY InPowers, PowersType
<1>2. q \in Nat /\ One * q <= y /\ y < One * q + One
  BY <1>1, DivLess
<1> HIDE DEF q
<1>3. \A b \in Nat : (Multiple(One, b) /\ b <= y /\ y < b + One) => q * One = b
  <2> TAKE b \in Nat
  <2>1. SUFFICES ASSUME Multiple(One, b), b <= y, y < b + One PROVE q * One = b
    OBVIOUS
  <2>2. Multiple(One, q * One) /\ q * One \in Nat
    BY <1>1, <1>2 DEF Multiple
  <2> DEFINE c == q * One
  <2>3. c \in Nat /\ c <= y /\ y < c + One /\ Multiple(One, c)
    BY <1>1, <1>2, <2>2
  <2> HIDE DEF c
  <2>4. (b < c => b + One <= c) /\ (c < b => c + One <= b)
    BY <1>1, <2>1, <2>3, MultipleSum
  <2>5. c = b
    BY <1>1, <2>1, <2>3, <2>4
  <2> QED
    BY <2>5 DEF c
<1>4. Multiple(One, y) => q * One = y
  BY <1>1, <1>3
<1> QED
  BY <1>1, <1>2, <1>3, <1>4 DEF q

(* The power of two at which the spacing changes, between a number and the  *)
(* number and a half more.                                                  *)
LEMMA Crossing ==
    ASSUME NEW v, IsDouble(v), v + Half < Infinity, NEW y \in Nat, NEW x \in Nat, NEW w \in Powers,
           NEW t \in Powers, x = 2 * w, t <= w, v <= DoubleSignificant * t,
           DoubleSignificant * x <= 2 * v + One, v + Half < DoubleSignificant * x,
           \A r : IsDouble(r) => (v + Half >= r => y >= r)
    PROVE  \E b \in Powers :
              /\ b \in Nat /\ b = DoubleSignificant * w /\ 2 * b = DoubleSignificant * x
              /\ v <= b /\ b <= v + Half /\ b <= y /\ Multiple(x, b)
<1> DEFINE S == DoubleSignificant
           b == S * w
<1>1. /\ Half \in Nat \ {0} /\ One = 2 * Half /\ S \in Powers /\ S \in Nat \ {0}
      /\ Infinity \in Nat \ {0} /\ S = 2 * (S \div 2) /\ S \div 2 \in Nat
      /\ w \in Nat \ {0} /\ t \in Nat \ {0} /\ v \in Nat
  BY HalfFacts, InPowers, PowersType DEF IsDouble
<1> DEFINE e == S \div 2
<1>2. S = 2 * e /\ e \in Nat
  BY <1>1
<1> HIDE DEF e, S
<1>3. b \in Nat /\ 2 * b = S * x /\ b = e * x
  BY <1>1, <1>2
<1>4. Multiple(x, b)
  BY <1>2, <1>3 DEF Multiple
<1>5. S * t <= S * w
  BY <1>1, ProductLess
<1>6. v <= b
  <2>1. S * t \in Nat /\ v <= S * t
    BY <1>1 DEF S
  <2> QED
    BY <1>1, <1>3, <1>5, <2>1
<1>7. b <= v + Half
  <2>1. S * x <= 2 * v + One
    BY DEF S
  <2> HIDE DEF b
  <2> QED
    BY <1>1, <1>3, <2>1
<1>8. b \in Powers
  BY <1>1, <1>3, <1>7, PowersProduct
<1>9. IsDouble(b)
  <2>1. S * w <= Infinity
    BY <1>1, <1>3, <1>7
  <2> QED
    BY <2>1, PowerIsDouble DEF S
<1>10. b <= y
  <2> HIDE DEF b
  <2> QED
    BY <1>1, <1>3, <1>7, <1>9
<1> QED
  BY <1>3, <1>4, <1>6, <1>7, <1>8, <1>10 DEF S

-----------------------------------------------------------------------------
(* What is left when the half has been added and the places are cut off.    *)
HalfError(v, r, g) ==
    /\ v < DoubleSignificant * Half => 2 * (r - v) <= One + 2 * g /\ 2 * (v - r) <= One + 2 * g
    /\ v >= DoubleSignificant * Half => r - v <= One /\ v - r <= One

LEMMA WithinHalf ==
    ASSUME NEW v \in Nat, NEW r \in Nat, NEW g \in Nat, r - v <= Half, v - r <= Half
    PROVE  HalfError(v, r, g)
<1>1. Half \in Nat /\ One = 2 * Half
  BY HalfFacts
<1>2. r - v <= One /\ v - r <= One /\ 2 * (r - v) <= One + 2 * g /\ 2 * (v - r) <= One + 2 * g
  BY <1>1
<1> QED
  BY <1>2 DEF HalfError

(* Below half a unit, cut to none or one.                                   *)
LEMMA HalfOrLess ==
    ASSUME NEW v \in Nat, v <= Half, NEW y \in Nat, Half <= y, y <= One,
           NEW x \in Powers, DoubleSignificant * x = One, 2 * y <= 2 * v + One + x,
           NEW g \in Nat, One < DoubleSignificant * g, NEW r, r = (y \div One) * One
    PROVE  HalfError(v, r, g)
<1> DEFINE S == DoubleSignificant
<1>1. /\ Half \in Nat \ {0} /\ One = 2 * Half /\ One \in Nat /\ S \in Nat \ {0} /\ 4 <= S
      /\ x \in Nat \ {0}
  <2>1. S \in Nat \ {0} /\ 4 <= S
    BY InPowers, PowersType, Limits
  <2> QED
    BY <2>1, HalfFacts, PowersType
<1>2. Half < S * Half
  <2>1. Half * 4 <= Half * S
    BY <1>1, ProductLess
  <2> HIDE DEF S
  <2> QED
    BY <1>1, <2>1
<1>3. x <= g
  <2>1. g <= x => S * g <= S * x
    BY <1>1, ProductLess
  <2>2. S * x < S * g /\ S * x \in Nat /\ S * g \in Nat
    BY <1>1
  <2> HIDE DEF S
  <2>3. ~(g <= x)
    BY <2>1, <2>2
  <2> QED
    BY <1>1, <2>3
<1>4. CASE y < One
  <2>1. Multiple(One, 0) /\ 0 \in Nat
    BY <1>1, MultipleTrivial
  <2>2. r = 0
    <3>1. 0 <= y /\ y < 0 + One
      BY <1>1, <1>4
    <3> QED
      BY <2>1, <3>1, WholeOf
  <2> QED
    BY <1>1, <2>2, WithinHalf
<1>5. CASE y = One
  <2>1. Multiple(One, y)
    BY <1>1, <1>5, MultipleTrivial
  <2>2. r = One
    BY <1>5, <2>1, WholeOf
  <2>3. 2 * (r - v) <= One + 2 * g /\ 2 * (v - r) <= One + 2 * g
    BY <1>1, <1>3, <1>5, <2>2
  <2>4. ~(v >= S * Half)
    BY <1>1, <1>2
  <2> QED
    BY <2>3, <2>4 DEF HalfError
<1> QED
  BY <1>1, <1>4, <1>5

LEMMA FineSpacing ==
    ASSUME NEW v, IsDouble(v), v + Half < Infinity, NEW y, y = Double(v + Half, 1), y < Infinity,
           NEW g \in Nat, One < DoubleSignificant * g, NEW r, r = (y \div One) * One,
           NEW x \in Powers, x <= Half, v \in Nat, y \in Nat, v <= y,
           2 * y <= 2 * v + One + x, 2 * v + One <= 2 * y + x, Multiple(x, y),
           v + Half < DoubleSignificant * x,
           x # 1 => DoubleSignificant * x <= 2 * v + One,
           \A b : IsDouble(b) => (v + Half <= b => y <= b) /\ (v + Half >= b => y >= b),
           \/ Multiple(x, v)
           \/ \E w \in Powers : \E t \in Powers :
                 x = 2 * w /\ t <= w /\ Multiple(t, v) /\ v <= DoubleSignificant * t
    PROVE  HalfError(v, r, g)
<1> DEFINE S == DoubleSignificant
<1>1. /\ Half \in Nat \ {0} /\ One = 2 * Half /\ Half \in Powers /\ One \in Powers
      /\ S \in Nat \ {0} /\ Infinity \in Nat \ {0} /\ x \in Nat \ {0}
  BY HalfFacts, InPowers, PowersType
<1>2. Multiple(x, Half)
  BY <1>1, PowersChain
<1>3. y \div One \in Nat /\ r <= y /\ y < r + One /\ r \in Nat
  <2>1. /\ y \div One \in Nat /\ (y \div One) * One <= y /\ y < (y \div One) * One + One
    BY WholeOf
  <2> QED
    BY <1>1, <2>1
<1>4. CASE Multiple(x, v)
  <2>1. Multiple(x, v + Half)
    BY <1>1, <1>2, <1>4, MultipleSum
  <2>2. IsDouble(v + Half)
    <3> DEFINE n == v + Half
    <3>1. n \in Nat /\ n <= Infinity /\ Multiple(x, n) /\ n <= S * x
      BY <1>1, <2>1
    <3> HIDE DEF n
    <3>2. Held(n, S)
      BY <3>1 DEF Held
    <3> QED
      BY <3>1, <3>2 DEF IsDouble, n
  <2>3. y = v + Half
    <3> DEFINE n == v + Half
    <3>1. n \in Nat /\ (n <= n => y <= n) /\ (n >= n => y >= n)
      BY <1>1, <2>2
    <3> HIDE DEF n
    <3>2. y = n
      BY <3>1
    <3> QED
      BY <3>2 DEF n
  <2>4. r - v <= Half /\ v - r <= Half
    BY <1>1, <1>3, <2>3
  <2> QED
    BY <1>3, <2>4, WithinHalf
<1>5. ASSUME NEW w \in Powers, NEW t \in Powers, x = 2 * w, t <= w, v <= S * t
      PROVE  HalfError(v, r, g)
  <2>1. w \in Nat \ {0} /\ x # 1
    BY <1>5, PowersType
  <2>2. \E b \in Powers :
           /\ b \in Nat /\ b = S * w /\ 2 * b = S * x
           /\ v <= b /\ b <= v + Half /\ b <= y /\ Multiple(x, b)
    BY <1>1, <1>5, <2>1, Crossing
  <2>3. PICK b \in Powers :
           /\ b \in Nat /\ b = S * w /\ 2 * b = S * x
           /\ v <= b /\ b <= v + Half /\ b <= y /\ Multiple(x, b)
    BY <2>2
  <2>4. y - b <= Half
    <3> DEFINE c == y - b
    <3>1. c \in Nat /\ Multiple(x, c)
      <4>1. c \in Nat
        BY <2>3
      <4>2. Multiple(x, b) /\ Multiple(x, y) /\ x \in Nat /\ b \in Nat /\ b <= y
        BY <1>1, <2>3
      <4>3. Multiple(x, y - b)
        BY <4>2, MultipleSum
      <4> QED
        BY <4>1, <4>3
    <3>2. Half < c => Half + x <= c
      <4> HIDE DEF c
      <4> QED
        BY <1>1, <1>2, <3>1, MultipleSum
    <3>3. 2 * c <= One + x
      BY <1>1, <2>3
    <3> HIDE DEF c
    <3>4. c <= Half
      BY <1>1, <3>1, <3>2, <3>3
    <3> QED
      BY <3>4 DEF c
  <2>5. CASE One <= b
    <3>1. Multiple(One, b)
      BY <1>1, <2>5, PowersChain
    <3>2. y < b + One
      BY <1>1, <2>3, <2>4
    <3>3. r = b
      BY <2>3, <3>1, <3>2, WholeOf
    <3>4. r - v <= Half /\ v - r <= Half
      BY <1>1, <2>3, <3>3
    <3> QED
      BY <1>3, <3>4, WithinHalf
  <2>6. CASE b < One
    <3>1. b \in Nat \ {0}
      BY PowersType
    <3>2. b <= Half
      <4>1. Multiple(2 * b, One)
        BY <1>1, <2>6, PowersChain
      <4>2. PICK k \in Nat : One = k * (2 * b)
        BY <4>1 DEF Multiple
      <4>3. k # 0
        BY <1>1, <4>2
      <4>4. b * 1 <= b * k
        BY <3>1, <4>2, <4>3, ProductLess
      <4>5. Half = b * k
        BY <1>1, <3>1, <4>2
      <4> QED
        BY <3>1, <4>4, <4>5
    <3>3. b = Half
      <4>1. ASSUME b < Half PROVE FALSE
        <5>1. Multiple(2 * b, Half)
          BY <1>1, <4>1, PowersChain
        <5>2. PICK k \in Nat : Half = k * (2 * b)
          BY <5>1 DEF Multiple
        <5>3. k # 0
          BY <1>1, <5>2
        <5>4. (2 * b) * 1 <= (2 * b) * k
          BY <3>1, <5>2, <5>3, ProductLess
        <5>5. 2 * b <= Half
          BY <3>1, <5>2, <5>4
        <5>6. Half < 2 * b
          <6>1. v + Half < 2 * b
            BY <2>3
          <6> QED
            BY <1>1, <2>3, <6>1
        <5> QED
          BY <1>1, <3>1, <5>5, <5>6
      <4> QED
        BY <1>1, <3>1, <3>2, <4>1
    <3>4. v <= Half /\ Half <= y /\ y <= One /\ S * x = One
      BY <1>1, <2>3, <2>4, <3>3
    <3> QED
      BY <3>4, HalfOrLess
  <2> QED
    BY <1>1, <2>3, <2>5, <2>6
<1> QED
  BY <1>4, <1>5

-----------------------------------------------------------------------------
LEMMA CoarseSpacing ==
    ASSUME NEW v, IsDouble(v), v + Half < Infinity, NEW y, y = Double(v + Half, 1), y < Infinity,
           NEW g \in Nat, NEW r, r = (y \div One) * One,
           NEW x \in Powers, One <= x, v \in Nat, y \in Nat, v <= y,
           2 * y <= 2 * v + One + x, 2 * v + One <= 2 * y + x, Multiple(x, y),
           v + Half < DoubleSignificant * x,
           x # 1 => DoubleSignificant * x <= 2 * v + One,
           \A b : IsDouble(b) => (v + Half <= b => y <= b) /\ (v + Half >= b => y >= b),
           \/ Multiple(x, v)
           \/ \E w \in Powers : \E t \in Powers :
                 x = 2 * w /\ t <= w /\ Multiple(t, v) /\ v <= DoubleSignificant * t
    PROVE  HalfError(v, r, g) /\ (DoubleSignificant * One <= v => y = v)
<1> DEFINE S == DoubleSignificant
           T == S * Half
<1>1. /\ Half \in Nat \ {0} /\ One = 2 * Half /\ One \in Powers /\ One \in Nat \ {0}
      /\ S \in Nat \ {0} /\ Infinity \in Nat \ {0} /\ x \in Nat \ {0} /\ x # 1
      /\ T \in Nat /\ Multiple(One, T) /\ S * One = 2 * T
  <2>1. /\ Half \in Nat \ {0} /\ One = 2 * Half /\ One \in Powers /\ Multiple(One, T)
    BY HalfFacts
  <2>2. S \in Nat \ {0} /\ Infinity \in Nat \ {0} /\ x \in Nat \ {0}
    BY InPowers, PowersType
  <2> QED
    BY <2>1, <2>2
<1>2. Multiple(One, x)
  BY <1>1, PowersChain
<1>3. Multiple(One, y)
  BY <1>1, <1>2, MultipleOf
<1>4. r = y
  BY <1>3, WholeOf
<1>5. S * One <= S * x
  BY <1>1, ProductLess
<1>6. S * x <= 2 * v + One /\ S * x \in Nat
  BY <1>1
<1>7. 2 * T <= 2 * v + One
  <2> DEFINE a == S * One
             b == S * x
  <2>1. a \in Nat /\ b \in Nat /\ a <= b /\ b <= 2 * v + One /\ a = 2 * T
    BY <1>1, <1>5, <1>6
  <2> HIDE DEF a, b, T
  <2> QED
    BY <1>1, <2>1
<1>8. CASE y = v
  BY <1>1, <1>4, <1>8, WithinHalf
<1>9. CASE Multiple(x, v) /\ y # v
  <2>1. Multiple(One, v)
    BY <1>1, <1>2, <1>9, MultipleOf
  <2>2. T <= v
    <3> HIDE DEF T, S
    <3>1. v < T => v + One <= T
      BY <1>1, <2>1, MultipleSum
    <3> QED
      BY <1>1, <1>7, <3>1
  <2>3. v + x <= y
    <3>1. v < y /\ x \in Nat /\ Multiple(x, v) /\ Multiple(x, y)
      BY <1>1, <1>9
    <3> QED
      BY <3>1, MultipleSum
  <2>4. x <= One
    BY <1>1, <2>3
  <2>5. x = One
    BY <1>1, <2>4
  <2>6. r - v <= One /\ v - r <= One
    BY <1>1, <1>4, <2>5
  <2>7. HalfError(v, r, g)
    <3>1. ~(v < S * Half)
      <4> HIDE DEF S
      <4> QED
        BY <1>1, <2>2
    <3> QED
      BY <2>6, <3>1 DEF HalfError
  <2>8. v < S * One
    <3>1. v + Half < S * One
      BY <2>5
    <3> HIDE DEF T
    <3> QED
      BY <1>1, <3>1
  <2>9. ~(S * One <= v)
    <3> HIDE DEF T
    <3> QED
      BY <1>1, <2>8
  <2> QED
    BY <2>7, <2>9
<1>10. ASSUME NEW w \in Powers, NEW t \in Powers, x = 2 * w, t <= w, v <= S * t, Multiple(t, v)
       PROVE  HalfError(v, r, g) /\ (S * One <= v => y = v)
  <2>1. \E b \in Powers :
           /\ b \in Nat /\ b = S * w /\ 2 * b = S * x
           /\ v <= b /\ b <= v + Half /\ b <= y /\ Multiple(x, b)
    BY <1>1, <1>10, Crossing
  <2>2. PICK b \in Powers :
           /\ b \in Nat /\ b = S * w /\ 2 * b = S * x
           /\ v <= b /\ b <= v + Half /\ b <= y /\ Multiple(x, b)
    BY <2>1
  <2>3. CASE b = v
    <3>1. Multiple(x, v)
      BY <2>2, <2>3
    <3> QED
      BY <1>8, <1>9, <3>1
  <2>4. CASE b # v
    <3>1. v < b
      BY <2>2, <2>4
    <3>2. b < y => b + x <= y
      BY <1>1, <2>2, MultipleSum
    <3>3. y = b
      BY <1>1, <2>2, <3>1, <3>2
    <3>4. HalfError(v, r, g)
      <4>1. r - v <= Half /\ v - r <= Half
        BY <1>1, <1>4, <2>2, <3>3
      <4> QED
        BY <1>4, <4>1, WithinHalf
    <3>5. ASSUME S * One <= v PROVE FALSE
      <4>1. t \in Nat \ {0}
        BY PowersType
      <4>2. One <= t
        <5>1. t < One => S * t + S <= S * One
          BY <1>1, <4>1, ProductLess
        <5> DEFINE c == S * t
                   a == S * One
        <5>2. c \in Nat /\ a \in Nat /\ a <= v /\ v <= c
          BY <1>1, <1>10, <3>5, <4>1
        <5>3. t < One => c + S <= a
          BY <5>1
        <5> HIDE DEF c, a, S
        <5> QED
          BY <1>1, <4>1, <5>2, <5>3
      <4>3. Multiple(One, t)
        BY <1>1, <4>2, PowersChain
      <4>4. Multiple(One, v)
        BY <1>1, <1>10, <4>1, <4>3, MultipleOf
      <4>5. v + One <= b
        BY <1>1, <1>3, <2>2, <3>1, <3>3, <4>4, MultipleSum
      <4> QED
        BY <1>1, <2>2, <4>5
    <3> QED
      BY <3>4, <3>5
  <2> QED
    BY <2>3, <2>4
<1> QED
  BY <1>8, <1>9, <1>10

(* Rounding to a whole number in double precision.                          *)
LEMMA HalfAdded ==
    ASSUME NEW v, IsDouble(v), v + Half < Infinity, NEW y, y = Double(v + Half, 1), y < Infinity,
           NEW g \in Nat, One < DoubleSignificant * g
    PROVE  /\ HalfError(v, (y \div One) * One, g)
           /\ DoubleSignificant * One <= v => y = v
<1> DEFINE S == DoubleSignificant
<1>1. /\ Half \in Nat \ {0} /\ One = 2 * Half /\ Half \in Powers /\ One \in Nat
      /\ S \in Nat \ {0}
  <2>1. S \in Nat \ {0}
    BY InPowers, PowersType
  <2> QED
    BY <2>1, HalfFacts, PowersType
<1>2. PICK x \in Powers :
         /\ v \in Nat /\ y \in Nat /\ x \in Nat \ {0} /\ v <= y
         /\ 2 * y <= 2 * v + One + x /\ 2 * v + One <= 2 * y + x
         /\ Multiple(x, y)
         /\ v + Half < S * x
         /\ x # 1 => S * x <= 2 * v + One
         /\ \A r : IsDouble(r) => (v + Half <= r => y <= r) /\ (v + Half >= r => y >= r)
         /\ \/ Multiple(x, v)
            \/ \E w \in Powers : \E t \in Powers :
                  x = 2 * w /\ t <= w /\ Multiple(t, v) /\ v <= S * t
  BY HalfMore
<1>3. CASE x <= Half
  <2>1. HalfError(v, (y \div One) * One, g)
    BY <1>2, <1>3, FineSpacing
  <2>2. v < S * One
    <3>1. S * x <= S * Half
      BY <1>1, <1>2, <1>3, ProductLess
    <3>2. S * One = 2 * (S * Half) /\ S * Half \in Nat /\ S * x \in Nat
      BY <1>1, <1>2
    <3> DEFINE a == S * Half
               b == S * x
               c == S * One
    <3>3. a \in Nat /\ b \in Nat /\ c = 2 * a /\ b <= a /\ v + Half < b
      BY <1>2, <3>1, <3>2
    <3>4. v < c
      <4> HIDE DEF a, b, c
      <4> QED
        BY <1>1, <1>2, <3>3
    <3> QED
      BY <3>4
  <2>3. S * One \in Nat
    BY <1>1
  <2> QED
    BY <1>2, <2>1, <2>2, <2>3
<1>4. CASE Half < x
  <2>1. Multiple(2 * Half, x)
    BY <1>1, <1>4, PowersChain
  <2>2. PICK k \in Nat : x = k * One
    BY <1>1, <2>1 DEF Multiple
  <2>3. k # 0
    BY <1>1, <1>2, <2>2
  <2>4. One * 1 <= One * k
    BY <1>1, <2>2, <2>3, ProductLess
  <2>5. One <= x
    BY <1>1, <2>2, <2>4
  <2> QED
    BY <1>2, <2>5, CoarseSpacing
<1> QED
  BY <1>1, <1>2, <1>3, <1>4

-----------------------------------------------------------------------------
LEMMA FormatFacts ==
    ASSUME NEW f \in FracBits
    PROVE  /\ f \in Nat /\ Power(2, f) \in Powers /\ Power(2, f) \in Nat \ {0}
           /\ Power(2, f) <= One /\ Power(2, f) * One < Infinity
BY ConversionAssumption, TextAssumption, PowersType

(* A number in the units of a format: exact, or beyond all numbers.         *)
LEMMA ScaledIs ==
    ASSUME NEW x \in Int, IsDouble(Abs(x)), NEW f \in FracBits
    PROVE  /\ ScaledUp(x, f) \in Nat /\ IsDouble(ScaledUp(x, f))
           /\ Abs(x) * Power(2, f) \in Nat
           /\ \/ ScaledUp(x, f) = Abs(x) * Power(2, f)
              \/ ScaledUp(x, f) = Infinity /\ Abs(x) * Power(2, f) >= Infinity
           /\ \A sig \in Powers :
                 (Held(Abs(x), sig) /\ ScaledUp(x, f) < Infinity) => Held(ScaledUp(x, f), sig)
<1> DEFINE a == Abs(x)
           p == Power(2, f)
           b == p * One
           z == Times(a, b)
<1>1. /\ a \in Nat /\ a <= Infinity /\ IsDouble(a) /\ p \in Powers /\ p \in Nat \ {0}
      /\ b \in Nat \ {0} /\ b < Infinity /\ b \div One = p
      /\ Infinity \in Nat \ {0} /\ NaN = Infinity + 1
  <2>1. p \in Powers /\ p \in Nat \ {0} /\ b < Infinity
    BY FormatFacts
  <2>2. One \in Nat \ {0} /\ b \div One = p
    <3> HIDE DEF p
    <3> QED
      BY <2>1, OneWhole
  <2>3. b \in Nat \ {0}
    BY <2>1, <2>2
  <2> QED
    BY <2>1, <2>2, <2>3, TenFacts DEF IsDouble
<1>2. ScaledUp(x, f) = z
  BY DEF ScaledUp
<1>3. IsDouble(Infinity)
  BY InfinityIsDouble
<1> HIDE DEF a, p, b
<1>4. a * p \in Nat /\ p * a = a * p
  BY <1>1
<1>5. a # NaN /\ b # NaN /\ b # Infinity /\ b # 0
  BY <1>1
<1>6. CASE a = 0
  <2>1. z = 0
    BY <1>1, <1>5, <1>6 DEF Times
  <2>2. z = a * p /\ IsDouble(z)
    BY <1>1, <1>6, <2>1
  <2> QED
    BY <1>1, <1>2, <1>4, <1>6, <2>1, <2>2 DEF a, p
<1>7. CASE a = Infinity
  <2>1. z = Infinity
    BY <1>1, <1>5, <1>7 DEF Times
  <2>2. Infinity * 1 <= Infinity * p
    BY <1>1, ProductLess
  <2>3. a * p >= Infinity
    BY <1>1, <1>4, <1>7, <2>2
  <2> QED
    BY <1>1, <1>2, <1>3, <1>4, <2>1, <2>3 DEF a, p
<1>8. CASE a # 0 /\ a # Infinity
  <2> DEFINE q == (2 * Infinity) \div a
             n == a * p
  <2>1. q \in Nat /\ (q < p <=> 2 * Infinity < a * p)
    <3>1. a \in Nat \ {0} /\ 2 * Infinity \in Nat
      BY <1>1, <1>8
    <3> QED
      BY <1>1, <3>1, DivLess
  <2>2. z = IF p > q THEN Infinity ELSE Double(n, 1)
    BY <1>1, <1>5, <1>8 DEF Times
  <2>3. n \in Nat
    BY <1>4
  <2> HIDE DEF q, n
  <2>4. CASE p > q
    <3>1. 2 * Infinity < n
      BY <1>1, <2>1, <2>4 DEF n
    <3>2. n >= Infinity /\ z = Infinity
      BY <1>1, <2>2, <2>3, <2>4, <3>1
    <3> QED
      BY <1>1, <1>2, <1>3, <2>3, <3>2 DEF a, p, n
  <2>5. CASE ~(p > q) /\ n <= Infinity
    <3>1. IsDouble(n)
      BY <1>1, <1>4, <2>5, TimesPower DEF n
    <3>2. Double(n, 1) = n
      <4>1. Double(1 * n, 1) = n /\ 1 * n = n
        BY <2>3, <3>1, DoubleExact
      <4> QED
        BY <4>1
    <3>3. z = n
      BY <2>2, <2>5, <3>2
    <3>4. \A sig \in Powers : Held(a, sig) => Held(n, sig)
      BY <1>1, <1>4, <2>5, HeldTimes DEF n
    <3> QED
      BY <1>2, <2>3, <3>1, <3>3, <3>4 DEF a, p, n
  <2>6. CASE ~(p > q) /\ n > Infinity
    <3>1. n <= 2 * Infinity
      BY <1>1, <2>1, <2>3, <2>6 DEF n
    <3>2. n < 1 * (DoubleSignificant * Infinity) /\ 1 \in Nat \ {0}
      BY <2>3, <3>1, InBounds
    <3>3. /\ IsDouble(Double(n, 1))
          /\ n >= 1 * Infinity => Double(n, 1) >= Infinity
      BY <1>3, <2>3, <3>2, DoubleFacts
    <3>4. Double(n, 1) = Infinity
      BY <1>1, <2>3, <2>6, <3>3 DEF IsDouble
    <3>5. z = Infinity /\ n >= Infinity
      BY <1>1, <2>2, <2>3, <2>6, <3>4
    <3> QED
      BY <1>1, <1>2, <1>3, <2>3, <3>5 DEF a, p, n
  <2> QED
    BY <1>1, <2>1, <2>3, <2>4, <2>5, <2>6
<1> QED
  BY <1>6, <1>7, <1>8

-----------------------------------------------------------------------------
(* The greatest value of a fixed-point type, and the significant numbers of *)
(* the floating-point type that is converted to it.                         *)
Matches(max, sig) ==
    /\ max \in Nat /\ max + 1 \in Powers /\ (max + 1) * One < Infinity
    /\ sig \in Powers /\ 2 <= max /\ sig <= max + 1 /\ sig <= DoubleSignificant
    /\ 4 * (max + 1) <= DoubleSignificant \/ 2 * DoubleSignificant <= max + 1

Significant == IF parser = "Float_To_Q" THEN FloatSignificant ELSE DoubleSignificant

LEMMA TypesMatch == Matches(TypeMax, Significant)
<1>1. /\ QMax \in Nat /\ Q64Max \in Nat /\ FloatSignificant \in Powers
      /\ FloatSignificant \in Nat /\ DoubleSignificant \in Powers /\ DoubleSignificant \in Nat
      /\ 4 <= FloatSignificant /\ FloatSignificant <= DoubleSignificant
      /\ One \in Nat \ {0} /\ Infinity \in Nat
  BY FixedAssumption, InPowers, PowersType, Limits
<1>2. CASE parser = "Float_To_Q"
  <2>1. (QMax + 1) * One < Infinity
    <3>1. One * (QMax + 1) <= One * (Q64Max + 1)
      BY <1>1, ConversionAssumption, ProductLess
    <3> DEFINE a == (QMax + 1) * One
               b == (Q64Max + 1) * One
    <3>2. a \in Nat /\ b \in Nat /\ a <= b
      BY <1>1, <3>1
    <3>3. b < Infinity
      BY ConversionAssumption
    <3> HIDE DEF a, b
    <3>4. a < Infinity
      BY <1>1, <3>2, <3>3
    <3> QED
      BY <3>4 DEF a
  <2> QED
    BY <1>1, <1>2, <2>1, ConversionAssumption DEF Matches, Significant, TypeMax
<1>3. CASE parser # "Float_To_Q"
  BY <1>1, <1>3, ConversionAssumption DEF Matches, Significant, TypeMax
<1> QED
  BY <1>2, <1>3

LEMMA GreatestFacts ==
    ASSUME NEW x \in Int, NEW max \in Nat
    PROVE  /\ Greatest(x, max) \in {max, max + 1} /\ Greatest(x, max) \in Nat
           /\ (x < 0 <=> Greatest(x, max) = max + 1)
BY DEF Greatest

(* What is greater than a bound is greater by one, or more.                 *)
LEMMA HeldAbove ==
    ASSUME NEW max, NEW sig, Matches(max, sig), NEW v \in Nat, Held(v, sig),
           NEW c \in {max, max + 1}, v > c * One
    PROVE  v >= (c + 1) * One
<1>1. /\ max \in Nat /\ sig \in Nat \ {0} /\ 2 <= max /\ sig <= max + 1 /\ c \in Nat
      /\ One \in Nat \ {0} /\ Half \in Nat \ {0} /\ One = 2 * Half /\ One \in Powers
  BY HalfFacts, PowersType DEF Matches
<1>2. PICK t \in Powers : Multiple(t, v) /\ v <= sig * t
  BY DEF Held
<1>3. t \in Nat \ {0}
  BY PowersType
<1>4. CASE One <= t
  <2>1. Multiple(One, t)
    BY <1>1, <1>4, PowersChain
  <2>2. Multiple(One, v)
    BY <1>1, <1>2, <1>3, <2>1, MultipleOf
  <2> DEFINE b == c * One
  <2>3. b \in Nat /\ Multiple(One, b) /\ (c + 1) * One = b + One
    BY <1>1 DEF Multiple
  <2>4. b < v
    BY <1>1
  <2> HIDE DEF b
  <2>5. b + One <= v
    BY <1>1, <2>2, <2>3, <2>4, MultipleSum
  <2> QED
    BY <1>1, <2>3, <2>5
<1>5. CASE t < One
  <2>1. t <= Half
    <3>1. Multiple(2 * t, One)
      BY <1>1, <1>5, PowersChain
    <3>2. PICK k \in Nat : One = k * (2 * t)
      BY <3>1 DEF Multiple
    <3>3. k # 0
      BY <1>1, <3>2
    <3>4. t * 1 <= t * k /\ Half = t * k
      BY <1>1, <1>3, <3>2, <3>3, ProductLess
    <3> QED
      BY <1>1, <1>3, <3>4
  <2>2. sig * t <= sig * Half
    BY <1>1, <1>3, <2>1, ProductLess
  <2>3. Half * sig <= Half * (2 * c)
    <3>1. sig <= 2 * c /\ 2 * c \in Nat
      BY <1>1
    <3> QED
      BY <1>1, <3>1, ProductLess
  <2>4. Half * sig = sig * Half /\ Half * (2 * c) = c * One
    BY <1>1
  <2> DEFINE a == sig * t
             b == sig * Half
             e == c * One
  <2>5. a \in Nat /\ b \in Nat /\ e \in Nat /\ a <= b /\ b <= e /\ v <= a
    BY <1>1, <1>2, <1>3, <2>2, <2>3, <2>4
  <2>6. v > e
    OBVIOUS
  <2> HIDE DEF a, b, e
  <2> QED
    BY <2>5, <2>6
<1> QED
  BY <1>1, <1>3, <1>4, <1>5

(* The bound that the code compares with.                                   *)
LEMMA BoundIs ==
    ASSUME NEW max, NEW sig, Matches(max, sig), NEW c \in {max, max + 1},
           NEW z, z = Double(c * One, 1)
    PROVE  /\ c \in Nat /\ c * One \in Nat /\ z \in Nat /\ IsDouble(z) /\ z <= (max + 1) * One
           /\ 4 * (max + 1) <= DoubleSignificant => z = c * One
           /\ \A r : IsDouble(r) => (c * One <= r => z <= r) /\ (c * One >= r => z >= r)
<1> DEFINE S == DoubleSignificant
           b == c * One
           top == (max + 1) * One
<1>1. /\ max \in Nat /\ c \in Nat /\ One \in Nat \ {0} /\ Infinity \in Nat /\ top < Infinity
      /\ max + 1 \in Powers /\ S \in Nat /\ 4 <= S /\ One \in Powers
  <2>1. S \in Nat /\ 4 <= S
    BY InPowers, PowersType, Limits
  <2> QED
    BY <2>1, InPowers, PowersType DEF Matches
<1>2. b \in Nat /\ top \in Nat /\ b <= top
  <2>1. One * c <= One * (max + 1)
    BY <1>1, ProductLess
  <2> QED
    BY <1>1, <2>1
<1>3. IsDouble(top)
  <2>1. IsDouble(One)
    <3>1. Multiple(One, One) /\ One <= S * One
      <4>1. One * 4 <= One * S
        BY <1>1, ProductLess
      <4> HIDE DEF S
      <4> QED
        BY <1>1, <4>1, MultipleTrivial
    <3>2. One <= Infinity
      BY <1>1, Limits
    <3> QED
      BY <1>1, <3>1, <3>2 DEF IsDouble, Held
  <2>2. top <= Infinity
    BY <1>1, <1>2
  <2> DEFINE u == max + 1
  <2>3. u \in Powers /\ u * One <= Infinity
    BY <1>1, <2>2
  <2> HIDE DEF u
  <2>4. IsDouble(u * One)
    BY <2>1, <2>3, TimesPower
  <2> QED
    BY <2>4 DEF u
<1> HIDE DEF top
<1>4. /\ IsDouble(z)
      /\ \A r : IsDouble(r) => (b <= 1 * r => z <= r) /\ (b >= 1 * r => z >= r)
  <2> HIDE DEF b
  <2>1. b <= 2 * Infinity
    BY <1>1, <1>2
  <2>2. b < 1 * (DoubleSignificant * Infinity) /\ 1 \in Nat \ {0}
    BY <1>2, <2>1, InBounds
  <2>3. z = Double(b, 1)
    BY DEF b
  <2> QED
    BY <1>2, <2>2, <2>3, DoubleFacts
<1>5. \A r : IsDouble(r) => (b <= r => z <= r) /\ (b >= r => z >= r)
  <2> TAKE r
  <2>1. SUFFICES ASSUME IsDouble(r) PROVE (b <= r => z <= r) /\ (b >= r => z >= r)
    OBVIOUS
  <2>2. 1 * r = r
    BY <2>1 DEF IsDouble
  <2> HIDE DEF b
  <2> QED
    BY <1>4, <2>1, <2>2
<1>6. ASSUME 4 * (max + 1) <= S PROVE z = b
  <2>1. c <= S /\ c * One <= Infinity
    BY <1>1, <1>2, <1>6 DEF top
  <2>2. IsDouble(b)
    BY <1>1, <2>1, SmallWhole
  <2> HIDE DEF b
  <2>3. z <= b /\ z >= b
    BY <1>2, <1>5, <2>2
  <2> QED
    BY <1>2, <1>4, <2>3 DEF IsDouble
<1>7. z <= top
  <2> HIDE DEF b
  <2> QED
    BY <1>2, <1>3, <1>5
<1> QED
  BY <1>1, <1>2, <1>4, <1>5, <1>6, <1>7 DEF IsDouble, top

-----------------------------------------------------------------------------
LEMMA WholeShare ==
    ASSUME NEW a \in Nat, NEW p \in Nat \ {0}, NEW k \in Nat, a * p >= k * One
    PROVE  a \div One >= k \div p
<1> DEFINE q == k \div p
<1>1. One \in Nat \ {0}
  BY InPowers, PowersType
<1>2. q \in Nat /\ p * q <= k
  BY DivLess
<1> HIDE DEF q
<1>3. One * (p * q) <= One * k
  <2>1. p * q \in Nat
    BY <1>2
  <2> QED
    BY <1>1, <1>2, <2>1, ProductLess
<1>4. p * (One * q) = One * (p * q) /\ p * a = a * p /\ One * k = k * One
  BY <1>1, <1>2
<1>5. p * (One * q) <= p * a
  <2> DEFINE b == a * p
             c == k * One
             e == One * (p * q)
  <2>1. b \in Nat /\ c \in Nat /\ e \in Nat /\ b >= c /\ e <= c
    BY <1>1, <1>2, <1>3, <1>4
  <2> HIDE DEF b, c, e
  <2>2. e <= b
    BY <2>1
  <2> QED
    BY <1>4, <2>2 DEF b, e
<1>6. One * q <= a
  <2>1. One * q \in Nat
    BY <1>1, <1>2
  <2> QED
    BY <1>5, <2>1, ProductLess
<1>7. a \div One >= q
  BY <1>1, <1>2, <1>6, DivLess
<1> QED
  BY <1>7 DEF q

LEMMA SmallMultiple ==
    ASSUME NEW u \in Powers, NEW k \in Nat, k <= DoubleSignificant, k * u <= Infinity
    PROVE  IsDouble(k * u)
<1>1. DoubleSignificant \in Nat /\ u \in Nat \ {0} /\ k * u \in Nat
  BY InPowers, PowersType
<1>2. u * k <= u * DoubleSignificant
  BY <1>1, ProductLess
<1>3. k * u <= DoubleSignificant * u
  BY <1>1, <1>2
<1>4. Multiple(u, k * u)
  BY DEF Multiple
<1> QED
  BY <1>1, <1>3, <1>4 DEF IsDouble, Held

LEMMA RangeOf ==
    ASSUME NEW max, NEW sig, Matches(max, sig)
    PROVE  (max + 1) * One \in Nat /\ (max + 1) * One \in Powers /\ 2 * ((max + 1) * One) <= Infinity
<1> DEFINE top == (max + 1) * One
<1>1. max \in Nat /\ max + 1 \in Powers /\ top < Infinity /\ One \in Powers /\ One \in Nat \ {0}
      /\ Infinity \in Nat
  BY InPowers, PowersType DEF Matches
<1>2. top \in Nat
  BY <1>1
<1>3. top \in Powers
  <2> DEFINE u == max + 1
  <2>1. u \in Powers /\ u * One <= Infinity
    <3>1. top <= Infinity
      BY <1>1, <1>2
    <3> QED
      BY <1>1, <3>1
  <2> HIDE DEF u
  <2>2. u * One \in Powers
    BY <1>1, <2>1, PowersProduct
  <2> QED
    BY <2>2 DEF u
<1> HIDE DEF top
<1>4. 2 * top \in Powers
  BY <1>1, <1>3, PowersDouble
<1>5. 2 * top <= Infinity
  BY <1>4, PowersType
<1> QED
  BY <1>2, <1>3, <1>5 DEF top

(* What the code calls too large is beyond the bound by one or more.        *)
LEMMA TooLargeMeans ==
    ASSUME NEW x \in Int, IsDouble(Abs(x)), NEW f \in FracBits, NEW max, NEW sig,
           Matches(max, sig), Held(Abs(x), sig) \/ Abs(x) = Infinity, TooLarge(x, f, max)
    PROVE  /\ Abs(x) \div One >= (Greatest(x, max) + 1) \div Power(2, f)
           /\ Abs(x) \div One >= (max + 1) \div Power(2, f)
<1> DEFINE a == Abs(x)
           p == Power(2, f)
           v == ScaledUp(x, f)
           c == Greatest(x, max)
           z == Double(c * One, 1)
<1>1. /\ a \in Nat /\ max \in Nat /\ sig \in Powers /\ p \in Nat \ {0}
      /\ One \in Nat \ {0} /\ Infinity \in Nat
  BY FormatFacts, InPowers, PowersType DEF Matches, IsDouble
<1>2. /\ v \in Nat /\ IsDouble(v) /\ a * p \in Nat
      /\ v = a * p \/ (v = Infinity /\ a * p >= Infinity)
      /\ (Held(a, sig) /\ v < Infinity) => Held(v, sig)
  BY <1>1, ScaledIs
<1>3. c \in {max, max + 1} /\ c \in Nat
  BY <1>1, GreatestFacts
<1>4. v > z
  BY DEF TooLarge
<1> HIDE DEF a, p, v, c
<1>5. /\ z \in Nat /\ c * One \in Nat
      /\ \A r : IsDouble(r) => (c * One <= r => z <= r) /\ (c * One >= r => z >= r)
  BY <1>3, BoundIs
<1>6. v > c * One
  <2> DEFINE b == c * One
  <2>1. b \in Nat /\ (b >= v => z >= v)
    BY <1>2, <1>5
  <2> HIDE DEF b, z
  <2>2. v > b
    BY <1>2, <1>4, <1>5, <2>1
  <2> QED
    BY <2>2 DEF b
<1>7. (c + 1) * One \in Nat /\ (max + 1) * One \in Nat /\ (max + 1) * One <= (c + 1) * One
  <2>1. One * (max + 1) <= One * (c + 1)
    BY <1>1, <1>3, ProductLess
  <2> QED
    BY <1>1, <1>3, <2>1
<1>8. a * p >= (c + 1) * One
  <2>1. CASE v < Infinity
    <3>1. v = a * p
      BY <1>1, <1>2, <2>1
    <3>2. Held(a, sig)
      <4>1. a # Infinity
        <5>1. a * 1 <= a * p
          BY <1>1, ProductLess
        <5> QED
          BY <1>1, <1>2, <2>1, <3>1, <5>1
      <4> QED
        BY <4>1 DEF a
    <3>3. v >= (c + 1) * One
      BY <1>2, <1>3, <1>6, <2>1, <3>2, HeldAbove
    <3> QED
      BY <3>1, <3>3
  <2>2. CASE ~(v < Infinity)
    <3>1. a * p >= Infinity
      BY <1>1, <1>2, <2>2
    <3>2. (c + 1) * One <= 2 * ((max + 1) * One)
      <4>1. One * (c + 1) <= One * (2 * (max + 1))
        BY <1>1, <1>3, ProductLess
      <4> QED
        BY <1>1, <1>3, <4>1
    <3>3. 2 * ((max + 1) * One) <= Infinity
      BY RangeOf
    <3> DEFINE top == (max + 1) * One
               b == (c + 1) * One
               n == a * p
    <3>4. top \in Nat /\ b \in Nat /\ n \in Nat /\ n >= Infinity /\ b <= 2 * top /\ 2 * top <= Infinity
      BY <1>2, <1>7, <3>1, <3>2, <3>3
    <3> HIDE DEF top, b, n
    <3>5. n >= b
      BY <1>1, <3>4
    <3> QED
      BY <3>5 DEF n, b
  <2> QED
    BY <2>1, <2>2
<1>9. a * p >= (max + 1) * One
  <2> DEFINE top == (max + 1) * One
             b == (c + 1) * One
             n == a * p
  <2>1. top \in Nat /\ b \in Nat /\ n \in Nat /\ n >= b /\ top <= b
    BY <1>2, <1>7, <1>8
  <2> HIDE DEF top, b, n
  <2>2. n >= top
    BY <2>1
  <2> QED
    BY <2>2 DEF n, top
<1>10. a \div One >= (c + 1) \div p
  <2> DEFINE k == c + 1
  <2>1. k \in Nat /\ a * p >= k * One
    BY <1>1, <1>3, <1>8
  <2> HIDE DEF k
  <2>2. a \div One >= k \div p
    BY <1>1, <2>1, WholeShare
  <2> QED
    BY <2>2 DEF k
<1>11. a \div One >= (max + 1) \div p
  <2> DEFINE k == max + 1
  <2>1. k \in Nat /\ a * p >= k * One
    BY <1>1, <1>3, <1>9
  <2> HIDE DEF k
  <2>2. a \div One >= k \div p
    BY <1>1, <2>1, WholeShare
  <2> QED
    BY <2>2 DEF k
<1> QED
  BY <1>10, <1>11 DEF a, p, c

-----------------------------------------------------------------------------
LEMMA HalfOrdered ==
    ASSUME NEW v, IsDouble(v), NEW y, y = Double(v + Half, 1)
    PROVE  /\ v \in Nat /\ y \in Nat /\ v + Half \in Nat
           /\ \A r : IsDouble(r) => (v + Half <= r => y <= r) /\ (v + Half >= r => y >= r)
<1> DEFINE n == v + Half
<1>1. /\ Half \in Nat /\ One = 2 * Half /\ Infinity \in Nat /\ One < Infinity /\ 1 \in Nat \ {0}
      /\ v \in Nat /\ v <= Infinity
  BY HalfFacts, InPowers, PowersType, Limits DEF IsDouble
<1>2. n \in Nat /\ n <= 2 * Infinity
  BY <1>1
<1> HIDE DEF n
<1>3. n < 1 * (DoubleSignificant * Infinity)
  BY <1>1, <1>2, InBounds
<1>4. /\ IsDouble(Double(n, 1))
      /\ \A r : IsDouble(r) =>
            (n <= 1 * r => Double(n, 1) <= r) /\ (n >= 1 * r => Double(n, 1) >= r)
  BY <1>1, <1>2, <1>3, DoubleFacts
<1>5. y = Double(n, 1)
  BY DEF n
<1>6. \A r : IsDouble(r) => (n <= r => y <= r) /\ (n >= r => y >= r)
  <2> TAKE r
  <2>1. SUFFICES ASSUME IsDouble(r) PROVE (n <= r => y <= r) /\ (n >= r => y >= r)
    OBVIOUS
  <2>2. 1 * r = r
    BY <2>1 DEF IsDouble
  <2> QED
    BY <1>4, <1>5, <2>1, <2>2
<1>7. y \in Nat
  BY <1>4, <1>5 DEF IsDouble
<1> QED
  BY <1>1, <1>2, <1>6, <1>7 DEF n

LEMMA ThreeHalves ==
    ASSUME NEW u \in Nat, 2 * u \in Powers, u \in Powers, 2 * (2 * u) <= Infinity
    PROVE  IsDouble(3 * u) /\ 3 * u \in Nat /\ 3 * u < Infinity
<1>1. DoubleSignificant \in Nat /\ 4 <= DoubleSignificant /\ u \in Nat \ {0} /\ Infinity \in Nat
  BY InPowers, PowersType, Limits
<1>2. 3 * u <= Infinity /\ 3 <= DoubleSignificant /\ 3 \in Nat
  BY <1>1
<1>3. IsDouble(3 * u)
  BY <1>2, SmallMultiple
<1> QED
  BY <1>1, <1>2, <1>3

(* Within the range of the type, a half more is no infinity.                *)
LEMMA WithinRange ==
    ASSUME NEW max, NEW sig, Matches(max, sig), NEW v, IsDouble(v), v <= (max + 1) * One,
           NEW y, y = Double(v + Half, 1)
    PROVE  v < Infinity /\ v + Half < Infinity /\ y \in Nat /\ y < Infinity
<1> DEFINE u == (max + 1) * Half
<1>1. /\ max \in Nat /\ Half \in Nat \ {0} /\ Half \in Powers /\ One = 2 * Half
      /\ max + 1 \in Powers /\ Infinity \in Nat
  BY HalfFacts, InPowers, PowersType DEF Matches
<1>2. u \in Nat \ {0} /\ Half <= u /\ (max + 1) * One = 2 * u
  <2>1. Half * 1 <= Half * (max + 1)
    BY <1>1, ProductLess
  <2> QED
    BY <1>1, <2>1
<1>3. 2 * u \in Powers /\ 2 * (2 * u) <= Infinity
  BY <1>2, RangeOf
<1>4. u \in Powers
  <2> DEFINE k == max + 1
  <2>1. k \in Powers /\ k * Half <= Infinity
    <3>1. u <= Infinity
      BY <1>1, <1>2, <1>3
    <3> QED
      BY <1>1, <3>1
  <2> HIDE DEF k
  <2>2. k * Half \in Powers
    BY <1>1, <2>1, PowersProduct
  <2> QED
    BY <2>2 DEF k
<1> HIDE DEF u
<1>5. IsDouble(3 * u) /\ 3 * u \in Nat /\ 3 * u < Infinity
  BY <1>2, <1>3, <1>4, ThreeHalves
<1>6. /\ v \in Nat /\ y \in Nat
      /\ v + Half <= 3 * u => y <= 3 * u
  BY <1>5, HalfOrdered
<1>7. v + Half <= 3 * u
  BY <1>1, <1>2, <1>6
<1> QED
  BY <1>1, <1>2, <1>5, <1>6, <1>7

LEMMA BelowWhole ==
    ASSUME NEW y \in Nat, NEW k \in Nat, y < (k + 1) * One
    PROVE  y \div One <= k
<1>1. One \in Nat \ {0} /\ (k + 1) * One = One * (k + 1) /\ k + 1 \in Nat
  BY InPowers, PowersType
<1>2. y \div One \in Nat /\ ((y \div One < k + 1) <=> (y < One * (k + 1)))
  BY <1>1, DivLess
<1>3. y \div One < k + 1
  BY <1>1, <1>2
<1> QED
  BY <1>2, <1>3

(* What the code does not call too large is rounded within the bound, but   *)
(* for the bound's successor, which double precision cannot tell from it.   *)
LEMMA NotAbove ==
    ASSUME NEW max, NEW sig, Matches(max, sig), NEW c \in {max, max + 1},
           NEW v, IsDouble(v), v <= Double(c * One, 1), NEW y, y = Double(v + Half, 1)
    PROVE  y \div One <= c \/ (c = max /\ v = (max + 1) * One)
<1> DEFINE S == DoubleSignificant
           z == Double(c * One, 1)
           top == (max + 1) * One
<1>1. /\ max \in Nat /\ c \in Nat /\ Half \in Nat \ {0} /\ One = 2 * Half /\ Half \in Powers
      /\ One \in Powers /\ S \in Nat \ {0} /\ 4 <= S /\ S \in Powers /\ Infinity \in Nat
      /\ 4 * (max + 1) <= S \/ 2 * S <= max + 1
  <2>1. S \in Nat \ {0} /\ 4 <= S /\ S \in Powers
    BY InPowers, PowersType, Limits
  <2> QED
    BY <2>1, HalfFacts, InPowers, PowersType DEF Matches
<1>2. /\ c * One \in Nat /\ z \in Nat /\ z <= top
      /\ 4 * (max + 1) <= S => z = c * One
  BY BoundIs
<1>3. top \in Nat /\ 2 * top <= Infinity
  BY RangeOf
<1>4. v <= z
  OBVIOUS
<1> HIDE DEF z
<1>5. /\ v \in Nat /\ y \in Nat
      /\ \A r : IsDouble(r) => (v + Half <= r => y <= r) /\ (v + Half >= r => y >= r)
  BY HalfOrdered
<1>6. v <= top
  <2> HIDE DEF top
  <2> QED
    BY <1>2, <1>3, <1>4, <1>5
<1>7. v + Half < Infinity /\ y < Infinity
  BY <1>6, WithinRange DEF top
<1>8. CASE 4 * (max + 1) <= S
  <2> DEFINE r == (2 * c + 1) * Half
  <2>1. r = c * One + Half /\ r \in Nat
    BY <1>1
  <2>2. IsDouble(r)
    <3>1. 2 * c + 1 <= S /\ 2 * c + 1 \in Nat
      BY <1>1, <1>8
    <3>2. r <= Infinity
      <4>1. c * One <= top /\ Half <= top
        <5>1. One * c <= One * (max + 1) /\ One * 1 <= One * (max + 1)
          BY <1>1, ProductLess
        <5> QED
          BY <1>1, <5>1
      <4> HIDE DEF top
      <4> QED
        BY <1>1, <1>2, <1>3, <2>1, <4>1
    <3> DEFINE k == 2 * c + 1
    <3>3. k \in Nat /\ k <= S /\ k * Half <= Infinity
      BY <3>1, <3>2
    <3> HIDE DEF k
    <3>4. IsDouble(k * Half)
      BY <1>1, <3>3, SmallMultiple
    <3> QED
      BY <3>4 DEF k
  <2>3. v <= c * One
    BY <1>2, <1>4, <1>8
  <2> HIDE DEF r
  <2>4. y <= r
    <3>1. v + Half <= r
      BY <1>1, <1>2, <1>5, <2>1, <2>3
    <3> QED
      BY <1>5, <2>2, <3>1
  <2>5. y < (c + 1) * One
    <3> DEFINE b == c * One
    <3>1. (c + 1) * One = b + One /\ b \in Nat /\ r = b + Half
      BY <1>1, <2>1
    <3> HIDE DEF b
    <3> QED
      BY <1>1, <1>5, <2>4, <3>1
  <2>6. y \div One <= c
    BY <1>1, <1>5, <2>5, BelowWhole
  <2> QED
    BY <2>6
<1>9. CASE 2 * S <= max + 1
  <2> DEFINE e == S * One
  <2>1. e \in Nat /\ 2 * e <= top /\ One < e
    <3>1. One * (2 * S) <= One * (max + 1)
      BY <1>1, <1>9, ProductLess
    <3>2. One * 4 <= One * S
      BY <1>1, ProductLess
    <3> DEFINE k == One * (2 * S)
    <3>3. k = 2 * e /\ One * (max + 1) = top /\ One * S = e /\ e \in Nat
      BY <1>1
    <3> HIDE DEF e, k, top
    <3> QED
      BY <1>1, <1>3, <3>1, <3>2, <3>3 DEF k
  <2>2. CASE e <= v
    <3>1. y = v
      <4>1. e <= v => y = v
        <5>1. One < S * One /\ One \in Nat
          BY <1>1, <2>1
        <5> QED
          BY <1>7, <5>1, HalfAdded
      <4> QED
        BY <2>2, <4>1
    <3>2. CASE v < top
      <4>1. y \div One <= max
        BY <1>1, <1>5, <3>1, <3>2, BelowWhole DEF top
      <4>2. y \div One \in Nat
        BY <1>1, <1>5, DivLess
      <4> QED
        BY <1>1, <4>1, <4>2
    <3>3. CASE v = top /\ c = max + 1
      <4>1. v < (c + 1) * One
        BY <1>1, <3>3
      <4> QED
        BY <1>1, <1>5, <3>1, <4>1, BelowWhole
    <3> HIDE DEF top
    <3> QED
      BY <1>3, <1>5, <1>6, <3>2, <3>3 DEF top
  <2>3. CASE v < e
    <3> DEFINE u == S * Half
    <3>1. u \in Nat /\ e = 2 * u /\ Half <= u /\ 2 * (2 * u) <= top
      <4>1. Half * 4 <= Half * S
        BY <1>1, ProductLess
      <4>2. u \in Nat /\ e = 2 * u /\ Half * S = u
        BY <1>1
      <4> HIDE DEF u, e, top
      <4> QED
        BY <1>1, <1>3, <2>1, <4>1, <4>2
    <3> HIDE DEF e
    <3>2. u \in Powers /\ 2 * u \in Powers
      <4>1. u <= Infinity
        <5> HIDE DEF u, top
        <5> QED
          BY <1>1, <1>3, <3>1
      <4>2. u \in Powers
        BY <1>1, <4>1, PowersProduct
      <4>3. u < Infinity
        <5>1. One \in Nat
          BY <1>1
        <5> HIDE DEF u, top
        <5> QED
          BY <1>1, <1>3, <2>1, <3>1, <5>1
      <4> HIDE DEF u
      <4> QED
        BY <4>2, <4>3, PowersDouble
    <3> HIDE DEF u
    <3>3. IsDouble(3 * u) /\ 3 * u \in Nat
      <4>1. 2 * (2 * u) <= Infinity
        <5> HIDE DEF top
        <5> QED
          BY <1>1, <1>3, <3>1
      <4> QED
        BY <3>1, <3>2, <4>1, ThreeHalves
    <3>4. y <= 3 * u
      <4>1. v + Half <= 3 * u
        BY <1>1, <1>5, <2>3, <3>1
      <4> QED
        BY <1>5, <3>3, <4>1
    <3>5. y < top
      <4> HIDE DEF top
      <4> QED
        BY <1>1, <1>3, <1>5, <3>1, <3>4
    <3>6. y \div One <= max
      BY <1>1, <1>5, <3>5, BelowWhole DEF top
    <3>7. y \div One \in Nat
      BY <1>1, <1>5, DivLess
    <3> QED
      BY <1>1, <3>6, <3>7
  <2> HIDE DEF e
  <2> QED
    BY <1>5, <2>1, <2>2, <2>3
<1> QED
  BY <1>1, <1>8, <1>9

-----------------------------------------------------------------------------
(* One that is not too large.                                               *)
LEMMA ToFixedIs ==
    ASSUME NEW x \in Int, IsDouble(Abs(x)), NEW f \in FracBits, NEW max, NEW sig,
           Matches(max, sig), ~TooLarge(x, f, max),
           NEW n, n = Abs(x) * Power(2, f), NEW y, y = Double(n + Half, 1)
    PROVE  /\ n \in Nat /\ IsDouble(n) /\ n <= (max + 1) * One
           /\ n <= Double(Greatest(x, max) * One, 1)
           /\ n + Half < Infinity /\ y \in Nat /\ y < Infinity
           /\ ToFixed(x, f, max) = IF y \div One > Greatest(x, max) THEN {0, max, -(max + 1)}
                                   ELSE {Signed(x, y \div One)}
<1> DEFINE v == ScaledUp(x, f)
           c == Greatest(x, max)
           z == Double(c * One, 1)
           top == (max + 1) * One
<1>1. max \in Nat /\ Infinity \in Nat /\ Half \in Nat /\ Half = One \div 2 /\ NaN = Infinity + 1
      /\ One = 2 * Half /\ One < Infinity
  BY HalfFacts, InPowers, PowersType, TenFacts, Limits DEF Matches, Half
<1>2. v \in Nat /\ IsDouble(v) /\ n \in Nat /\ (v = n \/ v = Infinity)
  BY ScaledIs
<1>3. Abs(x) <= Infinity /\ Abs(x) \in Nat
  BY DEF IsDouble
<1>4. x # NaN
  BY <1>1, <1>3 DEF Abs
<1>5. c \in {max, max + 1} /\ c \in Nat
  BY <1>1, GreatestFacts
<1>6. ~(v > z)
  BY <1>4 DEF TooLarge
<1>7. ToFixed(x, f, max) = LET nearest == Sum(v, Half) \div One
                           IN  IF nearest > c THEN {0, max, -(max + 1)}
                               ELSE {Signed(x, nearest)}
  BY <1>1, <1>4 DEF ToFixed
<1> HIDE DEF v, c
<1>8. z \in Nat /\ z <= top
  BY <1>5, BoundIs
<1>9. top \in Nat /\ 2 * top <= Infinity
  BY RangeOf
<1>10. top < Infinity
  BY DEF Matches
<1> HIDE DEF top, z
<1>11. v <= z /\ v <= top /\ v < Infinity
  BY <1>1, <1>2, <1>6, <1>8, <1>9, <1>10
<1>12. v = n
  BY <1>1, <1>2, <1>11
<1>13. n + Half < Infinity /\ y \in Nat /\ y < Infinity
  BY <1>2, <1>11, <1>12, WithinRange DEF top
<1>14. Sum(v, Half) = y
  <2>1. Half < Infinity
    BY <1>1
  <2> QED
    BY <1>1, <1>2, <1>11, <1>12, <2>1, SumFacts
<1>15. ToFixed(x, f, max) = IF y \div One > c THEN {0, max, -(max + 1)}
                            ELSE {Signed(x, y \div One)}
  BY <1>7, <1>14
<1> QED
  BY <1>2, <1>11, <1>12, <1>13, <1>15 DEF top, z, c

LEMMA ConvertsRight ==
    ASSUME NEW x \in Int, IsDouble(Abs(x)), NEW f \in FracBits, NEW max, NEW sig,
           Matches(max, sig), ~TooLarge(x, f, max), NEW q \in ToFixed(x, f, max),
           NEW g \in Nat, One < DoubleSignificant * g
    PROVE  \/ q \in Int /\ HalfError(Abs(x) * Power(2, f), Abs(q) * One, g)
           \/ /\ Abs(x) \div One >= (max + 1) \div Power(2, f)
              /\ Abs(x) * Power(2, f) = (max + 1) * One
<1> DEFINE a == Abs(x)
           p == Power(2, f)
           n == a * p
           y == Double(n + Half, 1)
           c == Greatest(x, max)
           w == y \div One
<1>1. max \in Nat /\ a \in Nat /\ p \in Nat \ {0} /\ One \in Nat \ {0}
  BY FormatFacts, InPowers, PowersType DEF Matches, IsDouble
<1>2. /\ n \in Nat /\ IsDouble(n) /\ n <= (max + 1) * One
      /\ n <= Double(c * One, 1)
      /\ n + Half < Infinity /\ y \in Nat /\ y < Infinity
      /\ ToFixed(x, f, max) = IF w > c THEN {0, max, -(max + 1)} ELSE {Signed(x, w)}
  BY ToFixedIs
<1>3. c \in {max, max + 1} /\ c \in Nat
  BY <1>1, GreatestFacts
<1> HIDE DEF a, p, c
<1>4. w \in Nat
  <2> HIDE DEF y
  <2> QED
    BY <1>1, <1>2, DivLess
<1>5. CASE w <= c
  <2>1. q = Signed(x, w)
    <3> HIDE DEF w
    <3> QED
      BY <1>2, <1>3, <1>4, <1>5
  <2>2. q \in Int /\ Abs(q) = w
    <3> HIDE DEF w
    <3> QED
      BY <1>4, <2>1 DEF Abs, Signed
  <2>3. HalfError(n, w * One, g)
    <3> HIDE DEF n
    <3> QED
      BY <1>2, HalfAdded
  <2> QED
    BY <2>2, <2>3 DEF a, p
<1>6. CASE ~(w <= c)
  <2>1. n = (max + 1) * One
    <3> HIDE DEF n
    <3> QED
      BY <1>2, <1>3, <1>6, NotAbove
  <2>2. a \div One >= (max + 1) \div p
    <3> DEFINE k == max + 1
    <3>1. k \in Nat /\ a * p >= k * One
      <4>1. a * p = k * One
        BY <2>1
      <4> QED
        BY <1>1, <1>2, <4>1
    <3> HIDE DEF k
    <3>2. a \div One >= k \div p
      BY <1>1, <3>1, WholeShare
    <3> QED
      BY <3>2 DEF k
  <2> QED
    BY <2>1, <2>2 DEF a, p
<1> QED
  BY <1>5, <1>6

-----------------------------------------------------------------------------
(* What float makes of a number.                                            *)
LEMMA FloatFacts ==
    ASSUME NEW n \in Nat, n <= 2 * Infinity, NEW p \in Nat \ {0}
    PROVE  /\ IsDouble(Float(n, p))
           /\ Held(Float(n, p), FloatSignificant) \/ Float(n, p) = Infinity
           /\ \A r \in Nat : (Held(r, FloatSignificant) /\ r < FloatLimit /\ n = p * r) => Float(n, p) = r
<1> DEFINE S == FloatSignificant
           z == Float(n, p)
<1>1. /\ S \in Powers /\ S \in Nat \ {0} /\ 4 <= S /\ Infinity \in Nat \ {0} /\ FloatLimit \in Nat
      /\ FloatLimit <= Infinity /\ DoubleSignificant \in Nat /\ S <= DoubleSignificant
  BY InPowers, PowersType, Limits
<1>2. n < p * (S * Infinity)
  <2>1. Infinity * 4 <= Infinity * S
    BY <1>1, ProductLess
  <2> DEFINE w == S * Infinity
  <2>2. w \in Nat /\ w = Infinity * S
    BY <1>1
  <2> HIDE DEF w, S
  <2>3. w * 1 <= w * p /\ p * w = w * p /\ w * p \in Nat
    BY <2>2, ProductLess
  <2> QED
    BY <1>1, <2>1, <2>2, <2>3 DEF w
<1>3. \E y \in Nat : \E x \in Powers : RoundsTo(n, p, S, FloatLimit, x, y)
  <2> HIDE DEF S
  <2> QED
    BY <1>1, <1>2, RoundedFacts
<1>4. PICK y \in Nat : \E x \in Powers : RoundsTo(n, p, S, FloatLimit, x, y)
  BY <1>3
<1>5. PICK x \in Powers : RoundsTo(n, p, S, FloatLimit, x, y)
  BY <1>4
<1>6. /\ Rounded(n, p, S, FloatLimit) = IF y >= FloatLimit THEN Infinity ELSE y
      /\ Multiple(x, y) /\ y <= S * x
      /\ \A r \in Nat : Held(r, S) => (n <= p * r => y <= r) /\ (n >= p * r => y >= r)
  BY <1>5 DEF RoundsTo
<1>7. z = IF y >= FloatLimit THEN Infinity ELSE y
  <2>1. [over |-> n, under |-> p] \in Ratios
    BY DEF Ratios
  <2> QED
    BY <1>6, <2>1 DEF Float, ToFloat
<1> HIDE DEF S
<1>8. Held(y, S)
  BY <1>6 DEF Held
<1>9. Held(y, DoubleSignificant)
  <2>1. x \in Nat
    BY PowersType
  <2>2. x * S <= x * DoubleSignificant
    BY <1>1, <2>1, ProductLess
  <2>3. y <= DoubleSignificant * x
    <3> DEFINE b == x * S
               e == x * DoubleSignificant
    <3>1. b \in Nat /\ e \in Nat /\ b <= e /\ y <= b
      BY <1>1, <1>6, <2>1, <2>2
    <3> HIDE DEF b, e
    <3>2. y <= e
      BY <3>1
    <3> QED
      BY <1>1, <2>1, <3>2 DEF e
  <2> QED
    BY <1>6, <2>3 DEF Held
<1>10. \A r \in Nat : (Held(r, S) /\ r < FloatLimit /\ n = p * r) => z = r
  <2> TAKE r \in Nat
  <2>1. SUFFICES ASSUME Held(r, S), r < FloatLimit, n = p * r PROVE z = r
    OBVIOUS
  <2>2. n <= p * r /\ n >= p * r
    BY <2>1
  <2>3. y = r
    BY <1>6, <2>1, <2>2
  <2> QED
    BY <1>1, <1>7, <2>1, <2>3
<1>11. IsDouble(z) /\ (Held(z, S) \/ z = Infinity)
  <2>1. CASE y >= FloatLimit
    BY <1>7, <2>1, InfinityIsDouble
  <2>2. CASE ~(y >= FloatLimit)
    BY <1>1, <1>7, <1>8, <1>9, <2>2 DEF IsDouble
  <2> QED
    BY <2>1, <2>2
<1> QED
  BY <1>10, <1>11 DEF S, z

-----------------------------------------------------------------------------
(* EDC_Float_To_Q and EDC_Double_To_Q64: the number is one of its type, and *)
(* the result what the conversion makes of it.                              *)
Convertible(x) ==
    \/ x = NaN
    \/ /\ x \in Int /\ IsDouble(Abs(x))
       /\ Held(Abs(x), Significant) \/ Abs(x) = Infinity

FromFixed(q) == IF parser = "Float_To_Q" THEN Q_To_Float(q, frac_bits) ELSE Q64_To_Double(q, frac_bits)

Converted ==
    /\ status \in {"RUNNING", "OK", "OVERFLOW"}
    /\ status = "OVERFLOW" => TooLarge(result, frac_bits, TypeMax)
    /\ status = "OK" =>
          \/ /\ TooLarge(result, frac_bits, TypeMax)
             /\ out_val = {Signed(result, Greatest(result, TypeMax))}
          \/ /\ ~TooLarge(result, frac_bits, TypeMax)
             /\ \E q \in ToFixed(result, frac_bits, TypeMax) : out_val = {q}

ConversionInv ==
    /\ phase = "CONVERTING" <=> parser \in Converters
    /\ parser \in Converters =>
          /\ frac_bits \in FracBits /\ Convertible(result) /\ Converted
          /\ \A p \in printed : p.value \in -(TypeMax + 1) .. TypeMax /\ result = FromFixed(p.value)

LEMMA SignedFacts ==
    ASSUME NEW n \in Int, NEW x \in Nat
    PROVE  Signed(n, x) \in Int /\ Abs(Signed(n, x)) = x
BY DEF Signed, Abs

LEMMA ConvertingInit ==
    ASSUME Converting
    PROVE  Convertible(result)
<1>1. /\ parser \in Converters /\ result \in Doubles
      /\ parser = "Float_To_Q" => result = Narrowed(result)
  BY DEF Converting
<1>2. /\ result \in -Infinity .. NaN /\ (Finite(result) => Double(Abs(result), 1) = Abs(result))
      /\ Infinity \in Nat \ {0} /\ NaN = Infinity + 1
  BY <1>1, TextAssumption, TenFacts
<1> DEFINE a == Abs(result)
<1>3. CASE result = NaN
  BY <1>3 DEF Convertible
<1>4. CASE result = Infinity \/ result = -Infinity
  <2>1. a = Infinity /\ result \in Int
    BY <1>2, <1>4 DEF Abs
  <2> QED
    BY <2>1, InfinityIsDouble DEF Convertible
<1>5. CASE result \in -Infinity + 1 .. Infinity - 1
  <2>1. Finite(result) /\ a \in Nat /\ a < Infinity /\ result \in Int
    BY <1>2, <1>5 DEF Finite, Abs
  <2>2. IsDouble(a)
    <3>1. Double(a, 1) = a
      BY <1>2, <2>1
    <3> HIDE DEF a
    <3> QED
      BY <2>1, <3>1, DoubleItself
  <2>3. Held(a, Significant)
    <3>1. CASE parser = "Float_To_Q"
      <4>1. result = IF result < 0 THEN -Float(-result, 1) ELSE Float(result, 1)
        BY <1>1, <2>1, <3>1 DEF Narrowed
      <4>2. \/ a = -result /\ result = -Float(a, 1)
            \/ a = result /\ result = Float(a, 1)
        BY <2>1, <4>1 DEF Abs
      <4> HIDE DEF a
      <4>3. a <= 2 * Infinity /\ 1 \in Nat \ {0}
        BY <1>2, <2>1
      <4>4. IsDouble(Float(a, 1)) /\ (Held(Float(a, 1), FloatSignificant) \/ Float(a, 1) = Infinity)
        BY <2>1, <4>3, FloatFacts
      <4>5. Float(a, 1) \in Nat
        BY <4>4 DEF IsDouble
      <4> DEFINE z == Float(a, 1)
      <4>6. \/ a = -result /\ result = -z
            \/ a = result /\ result = z
        BY <4>2, <4>5
      <4> HIDE DEF z
      <4>7. a = z
        BY <2>1, <4>5, <4>6 DEF z
      <4>8. Held(a, FloatSignificant)
        BY <1>2, <2>1, <4>4, <4>7 DEF z
      <4> QED
        BY <3>1, <4>8 DEF Significant
    <3>2. CASE parser # "Float_To_Q"
      BY <2>2, <3>2 DEF Significant, IsDouble
    <3> QED
      BY <3>1, <3>2
  <2> QED
    BY <2>1, <2>2, <2>3 DEF Convertible
<1> QED
  BY <1>2, <1>3, <1>4, <1>5

LEMMA ConvertingBackInit ==
    ASSUME ConvertingBack, frac_bits \in FracBits
    PROVE  /\ parser \in Converters /\ Convertible(result)
           /\ \A p \in printed : p.value \in -(TypeMax + 1) .. TypeMax /\ result = FromFixed(p.value)
<1> DEFINE P == Power(2, frac_bits)
<1>1. P \in Nat \ {0} /\ Infinity \in Nat /\ One \in Nat /\ QMax \in Nat /\ Q64Max \in Nat
      /\ 1 \in Nat \ {0}
  BY FormatFacts, InPowers, PowersType, FixedAssumption
<1>2. ASSUME NEW a \in Nat, a <= TypeMax + 1 PROVE a * One \in Nat /\ a * One <= 2 * Infinity
  <2>1. Matches(TypeMax, Significant)
    BY TypesMatch
  <2>2. TypeMax \in Nat /\ (TypeMax + 1) * One < Infinity
    BY <2>1 DEF Matches
  <2> DEFINE top == TypeMax + 1
  <2>3. top \in Nat /\ a <= top /\ top * One < Infinity
    BY <1>2, <2>2
  <2> HIDE DEF top
  <2>4. One * a <= One * top
    BY <1>1, <2>3, ProductLess
  <2> DEFINE b == One * a
             e == One * top
  <2>5. b \in Nat /\ e \in Nat /\ b <= e /\ a * One = b /\ e < Infinity
    BY <1>1, <2>3, <2>4
  <2> HIDE DEF b, e
  <2> QED
    BY <1>1, <2>5
<1> HIDE DEF P
<1>3. CASE parser = "Float_To_Q"
  <2>1. PICK q \in -(QMax + 1) .. QMax :
           result = Q_To_Float(q, frac_bits) /\ printed = {[value |-> q]}
    BY <1>3 DEF ConvertingBack
  <2> DEFINE a == Abs(q)
             n == Float(a * One, 1)
             z == Float(n, P)
  <2>2. q \in Int /\ a \in Nat /\ a <= TypeMax + 1
    BY <1>1, <1>3, <2>1 DEF Abs, TypeMax
  <2>3. result = Signed(q, z)
    BY <2>1 DEF Q_To_Float, P
  <2> HIDE DEF a
  <2>4. IsDouble(n)
    <3> DEFINE b == a * One
    <3>1. b \in Nat /\ b <= 2 * Infinity
      BY <1>2, <2>2
    <3> HIDE DEF b
    <3>2. IsDouble(Float(b, 1))
      BY <1>1, <3>1, FloatFacts
    <3> QED
      BY <3>2 DEF b
  <2>5. n \in Nat /\ n <= 2 * Infinity
    BY <1>1, <2>4 DEF IsDouble
  <2> HIDE DEF n
  <2>6. IsDouble(z) /\ (Held(z, FloatSignificant) \/ z = Infinity)
    BY <1>1, <2>5, FloatFacts
  <2>7. result \in Int /\ Abs(result) = z
    BY <2>2, <2>3, <2>6, SignedFacts DEF IsDouble
  <2>8. Convertible(result)
    BY <1>3, <2>6, <2>7 DEF Convertible, Significant
  <2>9. \A p \in printed : p.value \in -(TypeMax + 1) .. TypeMax /\ result = FromFixed(p.value)
    BY <1>3, <2>1 DEF TypeMax, FromFixed
  <2> QED
    BY <1>3, <2>8, <2>9 DEF Converters
<1>4. CASE parser = "Double_To_Q64"
  <2>1. PICK q \in -(Q64Max + 1) .. Q64Max :
           result = Q64_To_Double(q, frac_bits) /\ printed = {[value |-> q]}
    BY <1>4 DEF ConvertingBack
  <2> DEFINE a == Abs(q)
             n == Double(a * One, 1)
             z == Double(n, P)
  <2>2. q \in Int /\ a \in Nat /\ a <= TypeMax + 1
    BY <1>1, <1>4, <2>1 DEF Abs, TypeMax
  <2>3. result = Signed(q, z)
    BY <2>1 DEF Q64_To_Double, P
  <2> HIDE DEF a
  <2>4. IsDouble(n)
    <3> DEFINE b == a * One
    <3>1. b \in Nat /\ b <= 2 * Infinity
      BY <1>2, <2>2
    <3> HIDE DEF b
    <3>2. IsDouble(Double(b, 1))
      BY <1>1, <3>1, InBounds, DoubleFacts
    <3> QED
      BY <3>2 DEF b
  <2>5. n \in Nat /\ n <= 2 * Infinity
    BY <1>1, <2>4 DEF IsDouble
  <2> HIDE DEF n
  <2>6. IsDouble(z)
    BY <1>1, <2>5, InBounds, DoubleFacts
  <2>7. result \in Int /\ Abs(result) = z
    BY <2>2, <2>3, <2>6, SignedFacts DEF IsDouble
  <2>8. Convertible(result)
    BY <1>4, <2>6, <2>7 DEF Convertible, Significant, IsDouble
  <2>9. \A p \in printed : p.value \in -(TypeMax + 1) .. TypeMax /\ result = FromFixed(p.value)
    BY <1>4, <2>1 DEF TypeMax, FromFixed
  <2> QED
    BY <1>4, <2>8, <2>9 DEF Converters
<1> QED
  BY <1>3, <1>4 DEF ConvertingBack

-----------------------------------------------------------------------------
LEMMA ConversionInit_Inv ==
    ASSUME Init
    PROVE  ConversionInv
<1>1. status = "RUNNING" /\ parser \in Functions
  BY DEF Init
<1>2. Typed \/ PrintedPlain \/ PrintingScientific \/ PrintedQ \/ PrintedBool \/ Converting \/ ConvertingBack
  BY DEF Init
<1>3. Converted
  BY <1>1 DEF Converted
<1>4. CASE parser \in Converters
  <2>1. Converting \/ ConvertingBack
    BY <1>2, <1>4 DEF Typed, PrintedPlain, PrintingScientific, PrintedQ, PrintedBool, FloatParsers,
                      Converters
  <2>2. phase = "CONVERTING"
    BY <2>1 DEF Converting, ConvertingBack
  <2>3. frac_bits \in FracBits
    BY <1>4 DEF Init
  <2>4. CASE Converting
    <3>1. Convertible(result) /\ printed = {}
      BY <2>4, ConvertingInit DEF Converting
    <3> QED
      BY <1>3, <1>4, <2>2, <2>3, <3>1 DEF ConversionInv
  <2>5. CASE ConvertingBack
    BY <1>3, <1>4, <2>2, <2>3, <2>5, ConvertingBackInit DEF ConversionInv
  <2> QED
    BY <2>1, <2>4, <2>5
<1>5. CASE parser \notin Converters
  <2>1. phase # "CONVERTING"
    BY <1>2, <1>5, ConvertingBackInit DEF Typed, PrintedPlain, PrintingScientific, PrintedQ,
              PrintedBool, Converting, ConvertingBack, Converters
  <2> QED
    BY <1>5, <2>1 DEF ConversionInv
<1> QED
  BY <1>4, <1>5

LEMMA ConversionReturns ==
    ASSUME ConversionInv, UNCHANGED <<call, text, scan>>,
           parser \in Converters => Converted'
    PROVE  ConversionInv'
<1>1. /\ parser' = parser /\ frac_bits' = frac_bits /\ printed' = printed /\ phase' = phase
      /\ result' = result
  BY DEF call, scan, number
<1>2. TypeMax' = TypeMax /\ Significant' = Significant
  BY <1>1 DEF TypeMax, Significant
<1>3. Convertible(result)' = Convertible(result)
  BY <1>1, <1>2 DEF Convertible
<1>4. \A p \in printed : (FromFixed(p.value))' = FromFixed(p.value)
  BY <1>1 DEF FromFixed
<1> QED
  BY <1>1, <1>2, <1>3, <1>4 DEF ConversionInv

LEMMA ConversionNext_Inv ==
    ASSUME ConversionInv, [Next]_vars
    PROVE  ConversionInv'
<1>1. CASE Convert
  <2>1. PICK q \in ToFixed(result, frac_bits, TypeMax) : status' = "OK" /\ out_val' = {q}
    BY <1>1 DEF Convert, Deliver
  <2>2. UNCHANGED <<call, text, scan>> /\ ~TooLarge(result, frac_bits, TypeMax)
    BY <1>1 DEF Convert
  <2>3. parser' = parser /\ frac_bits' = frac_bits /\ result' = result /\ TypeMax' = TypeMax
    BY <2>2 DEF call, scan, number, TypeMax
  <2>4. Converted'
    BY <2>1, <2>2, <2>3 DEF Converted
  <2> QED
    BY <2>2, <2>4, ConversionReturns
<1>2. CASE Saturate \/ DoesNotSaturate
  <2>1. UNCHANGED <<call, text, scan>> /\ TooLarge(result, frac_bits, TypeMax)
    BY <1>2 DEF Saturate, DoesNotSaturate, Return
  <2>2. \/ status' = "OK" /\ out_val' = {Signed(result, Greatest(result, TypeMax))}
        \/ status' = "OVERFLOW"
    BY <1>2 DEF Saturate, DoesNotSaturate, Return, Deliver
  <2>3. parser' = parser /\ frac_bits' = frac_bits /\ result' = result /\ TypeMax' = TypeMax
    BY <2>1 DEF call, scan, number, TypeMax
  <2>4. Converted'
    BY <2>1, <2>2, <2>3 DEF Converted
  <2> QED
    BY <2>1, <2>4, ConversionReturns
<1>3. CASE UNCHANGED vars \/ Returned
  <2>1. UNCHANGED <<call, text, scan>> /\ status' = status /\ out_val' = out_val
    BY <1>3 DEF vars, Returned
  <2>2. parser' = parser /\ frac_bits' = frac_bits /\ result' = result /\ TypeMax' = TypeMax
    BY <2>1 DEF call, scan, number, TypeMax
  <2>3. Converted => Converted'
    BY <2>1, <2>2 DEF Converted
  <2>4. parser \in Converters => Converted
    BY DEF ConversionInv
  <2> QED
    BY <2>1, <2>3, <2>4, ConversionReturns
<1>4. CASE \/ NoText \/ NoDigits \/ NoBool \/ DoesNotFit \/ Finish \/ FinishQ \/ TooGreat
  <2>1. UNCHANGED <<call, text, scan>> /\ (phase # "CONVERTING" \/ parser \notin Converters)
    BY <1>4 DEF NoText, NoDigits, NoBool, DoesNotFit, Finish, FinishQ, TooGreat, Return, Starting,
                Counted, Scaled, Scaling, Completed, FloatParsers, Converters
  <2>2. parser \notin Converters
    BY <2>1 DEF ConversionInv
  <2> QED
    BY <2>1, <2>2, ConversionReturns
<1>5. CASE Divide \/ Multiply \/ PrintScientific \/ NotANumber \/ Infinite \/ Begin \/ ReadBool
  <2>1. parser' = parser /\ phase # "CONVERTING" /\ phase' # "CONVERTING"
    BY <1>5 DEF Divide, Multiply, PrintScientific, NotANumber, Infinite, Begin, ReadBool, Starting,
                Scaled, Scaling, call
  <2> QED
    BY <2>1 DEF ConversionInv
<1>6. CASE IntegerDigit \/ Point \/ FractionDigit \/ Exponent \/ ExponentDigit \/ PowerOfTen
  <2>1. parser' = parser /\ phase # "CONVERTING" /\ phase' # "CONVERTING"
    BY <1>6 DEF IntegerDigit, Point, FractionDigit, Exponent, ExponentDigit, PowerOfTen, AtPoint,
                AtPlace, Counted, call
  <2> QED
    BY <2>1 DEF ConversionInv
<1> QED
  BY <1>1, <1>2, <1>3, <1>4, <1>5, <1>6 DEF Next

LEMMA ConversionInvariant == Spec => []ConversionInv
<1>1. Init => ConversionInv
  BY ConversionInit_Inv
<1>2. ConversionInv /\ [Next]_vars => ConversionInv'
  BY ConversionNext_Inv
<1> QED
  BY <1>1, <1>2, PTL DEF Spec

LEMMA SizeIs ==
    ASSUME NEW x \in Int
    PROVE  Size(x) = Abs(x) /\ Abs(x) \in Nat
BY DEF Size, Abs

LEMMA NearIs ==
    ASSUME NEW b \in Nat, NEW c \in Nat, NEW slack \in Nat, b - c <= slack, c - b <= slack
    PROVE  Near(b, c, slack)
BY DEF Near, Size

(* ConvertsNearest: a number made fixed point is the nearest of its format, *)
(* as far as the arithmetic of double can tell, and only what is beyond the *)
(* type's range is saturated or rejected.                                   *)
THEOREM ConversionIsNearest == Spec => []ConvertsNearest
<1>1. ASSUME ConversionInv PROVE ConvertsNearest
  <2> DEFINE limit  == Greatest(result, TypeMax)
             scaled == Size(result) * Power(2, frac_bits)
             exact  == DoubleSignificant \div 2
             g      == Spacing(One, DoubleSignificant)
  <2>1. SUFFICES ASSUME phase = "CONVERTING", result # NaN PROVE ConvertsNearest
    BY DEF ConvertsNearest
  <2>2. /\ frac_bits \in FracBits /\ Converted
        /\ result \in Int /\ IsDouble(Abs(result))
        /\ Held(Abs(result), Significant) \/ Abs(result) = Infinity
    BY <1>1, <2>1 DEF ConversionInv, Convertible
  <2>3. Matches(TypeMax, Significant)
    BY TypesMatch
  <2>4. /\ Size(result) = Abs(result) /\ Abs(result) \in Nat
        /\ Power(2, frac_bits) \in Nat \ {0} /\ TypeMax \in Nat
    BY <2>2, <2>3, SizeIs, FormatFacts DEF Matches
  <2>5. ASSUME TooLarge(result, frac_bits, TypeMax)
        PROVE  /\ Size(result) \div One >= (limit + 1) \div Power(2, frac_bits)
               /\ Size(result) \div One >= (TypeMax + 1) \div Power(2, frac_bits)
    BY <2>2, <2>3, <2>4, <2>5, TooLargeMeans
  <2>6. g \in Nat /\ One < DoubleSignificant * g
    <3>1. One < DoubleSignificant * Infinity /\ One \in Nat /\ DoubleSignificant \in Powers
      <4>1. /\ One \in Nat /\ Infinity \in Nat /\ One <= 2 * Infinity /\ 1 \in Nat \ {0}
            /\ DoubleSignificant \in Powers
        BY InPowers, PowersType, Limits
      <4>2. One < 1 * (DoubleSignificant * Infinity)
        BY <4>1, InBounds
      <4>3. DoubleSignificant * Infinity \in Nat
        BY <4>1, PowersType
      <4> QED
        BY <4>1, <4>2, <4>3
    <3>2. g \in Powers /\ One < DoubleSignificant * g
      BY <3>1, SpacingFacts
    <3> QED
      BY <3>2, PowersType
  <2>7. ASSUME ~TooLarge(result, frac_bits, TypeMax), NEW q \in ToFixed(result, frac_bits, TypeMax)
        PROVE  \/ Size(result) \div One >= (TypeMax + 1) \div Power(2, frac_bits)
                     /\ scaled = (TypeMax + 1) * One
               \/ Near(Size(q) * One, scaled,
                       IF scaled < exact * One THEN One \div 2 + g ELSE One)
    <3>1. CASE /\ Abs(result) \div One >= (TypeMax + 1) \div Power(2, frac_bits)
               /\ Abs(result) * Power(2, frac_bits) = (TypeMax + 1) * One
      BY <2>4, <3>1
    <3>2. CASE q \in Int /\ HalfError(Abs(result) * Power(2, frac_bits), Abs(q) * One, g)
      <4> DEFINE n == Abs(result) * Power(2, frac_bits)
                 b == Abs(q) * One
                 u == DoubleSignificant * Half
      <4>1. /\ Size(q) = Abs(q) /\ Abs(q) \in Nat /\ One \in Nat /\ Half \in Nat
            /\ DoubleSignificant \in Nat /\ One = 2 * Half
        BY <3>2, SizeIs, HalfFacts, InPowers, PowersType
      <4>2. b \in Nat /\ n \in Nat /\ u \in Nat /\ scaled = n /\ Size(q) * One = b
        BY <2>4, <4>1
      <4>3. exact * One = u /\ One \div 2 = Half
        BY HalfFacts DEF Half
      <4>4. /\ n < u => 2 * (b - n) <= One + 2 * g /\ 2 * (n - b) <= One + 2 * g
            /\ n >= u => b - n <= One /\ n - b <= One
        BY <3>2 DEF HalfError
      <4> HIDE DEF n, b, u, g, scaled, exact
      <4>5. CASE n < u
        <5>1. Half + g \in Nat /\ b - n <= Half + g /\ n - b <= Half + g
          BY <2>6, <4>1, <4>2, <4>4, <4>5
        <5>2. Near(b, n, Half + g)
          BY <4>2, <5>1, NearIs
        <5> QED
          BY <4>2, <4>3, <4>5, <5>2
      <4>6. CASE ~(n < u)
        <5>1. b - n <= One /\ n - b <= One
          BY <4>2, <4>4, <4>6
        <5>2. Near(b, n, One)
          BY <4>1, <4>2, <5>1, NearIs
        <5> QED
          BY <4>2, <4>3, <4>6, <5>2
      <4> QED
        BY <4>5, <4>6
    <3> QED
      BY <2>2, <2>3, <2>6, <2>7, <3>1, <3>2, ConvertsRight
  <2> HIDE DEF limit, scaled, exact, g
  <2>8. ASSUME status = "OVERFLOW"
        PROVE  Size(result) \div One >= (limit + 1) \div Power(2, frac_bits)
    BY <2>2, <2>5, <2>8 DEF Converted
  <2>9. ASSUME status = "OK", NEW q \in out_val
        PROVE  \/ Size(result) \div One >= (TypeMax + 1) \div Power(2, frac_bits)
                     /\ (q = Signed(result, limit) \/ scaled = (TypeMax + 1) * One)
               \/ Near(Size(q) * One, scaled,
                       IF scaled < exact * One THEN One \div 2 + g ELSE One)
    <3>1. CASE /\ TooLarge(result, frac_bits, TypeMax)
               /\ out_val = {Signed(result, Greatest(result, TypeMax))}
      BY <2>5, <2>9, <3>1 DEF limit
    <3>2. CASE /\ ~TooLarge(result, frac_bits, TypeMax)
               /\ \E r \in ToFixed(result, frac_bits, TypeMax) : out_val = {r}
      <4>1. q \in ToFixed(result, frac_bits, TypeMax)
        BY <2>9, <3>2
      <4> QED
        BY <2>7, <3>2, <4>1
    <3> QED
      BY <2>2, <2>9, <3>1, <3>2 DEF Converted
  <2> QED
    BY <2>8, <2>9 DEF ConvertsNearest, limit, scaled, exact, g
<1>2. ConversionInv => ConvertsNearest
  BY <1>1
<1> QED
  BY <1>2, ConversionInvariant, PTL

-----------------------------------------------------------------------------
LEMMA PowersQuotient ==
    ASSUME NEW t \in Powers, NEW u \in Powers, t <= u
    PROVE  \E e \in Powers : u = e * t
<1>1. PICK j \in 0 .. DoubleBits : t = Power(2, j)
  BY DEF Powers
<1>2. PICK k \in 0 .. DoubleBits : u = Power(2, k)
  BY DEF Powers
<1>3. DoubleBits \in Nat /\ t \in Nat \ {0} /\ u \in Nat \ {0} /\ j \in Nat /\ k \in Nat
  BY PowersType, FloatAssumption
<1>4. CASE j <= k
  <2> DEFINE b == k - j
  <2>1. b \in Nat /\ b \in 0 .. DoubleBits /\ j + b = k
    BY <1>3, <1>4
  <2> HIDE DEF b
  <2>2. Power(2, j + b) = Power(2, j) * Power(2, b)
    BY <1>3, <2>1, PowerSum
  <2>3. Power(2, b) \in Powers
    BY <2>1 DEF Powers
  <2>4. Power(2, b) \in Nat
    BY <2>3, PowersType
  <2>5. u = Power(2, b) * t
    BY <1>1, <1>2, <1>3, <2>1, <2>2, <2>4
  <2> QED
    BY <2>3, <2>5
<1>5. CASE k <= j
  <2>1. u <= t
    BY <1>1, <1>2, <1>3, <1>5, PowerGrows
  <2>2. u = 1 * t
    BY <1>3, <2>1
  <2> QED
    BY <2>2, InPowers
<1> QED
  BY <1>3, <1>4, <1>5

(* A half, where halves are no longer held: the even neighbour is chosen.   *)
LEMMA TieToEven ==
    ASSUME NEW k, k = DoubleSignificant \div 2, k * One < Infinity
    PROVE  Double(k * One + Half, 1) = k * One
<1> DEFINE S == DoubleSignificant
           n == k * One + Half
           x == Spacing(n, S)
<1>1. /\ Half \in Powers /\ Half \in Nat \ {0} /\ One \in Powers /\ One \in Nat \ {0}
      /\ One = 2 * Half /\ S = 2 * k /\ k \in Nat \ {0} /\ k * One = S * Half
      /\ S \in Powers /\ S \in Nat \ {0} /\ 4 <= S /\ Infinity \in Nat \ {0} /\ One < Infinity
  <2>1. S \in Powers /\ S \in Nat \ {0} /\ 4 <= S /\ Infinity \in Nat \ {0} /\ One < Infinity
    BY InPowers, PowersType, Limits
  <2> QED
    BY <2>1, HalfFacts, InPowers, PowersType
<1>2. \E e \in Nat : k = 2 * e
  <2>1. \E u \in Powers : S = 2 * u
    <3>1. S # 1
      BY <1>1
    <3> HIDE DEF S
    <3> QED
      BY <1>1, <3>1, PowersHalf
  <2>2. PICK u \in Powers : S = 2 * u
    BY <2>1
  <2>3. u \in Nat \ {0}
    BY PowersType
  <2> HIDE DEF S
  <2>4. u = k /\ u # 1
    BY <1>1, <2>2, <2>3
  <2>5. PICK e \in Powers : u = 2 * e
    BY <2>4, PowersHalf
  <2>6. e \in Nat
    BY PowersType
  <2> QED
    BY <2>4, <2>5, <2>6
<1>3. PICK e \in Nat : k = 2 * e
  BY <1>2
<1> HIDE DEF S
<1>4. n \in Nat /\ n = S * Half + Half /\ n < S * One /\ n <= 2 * Infinity
  <2>1. Half * 4 <= Half * S
    BY <1>1, ProductLess
  <2>2. S * One = 2 * (S * Half) /\ S * Half \in Nat /\ Half * S = S * Half
    BY <1>1
  <2> DEFINE b == S * Half
  <2>3. b \in Nat /\ S * One = 2 * b /\ Half * 4 <= b /\ n = b + Half /\ b < Infinity
    BY <1>1, <2>1, <2>2
  <2> HIDE DEF b, n
  <2> QED
    BY <1>1, <2>3 DEF b
<1> HIDE DEF n
<1>5. x \in Powers /\ n < S * x /\ \A t \in Powers : n < S * t => x <= t
  <2>1. n < S * Infinity
    <3>1. n < 1 * (S * Infinity) /\ S * Infinity \in Nat
      BY <1>1, <1>4, InBounds DEF S
    <3> QED
      BY <3>1
  <2> QED
    BY <1>1, <1>4, <2>1, SpacingFacts
<1>6. x \in Nat \ {0} /\ x <= One
  BY <1>1, <1>4, <1>5, PowersType
<1> HIDE DEF x
<1>7. x = One
  <2>1. Half < x
    <3>1. x <= Half => S * x <= S * Half
      BY <1>1, <1>6, ProductLess
    <3> DEFINE b == S * x
               c == S * Half
    <3>2. b \in Nat /\ c \in Nat /\ n = c + Half /\ n < b /\ (x <= Half => b <= c)
      BY <1>1, <1>4, <1>5, <1>6, <3>1
    <3> HIDE DEF b, c
    <3> QED
      BY <1>1, <1>6, <3>2
  <2>2. PICK j \in Nat : x = j * One
    <3>1. Multiple(2 * Half, x)
      BY <1>1, <1>5, <2>1, PowersChain
    <3> QED
      BY <1>1, <3>1 DEF Multiple
  <2>3. j # 0
    BY <1>6, <2>2, <1>1
  <2>4. One * 1 <= One * j
    BY <1>1, <2>2, <2>3, ProductLess
  <2> QED
    BY <1>1, <1>6, <2>2, <2>4
<1>8. n \div One = k /\ n % One = Half
  <2>1. n = One * k + Half /\ Half < One
    BY <1>1 DEF n
  <2>2. n \in Nat /\ One \in Nat \ {0} /\ k \in Nat /\ Half \in Nat
    BY <1>1, <1>4
  <2> QED
    BY <2>1, <2>2, QuotientIs
<1>9. Nearest(n, One) = k
  <2>1. k % 2 = 0
    BY <1>3
  <2>2. 2 * Half = One
    BY <1>1
  <2> QED
    BY <1>8, <2>1, <2>2 DEF Nearest
<1>10. Rounded(n, 1, S, Infinity) = k * One
  <2>1. n \div 1 = n /\ 1 * One = One
    BY <1>1, <1>4
  <2>2. Spacing(n \div 1, S) = One
    BY <1>7, <2>1 DEF x
  <2>3. ~(k * One >= Infinity)
    <3>1. k * One \in Nat
      BY <1>1
    <3> QED
      BY <1>1, <3>1
  <2> QED
    BY <1>9, <2>1, <2>2, <2>3 DEF Rounded
<1>11. Double(n, 1) = Rounded(n, 1, S, Infinity)
  <2>1. [over |-> n, under |-> 1] \in Ratios
    BY <1>4 DEF Ratios
  <2> QED
    BY <2>1 DEF Double, ToDouble, S
<1> QED
  BY <1>10, <1>11 DEF n

(* A whole number and a half is cut to that number.                         *)
LEMMA WholeRounded ==
    ASSUME NEW k \in Nat, 2 * k <= DoubleSignificant, k * One < Infinity, k * One + Half < Infinity
    PROVE  Double(k * One + Half, 1) \div One = k
<1> DEFINE y == Double(k * One + Half, 1)
           b == k * One
<1>1. /\ Half \in Powers /\ Half \in Nat \ {0} /\ One \in Nat \ {0} /\ One = 2 * Half
      /\ DoubleSignificant \in Nat /\ DoubleSignificant = 2 * (DoubleSignificant \div 2)
      /\ Infinity \in Nat /\ DoubleSignificant \div 2 \in Nat
  BY HalfFacts, InPowers, PowersType
<1>2. b \in Nat /\ Multiple(One, b)
  BY <1>1 DEF Multiple
<1>3. y = b \/ y = b + Half
  <2>1. CASE 2 * k + 1 <= DoubleSignificant
    <3> DEFINE c == 2 * k + 1
    <3>1. c \in Nat /\ c <= DoubleSignificant /\ c * Half = b + Half /\ c * Half <= Infinity
      BY <1>1, <2>1
    <3> HIDE DEF c
    <3>2. IsDouble(c * Half)
      BY <1>1, <3>1, SmallMultiple
    <3> DEFINE n == b + Half
    <3>3. IsDouble(n) /\ n \in Nat /\ n < Infinity
      BY <1>1, <1>2, <3>1, <3>2
    <3> HIDE DEF n
    <3>4. Double(n, 1) = n
      BY <3>3, DoubleItself
    <3> QED
      BY <3>4 DEF n
  <2>2. CASE 2 * k = DoubleSignificant
    <3>1. k = DoubleSignificant \div 2
      BY <1>1, <2>2
    <3> QED
      BY <3>1, TieToEven
  <2> QED
    BY <1>1, <2>1, <2>2
<1> HIDE DEF y
<1>4. y \in Nat /\ b <= y /\ y < b + One
  <2> HIDE DEF b
  <2> QED
    BY <1>1, <1>2, <1>3
<1>5. (y \div One) * One = b /\ y \div One \in Nat
  BY <1>2, <1>4, WholeOf
<1> DEFINE w == y \div One
<1>6. w \in Nat /\ w * One = k * One
  BY <1>5
<1> HIDE DEF w
<1>7. One * w <= One * k /\ One * k <= One * w
  BY <1>1, <1>6
<1>8. w <= k /\ k <= w
  BY <1>1, <1>6, <1>7, ProductLess
<1>9. w = k
  BY <1>6, <1>8
<1> QED
  BY <1>9 DEF w, y

-----------------------------------------------------------------------------
(* A fixed-point number that the floating-point type holds, made floating   *)
(* point: scaled up again it is the whole number it was.                    *)
LEMMA FromFixedIs ==
    ASSUME frac_bits \in FracBits, NEW q \in Int,
           Abs(q) <= (IF parser = "Float_To_Q" THEN FloatSignificant ELSE DoubleSignificant \div 2),
           Abs(q) <= TypeMax + 1
    PROVE  \E z \in Nat :
              /\ FromFixed(q) = Signed(q, z) /\ IsDouble(z)
              /\ z * Power(2, frac_bits) = Abs(q) * One
              /\ (z = 0 <=> q = 0)
<1> DEFINE k == Abs(q)
           P == Power(2, frac_bits)
           n == k * One
<1>1. /\ P \in Powers /\ P \in Nat \ {0} /\ P <= One /\ One \in Powers /\ One \in Nat \ {0}
      /\ k \in Nat /\ (k = 0 <=> q = 0) /\ Infinity \in Nat \ {0}
      /\ FloatSignificant \in Nat /\ FloatLimit \in Nat /\ FloatLimit <= Infinity
      /\ FloatSignificant <= DoubleSignificant
      /\ DoubleSignificant \in Nat /\ DoubleSignificant = 2 * (DoubleSignificant \div 2)
      /\ DoubleSignificant \div 2 \in Nat /\ 1 \in Nat \ {0} /\ TypeMax \in Nat
      /\ (TypeMax + 1) * One < Infinity
  <2>1. /\ k \in Nat /\ (k = 0 <=> q = 0)
    BY DEF Abs
  <2>2. TypeMax \in Nat /\ (TypeMax + 1) * One < Infinity
    BY TypesMatch DEF Matches
  <2>3. P \in Powers /\ P \in Nat \ {0} /\ P <= One
    BY FormatFacts
  <2>4. DoubleSignificant = 2 * (DoubleSignificant \div 2) /\ DoubleSignificant \div 2 \in Nat
    BY HalfFacts
  <2>5. /\ Infinity \in Nat \ {0} /\ One \in Powers /\ One \in Nat \ {0}
        /\ FloatSignificant \in Nat /\ FloatLimit \in Nat
        /\ DoubleSignificant \in Nat
        /\ FloatLimit <= Infinity /\ FloatSignificant <= DoubleSignificant
    BY InPowers, PowersType, Limits
  <2> QED
    BY <2>1, <2>2, <2>3, <2>4, <2>5
<1>2. PICK e \in Powers : One = e * P
  BY <1>1, PowersQuotient
<1>3. e \in Nat \ {0}
  BY PowersType
<1>4. k <= DoubleSignificant
  BY <1>1
<1>11. k <= TypeMax + 1
  OBVIOUS
<1>12. P = Power(2, frac_bits)
  OBVIOUS
<1>13. parser = "Float_To_Q" => k <= FloatSignificant
  OBVIOUS
<1> HIDE DEF k, P
<1> DEFINE z == k * e
<1>5. /\ n \in Nat /\ z \in Nat /\ n = P * z /\ z * P = n /\ z <= n
      /\ (z = 0 <=> k = 0)
  <2>1. z \in Nat /\ n = P * z
    BY <1>1, <1>2, <1>3
  <2>2. z * 1 <= z * P
    BY <1>1, <2>1, ProductLess
  <2>3. z = 0 <=> k = 0
    <3>1. k # 0 => k * 1 <= k * e
      BY <1>1, <1>3, ProductLess
    <3> QED
      BY <1>1, <1>3, <3>1
  <2> QED
    BY <1>1, <2>1, <2>2, <2>3
<1>6. n < Infinity
  <2>1. One * k <= One * (TypeMax + 1)
    BY <1>1, <1>11, ProductLess
  <2> DEFINE b == One * (TypeMax + 1)
  <2>2. b \in Nat /\ b = (TypeMax + 1) * One /\ n = One * k
    BY <1>1
  <2> HIDE DEF b, n
  <2> QED
    BY <1>1, <1>5, <2>1, <2>2 DEF b
<1>7. IsDouble(z) /\ IsDouble(n)
  <2>1. z <= Infinity /\ n <= Infinity
    <3> HIDE DEF z, n
    <3> QED
      BY <1>1, <1>5, <1>6
  <2> QED
    BY <1>1, <1>4, <2>1, SmallMultiple
<1>8. CASE parser = "Float_To_Q"
  <2>1. k <= FloatSignificant /\ n <= FloatSignificant * One /\ z <= FloatSignificant * e
    <3>1. k <= FloatSignificant
      BY <1>8, <1>13
    <3>2. One * k <= One * FloatSignificant /\ e * k <= e * FloatSignificant
      BY <1>1, <1>3, <3>1, ProductLess
    <3> QED
      BY <1>1, <1>3, <3>1, <3>2
  <2>2. Held(n, FloatSignificant) /\ Held(z, FloatSignificant)
    <3>1. Multiple(One, n) /\ Multiple(e, z)
      BY <1>1 DEF Multiple
    <3> QED
      BY <1>1, <2>1, <3>1 DEF Held
  <2>3. n < FloatLimit /\ z < FloatLimit
    <3> DEFINE b == FloatSignificant * One
    <3>1. b \in Nat /\ b < FloatLimit /\ n <= b
      BY <1>1, <2>1, ConversionAssumption
    <3> HIDE DEF b, n, z
    <3> QED
      BY <1>1, <1>5, <3>1
  <2> HIDE DEF z, n
  <2>4. Float(n, 1) = n
    <3>1. n <= 2 * Infinity /\ n = 1 * n
      BY <1>1, <1>5, <1>6
    <3> QED
      BY <1>1, <1>5, <2>2, <2>3, <3>1, FloatFacts
  <2>5. Float(n, P) = z
    <3>1. n <= 2 * Infinity
      BY <1>1, <1>5, <1>6
    <3> QED
      BY <1>1, <1>5, <2>2, <2>3, <3>1, FloatFacts
  <2>6. FromFixed(q) = Signed(q, z)
    BY <1>8, <2>4, <2>5 DEF FromFixed, Q_To_Float, k, P, n
  <2> QED
    BY <1>1, <1>5, <1>7, <2>6 DEF k, P, n
<1>9. CASE parser # "Float_To_Q"
  <2> HIDE DEF z, n
  <2>1. Double(n, 1) = n
    BY <1>5, <1>6, <1>7, DoubleItself
  <2>2. Double(n, P) = z
    BY <1>1, <1>5, <1>7, DoubleExact
  <2>3. FromFixed(q) = Signed(q, z)
    BY <1>9, <2>1, <2>2 DEF FromFixed, Q64_To_Double, k, P, n
  <2> QED
    BY <1>1, <1>5, <1>7, <2>3 DEF k, P, n
<1> QED
  BY <1>8, <1>9

(* ConvertsBack: a fixed-point number made floating point and fixed point   *)
(* again is the same number, if the floating-point type holds it and half a *)
(* unit more.                                                               *)
THEOREM ConversionComesBack == Spec => []ConvertsBack
<1>1. ASSUME ConversionInv PROVE ConvertsBack
  <2>1. SUFFICES ASSUME NEW p \in printed, parser \in Converters, status # "RUNNING",
                        Size(p.value) <= (IF parser = "Float_To_Q" THEN FloatSignificant
                                          ELSE DoubleSignificant \div 2)
                 PROVE  out_val = {p.value}
    BY DEF ConvertsBack
  <2> DEFINE q == p.value
             k == Abs(q)
             P == Power(2, frac_bits)
             n == k * One
             limit == Greatest(result, TypeMax)
  <2>2. /\ frac_bits \in FracBits /\ Converted /\ q \in -(TypeMax + 1) .. TypeMax
        /\ result = FromFixed(q)
    BY <1>1, <2>1 DEF ConversionInv
  <2>3. Matches(TypeMax, Significant)
    BY TypesMatch
  <2>4. /\ TypeMax \in Nat /\ q \in Int /\ k \in Nat /\ Size(q) = k /\ k <= TypeMax + 1
        /\ q >= 0 => k <= TypeMax
    BY <2>2, <2>3 DEF Matches, Abs, Size
  <2>5. \E z \in Nat :
           /\ FromFixed(q) = Signed(q, z) /\ IsDouble(z)
           /\ z * Power(2, frac_bits) = Abs(q) * One
           /\ (z = 0 <=> q = 0)
    BY <2>1, <2>2, <2>4, FromFixedIs
  <2>6. PICK z \in Nat :
           /\ result = Signed(q, z) /\ IsDouble(z)
           /\ z * P = n
           /\ (z = 0 <=> q = 0)
    BY <2>2, <2>5
  <2>7. result \in Int /\ Abs(result) = z /\ (result < 0 <=> q < 0)
    BY <2>4, <2>6 DEF Signed, Abs
  <2>8. k <= limit /\ limit \in {TypeMax, TypeMax + 1} /\ limit \in Nat
    BY <2>4, <2>7 DEF Greatest
  <2>9. /\ 2 * k <= DoubleSignificant /\ One \in Nat \ {0} /\ Infinity \in Nat /\ Half \in Nat
        /\ (TypeMax + 1) * One < Infinity
    <3>1. /\ DoubleSignificant \div 2 \in Nat /\ DoubleSignificant \in Nat
          /\ DoubleSignificant = 2 * (DoubleSignificant \div 2)
          /\ FloatSignificant \in Nat /\ QMax \in Nat
          /\ One \in Nat \ {0} /\ Infinity \in Nat /\ Half \in Nat
      BY HalfFacts, InPowers, PowersType, FixedAssumption
    <3>2. FloatSignificant <= QMax + 1 /\ 4 * (QMax + 1) <= DoubleSignificant
      BY ConversionAssumption
    <3>3. 2 * k <= DoubleSignificant
      BY <2>1, <2>4, <3>1, <3>2
    <3> QED
      BY <2>3, <3>1, <3>3 DEF Matches
  <2> HIDE DEF q, k, P, limit
  <2>10. n \in Nat /\ n <= limit * One /\ limit * One <= (TypeMax + 1) * One /\ n < Infinity
    <3>1. One * k <= One * limit /\ One * limit <= One * (TypeMax + 1)
      BY <2>4, <2>8, <2>9, ProductLess
    <3> DEFINE b == One * limit
               c == One * (TypeMax + 1)
    <3>2. b \in Nat /\ c \in Nat /\ n \in Nat /\ n = One * k /\ limit * One = b /\ (TypeMax + 1) * One = c
      BY <2>4, <2>8, <2>9
    <3>3. n <= b /\ b <= c /\ c < Infinity
      BY <2>9, <3>1, <3>2
    <3> HIDE DEF b, c, n
    <3> QED
      BY <2>9, <3>2, <3>3
  <2>11. IsDouble(n)
    <3>1. k <= DoubleSignificant /\ n <= Infinity
      <4>1. DoubleSignificant \in Nat
        BY InPowers, PowersType
      <4> HIDE DEF n
      <4> QED
        BY <2>4, <2>9, <2>10, <4>1
    <3> QED
      BY <2>4, <3>1, SmallWhole
  <2> HIDE DEF n
  <2>12. ~TooLarge(result, frac_bits, TypeMax)
    <3> DEFINE v == ScaledUp(result, frac_bits)
               y == Double(limit * One, 1)
    <3>1. v = n
      <4>1. \/ v = Abs(result) * Power(2, frac_bits)
            \/ v = Infinity /\ Abs(result) * Power(2, frac_bits) >= Infinity
        BY <2>2, <2>6, <2>7, ScaledIs
      <4>2. Abs(result) * Power(2, frac_bits) = n
        BY <2>6, <2>7 DEF P
      <4> QED
        BY <2>9, <2>10, <4>1, <4>2
    <3>2. y \in Nat /\ \A r : IsDouble(r) => (limit * One <= r => y <= r) /\ (limit * One >= r => y >= r)
      BY <2>3, <2>8, BoundIs
    <3>3. n <= y
      <4>1. limit * One >= n
        BY <2>8, <2>9, <2>10
      <4> QED
        BY <2>10, <2>11, <3>2, <4>1
    <3>4. ~(v > y)
      BY <2>10, <3>1, <3>2, <3>3
    <3> QED
      BY <3>4 DEF TooLarge, limit
  <2>13. PICK r \in ToFixed(result, frac_bits, TypeMax) : out_val = {r}
    BY <2>1, <2>2, <2>12 DEF Converted
  <2> DEFINE w == Double(n + Half, 1) \div One
  <2>14. w = k
    <3>1. n + Half < Infinity
      BY <2>2, <2>3, <2>6, <2>7, <2>12, ToFixedIs DEF P
    <3> QED
      BY <2>4, <2>9, <2>10, <3>1, WholeRounded DEF n
  <2>15. ToFixed(result, frac_bits, TypeMax) = IF w > limit THEN {0, TypeMax, -(TypeMax + 1)}
                                               ELSE {Signed(result, w)}
    BY <2>2, <2>3, <2>6, <2>7, <2>12, ToFixedIs DEF P, limit
  <2>16. ToFixed(result, frac_bits, TypeMax) = {Signed(result, k)}
    <3>1. ~(w > limit)
      BY <2>4, <2>8, <2>14
    <3> QED
      BY <2>14, <2>15, <3>1
  <2>17. Signed(result, k) = q
    BY <2>4, <2>7 DEF Signed, k, Abs
  <2> QED
    BY <2>13, <2>16, <2>17 DEF q
<1>2. ConversionInv => ConvertsBack
  BY <1>1
<1> QED
  BY <1>2, ConversionInvariant, PTL

-----------------------------------------------------------------------------
(* Booleans: the word that was written is the word that is read.            *)
LEMMA Capped ==
    ASSUME NEW n \in Nat, n <= StrCap, NEW t, Len(t) = n + 1, NEW size \in Lengths(t)
    PROVE  size \in Nat /\ n <= size
<1>1. StrCap \in Nat
  BY TextAssumption
<1>2. size = StrCap \/ size = n
  BY DEF Lengths
<1> QED
  BY <1>1, <1>2

LEMMA WordFound ==
    ASSUME NEW w \in Seq(0 .. 35), Len(w) \in 1 .. 7, str = Append(w, NUL),
           max_len \in Nat, Len(w) <= max_len
    PROVE  ~Blank /\ WordEnd = Len(w) /\ Word = w /\ Len(str) = Len(w) + 1
<1> DEFINE n == Len(w)
           Z == (0 .. 35) \cup {NUL}
<1>1. n \in 1 .. 7 /\ n \in Nat /\ n <= max_len /\ max_len \in Nat
  OBVIOUS
<1>2. w \in Seq(Z)
  OBVIOUS
<1>3. Len(str) = n + 1 /\ \A k \in 1 .. n + 1 : str[k] = (IF k = n + 1 THEN NUL ELSE w[k])
  BY <1>2
<1>4. \A k \in 1 .. n : w[k] \in 0 .. 35
  BY ElementOfSeq
<1>5. /\ \A k \in 0 .. n - 1 : At(k) = w[k + 1] /\ At(k) \in 0 .. 35
      /\ At(n) = NUL
  BY <1>1, <1>3, <1>4 DEF At
<1>6. NUL \notin 0 .. 35 /\ Space \notin 0 .. 35
  BY DEF NUL, Space
<1> HIDE DEF Z, n
<1>0. 0 \in 0 .. n - 1 /\ At(0) # Space /\ At(0) # NUL /\ 0 \in 0 .. max_len /\ max_len # 0
  <2>1. 0 \in 0 .. n - 1 /\ 0 \in 0 .. max_len /\ max_len # 0
    BY <1>1
  <2> QED
    BY <1>5, <1>6, <2>1
<1>7. Skipped = 0
  <2> DEFINE Ends(k) == /\ k = max_len \/ At(k) # Space
                        /\ \A j \in 0 .. k - 1 : At(j) = Space
  <2>1. 0 \in 0 .. max_len /\ Ends(0)
    BY <1>0
  <2>2. \A k \in 0 .. max_len : Ends(k) => k = 0
    <3>1. SUFFICES ASSUME NEW k \in 0 .. max_len, Ends(k), k # 0 PROVE FALSE
      OBVIOUS
    <3>2. 0 \in 0 .. k - 1 /\ 0 \in 0 .. n - 1
      BY <1>1, <3>1
    <3> QED
      BY <1>5, <1>6, <3>1, <3>2
  <2>3. Skipped = CHOOSE k \in 0 .. max_len : Ends(k)
    BY DEF Skipped
  <2> HIDE DEF Ends
  <2> QED
    BY <2>1, <2>2, <2>3
<1>8. ~Blank
  BY <1>0, <1>7 DEF Blank
<1>9. WordEnd = n
  <2> DEFINE Ends(e) == /\ e = max_len \/ At(e) \notin 0 .. 35 \/ e - 0 = WordSize - 1
                        /\ \A k \in 0 .. e - 1 : At(k) \in 0 .. 35
  <2>1. n \in 0 .. max_len /\ Ends(n)
    BY <1>1, <1>5, <1>6
  <2>2. \A e \in 0 .. max_len : Ends(e) => e = n
    <3>1. SUFFICES ASSUME NEW e \in 0 .. max_len, Ends(e), e # n PROVE FALSE
      OBVIOUS
    <3>2. CASE e < n
      <4>1. e \in Nat /\ WordSize - 1 = 7
        BY <3>1 DEF WordSize
      <4>2. e \in 0 .. n - 1 /\ e # max_len /\ e - 0 # 7
        BY <1>1, <3>2, <4>1
      <4>3. e \in 0 .. n - 1 /\ e # max_len /\ e - 0 # WordSize - 1
        BY <4>1, <4>2
      <4> QED
        BY <1>5, <3>1, <4>3
    <3>3. CASE e > n
      <4>1. n \in 0 .. e - 1
        BY <1>1, <3>1, <3>3
      <4> QED
        BY <1>5, <1>6, <3>1, <4>1
    <3> QED
      BY <1>1, <3>1, <3>2, <3>3
  <2>3. WordEnd = CHOOSE e \in 0 .. max_len : Ends(e)
    BY <1>7 DEF WordEnd
  <2> HIDE DEF Ends
  <2> QED
    BY <2>1, <2>2, <2>3
<1>10. Word = w
  <2>1. Word = SubSeq(str, 1, n)
    BY <1>7, <1>9 DEF Word
  <2>2. str \in Seq(Z)
    BY <1>2 DEF Z
  <2>3. SubSeq(str, 1, n) \in Seq(Z) /\ Len(SubSeq(str, 1, n)) = n
        /\ \A k \in 1 .. n : SubSeq(str, 1, n)[k] = str[k]
    BY <1>1, <1>3, <2>2
  <2>4. \A k \in 1 .. n : str[k] = w[k]
    BY <1>1, <1>3
  <2>5. w \in Seq(Z) /\ Len(w) = n
    BY DEF Z, n
  <2> QED
    BY <2>1, <2>3, <2>4, <2>5, SeqEqual
<1> QED
  BY <1>3, <1>8, <1>9, <1>10 DEF n

LEMMA WordsKnown ==
    ASSUME NEW pair \in WordPairs
    PROVE  /\ pair[1] \in Seq(0 .. 35) /\ Len(pair[1]) \in 1 .. 7
           /\ pair[2] \in Seq(0 .. 35) /\ Len(pair[2]) \in 1 .. 7
           /\ pair[1] \in Affirmative /\ pair[2] \in Declining /\ pair[2] \notin Affirmative
<1>1. pair[1] \in Affirmative /\ pair[2] \in Declining
  BY DEF Affirmative, Declining
<1> DEFINE IsPair(a, b) == pair[1] = a /\ pair[2] = b
<1>2. \/ IsPair(<<29, 27, 30, 14>>, <<15, 10, 21, 28, 14>>) \/ IsPair(<<1>>, <<0>>)
      \/ IsPair(<<34, 14, 28>>, <<23, 24>>) \/ IsPair(<<24, 23>>, <<24, 15, 15>>)
  BY DEF WordPairs
<1>3. /\ pair[1] \in Seq(0 .. 35) /\ Len(pair[1]) \in 1 .. 7
      /\ pair[2] \in Seq(0 .. 35) /\ Len(pair[2]) \in 1 .. 7
  <2> DEFINE Good(a) == a \in Seq(0 .. 35) /\ Len(a) \in 1 .. 7
  <2>1. \A a, b, c, k, n \in 0 .. 35 :
           Good(<<a>>) /\ Good(<<a, b>>) /\ Good(<<a, b, c>>) /\ Good(<<a, b, c, k>>)
           /\ Good(<<a, b, c, k, n>>)
    OBVIOUS
  <2>2. Good(<<29, 27, 30, 14>>) /\ Good(<<15, 10, 21, 28, 14>>) /\ Good(<<1>>) /\ Good(<<0>>)
        /\ Good(<<34, 14, 28>>) /\ Good(<<23, 24>>) /\ Good(<<24, 23>>) /\ Good(<<24, 15, 15>>)
    <3> HIDE DEF Good
    <3>1. /\ 29 \in 0 .. 35 /\ 27 \in 0 .. 35 /\ 30 \in 0 .. 35 /\ 14 \in 0 .. 35
          /\ 15 \in 0 .. 35 /\ 10 \in 0 .. 35 /\ 21 \in 0 .. 35 /\ 28 \in 0 .. 35
          /\ 1 \in 0 .. 35 /\ 0 \in 0 .. 35 /\ 34 \in 0 .. 35 /\ 23 \in 0 .. 35
          /\ 24 \in 0 .. 35
      OBVIOUS
    <3> QED
      BY <2>1, <3>1
  <2> HIDE DEF Good
  <2>3. Good(pair[1]) /\ Good(pair[2])
    BY <1>2, <2>2
  <2> QED
    BY <2>3 DEF Good
<1>4. pair[2] \in {<<15, 10, 21, 28, 14>>, <<0>>, <<23, 24>>, <<24, 15, 15>>}
  BY <1>2
<1>5. Affirmative = {<<29, 27, 30, 14>>, <<1>>, <<34, 14, 28>>, <<24, 23>>, <<29>>, <<34>>}
  BY DEF Affirmative, WordPairs
<1>6. pair[2] \notin Affirmative
  <2>1. Len(pair[2]) = 5 => \A a \in Affirmative : a # pair[2]
    BY <1>5
  <2>2. pair[2] = <<0>> => \A a \in Affirmative : a # pair[2]
    BY <1>5
  <2>3. pair[2] = <<23, 24>> => \A a \in Affirmative : a # pair[2]
    BY <1>5
  <2>4. pair[2] = <<24, 15, 15>> => \A a \in Affirmative : a # pair[2]
    BY <1>5
  <2> QED
    BY <1>4, <2>1, <2>2, <2>3, <2>4
<1> QED
  BY <1>1, <1>3, <1>6

-----------------------------------------------------------------------------
(* EDC_StringToBool, of what EDC_Bool_ToString has written.                 *)
BoolInv ==
    parser = "StringToBool" =>
        \A p \in printed :
            /\ phase = "START" /\ max_len \in Lengths(str)
            /\ \E pair \in WordPairs :
                  str = Append(IF p.value THEN pair[1] ELSE pair[2], NUL)
            /\ p.value \in BOOLEAN /\ \A q \in printed : q = p
            /\ \/ status = "RUNNING"
               \/ status = "OK" /\ out_val = {p.value} /\ idx = Len(str) - 1

LEMMA BoolInit_Inv ==
    ASSUME Init
    PROVE  BoolInv
<1>1. SUFFICES ASSUME parser = "StringToBool", NEW p \in printed
               PROVE  /\ phase = "START"
                      /\ \E pair \in WordPairs :
                            str = Append(IF p.value THEN pair[1] ELSE pair[2], NUL)
                      /\ p.value \in BOOLEAN /\ \A q \in printed : q = p
  BY DEF BoolInv, Init
<1>2. PrintedBool
  BY <1>1 DEF Init, Typed, PrintedPlain, PrintingScientific, PrintedQ, Converting,
              ConvertingBack, FloatParsers, Converters
<1>3. PICK v \in BOOLEAN, words \in WordPairs, size \in BufSizes :
          /\ str \in Bool_ToString(v, words, size)
          /\ printed = {[value |-> v, size |-> size]}
  BY <1>2 DEF PrintedBool
<1>4. p.value = v /\ \A q \in printed : q = p
  BY <1>1, <1>3
<1>5. str = Append(IF v THEN words[1] ELSE words[2], NUL)
  BY <1>3 DEF Bool_ToString
<1> QED
  BY <1>2, <1>4, <1>5 DEF PrintedBool

(* What a call makes of the text.                                           *)
LEMMA BoolFound ==
    ASSUME BoolInv, parser = "StringToBool", NEW p \in printed
    PROVE  /\ ~Blank /\ WordEnd = Len(str) - 1
           /\ p.value => Word \in Affirmative
           /\ ~p.value => Word \in Declining /\ Word \notin Affirmative
<1>1. PICK pair \in WordPairs : str = Append(IF p.value THEN pair[1] ELSE pair[2], NUL)
  BY DEF BoolInv
<1>2. max_len \in Lengths(str) /\ p.value \in BOOLEAN
  BY DEF BoolInv
<1> DEFINE w == IF p.value THEN pair[1] ELSE pair[2]
<1>3. w \in Seq(0 .. 35) /\ Len(w) \in 1 .. 7 /\ str = Append(w, NUL)
  BY <1>1, WordsKnown
<1>4. Len(w) <= StrCap
  BY LengthAssumption
<1>5. /\ p.value => w \in Affirmative
      /\ ~p.value => w \in Declining /\ w \notin Affirmative
  BY WordsKnown
<1> HIDE DEF w
<1> DEFINE Z == (0 .. 35) \cup {NUL}
<1>6. w \in Seq(Z)
  BY <1>3
<1>7. Len(str) = Len(w) + 1 /\ Len(w) \in Nat
  BY <1>3, <1>6
<1>8. max_len \in Nat /\ Len(w) <= max_len
  <2> DEFINE n == Len(w)
  <2>1. n \in Nat /\ n <= StrCap /\ Len(str) = n + 1
    BY <1>4, <1>7
  <2> HIDE DEF n
  <2>2. max_len \in Nat /\ n <= max_len
    BY <1>2, <2>1, Capped
  <2> QED
    BY <2>2 DEF n
<1>9. ~Blank /\ WordEnd = Len(w) /\ Word = w
  BY <1>3, <1>8, WordFound
<1> QED
  BY <1>5, <1>7, <1>9

LEMMA BoolNext_Inv ==
    ASSUME BoolInv, [Next]_vars
    PROVE  BoolInv'
<1>1. SUFFICES ASSUME parser' = "StringToBool", NEW p \in printed'
               PROVE  BoolInv'
  BY DEF BoolInv
<1>2. parser = "StringToBool" /\ printed' = printed
  BY <1>1 DEF Next, Divide, Multiply, PrintScientific, DoesNotFit, NoText, NotANumber, Infinite, Begin,
              IntegerDigit, Point, FractionDigit, NoDigits, Exponent, ExponentDigit, PowerOfTen,
              Finish, FinishQ, TooGreat, ReadBool, NoBool, Convert, Saturate, DoesNotSaturate,
              Returned, Return, vars, call
<1>3. phase = "START" /\ p \in printed /\ p.value \in BOOLEAN /\ \A q \in printed : q = p
  BY <1>1, <1>2 DEF BoolInv
<1>4. /\ ~Blank /\ WordEnd = Len(str) - 1
      /\ p.value => Word \in Affirmative
      /\ ~p.value => Word \in Declining /\ Word \notin Affirmative
  BY <1>2, <1>3, BoolFound
<1>5. CASE ReadBool
  <2>1. status' = "OK" /\ idx' = WordEnd /\ Deliver(Word \in Affirmative)
    BY <1>5 DEF ReadBool, Deliver
  <2>2. str' = str /\ max_len' = max_len /\ phase' = phase
    BY <1>5 DEF ReadBool, text
  <2>3. out_val' = {p.value}
    <3> DEFINE b == Word \in Affirmative
    <3>1. out_val' = {b}
      BY <2>1, Zenon DEF Deliver
    <3>2. b \in BOOLEAN /\ (p.value => b) /\ (~p.value => ~b)
      BY <1>4
    <3> HIDE DEF b
    <3>3. b = p.value
      <4>1. CASE p.value
        <5>1. b = TRUE /\ p.value = TRUE
          BY <1>3, <3>2, <4>1
        <5> QED
          BY <5>1
      <4>2. CASE ~p.value
        <5>1. b = FALSE /\ p.value = FALSE
          BY <1>3, <3>2, <4>2
        <5> QED
          BY <5>1
      <4> QED
        BY <4>1, <4>2
    <3> QED
      BY <3>1, <3>3
  <2>4. Lengths(str)' = Lengths(str)
    BY <2>2 DEF Lengths
  <2> QED
    BY <1>2, <1>3, <1>4, <2>1, <2>2, <2>3, <2>4 DEF BoolInv
<1>6. CASE UNCHANGED vars \/ Returned
  <2>1. /\ parser' = parser /\ str' = str /\ max_len' = max_len /\ phase' = phase /\ idx' = idx
        /\ status' = status /\ out_val' = out_val
    BY <1>6 DEF vars, Returned, call, text, scan
  <2> QED
    BY <1>2, <2>1 DEF BoolInv, Lengths
<1>7. ~(Next /\ ~(ReadBool \/ Returned))
  BY <1>2, <1>3, <1>4 DEF Next, Divide, Multiply, PrintScientific, DoesNotFit, Scaled, Scaling, NoText,
              NotANumber, Infinite, Begin, IsNaN, IsInf, FloatParsers, Declining,
              IntegerDigit, Point, AtPoint, FractionDigit, AtPlace, NoDigits, Counted, Exponent,
              ExponentDigit, PowerOfTen, Completed, Finish, FinishQ, TooGreat, NoBool, Convert,
              Saturate, DoesNotSaturate
<1> QED
  BY <1>5, <1>6, <1>7

(* BoolReadsBack: every word that EDC_Bool_ToString writes is read back by  *)
(* EDC_StringToBool as the value it stands for, and all of it is consumed.  *)
THEOREM BooleanComesBack == Spec => []BoolReadsBack
<1>1. BoolInv => BoolReadsBack
  BY DEF BoolInv, BoolReadsBack
<1>2. Init => BoolInv
  BY BoolInit_Inv
<1>3. BoolInv /\ [Next]_vars => BoolInv'
  BY BoolNext_Inv
<1> QED
  BY <1>1, <1>2, <1>3, PTL DEF Spec

-----------------------------------------------------------------------------
(* The digits that are written, read one after the other: reading[k] is     *)
(* what the first k of them say.                                            *)
Reads(reading, c, n, from) ==
    /\ reading[0] = from
    /\ \A k \in 1 .. n : reading[k - 1] \in Nat /\ c[k] \in 0 .. 9
                         /\ reading[k] = reading[k - 1] * 10 + c[k]

LEMMA DigitsUnfold ==
    ASSUME NEW v \in Nat
    PROVE  \E f : /\ \A n \in 0 .. v : Digits(n, 10) = f[n]
                  /\ \A n \in 0 .. v : f[n] = (IF n < 10 THEN <<n>> ELSE Append(f[n \div 10], n % 10))
<1> DEFINE T == {n \in 0 .. v : TRUE}
<1>1. PICK f : DigitsUpTo(f, 10, v)
  BY DigitsDefined
<1>2. \A n \in 0 .. v : f[n] = (IF n < 10 THEN <<n>> ELSE Append(f[n \div 10], n % 10))
  BY <1>1 DEF DigitsUpTo
<1>3. ASSUME NEW n \in 0 .. v
      PROVE  Digits(n, 10) = f[n]
  <2> DEFINE g == CHOOSE h : DigitsUpTo(h, 10, n)
  <2>1. n \in Nat
    OBVIOUS
  <2>2. DigitsUpTo(g, 10, n)
    BY <2>1, DigitsDefined
  <2>3. Digits(n, 10) = g[n]
    BY DEF Digits, DigitsUpTo
  <2>4. \A j \in 0 .. n : g[j] = (IF j < 10 THEN <<j>> ELSE Append(g[j \div 10], j % 10))
    BY <2>2 DEF DigitsUpTo
  <2> HIDE DEF g
  <2> DEFINE U == {j \in 0 .. n : g[j] # f[j]}
  <2>5. U = {}
    <3>1. SUFFICES ASSUME U # {} PROVE FALSE
      OBVIOUS
    <3>2. U \subseteq Nat
      OBVIOUS
    <3>3. PICK j \in U : \A k \in U : j <= k
      <4> HIDE DEF U
      <4> QED
        BY <3>1, <3>2, LeastExists
    <3>4. j \in 0 .. n /\ j \in 0 .. v /\ j \in Nat /\ g[j] # f[j]
      BY <2>1, <3>3
    <3>5. CASE j < 10
      <4>1. g[j] = <<j>>
        BY <2>4, <3>4, <3>5
      <4>2. f[j] = <<j>>
        BY <1>2, <3>4, <3>5
      <4> QED
        BY <3>4, <4>1, <4>2
    <3>6. CASE ~(j < 10)
      <4> DEFINE q == j \div 10
      <4>1. q \in Nat /\ q < j
        <5>1. j >= 10 /\ 10 \in Nat /\ 10 >= 2
          BY <3>4, <3>6
        <5> QED
          BY <3>4, <5>1, QuotientSmaller
      <4>2. f[j] = Append(f[q], j % 10) /\ g[j] = Append(g[q], j % 10)
        BY <1>2, <2>4, <3>4, <3>6
      <4> HIDE DEF q
      <4>3. q \in 0 .. n /\ ~(j <= q)
        BY <2>1, <3>4, <4>1
      <4>4. q \notin U
        BY <3>3, <4>3
      <4>5. g[q] = f[q]
        BY <4>3, <4>4
      <4> QED
        BY <3>4, <4>2, <4>5
    <3> QED
      BY <3>5, <3>6
  <2> QED
    BY <2>1, <2>3, <2>5
<1> QED
  BY <1>2, <1>3

(* Read back, the digits of a number say that number; there are no zeros    *)
(* in front.                                                                *)
LEMMA DigitsRead ==
    ASSUME NEW v \in Nat
    PROVE  \E L \in Nat \ {0} : \E reading :
              /\ Digits(v, 10) \in Seq(0 .. 9) /\ Len(Digits(v, 10)) = L
              /\ Reads(reading, Digits(v, 10), L, 0) /\ reading[L] = v
              /\ L = 1 \/ Power(10, L - 1) <= v
<1> DEFINE Good(n) == \E L \in Nat \ {0} : \E reading :
              /\ Digits(n, 10) \in Seq(0 .. 9) /\ Len(Digits(n, 10)) = L
              /\ Reads(reading, Digits(n, 10), L, 0) /\ reading[L] = n
              /\ L = 1 \/ Power(10, L - 1) <= n
           T == {n \in 0 .. v : ~Good(n)}
<1>1. SUFFICES ASSUME T # {} PROVE FALSE
  OBVIOUS
<1>2. T \subseteq Nat
  OBVIOUS
<1> HIDE DEF Good
<1>3. PICK n \in T : \A k \in T : n <= k
  <2> HIDE DEF T
  <2> QED
    BY <1>1, <1>2, LeastExists
<1>4. n \in Nat /\ n \in 0 .. v /\ ~Good(n)
  BY <1>3
<1>5. PICK f : /\ \A j \in 0 .. v : Digits(j, 10) = f[j]
               /\ \A j \in 0 .. v : f[j] = (IF j < 10 THEN <<j>> ELSE Append(f[j \div 10], j % 10))
  BY DigitsUnfold
<1>6. CASE n < 10
  <2>1. Digits(n, 10) = <<n>>
    BY <1>4, <1>5, <1>6
  <2> DEFINE r == [k \in 0 .. 1 |-> IF k = 0 THEN 0 ELSE n]
  <2>2. n \in 0 .. 9 /\ r[0] = 0 /\ r[1] = n /\ <<n>>[1] = n
    BY <1>4, <1>6
  <2> HIDE DEF r
  <2>3. Reads(r, <<n>>, 1, 0)
    BY <2>2 DEF Reads
  <2>4. <<n>> \in Seq(0 .. 9) /\ Len(<<n>>) = 1 /\ 1 \in Nat \ {0}
    BY <2>2
  <2> QED
    BY <1>4, <2>1, <2>2, <2>3, <2>4 DEF Good
<1>7. CASE ~(n < 10)
  <2> DEFINE q == n \div 10
             c == n % 10
  <2>1. q \in Nat /\ q < n /\ c \in 0 .. 9 /\ q # 0 /\ n = q * 10 + c
    <3>1. n >= 10 /\ 10 \in Nat /\ 10 >= 2
      BY <1>4, <1>7
    <3>2. q \in Nat /\ q < n /\ c \in 0 .. 10 - 1
      BY <1>4, <3>1, QuotientSmaller
    <3>3. q # 0 /\ n = q * 10 + c
      BY <1>4, <3>1
    <3> QED
      BY <1>4, <3>2, <3>3
  <2>2. Digits(n, 10) = Append(f[q], c)
    BY <1>4, <1>5, <1>7
  <2> HIDE DEF q, c
  <2>3. q \in 0 .. v /\ ~(n <= q)
    BY <1>4, <2>1
  <2>4. Good(q)
    BY <1>3, <2>3
  <2>5. PICK L \in Nat \ {0} : \E r :
              /\ Digits(q, 10) \in Seq(0 .. 9) /\ Len(Digits(q, 10)) = L
              /\ Reads(r, Digits(q, 10), L, 0) /\ r[L] = q
              /\ L = 1 \/ Power(10, L - 1) <= q
    BY <2>4 DEF Good
  <2>51. PICK r :
              /\ Digits(q, 10) \in Seq(0 .. 9) /\ Len(Digits(q, 10)) = L
              /\ Reads(r, Digits(q, 10), L, 0) /\ r[L] = q
              /\ L = 1 \/ Power(10, L - 1) <= q
    BY <2>5
  <2> DEFINE w == Digits(q, 10)
             z == Digits(n, 10)
             K == L + 1
             s2 == [k \in 0 .. K |-> IF k = K THEN n ELSE r[k]]
  <2>6. z = Append(w, c)
    <3>1. Digits(q, 10) = f[q]
      BY <1>5, <2>3
    <3> QED
      BY <2>2, <3>1
  <2>7. w \in Seq(0 .. 9) /\ Len(w) = L /\ Reads(r, w, L, 0)
    BY <2>51
  <2>8. K \in Nat \ {0} /\ K - 1 = L /\ K # 1
    BY <2>51
  <2>9. /\ s2[0] = 0 /\ s2[K] = n /\ \A k \in 0 .. L : s2[k] = r[k]
    BY <2>7, <2>8 DEF Reads
  <2> HIDE DEF w, z, s2
  <2>10. z \in Seq(0 .. 9) /\ Len(z) = K /\ z[K] = c /\ \A k \in 1 .. L : z[k] = w[k]
    BY <2>1, <2>6, <2>7
  <2>11. Reads(s2, z, K, 0)
    <3>1. ASSUME NEW k \in 1 .. K
          PROVE  s2[k - 1] \in Nat /\ z[k] \in 0 .. 9 /\ s2[k] = s2[k - 1] * 10 + z[k]
      <4>1. CASE k = K
        <5>1. k - 1 = L /\ k - 1 \in 0 .. L
          BY <2>8, <4>1
        <5>2. s2[k - 1] = q
          BY <2>51, <2>9, <5>1
        <5> QED
          BY <2>1, <2>9, <2>10, <4>1, <5>2
      <4>2. CASE k # K
        <5>1. k \in 1 .. L /\ k - 1 \in 0 .. L /\ k \in 0 .. L
          BY <2>51, <4>2
        <5>2. r[k - 1] \in Nat /\ w[k] \in 0 .. 9 /\ r[k] = r[k - 1] * 10 + w[k]
          BY <2>7, <5>1 DEF Reads
        <5> QED
          BY <2>9, <2>10, <5>1, <5>2
      <4> QED
        BY <4>1, <4>2
    <3> QED
      BY <2>9, <3>1 DEF Reads
  <2>12. Power(10, L) <= n
    <3>1. 10 \in Nat /\ 10 \in Nat \ {0}
      OBVIOUS
    <3>2. CASE L = 1
      <4>1. Power(10, 0 + 1) = 10 * Power(10, 0) /\ Power(10, 0) = 1
        BY <3>1, PowerZero, PowerNext
      <4>2. Power(10, 1) = 10
        BY <4>1
      <4> QED
        BY <1>4, <1>7, <3>2, <4>2
    <3>3. CASE L # 1
      <4> DEFINE k == L - 1
      <4>1. k \in Nat /\ k + 1 = L
        BY <2>51
      <4>2. Power(10, k) <= q
        BY <2>51, <3>3
      <4> HIDE DEF k
      <4>3. Power(10, k + 1) = 10 * Power(10, k) /\ Power(10, k) \in Nat
        BY <3>1, <4>1, PowerNext, PowerPositive
      <4> DEFINE x == Power(10, k)
      <4>4. x \in Nat /\ x <= q /\ Power(10, L) = 10 * x
        BY <4>1, <4>2, <4>3
      <4> HIDE DEF x
      <4> QED
        BY <2>1, <4>4
    <3> QED
      BY <3>2, <3>3
  <2>13. Good(n)
    BY <2>8, <2>9, <2>10, <2>11, <2>12 DEF Good, z
  <2> QED
    BY <1>4, <2>13
<1> QED
  BY <1>6, <1>7

(* c are the places of n / u, n being w * u + a, and are read behind the    *)
(* digits of w.                                                             *)
PlacesSay(c, u, prec, w, a) ==
    \E reading :
        /\ c \in Seq(0 .. 9) /\ Len(c) = prec
        /\ Reads(reading, c, prec, w) /\ reading[prec] \in Nat
        /\ \E rest \in Nat : rest < u /\ reading[prec] * u + rest = (w * u + a) * Power(10, prec)

LEMMA PlacesRead ==
    ASSUME NEW bits \in Nat, NEW prec \in Nat, NEW w \in Nat, NEW a \in Nat, a < Power(2, bits)
    PROVE  PlacesSay(QPlaces(a, bits, prec), Power(2, bits), prec, w, a)
<1> DEFINE u == Power(2, bits)
           n == w * u + a
           f == CHOOSE g : QSplitsUpTo(g, a, bits, prec)
           Good(k) ==
              \E r :
                 /\ f[k].digits \in Seq(0 .. 9) /\ Len(f[k].digits) = k
                 /\ f[k].rest \in Nat /\ f[k].rest < u
                 /\ Reads(r, f[k].digits, k, w) /\ r[k] \in Nat
                 /\ r[k] * u + f[k].rest = n * Power(10, k)
           T == {k \in 0 .. prec : ~Good(k)}
<1>1. QSplitsUpTo(f, a, bits, prec)
  BY QSplitsDefined
<1>2. QPlaces(a, bits, prec) = f[prec].digits
  BY DEF QPlaces, QSplitsUpTo, NextQSplit, QDigit
<1>3. \A k \in 0 .. prec : f[k] = (IF k = 0 THEN [rest |-> a, digits |-> << >>]
                                   ELSE NextQSplit(f[k - 1], bits))
  BY <1>1 DEF QSplitsUpTo
<1>4. u \in Nat \ {0} /\ a < u /\ n \in Nat
  <2>1. u \in Nat \ {0} /\ a < u
    BY PowerPositive
  <2> QED
    BY <2>1
<1> HIDE DEF f, u
<1>5. Good(prec) => PlacesSay(QPlaces(a, bits, prec), u, prec, w, a)
  <2> SUFFICES ASSUME Good(prec) PROVE PlacesSay(QPlaces(a, bits, prec), u, prec, w, a)
    OBVIOUS
  <2> DEFINE c == QPlaces(a, bits, prec)
             rest == f[prec].rest
  <2>1. PICK r :
                 /\ c \in Seq(0 .. 9) /\ Len(c) = prec
                 /\ rest \in Nat /\ rest < u
                 /\ Reads(r, c, prec, w) /\ r[prec] \in Nat
                 /\ r[prec] * u + rest = n * Power(10, prec)
    BY <1>2
  <2> HIDE DEF c, rest
  <2> QED
    BY <2>1 DEF PlacesSay, c
<1> HIDE DEF Good, n
<1>6. SUFFICES ASSUME T # {} PROVE FALSE
  BY <1>5 DEF u
<1>7. T \subseteq Nat
  OBVIOUS
<1>8. PICK k \in T : \A j \in T : k <= j
  <2> HIDE DEF T
  <2> QED
    BY <1>6, <1>7, LeastExists
<1>9. k \in Nat /\ k \in 0 .. prec /\ ~Good(k) /\ (k # 0 => k - 1 \in 0 .. prec /\ Good(k - 1))
  BY <1>8
<1> HIDE DEF T
<1>10. CASE k = 0
  <2>1. f[k].digits = << >> /\ f[k].rest = a
    BY <1>3, <1>9, <1>10
  <2> DEFINE r == [j \in 0 .. 0 |-> w]
  <2>2. r[0] = w
    OBVIOUS
  <2> HIDE DEF r
  <2>3. Reads(r, << >>, 0, w)
    BY <2>2 DEF Reads
  <2>4. w * u + a = n * Power(10, 0)
    <3>1. Power(10, 0) = 1 /\ n * 1 = n
      BY <1>4, TenToZero
    <3>2. w * u + a = n
      BY DEF n
    <3> QED
      BY <3>1, <3>2
  <2>5. << >> \in Seq(0 .. 9) /\ Len(<< >>) = 0
    OBVIOUS
  <2> QED
    BY <1>4, <1>9, <1>10, <2>1, <2>2, <2>3, <2>4, <2>5 DEF Good
<1>11. CASE k # 0
  <2> DEFINE j == k - 1
             x == f[j].rest
             y == f[k].rest
             b == f[j].digits
             c == f[k].digits
             e == (x * 10) \div u
             o == n * Power(10, j)
  <2>1. j \in Nat /\ j + 1 = k /\ Good(j) /\ f[k] = NextQSplit(f[j], bits)
    BY <1>3, <1>9, <1>11
  <2>2. PICK r :
              /\ b \in Seq(0 .. 9) /\ Len(b) = j /\ x \in Nat /\ x < u
              /\ Reads(r, b, j, w) /\ r[j] \in Nat
              /\ r[j] * u + x = n * Power(10, j)
    BY <2>1 DEF Good
  <2>3. y = (x * 10) % u /\ c = Append(b, Least(e, 9))
    BY <2>1 DEF NextQSplit, QDigit, u
  <2>4. x * 10 = u * e + y /\ e \in Nat /\ y \in Nat /\ y < u
    <3>1. x * 10 \in Nat
      BY <2>2
    <3> DEFINE z == x * 10
    <3>2. z = u * (z \div u) + (z % u) /\ z \div u \in Nat /\ z % u \in Nat /\ z % u < u
      <4>1. z \in Nat
        BY <3>1
      <4> HIDE DEF z
      <4> QED
        BY <1>4, <4>1, QuotientOf
    <3> QED
      BY <2>3, <3>2
  <2>5. e <= 9
    <3>1. x * 10 < u * 10
      BY <1>4, <2>2
    <3> DEFINE z == x * 10
    <3>2. z \in Nat /\ z < u * 10
      BY <2>2, <3>1
    <3> HIDE DEF z
    <3>3. (z \div u < 10) <=> (z < u * 10)
      BY <1>4, <3>2, DivLess
    <3>4. z \div u < 10
      BY <3>2, <3>3
    <3> QED
      BY <2>4, <3>4 DEF z
  <2> HIDE DEF e
  <2>6. c = Append(b, e) /\ e \in 0 .. 9
    BY <2>3, <2>4, <2>5 DEF Least
  <2>7. k * 1 = k /\ Power(10, k) = 10 * Power(10, j) /\ Power(10, j) \in Nat
    <3>1. 10 \in Nat /\ 10 \in Nat \ {0}
      OBVIOUS
    <3>2. Power(10, j + 1) = 10 * Power(10, j)
      BY <2>1, <3>1, PowerNext
    <3> QED
      BY <1>9, <2>1, <3>1, <3>2, PowerPositive
  <2> DEFINE s2 == [h \in 0 .. k |-> IF h = k THEN r[j] * 10 + e ELSE r[h]]
  <2>8. s2[k] = r[j] * 10 + e /\ s2[j] = r[j] /\ \A h \in 0 .. j : s2[h] = r[h]
    BY <1>9, <2>1
  <2> HIDE DEF s2, x, y, b, c
  <2>9. c \in Seq(0 .. 9) /\ Len(c) = k /\ c[k] = e /\ \A h \in 1 .. j : c[h] = b[h]
    BY <2>1, <2>2, <2>6
  <2>10. Reads(s2, c, k, w)
    <3>1. ASSUME NEW h \in 1 .. k
          PROVE  s2[h - 1] \in Nat /\ c[h] \in 0 .. 9 /\ s2[h] = s2[h - 1] * 10 + c[h]
      <4>1. CASE h = k
        <5>1. h - 1 = j
          BY <2>1, <4>1
        <5> HIDE DEF j
        <5> QED
          BY <2>2, <2>6, <2>8, <2>9, <4>1, <5>1
      <4>2. CASE h # k
        <5>1. h \in 1 .. j /\ h - 1 \in 0 .. j /\ h \in 0 .. j
          BY <1>9, <2>1, <4>2
        <5> HIDE DEF j
        <5>2. r[h - 1] \in Nat /\ b[h] \in 0 .. 9 /\ r[h] = r[h - 1] * 10 + b[h]
          BY <2>2, <5>1 DEF Reads
        <5> QED
          BY <2>8, <2>9, <5>1, <5>2
      <4> QED
        BY <4>1, <4>2
    <3>2. s2[0] = w
      <4>1. 0 \in 0 .. j
        BY <2>1
      <4> QED
        BY <2>2, <2>8, <4>1 DEF Reads
    <3> QED
      BY <3>1, <3>2 DEF Reads
  <2>11. s2[k] \in Nat /\ s2[k] * u + y = n * Power(10, k)
    <3> DEFINE v == r[j]
               p == Power(10, j)
    <3>1. v \in Nat /\ p \in Nat /\ v * u + x = n * p /\ Power(10, k) = 10 * p /\ s2[k] = v * 10 + e
      BY <2>2, <2>7, <2>8
    <3> HIDE DEF v, p, j
    <3>2. (v * 10 + e) * u + y = 10 * (v * u) + (u * e + y)
      BY <1>4, <2>4, <3>1
    <3>3. 10 * (v * u) + x * 10 = 10 * (v * u + x)
      BY <1>4, <2>2, <3>1
    <3>4. 10 * (n * p) = n * (10 * p)
      BY <1>4, <3>1
    <3>5. (v * 10 + e) \in Nat
      BY <2>4, <3>1
    <3> QED
      BY <2>4, <3>1, <3>2, <3>3, <3>4, <3>5
  <2> QED
    BY <1>9, <2>4, <2>9, <2>10, <2>11 DEF Good, c, y
<1> QED
  BY <1>10, <1>11

(* Where the characters of a text stand that is put together.               *)
LEMMA OneBehind ==
    ASSUME NEW Z, NEW a \in Seq(Z), NEW b \in Seq(Z)
    PROVE  /\ a \o b \in Seq(Z) /\ Len(a \o b) = Len(a) + Len(b)
           /\ \A k \in 1 .. Len(a \o b) : (a \o b)[k] = (IF k <= Len(a) THEN a[k] ELSE b[k - Len(a)])
  OBVIOUS

LEMMA Joined ==
    ASSUME NEW Z, NEW a \in Seq(Z), NEW b \in Seq(Z), NEW c \in Seq(Z), NEW e \in Z,
           NEW t, t = Append((a \o b) \o c, e)
    PROVE  /\ Len(t) = Len(a) + Len(b) + Len(c) + 1 /\ t[Len(t)] = e
           /\ \A k \in 1 .. Len(a) : t[k] = a[k]
           /\ \A k \in 1 .. Len(b) : t[Len(a) + k] = b[k]
           /\ \A k \in 1 .. Len(c) : t[Len(a) + Len(b) + k] = c[k]
<1> DEFINE x == a \o b
           y == x \o c
<1>1. /\ x \in Seq(Z) /\ Len(x) = Len(a) + Len(b)
      /\ \A k \in 1 .. Len(x) : x[k] = (IF k <= Len(a) THEN a[k] ELSE b[k - Len(a)])
  BY OneBehind
<1>2. t = Append(y, e)
  OBVIOUS
<1> HIDE DEF x
<1>3. /\ y \in Seq(Z) /\ Len(y) = Len(x) + Len(c)
      /\ \A k \in 1 .. Len(y) : y[k] = (IF k <= Len(x) THEN x[k] ELSE c[k - Len(x)])
  <2>1. x \in Seq(Z) /\ c \in Seq(Z)
    BY <1>1
  <2> QED
    BY <2>1, OneBehind, Zenon
<1> HIDE DEF y
<1>4. /\ Len(t) = Len(y) + 1 /\ t[Len(y) + 1] = e
      /\ \A k \in 1 .. Len(y) : t[k] = y[k]
  BY <1>2, <1>3
<1> DEFINE i1 == Len(a)
           i2 == Len(b)
           i3 == Len(c)
           i4 == Len(x)
           i5 == Len(y)
<1>5. i1 \in Nat /\ i2 \in Nat /\ i3 \in Nat /\ i4 = i1 + i2 /\ i5 = i4 + i3
  BY <1>1, <1>3
<1>6. /\ \A k \in 1 .. i4 : x[k] = (IF k <= i1 THEN a[k] ELSE b[k - i1])
      /\ \A k \in 1 .. i5 : y[k] = (IF k <= i4 THEN x[k] ELSE c[k - i4])
      /\ \A k \in 1 .. i5 : t[k] = y[k]
  BY <1>1, <1>3, <1>4
<1>7. Len(t) = i1 + i2 + i3 + 1 /\ t[Len(t)] = e
  BY <1>4, <1>5
<1> HIDE DEF i1, i2, i3, i4, i5
<1>8. ASSUME NEW k \in 1 .. i1 PROVE t[k] = a[k]
  <2>1. k \in 1 .. i4 /\ k \in 1 .. i5 /\ k <= i4 /\ k <= i1
    BY <1>5
  <2> QED
    BY <1>6, <2>1
<1>9. ASSUME NEW k \in 1 .. i2 PROVE t[i1 + k] = b[k]
  <2> DEFINE h == i1 + k
  <2>1. h \in 1 .. i4 /\ h \in 1 .. i5 /\ h <= i4 /\ ~(h <= i1) /\ h - i1 = k
    BY <1>5
  <2> HIDE DEF h
  <2>2. t[h] = b[k]
    BY <1>6, <2>1
  <2> QED
    BY <2>2 DEF h
<1>10. ASSUME NEW k \in 1 .. i3 PROVE t[i1 + i2 + k] = c[k]
  <2> DEFINE h == i1 + i2 + k
  <2>1. h \in 1 .. i5 /\ ~(h <= i4) /\ h - i4 = k
    BY <1>5
  <2> HIDE DEF h
  <2>2. t[h] = c[k]
    BY <1>6, <2>1
  <2> QED
    BY <2>2 DEF h
<1> QED
  BY <1>7, <1>8, <1>9, <1>10 DEF i1, i2, i3

SignSize(q) == IF q < 0 THEN 1 ELSE 0

(* The text of a fixed-point number q / u, with places: a sign, the digits  *)
(* of the whole part, which read as f, a point and the places, which read   *)
(* on as g.                                                                 *)
QShape(t, q, u, prec, L, f, g) ==
    /\ L \in Nat \ {0} /\ (L = 1 \/ Power(10, L - 1) <= Abs(q) \div u)
    /\ Len(t) = SignSize(q) + L + prec + 2 /\ t[Len(t)] = NUL
    /\ q < 0 => t[1] = Minus
    /\ f[0] = 0 /\ f[L] = Abs(q) \div u
    /\ \A k \in 1 .. L : f[k - 1] \in Nat /\ t[SignSize(q) + k] \in 0 .. 9
                         /\ f[k] = f[k - 1] * 10 + t[SignSize(q) + k]
    /\ t[SignSize(q) + L + 1] = Dot
    /\ g[0] = f[L] /\ g[prec] \in Nat
    /\ \A k \in 1 .. prec : g[k - 1] \in Nat /\ t[SignSize(q) + L + 1 + k] \in 0 .. 9
                            /\ g[k] = g[k - 1] * 10 + t[SignSize(q) + L + 1 + k]
    /\ \E rest \in Nat : rest < u /\ g[prec] * u + rest = Abs(q) * Power(10, prec)

LEMMA QTextShape ==
    ASSUME NEW q \in Int, NEW bits \in Nat, NEW decimals \in Nat, NEW size \in Nat,
           NEW t \in Q_ToString(q, bits, decimals, size), Decimals(decimals) # 0
    PROVE  \E L, f, g : QShape(t, q, Power(2, bits), Decimals(decimals), L, f, g)
<1> DEFINE prec  == Decimals(decimals)
           parts == QParts(q, bits, prec)
           u == Power(2, bits)
           w == Abs(q) \div u
           a == Abs(q) % u
           D == Digits(w, 10)
           P == QPlaces(a, bits, prec)
           front == IF q < 0 THEN <<Minus>> ELSE << >>
           tail  == <<Dot>> \o P
           Z == (0 .. 9) \cup {Minus, Dot, NUL}
<1>1. prec \in Nat /\ prec # 0
  BY FixedAssumption DEF Decimals, Least
<1>2. u \in Nat \ {0} /\ Abs(q) \in Nat
  BY PowerPositive DEF Abs
<1>3. Abs(q) = u * w + a /\ w \in Nat /\ a \in Nat /\ a < u
  <2> DEFINE n == Abs(q)
  <2>1. n \in Nat
    BY <1>2
  <2> HIDE DEF n, u
  <2>2. n = u * (n \div u) + (n % u) /\ n \div u \in Nat /\ n % u \in Nat /\ n % u < u
    BY <1>2, <2>1, QuotientOf
  <2> QED
    BY <2>2 DEF n
<1>4. t \in Written(parts, prec, size)
  BY DEF Q_ToString
<1>5. parts.negative = (q < 0) /\ parts.whole = D /\ parts.places = P
  BY DEF QParts
<1> HIDE DEF parts, prec, a, w
<1>6. PICK L \in Nat \ {0} : \E f :
              /\ D \in Seq(0 .. 9) /\ Len(D) = L
              /\ Reads(f, D, L, 0) /\ f[L] = w
              /\ L = 1 \/ Power(10, L - 1) <= w
  BY <1>3, DigitsRead
<1>7. PICK f :
              /\ D \in Seq(0 .. 9) /\ Len(D) = L
              /\ Reads(f, D, L, 0) /\ f[L] = w
              /\ L = 1 \/ Power(10, L - 1) <= w
  BY <1>6
<1>8. PICK g :
              /\ P \in Seq(0 .. 9) /\ Len(P) = prec
              /\ Reads(g, P, prec, w) /\ g[prec] \in Nat
              /\ \E rest \in Nat : rest < u /\ g[prec] * u + rest = (w * u + a) * Power(10, prec)
  <2>1. PlacesSay(P, u, prec, w, a)
    BY <1>1, <1>3, PlacesRead
  <2> HIDE DEF P, u
  <2> QED
    BY <2>1 DEF PlacesSay
<1> HIDE DEF D, P
<1>9. t = Append((front \o D) \o tail, NUL)
  <2>1. parts.places # << >>
    BY <1>1, <1>5, <1>8
  <2>2. t = Append(TextOf(parts), NUL)
    BY <1>4 DEF Written
  <2> QED
    BY <1>5, <2>1, <2>2 DEF TextOf
<1>10. D \in Seq(Z) /\ P \in Seq(Z) /\ NUL \in Z /\ Dot \in Z /\ Minus \in Z
  BY <1>7, <1>8
<1> HIDE DEF Z
<1>11. front \in Seq(Z) /\ Len(front) = SignSize(q) /\ (q < 0 => front[1] = Minus)
  <2>1. <<Minus>> \in Seq(Z) /\ Len(<<Minus>>) = 1 /\ <<Minus>>[1] = Minus
    BY <1>10
  <2>2. << >> \in Seq(Z) /\ Len(<< >>) = 0
    OBVIOUS
  <2> QED
    BY <2>1, <2>2 DEF SignSize
<1>12. /\ tail \in Seq(Z) /\ Len(tail) = prec + 1 /\ tail[1] = Dot
       /\ \A k \in 1 .. prec : tail[k + 1] = P[k]
  <2>1. <<Dot>> \in Seq(Z) /\ Len(<<Dot>>) = 1 /\ <<Dot>>[1] = Dot
    BY <1>10
  <2> DEFINE o == <<Dot>>
  <2>2. o \in Seq(Z) /\ Len(o) = 1 /\ o[1] = Dot /\ tail = o \o P
    BY <2>1
  <2> HIDE DEF o, tail
  <2>3. /\ o \o P \in Seq(Z) /\ Len(o \o P) = 1 + prec
        /\ \A k \in 1 .. 1 + prec : (o \o P)[k] = (IF k <= 1 THEN o[k] ELSE P[k - 1])
    <3>1. /\ o \o P \in Seq(Z) /\ Len(o \o P) = Len(o) + Len(P)
          /\ \A k \in 1 .. Len(o \o P) : (o \o P)[k] = (IF k <= Len(o) THEN o[k] ELSE P[k - Len(o)])
      BY <1>10, <2>2, OneBehind, Zenon
    <3>2. Len(P) = prec /\ Len(o) = 1
      BY <1>8, <2>2
    <3> QED
      BY <3>1, <3>2
  <2> QED
    BY <1>1, <2>2, <2>3
<1> DEFINE z == SignSize(q)
<1>13. z \in Nat /\ (q < 0 => z = 1)
  BY DEF SignSize
<1> HIDE DEF front, tail, z
<1>14. /\ Len(t) = z + L + (prec + 1) + 1 /\ t[Len(t)] = NUL
       /\ \A k \in 1 .. z : t[k] = front[k]
       /\ \A k \in 1 .. L : t[z + k] = D[k]
       /\ \A k \in 1 .. prec + 1 : t[z + L + k] = tail[k]
  <2>1. Len(front) = z
    BY <1>11 DEF z
  <2>2. Len(D) = L /\ Len(tail) = prec + 1
    BY <1>7, <1>12
  <2>3. /\ Len(t) = Len(front) + Len(D) + Len(tail) + 1 /\ t[Len(t)] = NUL
        /\ \A k \in 1 .. Len(front) : t[k] = front[k]
        /\ \A k \in 1 .. Len(D) : t[Len(front) + k] = D[k]
        /\ \A k \in 1 .. Len(tail) : t[Len(front) + Len(D) + k] = tail[k]
    <3>1. front \in Seq(Z) /\ D \in Seq(Z) /\ tail \in Seq(Z) /\ NUL \in Z
      BY <1>10, <1>11, <1>12
    <3> HIDE DEF D, P
    <3> QED
      BY <1>9, <3>1, Joined
  <2> QED
    BY <2>1, <2>2, <2>3
<1>15. Len(t) = z + L + prec + 2
  BY <1>1, <1>7, <1>13, <1>14
<1>16. q < 0 => t[1] = Minus
  BY <1>11, <1>13, <1>14
<1>17. t[z + L + 1] = Dot
  BY <1>1, <1>12, <1>14
<1>18. ASSUME NEW k \in 1 .. L
       PROVE  f[k - 1] \in Nat /\ t[z + k] \in 0 .. 9 /\ f[k] = f[k - 1] * 10 + t[z + k]
  BY <1>7, <1>14 DEF Reads
<1>19. ASSUME NEW k \in 1 .. prec
       PROVE  /\ g[k - 1] \in Nat /\ t[z + L + 1 + k] \in 0 .. 9
              /\ g[k] = g[k - 1] * 10 + t[z + L + 1 + k]
  <2> DEFINE h == k + 1
  <2>1. h \in 1 .. prec + 1 /\ z + L + h = z + L + 1 + k
    BY <1>1, <1>7, <1>13
  <2>2. t[z + L + h] = tail[h]
    BY <1>14, <2>1
  <2>3. t[z + L + 1 + k] = P[k]
    BY <1>12, <2>1, <2>2
  <2> QED
    BY <1>8, <2>3 DEF Reads
<1>20. \E rest \in Nat : rest < u /\ g[prec] * u + rest = Abs(q) * Power(10, prec)
  <2>1. w * u + a = Abs(q)
    <3> HIDE DEF u
    <3> QED
      BY <1>2, <1>3
  <2> QED
    BY <1>8, <2>1
<1>21. f[0] = 0 /\ f[L] = Abs(q) \div u /\ g[0] = f[L]
       /\ (L = 1 \/ Power(10, L - 1) <= Abs(q) \div u)
  BY <1>7, <1>8 DEF Reads, w
<1>22. QShape(t, q, u, prec, L, f, g)
  <2> HIDE DEF u
  <2> QED
    BY <1>7, <1>8, <1>14, <1>15, <1>16, <1>17, <1>18, <1>19, <1>20, <1>21 DEF QShape, z
<1> QED
  BY <1>22 DEF prec

-----------------------------------------------------------------------------
(* EDC_StringTo_Q, of what EDC_Q_ToString has written: the characters as    *)
(* they are met.                                                            *)
QLayout(q, prec, L, f, g, z) ==
    /\ z \in 0 .. 1 /\ L \in Nat \ {0} /\ Len(str) - 1 = z + L + 1 + prec
    /\ f[0] = 0 /\ g[0] = f[L] /\ (z = 1 <=> q < 0) /\ (z = 1 => At(0) = Minus)
    /\ \A k \in 0 .. L - 1 : /\ z + k < max_len /\ At(z + k) \in 0 .. 9
                             /\ f[k + 1] = f[k] * 10 + At(z + k)
    /\ z + L < max_len /\ At(z + L) = Dot
    /\ \A k \in 0 .. prec - 1 : /\ z + L + 1 + k < max_len /\ At(z + L + 1 + k) \in 0 .. 9
                                /\ g[k + 1] = g[k] * 10 + At(z + L + 1 + k)
    /\ At(z + L + 1 + prec) = NUL

LEMMA QCharacters ==
    ASSUME NEW q \in Int, NEW u, NEW prec \in Nat, NEW L, NEW f, NEW g,
           QShape(str, q, u, prec, L, f, g), max_len \in Nat, Len(str) - 1 <= max_len
    PROVE  QLayout(q, prec, L, f, g, SignSize(q))
<1> DEFINE z == SignSize(q)
<1>1. z \in 0 .. 1 /\ (z = 1 <=> q < 0) /\ L \in Nat \ {0}
  BY DEF SignSize, QShape
<1>2. /\ Len(str) = z + L + prec + 2 /\ str[Len(str)] = NUL
      /\ (q < 0 => str[1] = Minus) /\ str[z + L + 1] = Dot
      /\ f[0] = 0 /\ g[0] = f[L]
  BY DEF QShape
<1>3. /\ \A k \in 1 .. L : str[z + k] \in 0 .. 9 /\ f[k] = f[k - 1] * 10 + str[z + k]
      /\ \A k \in 1 .. prec : str[z + L + 1 + k] \in 0 .. 9
                              /\ g[k] = g[k - 1] * 10 + str[z + L + 1 + k]
  BY DEF QShape
<1> HIDE DEF z
<1>4. Len(str) - 1 = z + L + 1 + prec /\ z + L + 1 + prec <= max_len
  BY <1>1, <1>2
<1>5. ASSUME NEW k \in 0 .. L - 1
      PROVE  /\ z + k < max_len /\ At(z + k) \in 0 .. 9 /\ f[k + 1] = f[k] * 10 + At(z + k)
  <2> DEFINE h == k + 1
  <2>1. h \in 1 .. L /\ h - 1 = k /\ z + k + 1 = z + h /\ z + k < max_len
    BY <1>1, <1>4
  <2>2. At(z + k) = str[z + h]
    BY <2>1 DEF At
  <2>3. str[z + h] \in 0 .. 9 /\ f[h] = f[h - 1] * 10 + str[z + h]
    BY <1>3, <2>1
  <2> QED
    BY <2>1, <2>2, <2>3
<1>6. ASSUME NEW k \in 0 .. prec - 1
      PROVE  /\ z + L + 1 + k < max_len /\ At(z + L + 1 + k) \in 0 .. 9
             /\ g[k + 1] = g[k] * 10 + At(z + L + 1 + k)
  <2> DEFINE h == k + 1
  <2>1. /\ h \in 1 .. prec /\ h - 1 = k /\ z + L + 1 + k + 1 = z + L + 1 + h
        /\ z + L + 1 + k < max_len
    BY <1>1, <1>4
  <2>2. At(z + L + 1 + k) = str[z + L + 1 + h]
    BY <2>1 DEF At
  <2>3. str[z + L + 1 + h] \in 0 .. 9 /\ g[h] = g[h - 1] * 10 + str[z + L + 1 + h]
    BY <1>3, <2>1
  <2> QED
    BY <2>1, <2>2, <2>3
<1>7. z + L < max_len /\ At(z + L) = Dot /\ (z = 1 => At(0) = Minus) /\ At(z + L + 1 + prec) = NUL
  <2>1. z + L < max_len /\ z + L + 1 + prec + 1 = Len(str)
    BY <1>1, <1>2, <1>4
  <2>2. At(z + L) = str[z + L + 1] /\ At(0) = str[1] /\ At(z + L + 1 + prec) = str[Len(str)]
    BY <2>1 DEF At
  <2> QED
    BY <1>1, <1>2, <2>1, <2>2
<1>8. QLayout(q, prec, L, f, g, z)
  BY <1>1, <1>2, <1>4, <1>5, <1>6, <1>7 DEF QLayout
<1> QED
  BY <1>8 DEF z

LEMMA QFront ==
    ASSUME NEW q \in Int, NEW u, NEW prec \in Nat, NEW L, NEW f, NEW g,
           QShape(str, q, u, prec, L, f, g), max_len \in Nat, Len(str) - 1 <= max_len
    PROVE  ~Blank /\ AfterSign = SignSize(q) /\ (At(Skipped) = Minus <=> q < 0)
<1> DEFINE z == SignSize(q)
<1>1. z \in 0 .. 1 /\ L \in Nat \ {0} /\ Len(str) - 1 = z + L + 1 + prec
      /\ (z = 1 <=> q < 0) /\ (z = 1 => At(0) = Minus)
      /\ \A k \in 0 .. L - 1 : At(z + k) \in 0 .. 9
  <2>1. QLayout(q, prec, L, f, g, z)
    BY QCharacters
  <2> HIDE DEF z
  <2> QED
    BY <2>1 DEF QLayout
<1>2. At(0) = Minus \/ At(0) \in 0 .. 9
  <2>1. CASE z = 0
    <3>1. 0 \in 0 .. L - 1 /\ z + 0 = 0
      BY <1>1, <2>1
    <3> QED
      BY <1>1, <3>1
  <2>2. CASE z = 1
    BY <1>1, <2>2
  <2> QED
    BY <1>1, <2>1, <2>2
<1>3. z = 0 => At(0) \in 0 .. 9
  <2>1. SUFFICES ASSUME z = 0 PROVE At(0) \in 0 .. 9
    OBVIOUS
  <2>2. 0 \in 0 .. L - 1 /\ z + 0 = 0
    BY <1>1, <2>1
  <2> QED
    BY <1>1, <2>2
<1>4. Minus \notin 0 .. 9 /\ Plus \notin 0 .. 9 /\ Space \notin 0 .. 9 /\ NUL \notin 0 .. 9
      /\ Minus # Space /\ Minus # NUL
  BY DEF Minus, Plus, Space, NUL
<1>5. At(0) # Space /\ At(0) # NUL
  BY <1>2, <1>4
<1>6. max_len # 0 /\ 0 \in 0 .. max_len
  BY <1>1
<1>7. Skipped = 0
  <2> DEFINE Ends(k) == /\ k = max_len \/ At(k) # Space
                        /\ \A j \in 0 .. k - 1 : At(j) = Space
  <2>1. 0 \in 0 .. max_len /\ Ends(0)
    BY <1>5, <1>6
  <2>2. \A k \in 0 .. max_len : Ends(k) => k = 0
    <3>1. SUFFICES ASSUME NEW k \in 0 .. max_len, Ends(k), k # 0 PROVE FALSE
      OBVIOUS
    <3>2. 0 \in 0 .. k - 1
      BY <3>1
    <3> QED
      BY <1>5, <3>1, <3>2
  <2>3. Skipped = CHOOSE k \in 0 .. max_len : Ends(k)
    BY DEF Skipped
  <2> HIDE DEF Ends
  <2> QED
    BY <2>1, <2>2, <2>3
<1>8. ~Blank
  BY <1>5, <1>6, <1>7 DEF Blank
<1>9. At(Skipped) = Minus <=> q < 0
  BY <1>1, <1>3, <1>4, <1>7
<1> HIDE DEF z
<1>10. AfterSign = z
  <2>1. CASE z = 0
    BY <1>3, <1>4, <1>7, <2>1 DEF AfterSign
  <2>2. CASE z = 1
    BY <1>1, <1>7, <2>2 DEF AfterSign
  <2> QED
    BY <1>1, <2>1, <2>2
<1> QED
  BY <1>8, <1>9, <1>10 DEF z

(* All of it is looked at, even when no length is given.                    *)
LEMMA QFits ==
    ASSUME NEW q \in -(QMax + 1) .. QMax, NEW u \in Nat \ {0}, NEW prec \in 0 .. MaxDecimals,
           NEW L, NEW f, NEW g, QShape(str, q, u, prec, L, f, g), max_len \in Lengths(str)
    PROVE  max_len \in Nat /\ Len(str) - 1 <= max_len
<1> DEFINE K == StrCap - MaxDecimals - 2
           z == SignSize(q)
<1>1. MaxDecimals \in Nat /\ StrCap \in Nat /\ QMax \in Nat /\ MaxDecimals + 2 < StrCap
      /\ QMax + 1 < Power(10, K)
  BY FixedAssumption, TextAssumption, LengthAssumption
<1>2. K \in Nat /\ K # 0 /\ z \in 0 .. 1 /\ L \in Nat \ {0}
      /\ (L = 1 \/ Power(10, L - 1) <= Abs(q) \div u) /\ Len(str) = z + L + prec + 2
  BY <1>1 DEF SignSize, QShape
<1>3. L <= K
  <2>1. SUFFICES ASSUME K < L PROVE FALSE
    BY <1>2
  <2>2. L # 1 /\ L - 1 \in Nat /\ K <= L - 1 /\ 10 \in Nat \ {0}
    <3> HIDE DEF K, z
    <3> QED
      BY <1>2, <2>1
  <2>3. Power(10, K) <= Power(10, L - 1) /\ Power(10, K) \in Nat /\ Power(10, L - 1) \in Nat
    <3> DEFINE j == L - 1
    <3>1. j \in Nat /\ K <= j
      BY <2>2
    <3> HIDE DEF j, K
    <3>2. Power(10, K) <= Power(10, j) /\ Power(10, K) \in Nat /\ Power(10, j) \in Nat
      BY <1>2, <2>2, <3>1, PowerGrows, PowerPositive
    <3> QED
      BY <3>2 DEF j
  <2>4. Abs(q) \in Nat /\ Abs(q) <= QMax + 1
    BY <1>1 DEF Abs
  <2> DEFINE n == Abs(q)
             w == n \div u
             p1 == Power(10, K)
             p2 == Power(10, L - 1)
  <2>5. w \in Nat /\ w <= n
    <3>1. n \in Nat
      BY <2>4
    <3> HIDE DEF n
    <3>2. n = u * (n \div u) + (n % u) /\ n \div u \in Nat /\ n % u \in Nat
      BY <3>1, QuotientOf
    <3>3. w \in Nat /\ n % u \in Nat /\ n = u * w + (n % u)
      BY <3>2
    <3> HIDE DEF w
    <3> DEFINE r == n % u
    <3>4. r \in Nat /\ n = u * w + r
      BY <3>3
    <3> HIDE DEF r
    <3>5. w * 1 <= w * u
      <4>1. 1 \in Nat /\ 1 <= u
        OBVIOUS
      <4> QED
        BY <3>3, <4>1, ProductLess
    <3>6. u * w \in Nat /\ w <= u * w
      BY <3>3, <3>5
    <3> QED
      BY <3>3, <3>4, <3>6
  <2>6. p2 <= w
    BY <1>2, <2>2
  <2>7. n \in Nat /\ n <= QMax + 1 /\ QMax + 1 < p1 /\ p1 <= p2 /\ p1 \in Nat /\ p2 \in Nat
    BY <1>1, <2>3, <2>4
  <2> HIDE DEF n, w, p1, p2
  <2> QED
    BY <1>1, <2>5, <2>6, <2>7
<1> DEFINE n == z + L + prec + 1
<1>4. n \in Nat /\ n <= StrCap /\ Len(str) = n + 1
  BY <1>1, <1>2, <1>3
<1> HIDE DEF n, z, K
<1>5. max_len \in Nat /\ n <= max_len
  BY <1>4, Capped
<1> QED
  BY <1>4, <1>5

(* Where the call stands: what it has read is what was written, so far.     *)
QAtStart == phase = "START" /\ status = "RUNNING" /\ numeral = 0

QInWhole(p, L, f) ==
    /\ phase = "INTEGER" /\ status = "RUNNING" /\ (is_negative <=> p.value < 0)
    /\ \E k \in 0 .. L : idx = SignSize(p.value) + k /\ numeral = f[k] /\ (k # 0 => digits_found)

QInPlaces(p, L, g) ==
    /\ phase = "FRACTION" /\ (is_negative <=> p.value < 0) /\ digits_found
    /\ places \in 0 .. p.decimals /\ idx = SignSize(p.value) + L + 1 + places
    /\ numeral = g[places]
    /\ \/ status = "RUNNING"
       \/ /\ places = p.decimals
          /\ status = "OK" \/ status = (IF is_negative THEN "UNDERFLOW" ELSE "OVERFLOW")

QText(p, L, f, g) ==
    /\ p.value \in -(QMax + 1) .. QMax /\ p.decimals \in 1 .. MaxDecimals
    /\ QShape(str, p.value, Power(2, frac_bits), p.decimals, L, f, g)
    /\ max_len \in Nat /\ Len(str) - 1 <= max_len

ReadingInv ==
    parser = "StringTo_Q" =>
        \A p \in printed : p.decimals # 0 =>
            \E L, f, g : QText(p, L, f, g) /\ (QAtStart \/ QInWhole(p, L, f) \/ QInPlaces(p, L, g))

LEMMA ReadingInit_Inv ==
    ASSUME Init
    PROVE  ReadingInv
<1>1. SUFFICES ASSUME parser = "StringTo_Q", NEW p \in printed, p.decimals # 0
               PROVE  \E L, f, g : QText(p, L, f, g) /\ QAtStart
  BY DEF ReadingInv
<1>2. PrintedQ /\ frac_bits \in FracBits /\ max_len \in Lengths(str) /\ QAtStart
  BY <1>1 DEF Init, Typed, PrintedPlain, PrintingScientific, PrintedQ, PrintedBool, Converting,
              ConvertingBack, FloatParsers, Converters, QAtStart
<1>3. PICK q \in -(QMax + 1) .. QMax, decimals \in DecimalCounts, size \in BufSizes :
          /\ str \in Q_ToString(q, frac_bits, decimals, size)
          /\ printed = {[value |-> q, decimals |-> Decimals(decimals), size |-> size]}
  BY <1>2 DEF PrintedQ
<1>4. p.value = q /\ p.decimals = Decimals(decimals)
  BY <1>1, <1>3
<1>5. q \in Int /\ frac_bits \in Nat /\ decimals \in Nat /\ size \in Nat
  BY <1>2, TextAssumption, FixedAssumption
<1>6. PICK L, f, g : QShape(str, q, Power(2, frac_bits), Decimals(decimals), L, f, g)
  BY <1>1, <1>3, <1>4, <1>5, QTextShape
<1>7. Decimals(decimals) \in 0 .. MaxDecimals /\ MaxDecimals \in Nat
  BY <1>5, FixedAssumption DEF Decimals, Least
<1>8. max_len \in Nat /\ Len(str) - 1 <= max_len
  <2> DEFINE u == Power(2, frac_bits)
             prec == Decimals(decimals)
  <2>1. u \in Nat \ {0}
    BY <1>5, PowerPositive
  <2>2. QShape(str, q, u, prec, L, f, g) /\ prec \in 0 .. MaxDecimals
    BY <1>6, <1>7
  <2> HIDE DEF u, prec
  <2> QED
    BY <1>2, <2>1, <2>2, QFits
<1>9. QText(p, L, f, g)
  BY <1>1, <1>4, <1>6, <1>7, <1>8 DEF QText
<1> QED
  BY <1>2, <1>9

(* There is room for one place more, as long as fewer were read than are    *)
(* written.                                                                 *)
LEMMA MoreIsRead ==
    ASSUME NEW k \in Nat, k < MaxDecimals
    PROVE  Power(10, k) <= PlacesLimit
<1>1. MaxDecimals \in Nat /\ PlacesLimit \in Nat /\ Power(10, MaxDecimals) <= 10 * PlacesLimit
      /\ 10 \in Nat \ {0}
  BY FixedAssumption, LimitsAssumption, LengthAssumption
<1> DEFINE j == k + 1
           x == Power(10, k)
           y == Power(10, MaxDecimals)
<1>2. j \in Nat /\ j <= MaxDecimals
  BY <1>1
<1>3. Power(10, k + 1) = 10 * Power(10, k) /\ Power(10, k) \in Nat
  BY <1>1, PowerNext, PowerPositive
<1>4. Power(10, j) = 10 * x /\ x \in Nat
  BY <1>3
<1> HIDE DEF j
<1>5. Power(10, j) <= y /\ y \in Nat
  BY <1>1, <1>2, PowerGrows, PowerPositive
<1> HIDE DEF x, y
<1>6. x <= PlacesLimit
  BY <1>1, <1>4, <1>5 DEF y
<1> QED
  BY <1>6 DEF x

LEMMA ReadingNext_Inv ==
    ASSUME FixedInv, ReadingInv, [Next]_vars
    PROVE  ReadingInv'
<1>1. SUFFICES ASSUME parser' = "StringTo_Q", NEW p \in printed', p.decimals # 0
               PROVE  \E L, f, g : /\ QText(p, L, f, g)'
                                   /\ QAtStart' \/ QInWhole(p, L, f)' \/ QInPlaces(p, L, g)'
  BY DEF ReadingInv
<1>2. parser = "StringTo_Q" /\ frac_bits' = frac_bits /\ printed' = printed
  BY <1>1 DEF Next, Divide, Multiply, PrintScientific, DoesNotFit, NoText, NotANumber, Infinite, Begin,
              IntegerDigit, Point, FractionDigit, NoDigits, Exponent, ExponentDigit, PowerOfTen,
              Finish, FinishQ, TooGreat, ReadBool, NoBool, Convert, Saturate, DoesNotSaturate,
              Returned, Return, vars, call
<1>3. PICK L, f, g :
          QText(p, L, f, g) /\ (QAtStart \/ QInWhole(p, L, f) \/ QInPlaces(p, L, g))
  BY <1>1, <1>2 DEF ReadingInv
<1>4. /\ phase \in {"START", "INTEGER", "FRACTION"} /\ places \in Nat
      /\ phase # "FRACTION" => places = 0
      /\ frac_div = Power(10, places)
  BY <1>2 DEF FixedInv
<1>5. parser \notin FloatParsers /\ parser # "StringToBool"
  BY <1>2 DEF FloatParsers
<1> DEFINE q == p.value
           prec == p.decimals
           u == Power(2, frac_bits)
           z == SignSize(q)
<1>6. /\ q \in Int /\ prec \in Nat /\ prec # 0 /\ prec <= MaxDecimals
      /\ QShape(str, q, u, prec, L, f, g) /\ max_len \in Nat /\ Len(str) - 1 <= max_len
  BY <1>3, FixedAssumption DEF QText
<1> HIDE DEF z, q, prec, u
<1>7. /\ z \in 0 .. 1 /\ L \in Nat \ {0} /\ Len(str) - 1 = z + L + 1 + prec
      /\ f[0] = 0 /\ g[0] = f[L]
      /\ \A k \in 0 .. L - 1 : /\ z + k < max_len /\ At(z + k) \in 0 .. 9
                               /\ f[k + 1] = f[k] * 10 + At(z + k)
      /\ z + L < max_len /\ At(z + L) = Dot
      /\ \A k \in 0 .. prec - 1 : /\ z + L + 1 + k < max_len /\ At(z + L + 1 + k) \in 0 .. 9
                                  /\ g[k + 1] = g[k] * 10 + At(z + L + 1 + k)
      /\ At(z + L + 1 + prec) = NUL
  <2>1. QLayout(q, prec, L, f, g, SignSize(q))
    BY <1>6, QCharacters
  <2>2. QLayout(q, prec, L, f, g, z)
    BY <2>1 DEF z
  <2> QED
    BY <2>2 DEF QLayout
<1>8. ~Blank /\ AfterSign = z /\ (At(Skipped) = Minus <=> q < 0)
  BY <1>6, QFront DEF z
<1>9. Dot \notin 0 .. 9 /\ NUL \notin 0 .. 9
  BY DEF Dot, NUL
<1>10. str' = str /\ max_len' = max_len => QText(p, L, f, g)'
  BY <1>2, <1>3 DEF QText
<1>11. SUFFICES str' = str /\ max_len' = max_len
                /\ (QAtStart' \/ QInWhole(p, L, f)' \/ QInPlaces(p, L, g)')
  BY <1>10
(* Within the whole part, what comes next is a digit, or the point.         *)
<1>12. ASSUME QInWhole(p, L, f)
       PROVE  \E k \in 0 .. L :
                 /\ idx = z + k /\ numeral = f[k] /\ (k # 0 => digits_found)
                 /\ IF k = L THEN ~AtDigit /\ idx < max_len /\ At(idx) = Dot
                    ELSE /\ AtDigit /\ f[k + 1] = f[k] * 10 + At(idx) /\ k + 1 \in 0 .. L
                         /\ idx + 1 = z + (k + 1)
  <2>1. PICK k \in 0 .. L : idx = z + k /\ numeral = f[k] /\ (k # 0 => digits_found)
    BY <1>12 DEF QInWhole, z, q
  <2>2. CASE k = L
    BY <1>7, <1>9, <2>1, <2>2 DEF AtDigit
  <2>3. CASE k # L
    <3>1. k \in 0 .. L - 1 /\ k + 1 \in 0 .. L /\ z + k + 1 = z + (k + 1)
      BY <1>7, <2>1, <2>3
    <3> QED
      BY <1>7, <2>1, <2>3, <3>1 DEF AtDigit
  <2> QED
    BY <2>1, <2>2, <2>3
(* Behind the point, it is a digit as long as there are places.             *)
<1>13. ASSUME QInPlaces(p, L, g)
       PROVE  /\ idx = z + L + 1 + places /\ numeral = g[places] /\ digits_found
              /\ places \in 0 .. prec /\ (is_negative <=> q < 0)
              /\ places = prec => ~AtPlace
              /\ places # prec =>
                    /\ AtPlace /\ g[places + 1] = g[places] * 10 + At(idx)
                    /\ idx + 1 = z + L + 1 + (places + 1) /\ places + 1 \in 0 .. prec
  <2>1. /\ idx = z + L + 1 + places /\ numeral = g[places] /\ digits_found /\ phase = "FRACTION"
        /\ places \in 0 .. prec /\ (is_negative <=> q < 0)
    BY <1>13 DEF QInPlaces, z, q, prec
  <2>2. ASSUME places = prec PROVE ~AtPlace
    BY <1>7, <1>9, <2>1, <2>2 DEF AtPlace, AtDigit
  <2>3. ASSUME places # prec
        PROVE  /\ AtPlace /\ g[places + 1] = g[places] * 10 + At(idx)
               /\ idx + 1 = z + L + 1 + (places + 1) /\ places + 1 \in 0 .. prec
    <3>1. /\ places \in 0 .. prec - 1 /\ places + 1 \in 0 .. prec /\ places < MaxDecimals
          /\ idx + 1 = z + L + 1 + (places + 1)
      BY <1>6, <1>7, <2>1, <2>3, FixedAssumption
    <3>2. AtDigit /\ g[places + 1] = g[places] * 10 + At(idx)
      BY <1>7, <2>1, <3>1 DEF AtDigit
    <3>3. MoreAllowed
      BY <1>4, <3>1, MoreIsRead DEF MoreAllowed
    <3> QED
      BY <2>1, <3>1, <3>2, <3>3 DEF AtPlace
  <2> QED
    BY <2>1, <2>2, <2>3
<1>14. CASE Begin
  <2>1. /\ phase' = "INTEGER" /\ status' = "RUNNING" /\ idx' = AfterSign /\ numeral' = numeral
        /\ (is_negative' <=> At(Skipped) = Minus) /\ str' = str /\ max_len' = max_len
        /\ phase = "START"
    BY <1>14 DEF Begin, Starting, text, history
  <2>2. numeral = 0
    BY <1>3, <2>1 DEF QAtStart, QInWhole, QInPlaces
  <2>3. 0 \in 0 .. L /\ idx' = z + 0 /\ numeral' = f[0] /\ (is_negative' <=> q < 0)
    BY <1>7, <1>8, <2>1, <2>2
  <2>4. QInWhole(p, L, f)'
    BY <2>1, <2>3 DEF QInWhole, z, q
  <2> QED
    BY <2>1, <2>4
<1>15. CASE IntegerDigit
  <2>1. /\ phase' = "INTEGER" /\ status' = "RUNNING" /\ idx' = idx + 1 /\ digits_found'
        /\ numeral' = numeral * 10 + At(idx) /\ is_negative' = is_negative
        /\ str' = str /\ max_len' = max_len /\ phase = "INTEGER" /\ AtDigit
    BY <1>15 DEF IntegerDigit, Took, Digit, text
  <2>2. QInWhole(p, L, f)
    BY <1>3, <2>1 DEF QAtStart, QInPlaces
  <2>3. PICK k \in 0 .. L :
                 /\ idx = z + k /\ numeral = f[k] /\ (k # 0 => digits_found)
                 /\ IF k = L THEN ~AtDigit /\ idx < max_len /\ At(idx) = Dot
                    ELSE /\ AtDigit /\ f[k + 1] = f[k] * 10 + At(idx) /\ k + 1 \in 0 .. L
                         /\ idx + 1 = z + (k + 1)
    BY <1>12, <2>2
  <2>4. k + 1 \in 0 .. L /\ idx' = z + (k + 1) /\ numeral' = f[k + 1]
    BY <2>1, <2>3
  <2>5. is_negative' <=> p.value < 0
    BY <2>1, <2>2 DEF QInWhole
  <2>6. QInWhole(p, L, f)'
    BY <2>1, <2>4, <2>5 DEF QInWhole, z, q
  <2> QED
    BY <2>1, <2>6
<1>16. CASE Point
  <2>1. /\ phase' = "FRACTION" /\ status' = "RUNNING" /\ idx' = idx + 1 /\ digits_found' = digits_found
        /\ numeral' = numeral /\ is_negative' = is_negative /\ places' = places
        /\ str' = str /\ max_len' = max_len /\ phase = "INTEGER" /\ ~AtDigit
    BY <1>16 DEF Point, AtPoint, text, history
  <2>2. QInWhole(p, L, f)
    BY <1>3, <2>1 DEF QAtStart, QInPlaces
  <2>3. PICK k \in 0 .. L :
                 /\ idx = z + k /\ numeral = f[k] /\ (k # 0 => digits_found)
                 /\ IF k = L THEN ~AtDigit /\ idx < max_len /\ At(idx) = Dot
                    ELSE /\ AtDigit /\ f[k + 1] = f[k] * 10 + At(idx) /\ k + 1 \in 0 .. L
                         /\ idx + 1 = z + (k + 1)
    BY <1>12, <2>2
  <2>4. k = L /\ k # 0 /\ places' = 0
    BY <1>4, <1>7, <2>1, <2>3
  <2>5. idx' = z + L + 1 + places' /\ numeral' = g[places'] /\ digits_found' /\ places' \in 0 .. prec
    BY <1>6, <1>7, <2>1, <2>3, <2>4
  <2>6. is_negative' <=> p.value < 0
    BY <2>1, <2>2 DEF QInWhole
  <2>7. QInPlaces(p, L, g)'
    BY <2>1, <2>5, <2>6 DEF QInPlaces, z, q, prec
  <2> QED
    BY <2>1, <2>7
<1>17. CASE FractionDigit
  <2>1. /\ phase' = "FRACTION" /\ status' = "RUNNING" /\ idx' = idx + 1 /\ digits_found'
        /\ numeral' = numeral * 10 + At(idx) /\ is_negative' = is_negative /\ places' = places + 1
        /\ str' = str /\ max_len' = max_len /\ phase = "FRACTION" /\ AtPlace
    BY <1>17 DEF FractionDigit, AtPlace, Took, Digit, text
  <2>2. QInPlaces(p, L, g)
    BY <1>3, <2>1 DEF QAtStart, QInWhole
  <2>3. /\ places' \in 0 .. prec /\ numeral' = g[places'] /\ idx' = z + L + 1 + places'
        /\ (is_negative' <=> q < 0)
    BY <1>13, <2>1, <2>2
  <2>4. QInPlaces(p, L, g)'
    BY <2>1, <2>3 DEF QInPlaces, z, q, prec
  <2> QED
    BY <2>1, <2>4
(* Nothing ends within the whole part, or before all places are read.       *)
<1>18. ASSUME Counted PROVE QInPlaces(p, L, g) /\ places = prec /\ digits_found
  <2>1. status = "RUNNING" /\ phase \in {"INTEGER", "FRACTION"}
        /\ (phase = "INTEGER" => ~AtDigit /\ ~AtPoint) /\ (phase = "FRACTION" => ~AtPlace)
    BY <1>18 DEF Counted
  <2>2. ~QInWhole(p, L, f)
    <3>1. SUFFICES ASSUME QInWhole(p, L, f) PROVE FALSE
      OBVIOUS
    <3>2. phase = "INTEGER"
      BY <3>1 DEF QInWhole
    <3>3. PICK k \in 0 .. L :
                 /\ IF k = L THEN ~AtDigit /\ idx < max_len /\ At(idx) = Dot
                    ELSE AtDigit
      BY <1>12, <3>1
    <3> QED
      BY <2>1, <3>2, <3>3 DEF AtPoint
  <2>3. QInPlaces(p, L, g)
    BY <1>3, <2>1, <2>2 DEF QAtStart
  <2>4. phase = "FRACTION"
    BY <2>3 DEF QInPlaces
  <2> QED
    BY <1>13, <2>1, <2>3, <2>4
<1>19. ASSUME QInPlaces(p, L, g), places = prec, UNCHANGED <<call, text, scan>>,
              status' = "OK" \/ status' = (IF is_negative THEN "UNDERFLOW" ELSE "OVERFLOW")
       PROVE  str' = str /\ max_len' = max_len /\ QInPlaces(p, L, g)'
  <2>1. /\ str' = str /\ max_len' = max_len /\ phase' = phase /\ idx' = idx /\ numeral' = numeral
        /\ is_negative' = is_negative /\ places' = places /\ digits_found' = digits_found
    BY <1>19 DEF text, scan, history
  <2>2. status' = "OK" \/ status' = (IF is_negative' THEN "UNDERFLOW" ELSE "OVERFLOW")
    BY <1>19, <2>1
  <2>3. places' = p.decimals
    BY <1>19, <2>1 DEF prec
  <2> QED
    BY <1>19, <2>1, <2>2, <2>3 DEF QInPlaces
<1>20. CASE FinishQ
  <2>1. Completed /\ UNCHANGED <<call, text, scan>> /\ status' = "OK"
    BY <1>20 DEF FinishQ, Deliver
  <2>2. Counted
    BY <1>4, <2>1 DEF Completed
  <2> QED
    BY <1>18, <1>19, <2>1, <2>2
<1>21. CASE TooGreat
  <2>1. Completed /\ UNCHANGED <<call, text, scan>>
        /\ status' = (IF is_negative THEN "UNDERFLOW" ELSE "OVERFLOW")
    BY <1>21 DEF TooGreat, Return
  <2>2. Counted
    BY <1>4, <2>1 DEF Completed
  <2> QED
    BY <1>18, <1>19, <2>1, <2>2
<1>22. CASE UNCHANGED vars \/ Returned
  <2>1. /\ str' = str /\ max_len' = max_len /\ phase' = phase /\ idx' = idx /\ numeral' = numeral
        /\ is_negative' = is_negative /\ places' = places /\ digits_found' = digits_found
        /\ status' = status
    BY <1>22 DEF vars, Returned, text, scan, history
  <2> QED
    BY <1>3, <2>1 DEF QAtStart, QInWhole, QInPlaces
<1>23. ~NoText /\ ~NoDigits /\ ~NoBool
  BY <1>5, <1>8, <1>18 DEF NoText, NoDigits, NoBool
<1>24. ~(Divide \/ Multiply \/ PrintScientific \/ DoesNotFit \/ Exponent \/ ExponentDigit
         \/ PowerOfTen \/ Finish \/ ReadBool \/ NotANumber \/ Infinite
         \/ Convert \/ Saturate \/ DoesNotSaturate)
  BY <1>4, <1>5 DEF Divide, Multiply, PrintScientific, DoesNotFit, Scaled, Scaling, Exponent,
       ExponentDigit, PowerOfTen, Finish, ReadBool, NotANumber, Infinite, IsNaN, IsInf, AtExponent,
       Convert, Saturate, DoesNotSaturate
<1> QED
  BY <1>14, <1>15, <1>16, <1>17, <1>20, <1>21, <1>22, <1>23, <1>24 DEF Next

(* What is read is less than u / 10^prec below the number that was written, *)
(* and rounds to it.                                                        *)
LEMMA RoundsBack ==
    ASSUME NEW n \in Nat, NEW u \in Nat \ {0}, NEW p \in Nat \ {0}, NEW v \in Nat, NEW rest \in Nat,
           rest < u, v * u + rest = n * p, 2 * u <= p
    PROVE  (2 * v * u + p) \div (2 * p) = n
<1> DEFINE x == v * u
           y == n * p
           a == 2 * v * u + p
           b == 2 * p
           r == p - 2 * rest
<1>1. x \in Nat /\ y \in Nat /\ x + rest = y /\ a = 2 * x + p /\ b \in Nat \ {0}
  OBVIOUS
<1>2. b * n = 2 * y
  OBVIOUS
<1>3. r \in Nat /\ r < b
  OBVIOUS
<1>4. a = 2 * y + r
  <2> HIDE DEF x, y, a
  <2> QED
    BY <1>1
<1>5. a = b * n + r /\ a \in Nat
  <2> HIDE DEF a, b, r, y, x
  <2> QED
    BY <1>1, <1>2, <1>3, <1>4
<1> HIDE DEF a, b, r
<1>6. a \div b = n
  BY <1>1, <1>3, <1>5, QuotientIs
<1> QED
  BY <1>6 DEF a, b

(* Its whole part is that of a number of the format, and nothing is lost    *)
(* when it is taken modulo w.                                               *)
LEMMA WholeKept ==
    ASSUME NEW n \in Nat, NEW u \in Nat \ {0}, NEW p \in Nat \ {0}, NEW v \in Nat, NEW rest \in Nat,
           v * u + rest = n * p, NEW w \in Nat, n < w
    PROVE  ((v \div p) % w) * p + (v % p) = v
<1> DEFINE c == v \div p
           r == v % p
<1>1. v = p * c + r /\ c \in Nat /\ r \in Nat /\ r < p
  BY QuotientOf
<1> HIDE DEF c, r
<1>2. c <= n
  <2>1. v <= v * u
    <3>1. 1 \in Nat /\ 1 <= u /\ u \in Nat
      OBVIOUS
    <3>2. v * 1 <= v * u
      BY <3>1, ProductLess
    <3> QED
      BY <3>2
  <2> DEFINE x == v * u
             y == n * p
             z == p * c
  <2>2. x \in Nat /\ y \in Nat /\ z \in Nat /\ x + rest = y /\ v <= x /\ v = z + r
    BY <1>1, <2>1
  <2>3. y = p * n
    OBVIOUS
  <2>4. z <= y
    <3> HIDE DEF x, y, z
    <3> QED
      BY <1>1, <2>2
  <2>5. p * c <= p * n
    BY <2>3, <2>4
  <2> QED
    BY <1>1, <2>5, ProductLess
<1>3. c < w /\ w \in Nat \ {0} /\ 0 \in Nat /\ c = w * 0 + c
  BY <1>1, <1>2
<1>4. c % w = c
  BY <1>1, <1>3, QuotientIs
<1>5. (c % w) * p + r = v
  BY <1>1, <1>4
<1> QED
  BY <1>5 DEF c, r

(* FixedReadsBack: a fixed-point number that EDC_Q_ToString has written with*)
(* enough places is the number that EDC_StringTo_Q reads, and all of its    *)
(* text is consumed; the least number of all is rejected.                   *)
THEOREM FixedComesBack == Spec => []FixedReadsBack
<1>1. ASSUME TextInv, ReadingInv, FixedExact PROVE FixedReadsBack
  <2>1. SUFFICES ASSUME NEW p \in printed, parser = "StringTo_Q", status # "RUNNING",
                        Power(10, p.decimals) >= 2 * Power(2, frac_bits)
                 PROVE  IF p.value = -(QMax + 1) THEN status = "UNDERFLOW"
                        ELSE status = "OK" /\ out_val = {p.value} /\ idx = Len(str) - 1
    BY DEF FixedReadsBack
  <2> DEFINE u == Power(2, frac_bits)
             tens == Power(10, p.decimals)
             q == p.value
             n == Abs(q)
             w == UMax32 + 1
             read == ((numeral \div tens) % w) * tens + (numeral % tens)
             nearest == (2 * read * u + tens) \div (2 * tens)
  <2>2. u \in Nat \ {0} /\ tens >= 2 * u
    <3>1. frac_bits \in Nat
      BY <1>1, <2>1, TextAssumption DEF TextInv, PlacesInv
    <3>2. 2 \in Nat \ {0}
      OBVIOUS
    <3> QED
      BY <2>1, <3>1, <3>2, PowerPositive
  <2>3. p.decimals # 0
    BY <2>2, TenToZero
  <2>4. PICK L, f, g : QText(p, L, f, g) /\ (QAtStart \/ QInWhole(p, L, f) \/ QInPlaces(p, L, g))
    BY <1>1, <2>1, <2>3 DEF ReadingInv
  <2>5. QInPlaces(p, L, g)
    BY <2>1, <2>4 DEF QAtStart, QInWhole
  <2>6. /\ places = p.decimals /\ idx = SignSize(q) + L + 1 + places /\ numeral = g[p.decimals]
        /\ (is_negative <=> q < 0)
        /\ status = "OK" \/ status = (IF is_negative THEN "UNDERFLOW" ELSE "OVERFLOW")
    BY <2>1, <2>5 DEF QInPlaces
  <2>7. /\ q \in -(QMax + 1) .. QMax /\ QShape(str, q, u, p.decimals, L, f, g)
        /\ p.decimals \in 1 .. MaxDecimals /\ QMax \in Nat /\ MaxDecimals \in Nat
    BY <2>4, FixedAssumption DEF QText
  <2>8. n \in Nat /\ n <= QMax + 1 /\ (n = QMax + 1 => q = -(QMax + 1))
        /\ (q < 0 => q = -n) /\ (~(q < 0) => q = n)
    BY <2>7 DEF Abs
  <2>9. tens \in Nat \ {0}
    <3> DEFINE k == p.decimals
    <3>1. 10 \in Nat \ {0} /\ k \in Nat
      BY <2>7
    <3> HIDE DEF k
    <3> QED
      BY <3>1, PowerPositive DEF k
  <2> HIDE DEF u, tens, q, n
  <2>10. /\ numeral \in Nat /\ L \in Nat \ {0} /\ Len(str) = SignSize(q) + L + p.decimals + 2
         /\ \E rest \in Nat : rest < u /\ numeral * u + rest = n * tens
    BY <2>6, <2>7 DEF QShape, n, tens
  <2>11. PICK rest \in Nat : rest < u /\ numeral * u + rest = n * tens
    BY <2>10
  <2>12. w \in Nat /\ n < w
    BY <2>7, <2>8 DEF UMax32
  <2> HIDE DEF w
  <2>13. read = numeral
    BY <2>2, <2>8, <2>9, <2>10, <2>11, <2>12, WholeKept
  <2>14. (2 * numeral * u + tens) \div (2 * tens) = n
    <3>1. 2 * u <= tens
      BY <2>2, <2>9
    <3> QED
      BY <2>2, <2>8, <2>9, <2>10, <2>11, <3>1, RoundsBack
  <2>15. nearest = n
    BY <2>13, <2>14
  <2>16. /\ status = "OK" => nearest <= QMax /\ out_val = {IF is_negative THEN -nearest ELSE nearest}
         /\ status \in {"OVERFLOW", "UNDERFLOW"} => nearest > QMax
    BY <1>1, <2>1, <2>6 DEF FixedExact, u, tens, w
  <2> HIDE DEF read, nearest
  <2>17. /\ status = "OK" => n <= QMax /\ out_val = {IF is_negative THEN -n ELSE n}
         /\ status \in {"OVERFLOW", "UNDERFLOW"} => n > QMax
    BY <2>15, <2>16
  <2>18. idx = Len(str) - 1
    <3>1. SignSize(q) \in Nat
      BY DEF SignSize
    <3> QED
      BY <2>6, <2>7, <2>10, <3>1
  <2>19. CASE q = -(QMax + 1)
    <3>1. n > QMax /\ q < 0
      BY <2>7, <2>8, <2>19
    <3>2. status # "OK"
      BY <2>7, <2>8, <2>17, <3>1
    <3> QED
      BY <2>6, <2>19, <3>1, <3>2 DEF q
  <2>20. CASE q # -(QMax + 1)
    <3>1. n <= QMax
      BY <2>7, <2>8, <2>20
    <3>2. status = "OK"
      BY <2>6, <2>7, <2>8, <2>17, <3>1
    <3>3. out_val = {q}
      <4>1. CASE q < 0
        BY <2>6, <2>8, <2>17, <3>2, <4>1
      <4>2. CASE ~(q < 0)
        BY <2>6, <2>8, <2>17, <3>2, <4>2
      <4> QED
        BY <4>1, <4>2
    <3> QED
      BY <2>18, <2>20, <3>2, <3>3 DEF q
  <2> QED
    BY <2>19, <2>20
<1>2. TextInv /\ ReadingInv /\ FixedExact => FixedReadsBack
  BY <1>1
<1>3. Init => FixedInv /\ ReadingInv
  BY FixedInit_Inv, ReadingInit_Inv
<1>4. TextInv /\ (FixedInv /\ ReadingInv) /\ [Next]_vars => (FixedInv /\ ReadingInv)'
  BY FixedNext_Inv, ReadingNext_Inv
<1> QED
  BY <1>2, <1>3, <1>4, TextInvariant, FixedIsNearest, PTL DEF Spec


(* Fixed point and Booleans, altogether: what is read or converted is the   *)
(* nearest of its format, and what was written or converted is got back.    *)
THEOREM FixedPointIsCorrect == Spec => []FixedPointCorrect
<1>1. FixedExact /\ ConvertsNearest /\ FixedReadsBack /\ ConvertsBack /\ BoolReadsBack
          => FixedPointCorrect
  BY DEF FixedPointCorrect
<1> QED
  BY <1>1, FixedIsNearest, ConversionIsNearest, FixedComesBack, ConversionComesBack,
     BooleanComesBack, PTL
=============================================================================
