------------------------------- MODULE Utf8Proofs -------------------------------
(***************************************************************************)
(* The arithmetic of UTF-8 characters (module Utf8): what the bytes of a   *)
(* character say about its code point, and which tests of the bytes are    *)
(* tests of the code point; and then proofs about the streaming decoder,   *)
(* for every sequence of bytes.  Its invariant ties its registers to the   *)
(* bytes they were collected from.                                         *)
(***************************************************************************)
EXTENDS Utf8Stream, SequenceTheorems, TLAPS

LEMMA ContinuationBits ==
  ASSUME NEW b \in AnyByte, IsContinuation(b)
  PROVE  b \in 128 .. 191 /\ b % 64 = b - 128
  BY DEF AnyByte, IsContinuation

LEMMA LeadRange ==
  ASSUME NEW b \in AnyByte
  PROVE  /\ Width(b) \in 0 .. 4
         /\ Width(b) = 1 <=> b \in 0 .. 127
         /\ Width(b) = 2 <=> b \in 194 .. 223
         /\ Width(b) = 3 <=> b \in 224 .. 239
         /\ Width(b) = 4 <=> b \in 240 .. 244
  BY DEF AnyByte, Width

LEMMA LeadValue ==
  ASSUME NEW b \in AnyByte
  PROVE  /\ b \in 194 .. 223 => LeadBits(b) = b - 192
         /\ b \in 224 .. 239 => LeadBits(b) = b - 224
         /\ b \in 240 .. 244 => LeadBits(b) = b - 240
         /\ b \in 0 .. 127 => LeadBits(b) = b
  <1>1. CASE b \in 194 .. 223
    <2>1. Width(b) = 2 /\ b % 32 = b - 192
      BY <1>1 DEF Width
    <2> QED
      BY <1>1, <2>1 DEF LeadBits
  <1>2. CASE b \in 224 .. 239
    <2>1. Width(b) = 3 /\ b % 16 = b - 224
      BY <1>2 DEF Width
    <2> QED
      BY <1>2, <2>1 DEF LeadBits
  <1>3. CASE b \in 240 .. 244
    <2>1. Width(b) = 4 /\ b % 8 = b - 240
      BY <1>3 DEF Width
    <2> QED
      BY <1>3, <2>1 DEF LeadBits
  <1>4. CASE b \in 0 .. 127
    <2>1. Width(b) = 1
      BY <1>4 DEF Width
    <2> QED
      BY <1>4, <2>1 DEF LeadBits
  <1> QED
    BY <1>1, <1>2, <1>3, <1>4

(* Facts about numbers written in base 64, with one or two of the digits    *)
(* deciding how they compare with the limits of the code space.             *)
LEMMA Horner ==
  ASSUME NEW a \in Int, NEW b \in Int, NEW c \in Int, NEW d \in Int
  PROVE  ((a * 64 + b) * 64 + c) * 64 + d = a * 262144 + b * 4096 + c * 64 + d
  OBVIOUS

LEMMA ThreeLeast ==
  ASSUME NEW a \in Nat, NEW b \in Nat, NEW c \in Nat,
         a <= 15, b <= 63, c <= 63
  PROVE  a * 4096 + b * 64 + c >= 2048 <=> (a # 0 \/ b >= 32)
  OBVIOUS

LEMMA ThreeSurrogate ==
  ASSUME NEW a \in Nat, NEW b \in Nat, NEW c \in Nat,
         a <= 15, b <= 63, c <= 63
  PROVE  (a * 4096 + b * 64 + c >= 55296 /\ a * 4096 + b * 64 + c <= 57343)
             <=> (a = 13 /\ b >= 32)
  OBVIOUS

LEMMA ThreeBound ==
  ASSUME NEW a \in Nat, NEW b \in Nat, NEW c \in Nat,
         a <= 15, b <= 63, c <= 63
  PROVE  a * 4096 + b * 64 + c >= 0 /\ a * 4096 + b * 64 + c <= 65535
  OBVIOUS

LEMMA FourLeast ==
  ASSUME NEW a \in Nat, NEW b \in Nat, NEW c \in Nat, NEW d \in Nat,
         a <= 4, b <= 63, c <= 63, d <= 63
  PROVE  a * 262144 + b * 4096 + c * 64 + d >= 65536 <=> (a # 0 \/ b >= 16)
  OBVIOUS

LEMMA FourMost ==
  ASSUME NEW a \in Nat, NEW b \in Nat, NEW c \in Nat, NEW d \in Nat,
         a <= 4, b <= 63, c <= 63, d <= 63
  PROVE  a * 262144 + b * 4096 + c * 64 + d <= MaxCodePoint <=> (a # 4 \/ b <= 15)
  BY SMT DEF MaxCodePoint

(* The bytes of a character of w bytes, with its value written out.         *)
Whole(s, w) ==
    /\ s \in Seq(AnyByte)
    /\ Len(s) = w
    /\ Width(s[1]) = w
    /\ \A i \in 2 .. w : IsContinuation(s[i])

LEMMA WholeValue ==
  ASSUME NEW w \in 1 .. 4, NEW s, Whole(s, w)
  PROVE  /\ w = 1 => /\ s[1] \in 0 .. 127
                     /\ Value(s, w) = s[1]
         /\ w = 2 => /\ s[1] \in 194 .. 223 /\ s[2] \in 128 .. 191
                     /\ Value(s, w) = (s[1] - 192) * 64 + (s[2] - 128)
         /\ w = 3 => /\ s[1] \in 224 .. 239 /\ s[2] \in 128 .. 191
                     /\ s[3] \in 128 .. 191
                     /\ Value(s, w) = (s[1] - 224) * 4096 + (s[2] - 128) * 64
                                          + (s[3] - 128)
         /\ w = 4 => /\ s[1] \in 240 .. 244 /\ s[2] \in 128 .. 191
                     /\ s[3] \in 128 .. 191 /\ s[4] \in 128 .. 191
                     /\ Value(s, w) = (s[1] - 240) * 262144
                                          + (s[2] - 128) * 4096
                                          + (s[3] - 128) * 64 + (s[4] - 128)
  <1>1. s \in Seq(AnyByte) /\ Len(s) = w /\ Width(s[1]) = w
    BY DEF Whole
  <1>2. s[1] \in AnyByte
    BY <1>1
  <1>3. \A i \in 2 .. w : s[i] \in 128 .. 191 /\ s[i] % 64 = s[i] - 128
    <2> SUFFICES ASSUME NEW i \in 2 .. w
                 PROVE  s[i] \in 128 .. 191 /\ s[i] % 64 = s[i] - 128
      OBVIOUS
    <2>1. s[i] \in AnyByte /\ IsContinuation(s[i])
      BY <1>1 DEF Whole
    <2> QED
      BY <2>1, ContinuationBits
  <1>4. CASE w = 1
    BY <1>1, <1>2, <1>4, LeadRange, LeadValue DEF Value
  <1>5. CASE w = 2
    <2>1. s[1] \in 194 .. 223 /\ LeadBits(s[1]) = s[1] - 192
      BY <1>1, <1>2, <1>5, LeadRange, LeadValue
    <2>2. Value(s, w) = LeadBits(s[1]) * 64 + (s[2] % 64)
      BY <1>5 DEF Value
    <2>3. 2 \in 2 .. w
      BY <1>5
    <2> QED
      BY <1>3, <1>5, <2>1, <2>2, <2>3
  <1>6. CASE w = 3
    <2>1. s[1] \in 224 .. 239 /\ LeadBits(s[1]) = s[1] - 224
      BY <1>1, <1>2, <1>6, LeadRange, LeadValue
    <2>2. Value(s, w) = (LeadBits(s[1]) * 64 + (s[2] % 64)) * 64 + (s[3] % 64)
      BY <1>6 DEF Value
    <2>3. 2 \in 2 .. w /\ 3 \in 2 .. w
      BY <1>6
    <2> QED
      BY <1>3, <1>6, <2>1, <2>2, <2>3
  <1>7. CASE w = 4
    <2>1. s[1] \in 240 .. 244 /\ LeadBits(s[1]) = s[1] - 240
      BY <1>1, <1>2, <1>7, LeadRange, LeadValue
    <2>2. Value(s, w) = ((LeadBits(s[1]) * 64 + (s[2] % 64)) * 64 + (s[3] % 64)) * 64
                            + (s[4] % 64)
      BY <1>7 DEF Value
    <2>3. /\ s[2] \in 128 .. 191 /\ s[2] % 64 = s[2] - 128
          /\ s[3] \in 128 .. 191 /\ s[3] % 64 = s[3] - 128
          /\ s[4] \in 128 .. 191 /\ s[4] % 64 = s[4] - 128
      BY <1>3, <1>7
    <2>4. Value(s, w) = (((s[1] - 240) * 64 + (s[2] - 128)) * 64 + (s[3] - 128)) * 64
                            + (s[4] - 128)
      BY <2>1, <2>2, <2>3
    <2>5. /\ s[1] - 240 \in Int /\ s[2] - 128 \in Int
          /\ s[3] - 128 \in Int /\ s[4] - 128 \in Int
      BY <2>1, <2>3
    <2>6. Value(s, w) = (s[1] - 240) * 262144 + (s[2] - 128) * 4096
                            + (s[3] - 128) * 64 + (s[4] - 128)
      BY <2>4, <2>5, Horner
    <2> QED
      BY <1>7, <2>1, <2>3, <2>6
  <1> QED
    BY <1>4, <1>5, <1>6, <1>7

LEMMA WholeNat ==
  ASSUME NEW w \in 1 .. 4, NEW s, Whole(s, w)
  PROVE  Value(s, w) \in Nat
  <1>1. CASE w = 1
    BY <1>1, WholeValue
  <1>2. CASE w = 2
    BY <1>2, WholeValue
  <1>3. CASE w = 3
    <2>1. s[1] \in 224 .. 239 /\ s[2] \in 128 .. 191 /\ s[3] \in 128 .. 191
      BY <1>3, WholeValue
    <2>2. s[1] - 224 \in Nat /\ s[2] - 128 \in Nat /\ s[3] - 128 \in Nat
      BY <2>1
    <2>3. (s[1] - 224) * 4096 + (s[2] - 128) * 64 + (s[3] - 128) \in Nat
      BY <2>2
    <2> QED
      BY <1>3, <2>3, WholeValue
  <1>4. CASE w = 4
    <2>1. /\ s[1] \in 240 .. 244 /\ s[2] \in 128 .. 191
          /\ s[3] \in 128 .. 191 /\ s[4] \in 128 .. 191
      BY <1>4, WholeValue
    <2>2. /\ s[1] - 240 \in Nat /\ s[2] - 128 \in Nat
          /\ s[3] - 128 \in Nat /\ s[4] - 128 \in Nat
      BY <2>1
    <2>3. (s[1] - 240) * 262144 + (s[2] - 128) * 4096 + (s[3] - 128) * 64
              + (s[4] - 128) \in Nat
      BY <2>2, SMT
    <2> QED
      BY <1>4, <2>3, WholeValue
  <1> QED
    BY <1>1, <1>2, <1>3, <1>4
-----------------------------------------------------------------------------
(* The least code point for which a character of w bytes is the shortest.   *)
Shortest(w) == IF w = 2 THEN 128 ELSE IF w = 3 THEN 2048 ELSE 65536

(* The two ways of testing a complete character agree: the second-byte      *)
(* table of EDC_UTF8_DecodeChar and the range test of the streaming decoder.*)
LEMMA TestsAgree ==
  ASSUME NEW w \in 2 .. 4, NEW s, Whole(s, w)
  PROVE  (SecondByteOK(s[1], s[2]) /\ Value(s, w) <= MaxCodePoint)
             <=> (/\ Value(s, w) >= Shortest(w)
                  /\ ~IsSurrogate(Value(s, w))
                  /\ Value(s, w) <= MaxCodePoint)
  <1> DEFINE v == Value(s, w)
  <1>1. CASE w = 2
    <2>1. v = (s[1] - 192) * 64 + (s[2] - 128)
          /\ s[1] \in 194 .. 223 /\ s[2] \in 128 .. 191
      BY <1>1, WholeValue
    <2> HIDE DEF v
    <2>2. v >= 128 /\ v < 2048
      BY <2>1
    <2>3. SecondByteOK(s[1], s[2])
      BY <2>1 DEF SecondByteOK
    <2> QED
      BY <1>1, <2>1, <2>2, <2>3 DEF Shortest, IsSurrogate, v
  <1>2. CASE w = 3
    <2>1. v = (s[1] - 224) * 4096 + (s[2] - 128) * 64 + (s[3] - 128)
          /\ s[1] \in 224 .. 239 /\ s[2] \in 128 .. 191 /\ s[3] \in 128 .. 191
      BY <1>2, WholeValue
    <2> HIDE DEF v
    <2> DEFINE a == s[1] - 224
               b == s[2] - 128
               c == s[3] - 128
    <2>a. /\ a \in Nat /\ b \in Nat /\ c \in Nat
          /\ a <= 15 /\ b <= 63 /\ c <= 63
          /\ (a # 0 <=> s[1] # 224) /\ (a = 13 <=> s[1] = 237)
          /\ (b >= 32 <=> s[2] >= 160)
      BY <2>1
    <2>b. v = a * 4096 + b * 64 + c
      BY <2>1
    <2> HIDE DEF a, b, c
    <2>2. v >= 2048 <=> (s[1] # 224 \/ s[2] >= 160)
      BY <2>a, <2>b, ThreeLeast
    <2>3. (v >= 55296 /\ v <= 57343) <=> (s[1] = 237 /\ s[2] >= 160)
      BY <2>a, <2>b, ThreeSurrogate
    <2>4. v <= MaxCodePoint
      <3>1. v \in Int /\ v <= 65535
        BY <2>a, <2>b, ThreeBound
      <3> QED
        BY <3>1 DEF MaxCodePoint
    <2>5. SecondByteOK(s[1], s[2]) <=> /\ s[1] # 224 \/ s[2] >= 160
                                       /\ ~(s[1] = 237 /\ s[2] >= 160)
      BY <2>1 DEF SecondByteOK
    <2> QED
      BY <1>2, <2>2, <2>3, <2>4, <2>5 DEF Shortest, IsSurrogate, v
  <1>3. CASE w = 4
    <2>1. v = (s[1] - 240) * 262144 + (s[2] - 128) * 4096 + (s[3] - 128) * 64
                  + (s[4] - 128)
          /\ s[1] \in 240 .. 244 /\ s[2] \in 128 .. 191 /\ s[3] \in 128 .. 191
          /\ s[4] \in 128 .. 191
      BY <1>3, WholeValue
    <2> HIDE DEF v
    <2> DEFINE a == s[1] - 240
               b == s[2] - 128
               c == s[3] - 128
               d == s[4] - 128
    <2>a. /\ a \in Nat /\ b \in Nat /\ c \in Nat /\ d \in Nat
          /\ a <= 4 /\ b <= 63 /\ c <= 63 /\ d <= 63
      BY <2>1
    <2>c. /\ (a # 0 \/ b >= 16) <=> (s[1] # 240 \/ s[2] >= 144)
          /\ (a # 4 \/ b <= 15) <=> (s[1] # 244 \/ s[2] <= 143)
      BY <2>1
    <2>b. v = a * 262144 + b * 4096 + c * 64 + d
      BY <2>1, SMT
    <2> HIDE DEF a, b, c, d
    <2>2. v >= 65536 <=> (s[1] # 240 \/ s[2] >= 144)
      <3>1. v >= 65536 <=> (a # 0 \/ b >= 16)
        BY <2>a, <2>b
      <3> QED
        BY <2>c, <3>1, SMT
    <2>3. v <= MaxCodePoint <=> (s[1] # 244 \/ s[2] <= 143)
      <3>1. v <= MaxCodePoint <=> (a # 4 \/ b <= 15)
        BY <2>a, <2>b, SMT DEF MaxCodePoint
      <3> QED
        BY <2>c, <3>1, SMT
    <2>4. v \in Int
      BY <2>a, <2>b
    <2>5. SecondByteOK(s[1], s[2]) <=> /\ s[1] # 240 \/ s[2] >= 144
                                       /\ s[1] # 244 \/ s[2] <= 143
      BY <2>1 DEF SecondByteOK
    <2> QED
      BY <1>3, <2>2, <2>3, <2>4, <2>5 DEF Shortest, IsSurrogate, v
  <1> QED
    BY <1>1, <1>2, <1>3

-----------------------------------------------------------------------------
(* Taking a number apart in base 64.                                        *)
LEMMA Digits ==
  ASSUME NEW a \in Nat, NEW b \in Nat, b <= 63
  PROVE  /\ a * 64 + b \in Nat
         /\ (a * 64 + b) \div 64 = a
         /\ (a * 64 + b) % 64 = b
  OBVIOUS

LEMMA DivTwice ==
  ASSUME NEW v \in Nat
  PROVE  v \div 4096 = (v \div 64) \div 64
  OBVIOUS

LEMMA DivThrice ==
  ASSUME NEW v \in Nat
  PROVE  v \div 262144 = (v \div 4096) \div 64
  BY SMT

(* Encoding the value of an acceptable character gives its bytes back.      *)
LEMMA EncodeValue ==
  ASSUME NEW w \in 1 .. 4, NEW s, Whole(s, w),
         w > 1 => Value(s, w) >= Shortest(w),
         Value(s, w) <= MaxCodePoint
  PROVE  EncodeChar(Value(s, w)) = s
  <1>0. s \in Seq(AnyByte) /\ Len(s) = w
    BY DEF Whole
  <1> DEFINE v == Value(s, w)
  <1>1. CASE w = 1
    <2>1. v \in 0 .. 127 /\ s[1] = v
      BY <1>1, WholeValue
    <2>2. s = <<v>>
      BY <1>0, <1>1, <2>1
    <2> QED
      BY <2>1, <2>2 DEF EncodeChar
  <1>2. CASE w = 2
    <2>1. v = (s[1] - 192) * 64 + (s[2] - 128)
          /\ s[1] \in 194 .. 223 /\ s[2] \in 128 .. 191
      BY <1>2, WholeValue
    <2>2. v >= 128
      BY <1>2 DEF Shortest
    <2> DEFINE a == s[1] - 192
               b == s[2] - 128
    <2> HIDE DEF v
    <2>3. /\ a \in Nat /\ b \in Nat /\ a <= 31 /\ b <= 63
          /\ s[1] = 192 + a /\ s[2] = 128 + b
      BY <2>1
    <2>4. v = a * 64 + b
      BY <2>1
    <2> HIDE DEF a, b
    <2>5. v \in Nat /\ v \div 64 = a /\ v % 64 = b
      BY <2>3, <2>4, Digits
    <2>6. v > 127 /\ v <= 2047
      BY <2>2, <2>3, <2>4
    <2>7. s = <<192 + (v \div 64), 128 + (v % 64)>>
      BY <1>0, <1>2, <2>3, <2>5
    <2> QED
      BY <2>5, <2>6, <2>7 DEF EncodeChar, v
  <1>3. CASE w = 3
    <2>1. v = (s[1] - 224) * 4096 + (s[2] - 128) * 64 + (s[3] - 128)
          /\ s[1] \in 224 .. 239 /\ s[2] \in 128 .. 191 /\ s[3] \in 128 .. 191
      BY <1>3, WholeValue
    <2>2. v >= 2048
      BY <1>3 DEF Shortest
    <2> DEFINE a == s[1] - 224
               b == s[2] - 128
               c == s[3] - 128
    <2> HIDE DEF v
    <2>r. s[1] \in 224 .. 239 /\ s[2] \in 128 .. 191 /\ s[3] \in 128 .. 191
      BY <2>1
    <2>3. /\ a \in Nat /\ b \in Nat /\ c \in Nat
          /\ a <= 15 /\ b <= 63 /\ c <= 63
          /\ s[1] = 224 + a /\ s[2] = 128 + b /\ s[3] = 128 + c
      BY <2>r
    <2>4. v = a * 4096 + b * 64 + c
      BY <2>1
    <2> HIDE DEF a, b, c
    <2>5. v \in Nat /\ v > 2047 /\ v <= 65535
      <3>1. v >= 0 /\ v <= 65535
        BY <2>3, <2>4, ThreeBound
      <3>2. v \in Int
        BY <2>3, <2>4
      <3> QED
        BY <2>2, <3>1, <3>2, SMT
    <2>6. v = (a * 64 + b) * 64 + c /\ a * 64 + b \in Nat
      BY <2>3, <2>4
    <2>7. v \div 64 = a * 64 + b /\ v % 64 = c
      BY <2>3, <2>6, Digits
    <2>8. (v \div 64) \div 64 = a /\ (v \div 64) % 64 = b
      BY <2>3, <2>7, Digits
    <2>9. v \div 4096 = a
      BY <2>5, <2>8, DivTwice
    <2>10. s = <<224 + (v \div 4096), 128 + ((v \div 64) % 64), 128 + (v % 64)>>
      BY <1>0, <1>3, <2>3, <2>7, <2>8, <2>9
    <2> QED
      BY <2>5, <2>10, SMT DEF EncodeChar, v
  <1>4. CASE w = 4
    <2>1. v = (s[1] - 240) * 262144 + (s[2] - 128) * 4096 + (s[3] - 128) * 64
                  + (s[4] - 128)
          /\ s[1] \in 240 .. 244 /\ s[2] \in 128 .. 191 /\ s[3] \in 128 .. 191
          /\ s[4] \in 128 .. 191
      BY <1>4, WholeValue
    <2>2. v >= 65536
      BY <1>4 DEF Shortest
    <2> DEFINE a == s[1] - 240
               b == s[2] - 128
               c == s[3] - 128
               d == s[4] - 128
    <2> HIDE DEF v
    <2>3. /\ a \in Nat /\ b \in Nat /\ c \in Nat /\ d \in Nat
          /\ a <= 4 /\ b <= 63 /\ c <= 63 /\ d <= 63
          /\ s[1] = 240 + a /\ s[2] = 128 + b /\ s[3] = 128 + c /\ s[4] = 128 + d
      BY <2>1
    <2>4. v = a * 262144 + b * 4096 + c * 64 + d
      BY <2>1, SMT
    <2> HIDE DEF a, b, c, d
    <2>5. v \in Nat /\ v > 65535
      BY <2>2, <2>3, <2>4, SMT
    <2>6. a * 64 + b \in Nat /\ (a * 64 + b) * 64 + c \in Nat
      BY <2>3
    <2>7. v = ((a * 64 + b) * 64 + c) * 64 + d
      BY <2>3, <2>4, Horner
    <2>8. v \div 64 = (a * 64 + b) * 64 + c /\ v % 64 = d
      BY <2>3, <2>6, <2>7, Digits
    <2>9. (v \div 64) \div 64 = a * 64 + b /\ (v \div 64) % 64 = c
      BY <2>3, <2>6, <2>8, Digits
    <2>10. v \div 4096 = a * 64 + b
      BY <2>5, <2>9, DivTwice
    <2>11. (v \div 4096) \div 64 = a /\ (v \div 4096) % 64 = b
      BY <2>3, <2>10, Digits
    <2>12. v \div 262144 = a
      BY <2>5, <2>11, DivThrice, SMT
    <2>13. s = <<240 + (v \div 262144), 128 + ((v \div 4096) % 64),
                 128 + ((v \div 64) % 64), 128 + (v % 64)>>
      BY <1>0, <1>4, <2>3, <2>8, <2>9, <2>11, <2>12, SMT
    <2> QED
      BY <2>5, <2>13, SMT DEF EncodeChar, v
  <1> QED
    BY <1>1, <1>2, <1>3, <1>4

-----------------------------------------------------------------------------
(* The decoder knows the same least code points as the encoder's lemmas.    *)
LEMMA LeastValue == \A w : LeastNeeding(w) = Shortest(w)
  BY DEF LeastNeeding, Shortest

-----------------------------------------------------------------------------
(* The first n bytes of a character of w bytes.                             *)
Begun(s, n, w) ==
    /\ s \in Seq(AnyByte)
    /\ Len(s) = n
    /\ Width(s[1]) = w
    /\ \A i \in 2 .. n : IsContinuation(s[i])

LEMMA WholeIsBegun ==
  ASSUME NEW s, NEW w \in 1 .. 4
  PROVE  Whole(s, w) <=> Begun(s, w, w)
  BY DEF Whole, Begun

LEMMA BegunAppend ==
  ASSUME NEW w \in 2 .. 4, NEW n \in 1 .. 3, n < w, NEW s, Begun(s, n, w),
         NEW b \in AnyByte
  PROVE  /\ Append(s, b) \in Seq(AnyByte)
         /\ Len(Append(s, b)) = n + 1
         /\ Append(s, b)[n + 1] = b
         /\ \A i \in 1 .. n : Append(s, b)[i] = s[i]
  BY DEF Begun

(* One more continuation byte: what Continue and Complete do to the bytes and *)
(* to the code point.                                                       *)
LEMMA BegunContinue ==
  ASSUME NEW w \in 2 .. 4, NEW n \in 1 .. 3, n < w, NEW s, Begun(s, n, w),
         NEW b \in AnyByte, IsContinuation(b)
  PROVE  /\ Begun(Append(s, b), n + 1, w)
         /\ Value(Append(s, b), n + 1) = Value(s, n) * 64 + (b % 64)
  <1> DEFINE t == Append(s, b)
  <1>1. /\ t \in Seq(AnyByte) /\ Len(t) = n + 1 /\ t[n + 1] = b
        /\ \A i \in 1 .. n : t[i] = s[i]
    BY BegunAppend
  <1> HIDE DEF t
  <1>2. t[1] = s[1]
    BY <1>1
  <1>3. Begun(t, n + 1, w)
    <2>1. ASSUME NEW i \in 2 .. n + 1
          PROVE  IsContinuation(t[i])
      <3>1. CASE i = n + 1
        BY <1>1, <3>1
      <3>2. CASE i # n + 1
        BY <1>1, <3>2 DEF Begun
      <3> QED
        BY <3>1, <3>2
    <2> QED
      BY <1>1, <1>2, <2>1 DEF Begun
  <1>4. Value(t, n + 1) = Value(s, n) * 64 + (b % 64)
    <2>1. CASE n = 1
      BY <1>1, <2>1 DEF Value
    <2>2. CASE n = 2
      <3>1. t[1] = s[1] /\ t[2] = s[2] /\ t[3] = b
        BY <1>1, <2>2
      <3> QED
        BY <2>2, <3>1 DEF Value
    <2>3. CASE n = 3
      <3>1. t[1] = s[1] /\ t[2] = s[2] /\ t[3] = s[3] /\ t[4] = b
        BY <1>1, <2>3
      <3> QED
        BY <2>3, <3>1 DEF Value
    <2> QED
      BY <2>1, <2>2, <2>3
  <1> QED
    BY <1>3, <1>4 DEF t

(* The register of a partial character fits in 15 bits.                     *)
LEMMA BegunBound ==
  ASSUME NEW w \in 2 .. 4, NEW n \in 1 .. 3, n < w, NEW s, Begun(s, n, w)
  PROVE  Value(s, n) \in Nat /\ Value(s, n) <= MaxPartial
  <1>1. s[1] \in AnyByte /\ Width(s[1]) = w
    BY DEF Begun
  <1>2. LeadBits(s[1]) \in Nat /\ LeadBits(s[1]) <= 31 /\ (w > 2 => LeadBits(s[1]) <= 15)
        /\ (w > 3 => LeadBits(s[1]) <= 4)
    BY <1>1, LeadRange, LeadValue
  <1> DEFINE one == LeadBits(s[1])
             two == one * 64 + (s[2] % 64)
  <1>3. CASE n = 1
    <2>1. Value(s, n) = one
      BY <1>3 DEF Value
    <2> QED
      BY <1>2, <2>1, SMT DEF MaxPartial
  <1>4. CASE n = 2
    <2>1. s[2] \in AnyByte
      BY <1>4 DEF Begun
    <2>2. s[2] % 64 \in Nat /\ s[2] % 64 <= 63
      BY <2>1 DEF AnyByte
    <2>3. Value(s, n) = LeadBits(s[1]) * 64 + (s[2] % 64)
      BY <1>4 DEF Value
    <2> QED
      BY <1>2, <1>4, <2>2, <2>3, SMT DEF MaxPartial
  <1>5. CASE n = 3
    <2>1. s[2] \in AnyByte /\ s[3] \in AnyByte
      BY <1>5 DEF Begun
    <2>2. s[2] % 64 \in Nat /\ s[2] % 64 <= 63 /\ s[3] % 64 \in Nat /\ s[3] % 64 <= 63
      BY <2>1 DEF AnyByte
    <2>3. Value(s, n) = (LeadBits(s[1]) * 64 + (s[2] % 64)) * 64 + (s[3] % 64)
      BY <1>5 DEF Value
    <2> QED
      BY <1>2, <1>5, <2>2, <2>3, SMT DEF MaxPartial
  <1> QED
    BY <1>3, <1>4, <1>5

-----------------------------------------------------------------------------
(* What EDC_UTF8_DecodeChar says of the byte strings the decoder tries.     *)
LEMMA DecodeWhole ==
  ASSUME NEW w \in 1 .. 4, NEW s, Whole(s, w)
  PROVE  IF (w > 1 => SecondByteOK(s[1], s[2])) /\ Value(s, w) <= MaxCodePoint
         THEN DecodeChar(s) = [status |-> "OK", cp |-> Value(s, w), used |-> w]
         ELSE DecodeChar(s).status = "INVALID_ENCODING"
  <1>1. s # << >> /\ Len(s) = w /\ Width(s[1]) = w
        /\ \A i \in 2 .. w : IsContinuation(s[i])
    BY DEF Whole
  <1> QED
    BY <1>1 DEF DecodeChar, Fail

LEMMA DecodeBegun ==
  ASSUME NEW w \in 2 .. 4, NEW n \in 1 .. 3, n < w, NEW s, Begun(s, n, w)
  PROVE  DecodeChar(s).status = "INCOMPLETE"
  <1>1. s # << >> /\ Len(s) < w /\ Width(s[1]) = w
    BY DEF Begun
  <1> QED
    BY <1>1 DEF DecodeChar, Fail

LEMMA DecodeBroken ==
  ASSUME NEW w \in 2 .. 4, NEW n \in 1 .. 3, n < w, NEW s, Begun(s, n, w),
         NEW b \in AnyByte, ~IsContinuation(b)
  PROVE  DecodeChar(Append(s, b)).status # "OK"
  <1> DEFINE t == Append(s, b)
  <1>1. /\ t \in Seq(AnyByte) /\ Len(t) = n + 1 /\ t[n + 1] = b /\ t[1] = s[1]
    BY BegunAppend
  <1> HIDE DEF t
  <1>2. Width(t[1]) = w /\ t # << >>
    BY <1>1 DEF Begun
  <1>3. CASE n + 1 < w
    BY <1>1, <1>2, <1>3 DEF DecodeChar, Fail, t
  <1>4. CASE n + 1 = w
    <2>1. ~(\A i \in 2 .. w : IsContinuation(t[i]))
      BY <1>1, <1>4
    <2> QED
      BY <1>2, <2>1 DEF DecodeChar, Fail, t
  <1> QED
    BY <1>3, <1>4

LEMMA DecodeBadLead ==
  ASSUME NEW b \in AnyByte, Width(b) = 0
  PROVE  DecodeChar(<<b>>).status # "OK"
  BY DEF DecodeChar, Fail

-----------------------------------------------------------------------------
(* The inductive invariant: between characters the registers are clear;     *)
(* within one they hold what its first bytes amount to.                     *)
Cleared ==
    /\ codepoint = 0
    /\ bytes_needed = 0
    /\ bytes_seen = 0
    /\ min_codepoint = 0
    /\ returned # "INCOMPLETE"

Collecting ==
    \E w \in 2 .. 4, n \in 1 .. 3 :
        /\ n < w
        /\ Begun(taken, n, w)
        /\ codepoint = Value(taken, n)
        /\ bytes_needed = w - n
        /\ bytes_seen = n
        /\ min_codepoint = LeastNeeding(w)
        /\ returned = "INCOMPLETE"

Accepted ==
    \E w \in 1 .. 4 :
        /\ Whole(taken, w)
        /\ w > 1 => Value(taken, w) >= LeastNeeding(w)
        /\ ~IsSurrogate(Value(taken, w))
        /\ Value(taken, w) <= MaxCodePoint
        /\ written = {Value(taken, w)}

Verdict ==
    /\ returned \in {"NONE", "OK", "INCOMPLETE", "INVALID_ENCODING"}
    /\ returned = "OK" => Accepted
    /\ returned # "OK" => written = {} /\ DecodeChar(taken).status # "OK"

DecoderInv ==
    /\ taken \in Seq(Byte) /\ Len(taken) <= 4
    /\ Cleared \/ Collecting
    /\ Verdict

LEMMA InitInv == DecoderInit => DecoderInv
  <1> SUFFICES ASSUME DecoderInit PROVE DecoderInv
    OBVIOUS
  <1>1. DecodeChar(taken).status # "OK"
    BY DEF DecoderInit, DecodeChar, Fail
  <1>2. taken \in Seq(Byte) /\ Len(taken) <= 4
    BY DEF DecoderInit
  <1> QED
    BY <1>1, <1>2 DEF DecoderInit, DecoderInv, Cleared, Verdict

LEMMA AsciiInv ==
  ASSUME DecoderInv, NEW b \in Byte, FeedAscii(b)
  PROVE  DecoderInv'
  <1>1. b \in AnyByte
    BY ByteAssumption
  <1>2. taken' = <<b>> /\ written' = {b} /\ returned' = "OK"
    BY DEF FeedAscii
  <1>3. Whole(<<b>>, 1)
    BY <1>1 DEF Whole, FeedAscii
  <1>4. b \in 0 .. 127 /\ Value(<<b>>, 1) = b
    BY <1>3, WholeValue
  <1>5. ~IsSurrogate(b) /\ b <= MaxCodePoint
    BY <1>4, SMT DEF IsSurrogate, MaxCodePoint
  <1>6. Accepted'
    BY <1>2, <1>3, <1>4, <1>5 DEF Accepted
  <1>7. Cleared'
    BY <1>2 DEF DecoderInv, Cleared, Collecting, FeedAscii, Idle, decoder
  <1>8. Verdict'
    BY <1>2, <1>6 DEF Verdict
  <1>9. (taken \in Seq(Byte) /\ Len(taken) <= 4)'
    BY <1>2
  <1> QED
    BY <1>7, <1>8, <1>9 DEF DecoderInv

LEMMA LeadInv ==
  ASSUME DecoderInv, NEW b \in Byte, Lead(b)
  PROVE  DecoderInv'
  <1>1. b \in AnyByte
    BY ByteAssumption
  <1>2. /\ taken' = <<b>> /\ written' = {} /\ returned' = "INCOMPLETE"
        /\ codepoint' = LeadBits(b) /\ bytes_needed' = Width(b) - 1
        /\ bytes_seen' = 1 /\ min_codepoint' = LeastNeeding(Width(b)) /\ Width(b) > 1
    BY DEF Lead
  <1>3. Width(b) \in 2 .. 4
    BY <1>1, <1>2, LeadRange
  <1>4. Begun(<<b>>, 1, Width(b))
    BY <1>1 DEF Begun
  <1>5. Value(<<b>>, 1) = LeadBits(b)
    BY DEF Value
  <1>6. Collecting'
    BY <1>2, <1>3, <1>4, <1>5 DEF Collecting
  <1>7. DecodeChar(<<b>>).status # "OK"
    BY <1>3, <1>4, DecodeBegun
  <1>8. Verdict'
    BY <1>2, <1>7 DEF Verdict
  <1>9. (taken \in Seq(Byte) /\ Len(taken) <= 4)'
    BY <1>2
  <1> QED
    BY <1>6, <1>8, <1>9 DEF DecoderInv

LEMMA BadLeadInv ==
  ASSUME DecoderInv, NEW b \in Byte, BadLead(b)
  PROVE  DecoderInv'
  <1>1. b \in AnyByte
    BY ByteAssumption
  <1>2. /\ taken' = <<b>> /\ written' = {} /\ returned' = "INVALID_ENCODING"
        /\ Width(b) = 0
    BY DEF BadLead
  <1>3. DecodeChar(<<b>>).status # "OK"
    BY <1>1, <1>2, DecodeBadLead
  <1>4. Cleared'
    BY <1>2 DEF DecoderInv, Cleared, Collecting, BadLead, Idle, decoder
  <1>5. Verdict'
    BY <1>2, <1>3 DEF Verdict
  <1>6. (taken \in Seq(Byte) /\ Len(taken) <= 4)'
    BY <1>2
  <1> QED
    BY <1>4, <1>5, <1>6 DEF DecoderInv

(* A step in the middle of a character starts from Collecting.              *)
LEMMA Middle ==
  ASSUME DecoderInv, bytes_needed # 0
  PROVE  \E w \in 2 .. 4, n \in 1 .. 3 :
            /\ n < w
            /\ Begun(taken, n, w)
            /\ codepoint = Value(taken, n)
            /\ bytes_needed = w - n
            /\ bytes_seen = n
            /\ min_codepoint = LeastNeeding(w)
            /\ taken \in Seq(Byte) /\ Len(taken) = n
  BY DEF DecoderInv, Cleared, Collecting, Begun

LEMMA BrokenInv ==
  ASSUME DecoderInv, NEW b \in Byte, Breaks(b)
  PROVE  DecoderInv'
  <1>1. b \in AnyByte
    BY ByteAssumption
  <1>2. /\ taken' = Append(taken, b) /\ written' = {}
        /\ returned' = "INVALID_ENCODING" /\ ~IsContinuation(b) /\ bytes_needed # 0
    BY DEF Breaks, Idle
  <1>3. PICK w \in 2 .. 4, n \in 1 .. 3 :
            n < w /\ Begun(taken, n, w) /\ taken \in Seq(Byte) /\ Len(taken) = n
    BY <1>2, Middle
  <1>4. DecodeChar(Append(taken, b)).status # "OK"
    BY <1>1, <1>2, <1>3, DecodeBroken
  <1>5. Cleared'
    BY <1>2 DEF Breaks, Clear, Cleared
  <1>6. Verdict'
    BY <1>2, <1>4 DEF Verdict
  <1>7. (taken \in Seq(Byte) /\ Len(taken) <= 4)'
    BY <1>2, <1>3
  <1> QED
    BY <1>5, <1>6, <1>7 DEF DecoderInv

LEMMA ContinueInv ==
  ASSUME DecoderInv, NEW b \in Byte, Continue(b)
  PROVE  DecoderInv'
  <1>1. b \in AnyByte
    BY ByteAssumption
  <1>2. /\ taken' = Append(taken, b) /\ written' = {} /\ returned' = "INCOMPLETE"
        /\ IsContinuation(b) /\ bytes_needed > 1
        /\ codepoint' = codepoint * 64 + (b % 64)
        /\ bytes_needed' = bytes_needed - 1 /\ bytes_seen' = bytes_seen + 1
        /\ min_codepoint' = min_codepoint
    BY DEF Continue, Extended
  <1>0. bytes_needed # 0
    <2>1. CASE Cleared
      BY <1>2, <2>1 DEF Cleared
    <2>2. CASE Collecting
      BY <2>2 DEF Collecting
    <2> QED
      BY <2>1, <2>2 DEF DecoderInv
  <1>3. PICK w \in 2 .. 4, n \in 1 .. 3 :
            /\ n < w /\ Begun(taken, n, w) /\ codepoint = Value(taken, n)
            /\ bytes_needed = w - n /\ bytes_seen = n /\ min_codepoint = LeastNeeding(w)
            /\ taken \in Seq(Byte) /\ Len(taken) = n
    BY <1>0, Middle
  <1>4. n + 1 \in 1 .. 3 /\ n + 1 < w /\ bytes_needed' = w - (n + 1)
    BY <1>2, <1>3
  <1>5. /\ Begun(Append(taken, b), n + 1, w)
        /\ Value(Append(taken, b), n + 1) = Value(taken, n) * 64 + (b % 64)
    BY <1>1, <1>2, <1>3, BegunContinue
  <1>6. Collecting'
    BY <1>2, <1>3, <1>4, <1>5 DEF Collecting
  <1>7. DecodeChar(Append(taken, b)).status # "OK"
    BY <1>4, <1>5, DecodeBegun
  <1>8. Verdict'
    BY <1>2, <1>7 DEF Verdict
  <1>9. (taken \in Seq(Byte) /\ Len(taken) <= 4)'
    BY <1>2, <1>3
  <1> QED
    BY <1>6, <1>8, <1>9 DEF DecoderInv

LEMMA FinishInv ==
  ASSUME DecoderInv, NEW b \in Byte, Complete(b)
  PROVE  DecoderInv'
  <1>1. b \in AnyByte
    BY ByteAssumption
  <1>2. /\ taken' = Append(taken, b) /\ IsContinuation(b) /\ bytes_needed = 1
    BY DEF Complete
  <1>3. PICK w \in 2 .. 4, n \in 1 .. 3 :
            /\ n < w /\ Begun(taken, n, w) /\ codepoint = Value(taken, n)
            /\ bytes_needed = w - n /\ bytes_seen = n /\ min_codepoint = LeastNeeding(w)
            /\ taken \in Seq(Byte) /\ Len(taken) = n
    BY <1>2, Middle
  <1>4. n + 1 = w
    BY <1>2, <1>3
  <1> DEFINE t == Append(taken, b)
  <1>5. /\ Begun(t, w, w)
        /\ Value(t, w) = Value(taken, n) * 64 + (b % 64)
    BY <1>1, <1>2, <1>3, <1>4, BegunContinue
  <1>6. Whole(t, w) /\ taken' = t /\ Extended(b) = Value(t, w)
    BY <1>2, <1>3, <1>5, WholeIsBegun DEF Extended
  <1>7. Cleared'
    BY DEF Complete, Clear, Cleared
  <1> HIDE DEF t
  <1>8. Acceptable(Extended(b)) <=> /\ Value(t, w) >= LeastNeeding(w)
                                    /\ ~IsSurrogate(Value(t, w))
                                    /\ Value(t, w) <= MaxCodePoint
    BY <1>3, <1>6 DEF Acceptable
  <1>9. Verdict'
    <2>1. CASE Acceptable(Extended(b))
      <3>1. returned' = "OK" /\ written' = {Value(t, w)}
        BY <1>6, <2>1 DEF Complete
      <3>2. Accepted'
        BY <1>6, <1>8, <2>1, <3>1 DEF Accepted
      <3> QED
        BY <3>1, <3>2 DEF Verdict
    <2>2. CASE ~Acceptable(Extended(b))
      <3>1. returned' = "INVALID_ENCODING" /\ written' = {}
        BY <2>2 DEF Complete
      <3>2. ~(SecondByteOK(t[1], t[2]) /\ Value(t, w) <= MaxCodePoint)
        BY <1>6, <1>8, <2>2, TestsAgree, LeastValue
      <3>3. DecodeChar(t).status # "OK"
        BY <1>6, <3>2, DecodeWhole
      <3> QED
        BY <1>6, <3>1, <3>3 DEF Verdict
    <2> QED
      BY <2>1, <2>2
  <1>10. (taken \in Seq(Byte) /\ Len(taken) <= 4)'
    BY <1>2, <1>3
  <1> QED
    BY <1>7, <1>9, <1>10 DEF DecoderInv

LEMMA StutterInv ==
  ASSUME DecoderInv, UNCHANGED decoder_vars
  PROVE  DecoderInv'
  BY DEF DecoderInv, Cleared, Collecting, Verdict, Accepted, decoder_vars, decoder

(* The registers of the streaming decoder always hold what the bytes of the *)
(* current character amount to, and its verdicts are those of DecodeChar.   *)
THEOREM Invariance == DecoderSpec => []DecoderInv
  <1>1. ASSUME DecoderInv, [DecoderNext]_decoder_vars
        PROVE  DecoderInv'
    <2>1. CASE UNCHANGED decoder_vars
      BY <1>1, <2>1, StutterInv
    <2>2. CASE DecoderNext
      <3>1. PICK b \in Byte : Feed(b)
        BY <2>2 DEF DecoderNext
      <3> QED
        BY <1>1, <3>1, AsciiInv, LeadInv, BadLeadInv, BrokenInv, ContinueInv, FinishInv
           DEF Feed
    <2> QED
      BY <1>1, <2>1, <2>2
  <1> QED
    BY <1>1, InitInv, PTL DEF DecoderSpec

-----------------------------------------------------------------------------
LEMMA LimitsNat == MaxPartial \in Nat /\ MaxCodePoint \in Nat
  BY SMT DEF MaxPartial, MaxCodePoint

LEMMA InRange ==
  ASSUME NEW n \in Nat, NEW m \in Nat, n <= m
  PROVE  n \in 0 .. m
  OBVIOUS

(* The registers keep within their ranges whatever bytes arrive: in         *)
(* particular no shift of codepoint (edc_unicode.c:470) loses a bit.        *)
THEOREM DecoderTypeCorrect == DecoderSpec => []DecoderTypeOK
  <1>1. ASSUME DecoderInv
        PROVE  DecoderTypeOK
    <2>1. /\ codepoint \in 0 .. MaxPartial
          /\ bytes_needed \in 0 .. 3
          /\ bytes_seen \in 0 .. 3
          /\ min_codepoint \in {0, 128, 2048, 65536}
      <3>1. CASE Cleared
        BY <3>1, SMT DEF Cleared, MaxPartial
      <3>2. CASE Collecting
        <4>1. PICK w \in 2 .. 4, n \in 1 .. 3 :
                 /\ n < w /\ Begun(taken, n, w) /\ codepoint = Value(taken, n)
                 /\ bytes_needed = w - n /\ bytes_seen = n /\ min_codepoint = LeastNeeding(w)
          BY <3>2 DEF Collecting
        <4>2. codepoint \in Nat /\ codepoint <= MaxPartial
          BY <4>1, BegunBound
        <4>3. codepoint \in 0 .. MaxPartial
          BY <4>2, LimitsNat, InRange
        <4>4. min_codepoint \in {0, 128, 2048, 65536}
          BY <4>1 DEF LeastNeeding
        <4> QED
          BY <4>1, <4>3, <4>4
      <3> QED
        BY <1>1, <3>1, <3>2 DEF DecoderInv
    <2>2. written \subseteq 0 .. MaxCodePoint
      <3>1. CASE returned = "OK"
        <4>1. PICK w \in 1 .. 4 : /\ Whole(taken, w)
                                  /\ Value(taken, w) <= MaxCodePoint
                                  /\ written = {Value(taken, w)}
          BY <1>1, <3>1 DEF DecoderInv, Verdict, Accepted
        <4>2. Value(taken, w) \in Nat
          BY <4>1, WholeNat
        <4>3. Value(taken, w) \in 0 .. MaxCodePoint
          BY <4>1, <4>2, LimitsNat, InRange
        <4> QED
          BY <4>1, <4>3
      <3>2. CASE returned # "OK"
        BY <1>1, <3>2 DEF DecoderInv, Verdict
      <3> QED
        BY <3>1, <3>2
    <2> QED
      BY <1>1, <2>1, <2>2 DEF DecoderInv, Verdict, DecoderTypeOK
  <1> QED
    BY <1>1, Invariance, PTL

(* For every set of bytes and every order of arrival the streaming decoder  *)
(* accepts what EDC_UTF8_DecodeChar accepts, with the same code points.     *)
THEOREM SameVerdicts == DecoderSpec => []AgreesWithDecodeChar
  <1>1. ASSUME DecoderInv
        PROVE  AgreesWithDecodeChar
    <2>1. CASE returned # "OK"
      BY <1>1, <2>1 DEF DecoderInv, Verdict, AgreesWithDecodeChar
    <2>2. CASE returned = "OK"
      <3>1. PICK w \in 1 .. 4 : /\ Whole(taken, w)
                                /\ w > 1 => Value(taken, w) >= LeastNeeding(w)
                                /\ ~IsSurrogate(Value(taken, w))
                                /\ Value(taken, w) <= MaxCodePoint
                                /\ written = {Value(taken, w)}
        BY <1>1, <2>2 DEF DecoderInv, Verdict, Accepted
      <3>2. w > 1 => SecondByteOK(taken[1], taken[2])
        BY <3>1, TestsAgree, LeastValue
      <3>3. DecodeChar(taken) = [status |-> "OK", cp |-> Value(taken, w), used |-> w]
        BY <3>1, <3>2, DecodeWhole
      <3>4. Len(taken) = w
        BY <3>1 DEF Whole
      <3> QED
        BY <2>2, <3>1, <3>3, <3>4 DEF AgreesWithDecodeChar
    <2> QED
      BY <2>1, <2>2
  <1> QED
    BY <1>1, Invariance, PTL

(* Whatever arrives, a code point handed out is a scalar value and encoding *)
(* it again gives the very bytes it was read from.                          *)
THEOREM ShortestForms == DecoderSpec => []OnlyShortestForms
  <1>1. ASSUME DecoderInv
        PROVE  OnlyShortestForms
    <2>1. CASE returned # "OK"
      BY <1>1, <2>1 DEF DecoderInv, Verdict, OnlyShortestForms
    <2>2. CASE returned = "OK"
      <3>1. PICK w \in 1 .. 4 : /\ Whole(taken, w)
                                /\ w > 1 => Value(taken, w) >= LeastNeeding(w)
                                /\ ~IsSurrogate(Value(taken, w))
                                /\ Value(taken, w) <= MaxCodePoint
                                /\ written = {Value(taken, w)}
        BY <1>1, <2>2 DEF DecoderInv, Verdict, Accepted
      <3>2. EncodeChar(Value(taken, w)) = taken
        BY <3>1, EncodeValue, LeastValue
      <3> QED
        BY <3>1, <3>2 DEF OnlyShortestForms, IsValidCodePoint
    <2> QED
      BY <2>1, <2>2
  <1> QED
    BY <1>1, Invariance, PTL
-----------------------------------------------------------------------------
(* Bytes no continuation can turn into a character: no lead byte, a byte    *)
(* that fails to continue, or a whole character of a bad value.             *)
Hopeless(s) ==
    \/ Len(s) = 1 /\ Width(s[1]) = 0
    \/ \E w \in 2 .. 4, k \in 2 .. 4 :
          k <= w /\ Len(s) = k /\ Width(s[1]) = w /\ ~IsContinuation(s[k])
    \/ \E w \in 2 .. 4 :
          Whole(s, w) /\ ~(SecondByteOK(s[1], s[2]) /\ Value(s, w) <= MaxCodePoint)

LEMMA NothingSaves ==
  ASSUME NEW s \in Seq(AnyByte), NEW r \in Seq(AnyByte), Hopeless(s)
  PROVE  DecodeChar(s \o r).status # "OK"
  <1> DEFINE t == s \o r
  <1>1. /\ t \in Seq(AnyByte) /\ Len(t) = Len(s) + Len(r)
        /\ \A i \in 1 .. Len(s) : t[i] = s[i]
    BY ConcatProperties
  <1> HIDE DEF t
  <1>2. Len(s) \in Nat /\ Len(r) \in Nat
    OBVIOUS
  <1>3. CASE Len(s) = 1 /\ Width(s[1]) = 0
    <2>1. t[1] = s[1] /\ t # << >>
      BY <1>1, <1>2, <1>3
    <2> QED
      BY <1>3, <2>1 DEF DecodeChar, Fail, t
  <1>4. ASSUME NEW w \in 2 .. 4, NEW k \in 2 .. 4, k <= w, Len(s) = k,
               Width(s[1]) = w, ~IsContinuation(s[k])
        PROVE  DecodeChar(t).status # "OK"
    <2>1. t # << >> /\ Width(t[1]) = w /\ ~IsContinuation(t[k])
      BY <1>1, <1>2, <1>4
    <2>2. ~(\A i \in 2 .. w : IsContinuation(t[i]))
      BY <1>4, <2>1
    <2> QED
      BY <2>1, <2>2 DEF DecodeChar, Fail
  <1>5. ASSUME NEW w \in 2 .. 4, Whole(s, w),
               ~(SecondByteOK(s[1], s[2]) /\ Value(s, w) <= MaxCodePoint)
        PROVE  DecodeChar(t).status # "OK"
    <2>1. Len(s) = w /\ Width(s[1]) = w
      BY <1>5 DEF Whole
    <2>2. /\ t # << >> /\ t[1] = s[1] /\ t[2] = s[2]
          /\ w > 2 => t[3] = s[3]
          /\ w > 3 => t[4] = s[4]
      BY <1>1, <1>2, <2>1
    <2>3. Value(t, w) = Value(s, w)
      BY <2>2 DEF Value
    <2> QED
      BY <1>5, <2>1, <2>2, <2>3 DEF DecodeChar, Fail
  <1> QED
    BY <1>3, <1>4, <1>5 DEF Hopeless, t

(* The bytes of an error are hopeless: what each branch of Feed that        *)
(* reports one leaves in taken.                                             *)
Justified == returned = "INVALID_ENCODING" => Hopeless(taken)

LEMMA BrokenJustified ==
  ASSUME DecoderInv, NEW b \in Byte, Breaks(b)
  PROVE  Hopeless(taken')
  <1>1. b \in AnyByte
    BY ByteAssumption
  <1>2. taken' = Append(taken, b) /\ ~IsContinuation(b) /\ bytes_needed # 0
    BY DEF Breaks, Idle
  <1>3. PICK w \in 2 .. 4, n \in 1 .. 3 : n < w /\ Begun(taken, n, w)
    BY <1>2, Middle
  <1> DEFINE t == Append(taken, b)
  <1>4. /\ Len(t) = n + 1 /\ t[n + 1] = b /\ t[1] = taken[1]
    BY <1>1, <1>3, BegunAppend
  <1>5. Width(taken[1]) = w
    BY <1>3 DEF Begun
  <1> HIDE DEF t
  <1>6. n + 1 \in 2 .. 4 /\ n + 1 <= w
    BY <1>3
  <1>7. \E v \in 2 .. 4, k \in 2 .. 4 :
           k <= v /\ Len(t) = k /\ Width(t[1]) = v /\ ~IsContinuation(t[k])
    BY <1>2, <1>4, <1>5, <1>6
  <1>8. Hopeless(t)
    BY <1>7 DEF Hopeless
  <1> QED
    BY <1>2, <1>8 DEF t

LEMMA FinishJustified ==
  ASSUME DecoderInv, NEW b \in Byte, Complete(b), returned' = "INVALID_ENCODING"
  PROVE  Hopeless(taken')
  <1>1. b \in AnyByte
    BY ByteAssumption
  <1>2. /\ taken' = Append(taken, b) /\ IsContinuation(b) /\ bytes_needed = 1
        /\ ~Acceptable(Extended(b))
    BY DEF Complete
  <1>3. PICK w \in 2 .. 4, n \in 1 .. 3 :
            /\ n < w /\ Begun(taken, n, w) /\ codepoint = Value(taken, n)
            /\ bytes_needed = w - n /\ min_codepoint = LeastNeeding(w)
    BY <1>2, Middle
  <1>4. n + 1 = w
    BY <1>2, <1>3
  <1> DEFINE t == Append(taken, b)
  <1>5. /\ Begun(t, w, w)
        /\ Value(t, w) = Value(taken, n) * 64 + (b % 64)
    BY <1>1, <1>2, <1>3, <1>4, BegunContinue
  <1>6. Whole(t, w) /\ taken' = t /\ Extended(b) = Value(t, w)
    BY <1>2, <1>3, <1>5, WholeIsBegun DEF Extended
  <1> HIDE DEF t
  <1>7. ~(/\ Value(t, w) >= LeastNeeding(w)
          /\ ~IsSurrogate(Value(t, w))
          /\ Value(t, w) <= MaxCodePoint)
    BY <1>2, <1>3, <1>6 DEF Acceptable
  <1>8. ~(SecondByteOK(t[1], t[2]) /\ Value(t, w) <= MaxCodePoint)
    BY <1>6, <1>7, TestsAgree, LeastValue
  <1> QED
    BY <1>6, <1>8 DEF Hopeless

LEMMA JustifiedStep ==
  ASSUME DecoderInv, Justified, [DecoderNext]_decoder_vars
  PROVE  Justified'
  <1>1. CASE UNCHANGED decoder_vars
    BY <1>1 DEF Justified, decoder_vars
  <1>2. ASSUME NEW b \in Byte, Feed(b), returned' = "INVALID_ENCODING"
        PROVE  Hopeless(taken')
    <2>1. CASE FeedAscii(b) \/ Lead(b) \/ Continue(b)
      BY <1>2, <2>1 DEF FeedAscii, Lead, Continue
    <2>2. CASE BadLead(b)
      <3>1. taken' = <<b>> /\ Width(b) = 0
        BY <2>2 DEF BadLead
      <3> QED
        BY <3>1 DEF Hopeless
    <2>3. CASE Breaks(b)
      BY <2>3, BrokenJustified
    <2>4. CASE Complete(b)
      BY <1>2, <2>4, FinishJustified
    <2> QED
      BY <1>2, <2>1, <2>2, <2>3, <2>4 DEF Feed
  <1> QED
    BY <1>1, <1>2 DEF DecoderNext, Justified

(* Whatever arrives, an error is reported only when the bytes of the        *)
(* attempt are beyond rescue: however the character had gone on,            *)
(* EDC_UTF8_DecodeChar would have refused it too.                           *)
THEOREM RejectsNothingEarly == DecoderSpec => []RejectsOnlyHopeless
  <1>1. DecoderInit => Justified
    BY DEF DecoderInit, Justified
  <1>2. ASSUME DecoderInv, Justified
        PROVE  RejectsOnlyHopeless
    <2>1. SUFFICES ASSUME returned = "INVALID_ENCODING", NEW n \in 0 .. 3,
                          NEW rest \in [1 .. n -> {b \in Byte : IsContinuation(b)}]
                   PROVE  DecodeChar(taken \o rest).status # "OK"
      BY DEF RejectsOnlyHopeless
    <2>2. \A i \in 1 .. n : rest[i] \in AnyByte
      BY ByteAssumption
    <2>3. rest \in [1 .. n -> AnyByte] /\ n \in Nat
      BY <2>2
    <2>4. rest \in Seq(AnyByte)
      BY <2>3
    <2>5. taken \in Seq(AnyByte)
      BY <1>2, ByteAssumption DEF DecoderInv
    <2> QED
      BY <1>2, <2>1, <2>4, <2>5, NothingSaves DEF Justified
  <1> QED
    BY <1>1, <1>2, Invariance, JustifiedStep, PTL DEF DecoderSpec
=============================================================================
