--------------------------- MODULE TextConversionProofs ---------------------------
(***************************************************************************)
(* Proofs that the conversions of whole texts stay inside the caller's     *)
(* memory, that those that work in place never overtake themselves, that   *)
(* what they leave is the conversion of the text, in place as out of place,*)
(* that what has an inverse is undone by it, that a normal form is one, and*)
(* that what looks at bytes agrees with the characters: for every text,    *)
(* every choice of flags and every size of buffer.                         *)
(***************************************************************************)
EXTENDS TextConversion, Utf8Proofs, WellFoundedInduction, FiniteSetTheorems

-----------------------------------------------------------------------------
(* Sizes.  No character becomes longer in place.                            *)

LEMMA ValueOfPrefix ==
    ASSUME NEW w \in 1 .. 4, NEW s, NEW t, \A i \in 1 .. w : t[i] = s[i]
    PROVE  Value(t, w) = Value(s, w)
<1>1. t[1] = s[1]
  OBVIOUS
<1>2. w >= 2 => t[2] = s[2]
  OBVIOUS
<1>3. w >= 3 => t[3] = s[3]
  OBVIOUS
<1>4. w = 4 => t[4] = s[4]
  OBVIOUS
<1>5. CASE w = 1
  BY <1>1, <1>5 DEF Value
<1>6. CASE w = 2
  <2>1. t[2] = s[2]
    BY <1>2, <1>6
  <2> QED
    BY <1>1, <1>6, <2>1 DEF Value
<1>7. CASE w = 3
  <2>1. t[2] = s[2] /\ t[3] = s[3]
    BY <1>2, <1>3, <1>7
  <2> QED
    BY <1>1, <1>7, <2>1 DEF Value
<1>8. CASE w = 4
  <2>1. t[2] = s[2] /\ t[3] = s[3] /\ t[4] = s[4]
    BY <1>2, <1>3, <1>4, <1>8
  <2> QED
    BY <1>1, <1>8, <2>1 DEF Value
<1> QED
  BY <1>5, <1>6, <1>7, <1>8

LEMMA ValueSize ==
    ASSUME NEW w \in 1 .. 4, NEW t, Whole(t, w)
    PROVE  /\ Value(t, w) \in Nat
           /\ w = 1 => Value(t, w) <= 127
           /\ w = 2 => Value(t, w) <= 2047
           /\ w = 3 => Value(t, w) <= 65535
<1> DEFINE v == Value(t, w)
<1>1. v \in Nat
  BY WholeNat
<1>2. CASE w = 1
  <2>1. v \in 0 .. 127
    BY <1>2, WholeValue
  <2> HIDE DEF v
  <2>2. v <= 127
    BY <2>1
  <2> QED
    BY <1>1, <1>2, <2>2 DEF v
<1>3. CASE w = 2
  <2>1. t[1] \in 194 .. 223 /\ t[2] \in 128 .. 191 /\ v = (t[1] - 192) * 64 + (t[2] - 128)
    BY <1>3, WholeValue
  <2> HIDE DEF v
  <2>2. v <= 2047
    BY <2>1
  <2> QED
    BY <1>1, <1>3, <2>2 DEF v
<1>4. CASE w = 3
  <2>1. /\ t[1] \in 224 .. 239 /\ t[2] \in 128 .. 191 /\ t[3] \in 128 .. 191
        /\ v = (t[1] - 224) * 4096 + (t[2] - 128) * 64 + (t[3] - 128)
    BY <1>4, WholeValue
  <2> HIDE DEF v
  <2>2. /\ t[1] - 224 \in Nat /\ t[2] - 128 \in Nat /\ t[3] - 128 \in Nat
        /\ t[1] - 224 <= 15 /\ t[2] - 128 <= 63 /\ t[3] - 128 <= 63
    BY <2>1
  <2>3. v <= 65535
    BY <2>1, <2>2, ThreeBound
  <2> QED
    BY <1>1, <1>4, <2>3 DEF v
<1>5. CASE w = 4
  BY <1>1, <1>5
<1> QED
  BY <1>2, <1>3, <1>4, <1>5

(* A character that was decoded begins with all of its bytes.               *)
LEMMA DecodedWhole ==
    ASSUME NEW s \in Seq(AnyByte), DecodeChar(s).status = "OK"
    PROVE  LET w == DecodeChar(s).used
           IN  /\ s # << >> /\ w \in 1 .. 4 /\ w <= Len(s)
               /\ DecodeChar(s).cp <= MaxCodePoint
               /\ \E prefix \in Seq(AnyByte) :
                      /\ Whole(prefix, w) /\ prefix[1] = s[1]
                      /\ \A i \in 1 .. w : prefix[i] = s[i]
                      /\ w > 1 => SecondByteOK(prefix[1], prefix[2])
                      /\ DecodeChar(s).cp = Value(prefix, w)
<1> DEFINE w == Width(s[1])
           t == SubSeq(s, 1, w)
<1>1. /\ s # << >> /\ w # 0 /\ ~(Len(s) < w)
      /\ \A i \in 2 .. w : IsContinuation(s[i])
      /\ Value(s, w) <= MaxCodePoint
      /\ DecodeChar(s).used = w /\ DecodeChar(s).cp = Value(s, w)
  <2>1. s # << >>
    BY DEF DecodeChar, Fail
  <2>2. w # 0
    BY <2>1 DEF DecodeChar, Fail
  <2>3. ~(Len(s) < w)
    BY <2>1, <2>2 DEF DecodeChar, Fail
  <2>4. /\ w > 1 => SecondByteOK(s[1], s[2])
        /\ \A i \in 2 .. w : IsContinuation(s[i])
        /\ Value(s, w) <= MaxCodePoint
    BY <2>1, <2>2, <2>3, Zenon DEF DecodeChar, Fail
  <2>5. DecodeChar(s) = [status |-> "OK", cp |-> Value(s, w), used |-> w]
    BY <2>1, <2>2, <2>3, <2>4, Zenon DEF DecodeChar
  <2> QED
    BY <2>1, <2>2, <2>3, <2>4, <2>5
<1>2. Len(s) \in Nat /\ Len(s) >= 1 /\ s[1] \in AnyByte
  BY <1>1
<1>3. w \in 1 .. 4 /\ w <= Len(s)
  <2>1. w \in 0 .. 4
    BY <1>2, LeadRange
  <2> HIDE DEF w
  <2> QED
    BY <1>1, <1>2, <2>1
<1>4. PICK prefix \in Seq(AnyByte) : Len(prefix) = w /\ \A i \in 1 .. w : prefix[i] = s[i]
  <2>1. t \in Seq(AnyByte) /\ Len(t) = w /\ \A i \in 1 .. w : t[i] = s[i]
    BY <1>3
  <2> QED
    BY <2>1
<1>5. prefix[1] = s[1] /\ (w > 1 => prefix[2] = s[2])
  BY <1>3, <1>4
<1>6. Whole(prefix, w)
  <2>1. \A i \in 2 .. w : IsContinuation(prefix[i])
    <3> SUFFICES ASSUME NEW i \in 2 .. w PROVE IsContinuation(prefix[i])
      OBVIOUS
    <3>1. i \in 1 .. w
      BY <1>3
    <3> QED
      BY <1>1, <1>4, <3>1
  <2> QED
    BY <1>4, <1>5, <2>1 DEF Whole
<1>7. Value(prefix, w) = Value(s, w)
  BY <1>3, <1>4, ValueOfPrefix
<1>8. w > 1 => SecondByteOK(s[1], s[2])
  BY <1>1, Zenon DEF DecodeChar, Fail
<1>9. w > 1 => SecondByteOK(prefix[1], prefix[2])
  <2> HIDE DEF w
  <2> QED
    BY <1>5, <1>8
<1> HIDE DEF w
<1> QED
  BY <1>1, <1>3, <1>4, <1>5, <1>6, <1>7, <1>9

LEMMA CharSize ==
    ASSUME NEW s \in Seq(AnyByte), DecodeChar(s).status = "OK"
    PROVE  LET char == DecodeChar(s)
           IN  /\ char.used \in 1 .. 4 /\ char.used <= Len(s)
               /\ char.cp \in Nat /\ char.cp <= MaxCodePoint
               /\ char.used = 1 => char.cp <= 127
               /\ char.used = 2 => char.cp <= 2047
               /\ char.used = 3 => char.cp <= 65535
<1> DEFINE w == DecodeChar(s).used
<1>1. /\ w \in 1 .. 4 /\ w <= Len(s) /\ DecodeChar(s).cp <= MaxCodePoint
      /\ \E prefix \in Seq(AnyByte) : Whole(prefix, w) /\ DecodeChar(s).cp = Value(prefix, w)
  BY DecodedWhole
<1> HIDE DEF w
<1>2. PICK prefix \in Seq(AnyByte) : Whole(prefix, w) /\ DecodeChar(s).cp = Value(prefix, w)
  BY <1>1
<1>3. /\ Value(prefix, w) \in Nat
      /\ w = 1 => Value(prefix, w) <= 127
      /\ w = 2 => Value(prefix, w) <= 2047
      /\ w = 3 => Value(prefix, w) <= 65535
  BY <1>1, <1>2, ValueSize
<1> QED
  BY <1>1, <1>2, <1>3 DEF w

LEMMA EncodeSize ==
    ASSUME NEW cp \in Nat, cp <= MaxCodePoint
    PROVE  /\ EncodeChar(cp) \in Seq(AnyByte)
           /\ Len(EncodeChar(cp)) \in 1 .. 4
           /\ cp <= 127 => Len(EncodeChar(cp)) = 1
           /\ cp <= 2047 => Len(EncodeChar(cp)) <= 2
           /\ cp <= 65535 => Len(EncodeChar(cp)) <= 3
<1>0. cp <= 1114111
  BY DEF MaxCodePoint
<1>1. CASE cp <= 127
  <2>1. EncodeChar(cp) = <<cp>> /\ cp \in AnyByte
    BY <1>1 DEF EncodeChar, AnyByte
  <2> QED
    BY <1>1, <2>1
<1>2. CASE cp > 127 /\ cp <= 2047
  <2>1. EncodeChar(cp) = <<192 + (cp \div 64), 128 + (cp % 64)>>
    BY <1>2 DEF EncodeChar
  <2>2. 192 + (cp \div 64) \in AnyByte /\ 128 + (cp % 64) \in AnyByte
    BY <1>2, SMT DEF AnyByte
  <2> QED
    BY <1>2, <2>1, <2>2
<1>3. CASE cp > 2047 /\ cp <= 65535
  <2>1. EncodeChar(cp) = <<224 + (cp \div 4096), 128 + ((cp \div 64) % 64), 128 + (cp % 64)>>
    BY <1>3 DEF EncodeChar
  <2>2. /\ 224 + (cp \div 4096) \in AnyByte /\ 128 + ((cp \div 64) % 64) \in AnyByte
        /\ 128 + (cp % 64) \in AnyByte
    BY <1>3, SMT DEF AnyByte
  <2> QED
    BY <1>3, <2>1, <2>2
<1>4. CASE cp > 65535
  <2>1. EncodeChar(cp) = <<240 + (cp \div 262144), 128 + ((cp \div 4096) % 64),
                           128 + ((cp \div 64) % 64), 128 + (cp % 64)>>
    BY <1>4, SMT DEF EncodeChar
  <2>2. /\ 240 + (cp \div 262144) \in AnyByte /\ 128 + ((cp \div 4096) % 64) \in AnyByte
        /\ 128 + ((cp \div 64) % 64) \in AnyByte /\ 128 + (cp % 64) \in AnyByte
    BY <1>0, <1>4, SMT DEF AnyByte
  <2> QED
    BY <1>4, <2>1, <2>2, SMT
<1> QED
  BY <1>1, <1>2, <1>3, <1>4

(* A replacement takes at most two bytes, and what it replaces takes two    *)
(* bytes or more.                                                           *)
LEMMA ReplacedSize ==
    ASSUME NEW f, NEW p, NEW cp \in Nat, cp <= MaxCodePoint
    PROVE  /\ Digit(Letter(cp, f), f, p) \in Nat /\ Digit(Letter(cp, f), f, p) <= MaxCodePoint
           /\ p => Digit(Letter(cp, f), f, p) = cp \/ (cp > 127 /\ Digit(Letter(cp, f), f, p) <= 2047)
<1> DEFINE letter == Letter(cp, f)
<1>0. 2047 <= MaxCodePoint /\ MaxCodePoint \in Nat
  BY SMT DEF MaxCodePoint
<1>1. letter \in Nat /\ (letter = cp \/ (cp > 127 /\ letter > 127 /\ letter <= 2047))
  BY SMT DEF Letter
<1> HIDE DEF letter
<1>2. English(letter) \in Nat /\ (English(letter) = letter \/ (letter > 127 /\ English(letter) <= 127))
  BY <1>1, SMT DEF English
<1>3. Persian(letter) \in Nat /\ (Persian(letter) = letter \/ Persian(letter) <= 2047)
  BY <1>1, SMT DEF Persian
<1>4. \/ Digit(letter, f, p) = English(letter)
      \/ ~p /\ Digit(letter, f, p) = Persian(letter)
      \/ Digit(letter, f, p) = letter
  BY DEF Digit
<1>5. /\ Digit(letter, f, p) \in Nat /\ Digit(letter, f, p) <= MaxCodePoint
      /\ p => Digit(letter, f, p) = cp \/ (cp > 127 /\ Digit(letter, f, p) <= 2047)
  BY <1>0, <1>1, <1>2, <1>3, <1>4, SMT
<1> QED
  BY <1>5 DEF letter

LEMMA NormalizedSize ==
    ASSUME NEW f, NEW p, NEW s \in Seq(AnyByte), Normalized(s, f, p).status = "OK"
    PROVE  LET chunk == Normalized(s, f, p)
           IN  /\ chunk.used \in 1 .. Len(s) /\ chunk.units \in Seq(AnyByte)
               /\ p => Len(chunk.units) <= chunk.used
<1> DEFINE char == DecodeChar(s)
<1>1. char.status = "OK"
  BY DEF Normalized, Failed
<1>2. /\ char.used \in 1 .. 4 /\ char.used <= Len(s)
      /\ char.cp \in Nat /\ char.cp <= MaxCodePoint
      /\ char.used = 1 => char.cp <= 127
      /\ char.used = 2 => char.cp <= 2047
      /\ char.used = 3 => char.cp <= 65535
  BY <1>1, CharSize
<1> HIDE DEF char
<1>3. CASE Stripped(char.cp, f)
  <2>1. Normalized(s, f, p) = Done(char.used, << >>)
    BY <1>1, <1>3 DEF Normalized, char
  <2> QED
    BY <1>2, <2>1 DEF Done
<1>4. CASE ~Stripped(char.cp, f)
  <2> DEFINE cp == Digit(Letter(char.cp, f), f, p)
  <2>1. Normalized(s, f, p) = Done(char.used, EncodeChar(cp))
    BY <1>1, <1>4 DEF Normalized, char
  <2>2. /\ cp \in Nat /\ cp <= MaxCodePoint
        /\ p => cp = char.cp \/ (char.cp > 127 /\ cp <= 2047)
    BY <1>2, ReplacedSize
  <2> HIDE DEF cp
  <2>3. /\ EncodeChar(cp) \in Seq(AnyByte)
        /\ Len(EncodeChar(cp)) \in 1 .. 4
        /\ cp <= 127 => Len(EncodeChar(cp)) = 1
        /\ cp <= 2047 => Len(EncodeChar(cp)) <= 2
        /\ cp <= 65535 => Len(EncodeChar(cp)) <= 3
    BY <2>2, EncodeSize
  <2>4. p => Len(EncodeChar(cp)) <= char.used
    <3> SUFFICES ASSUME p PROVE Len(EncodeChar(cp)) <= char.used
      OBVIOUS
    <3>1. cp = char.cp \/ (char.cp > 127 /\ cp <= 2047)
      BY <2>2
    <3> DEFINE n == Len(EncodeChar(cp))
    <3>2. n \in 1 .. 4 /\ (cp <= 127 => n = 1) /\ (cp <= 2047 => n <= 2) /\ (cp <= 65535 => n <= 3)
      BY <2>3
    <3> HIDE DEF n
    <3>3. n <= char.used
      <4>1. CASE char.used = 1
        <5>1. cp <= 127
          BY <1>2, <3>1, <4>1
        <5> QED
          BY <3>2, <4>1, <5>1
      <4>2. CASE char.used = 2
        <5>1. cp <= 2047
          BY <1>2, <3>1, <4>2
        <5> QED
          BY <3>2, <4>2, <5>1
      <4>3. CASE char.used = 3
        <5>1. cp <= 65535
          BY <1>2, <2>2, <3>1, <4>3
        <5> QED
          BY <3>2, <4>3, <5>1
      <4>4. CASE char.used = 4
        BY <3>2, <4>4
      <4> QED
        BY <1>2, <4>1, <4>2, <4>3, <4>4
    <3> QED
      BY <3>3 DEF n
  <2> QED
    BY <1>2, <2>1, <2>3, <2>4 DEF Done
<1> QED
  BY <1>3, <1>4

LEMMA DigitBytes ==
    ASSUME NEW b \in AnyByte
    PROVE  /\ b \in 176 .. 185 => 48 + (b - 176) \in AnyByte
           /\ b \in 160 .. 169 => 48 + (b - 160) \in AnyByte
           /\ b \in 48 .. 57 => 176 + (b - 48) \in AnyByte /\ 160 + (b - 48) \in AnyByte
  BY SMT DEF AnyByte

LEMMA EnglishSize ==
    ASSUME NEW s \in Seq(AnyByte), s # << >>
    PROVE  LET chunk == DigitToEnglish(s)
           IN  /\ chunk.used \in 1 .. Len(s) /\ chunk.units \in Seq(AnyByte)
               /\ Len(chunk.units) <= chunk.used /\ chunk.status = "OK"
<1>1. Len(s) \in Nat /\ Len(s) >= 1 /\ s[1] \in AnyByte
  OBVIOUS
<1>2. CASE Len(s) > 1 /\ AsciiOf(s[1], s[2]) # {}
  <2> DEFINE c == CHOOSE c \in AsciiOf(s[1], s[2]) : TRUE
  <2>1. c \in AsciiOf(s[1], s[2])
    BY <1>2
  <2>2. s[2] \in AnyByte
    BY <1>2
  <2>3. AsciiOf(s[1], s[2]) \subseteq AnyByte
    <3>1. /\ s[2] \in 176 .. 185 => 48 + (s[2] - 176) \in AnyByte
          /\ s[2] \in 160 .. 169 => 48 + (s[2] - 160) \in AnyByte
      BY <2>2, DigitBytes
    <3>2. 46 \in AnyByte /\ 44 \in AnyByte
      BY DEF AnyByte
    <3>3. \/ s[2] \in 176 .. 185 /\ AsciiOf(s[1], s[2]) = {48 + (s[2] - 176)}
          \/ s[2] \in 160 .. 169 /\ AsciiOf(s[1], s[2]) = {48 + (s[2] - 160)}
          \/ AsciiOf(s[1], s[2]) \in {{46}, {44}, {}}
      BY Zenon DEF AsciiOf
    <3> QED
      BY <3>1, <3>2, <3>3, Zenon
  <2>4. c \in AnyByte
    BY <2>1, <2>3
  <2>5. DigitToEnglish(s) = Done(2, <<c>>)
    BY <1>2 DEF DigitToEnglish
  <2> HIDE DEF c
  <2> QED
    BY <1>1, <1>2, <2>4, <2>5 DEF Done
<1>3. CASE ~(Len(s) > 1 /\ AsciiOf(s[1], s[2]) # {})
  <2>1. DigitToEnglish(s) = Done(1, <<s[1]>>)
    BY <1>3 DEF DigitToEnglish
  <2> QED
    BY <1>1, <2>1 DEF Done
<1> QED
  BY <1>2, <1>3

LEMMA EasternSize ==
    ASSUME NEW s \in Seq(AnyByte), s # << >>,
           NEW chunk \in {DigitToPersian(s), DigitToArabic(s)}
    PROVE  /\ chunk.used \in 1 .. Len(s) /\ chunk.units \in Seq(AnyByte)
           /\ chunk.status = "OK"
<1>1. Len(s) \in Nat /\ Len(s) >= 1 /\ s[1] \in AnyByte
  OBVIOUS
<1>2. \/ chunk = Done(1, <<219, 176 + (s[1] - 48)>>) /\ s[1] \in 48 .. 57
      \/ chunk = Done(1, <<217, 160 + (s[1] - 48)>>) /\ s[1] \in 48 .. 57
      \/ chunk = Done(1, <<217, 171>>)
      \/ chunk = Done(1, <<s[1]>>)
  BY DEF DigitToPersian, DigitToArabic
<1>3. PICK bytes \in Seq(AnyByte) : chunk = Done(1, bytes)
  <2>1. s[1] \in 48 .. 57 => /\ <<219, 176 + (s[1] - 48)>> \in Seq(AnyByte)
                             /\ <<217, 160 + (s[1] - 48)>> \in Seq(AnyByte)
    <3>1. 219 \in AnyByte /\ 217 \in AnyByte
      BY DEF AnyByte
    <3> QED
      BY <1>1, <3>1, DigitBytes
  <2>2. <<217, 171>> \in Seq(AnyByte) /\ <<s[1]>> \in Seq(AnyByte)
    BY <1>1 DEF AnyByte
  <2>3. CASE s[1] \in 48 .. 57
    BY <1>2, <2>1, <2>2, <2>3, Zenon
  <2>4. CASE s[1] \notin 48 .. 57
    BY <1>2, <2>2, <2>4, Zenon
  <2> QED
    BY <2>3, <2>4
<1> QED
  BY <1>1, <1>3 DEF Done

LEMMA DecodeStatus ==
    ASSUME NEW s
    PROVE  DecodeChar(s).status \in {"OK", "INVALID_ENCODING", "INCOMPLETE"}
  BY Zenon DEF DecodeChar, Fail

-----------------------------------------------------------------------------
(* Transliteration: every row of the table holds Latin letters.             *)

LEMMA SmallSequences ==
    ASSUME NEW a \in Nat, NEW b \in Nat
    PROVE  << >> \in Seq(Nat) /\ <<a>> \in Seq(Nat) /\ <<a, b>> \in Seq(Nat)
  OBVIOUS

Positive == Nat \ {0}

Lower == 97 .. 122

LEMMA RowIsLower ==
    ASSUME NEW opts, NEW row \in Romanization(opts)
    PROVE  \E a, b \in Lower : row[2] \in {<<a>>, <<a, b>>}
<1> DEFINE Letters == {<<97>>, <<98>>, <<112>>, <<116>>, <<115>>, <<106>>, <<99, 104>>, <<104>>,
                       <<107, 104>>, <<120>>, <<100>>, <<122>>, <<114>>, <<122, 104>>,
                       <<115, 104>>, <<103, 104>>, <<102>>, <<113>>, <<107>>, <<103>>, <<108>>,
                       <<109>>, <<110>>, <<118>>, <<117>>, <<121>>, <<105>>}
<1>1. row[2] \in Letters
  BY SMTT(60) DEF Romanization
<1>2. \A letters \in Letters : \E a, b \in Lower : letters \in {<<a>>, <<a, b>>}
  BY SMT DEF Lower
<1> HIDE DEF Letters
<1> QED
  BY <1>1, <1>2

LEMMA RowLetters ==
    ASSUME NEW opts, NEW row \in Romanization(opts)
    PROVE  \E a, b \in Positive : row[2] \in {<<a>>, <<a, b>>}
<1>1. PICK a \in Lower, b \in Lower : row[2] \in {<<a>>, <<a, b>>}
  BY RowIsLower
<1>2. a \in Positive /\ b \in Positive
  BY SMT DEF Lower, Positive
<1> QED
  BY <1>1, <1>2

LEMMA SeqSubset ==
    ASSUME NEW A, NEW B, A \subseteq B, NEW t \in Seq(A)
    PROVE  t \in Seq(B)
  OBVIOUS

LEMMA BytesNat ==
    ASSUME NEW t \in Seq(AnyByte)
    PROVE  t \in Seq(Nat)
<1>1. AnyByte \subseteq Nat
  BY DEF AnyByte
<1> QED
  BY <1>1, SeqSubset

LEMMA LatinLetters ==
    ASSUME NEW opts, NEW cp \in Nat
    PROVE  Latin(cp, opts) \in Seq(Nat)
<1> DEFINE rows == {row \in Romanization(opts) : cp \in row[1]}
           row  == CHOOSE r \in rows : TRUE
<1>0. \/ Latin(cp, opts) = <<English(cp)>>
      \/ rows # {} /\ Latin(cp, opts) = row[2]
      \/ Latin(cp, opts) = <<cp>>
      \/ Latin(cp, opts) = << >>
  BY SMT DEF Latin
<1>1. CASE Latin(cp, opts) = <<English(cp)>>
  <2>1. English(cp) \in Nat
    BY SMT DEF English
  <2> QED
    BY <1>1, <2>1, SmallSequences
<1>2. CASE rows # {} /\ Latin(cp, opts) = row[2]
  <2>1. row \in rows
    <3> HIDE DEF rows
    <3> QED
      BY <1>2
  <2>2. row \in Romanization(opts)
    BY <2>1, Zenon
  <2> HIDE DEF row
  <2> QED
    <3>1. PICK a \in Positive, b \in Positive : row[2] \in {<<a>>, <<a, b>>}
      BY <2>2, RowLetters
    <3>2. a \in Nat /\ b \in Nat
      BY DEF Positive
    <3> QED
      BY <1>2, <3>1, <3>2, SmallSequences, Zenon
<1>3. CASE Latin(cp, opts) = <<cp>> \/ Latin(cp, opts) = << >>
  BY <1>3, SmallSequences, Zenon
<1> HIDE DEF rows, row
<1> QED
  BY <1>0, <1>1, <1>2, <1>3, Zenon

LEMMA UpperNat ==
    ASSUME NEW c \in Nat
    PROVE  ToUpper(c) \in Nat
  BY SMT DEF ToUpper

LEMMA TransliteratedSize ==
    ASSUME NEW opts, NEW word_start, NEW s \in Seq(AnyByte),
           Transliterated(s, opts, word_start).status = "OK"
    PROVE  LET chunk == Transliterated(s, opts, word_start)
           IN  chunk.used \in 1 .. Len(s) /\ chunk.units \in Seq(Nat)
<1> DEFINE char == DecodeChar(s)
           latin == Latin(char.cp, opts)
<1>1. char.status = "OK"
  BY DEF Transliterated, Failed
<1>2. char.used \in 1 .. Len(s) /\ char.cp \in Nat
  BY <1>1, CharSize
<1>3. latin \in Seq(Nat)
  BY <1>2, LatinLetters
<1>4. \/ Transliterated(s, opts, word_start) = Done(char.used, latin)
      \/ /\ latin # << >>
         /\ Transliterated(s, opts, word_start)
               = Done(char.used, <<ToUpper(latin[1])>> \o Tail(latin))
  BY <1>1, Zenon DEF Transliterated
<1> HIDE DEF char, latin
<1>5. latin # << >> => <<ToUpper(latin[1])>> \o Tail(latin) \in Seq(Nat)
  <2> SUFFICES ASSUME latin # << >> PROVE <<ToUpper(latin[1])>> \o Tail(latin) \in Seq(Nat)
    OBVIOUS
  <2>1. latin[1] \in Nat /\ Tail(latin) \in Seq(Nat)
    BY <1>3
  <2>2. ToUpper(latin[1]) \in Nat
    BY <2>1, UpperNat
  <2> QED
    BY <2>1, <2>2
<1>6. PICK units \in Seq(Nat) : Transliterated(s, opts, word_start) = Done(char.used, units)
  BY <1>3, <1>4, <1>5, Zenon
<1> QED
  BY <1>2, <1>6 DEF Done

-----------------------------------------------------------------------------
(* The other encodings.                                                     *)

LEMMA OrderedNat ==
    ASSUME NEW f, NEW w \in Nat
    PROVE  Ordered(w, f) \in Nat
<1>1. (w % 256) * 256 + (w \div 256) \in Nat
  BY SMT
<1> QED
  BY <1>1 DEF Ordered

LEMMA WordsNat ==
    ASSUME NEW f, NEW cp \in Nat
    PROVE  Words(cp, f) \in Seq(Nat)
<1>1. PICK v \in Nat : Words(cp, f) \in {<<Ordered(cp, f)>>,
         <<Ordered(55296 + (v \div 1024), f), Ordered(56320 + (v % 1024), f)>>}
  <2>1. CASE cp <= 65535
    <3>1. Words(cp, f) = <<Ordered(cp, f)>>
      BY <2>1 DEF Words
    <3> QED
      BY <3>1
  <2>2. CASE ~(cp <= 65535)
    <3> DEFINE v == cp - 65536
    <3>1. v \in Nat
      BY <2>2, SMT
    <3>2. Words(cp, f) = <<Ordered(55296 + (v \div 1024), f), Ordered(56320 + (v % 1024), f)>>
      BY <2>2, SMT DEF Words
    <3> HIDE DEF v
    <3> QED
      BY <3>1, <3>2
  <2> QED
    BY <2>1, <2>2
<1> DEFINE w1 == 55296 + (v \div 1024)
           w2 == 56320 + (v % 1024)
<1>2. w1 \in Nat /\ w2 \in Nat
  BY SMT
<1>3. Words(cp, f) \in {<<Ordered(cp, f)>>, <<Ordered(w1, f), Ordered(w2, f)>>}
  BY <1>1
<1> HIDE DEF w1, w2
<1>4. Ordered(cp, f) \in Nat /\ Ordered(w1, f) \in Nat /\ Ordered(w2, f) \in Nat
  BY <1>2, OrderedNat
<1>5. <<Ordered(cp, f)>> \in Seq(Nat) /\ <<Ordered(w1, f), Ordered(w2, f)>> \in Seq(Nat)
  BY <1>4, SmallSequences
<1> QED
  BY <1>3, <1>5, Zenon

LEMMA EncodedNat ==
    ASSUME NEW cp \in Nat
    PROVE  EncodeChar(cp) \in Seq(Nat)
<1>1. \A n \in Nat : cp \div 64 \in Nat /\ cp % 64 \in Nat
                    /\ cp \div 4096 \in Nat /\ (cp \div 64) % 64 \in Nat
                    /\ cp \div 262144 \in Nat /\ (cp \div 4096) % 64 \in Nat
  BY SMT
<1> QED
  BY <1>1, SMT DEF EncodeChar

LEMMA DecodeWordsSize ==
    ASSUME NEW f, NEW s \in Seq(Nat), s # << >>, DecodeWords(s, f).status = "OK"
    PROVE  LET char == DecodeWords(s, f)
           IN  char.used \in 1 .. Len(s) /\ char.cp \in Nat
<1> DEFINE w1 == Ordered(s[1], f)
           w2 == Ordered(s[2], f)
<1>1. Len(s) \in Nat /\ Len(s) >= 1 /\ s[1] \in Nat
  OBVIOUS
<1>2. \/ DecodeWords(s, f) = [status |-> "OK", cp |-> w1, used |-> 1]
      \/ /\ ~(Len(s) < 2)
         /\ DecodeWords(s, f) = [status |-> "OK", used |-> 2,
                cp |-> 65536 + (w1 % 1024) * 1024 + (w2 % 1024)]
  BY DEF DecodeWords, Fail
<1>3. w1 \in Nat /\ (Len(s) >= 2 => w2 \in Nat)
  <2>1. Len(s) >= 2 => s[2] \in Nat
    BY <1>1
  <2> QED
    BY <1>1, <2>1, OrderedNat
<1>4. PICK n \in 1 .. Len(s), cp \in Nat :
         DecodeWords(s, f) = [status |-> "OK", cp |-> cp, used |-> n]
  <2>1. CASE DecodeWords(s, f) = [status |-> "OK", cp |-> w1, used |-> 1]
    <3> HIDE DEF w1
    <3> QED
      BY <1>1, <1>3, <2>1
  <2>2. CASE /\ ~(Len(s) < 2)
             /\ DecodeWords(s, f) = [status |-> "OK", used |-> 2,
                    cp |-> 65536 + (w1 % 1024) * 1024 + (w2 % 1024)]
    <3> DEFINE v == 65536 + (w1 % 1024) * 1024 + (w2 % 1024)
    <3>1. DecodeWords(s, f) = [status |-> "OK", cp |-> v, used |-> 2]
      BY <2>2
    <3>2. v \in Nat
      <4> HIDE DEF w1, w2
      <4>1. w1 \in Nat /\ w2 \in Nat
        BY <1>1, <1>3, <2>2
      <4> QED
        BY <4>1, SMT
    <3>3. 2 \in 1 .. Len(s)
      BY <1>1, <2>2
    <3> HIDE DEF v
    <3> QED
      BY <3>1, <3>2, <3>3
  <2> QED
    BY <1>2, <2>1, <2>2
<1> QED
  BY <1>4

-----------------------------------------------------------------------------
(* The units the input of a conversion consists of.                         *)
Wide == {"UTF16_ToUTF8", "UTF32_ToUTF8"}

UnitsOf(c) ==
    IF c = "UTF16_ToUTF8" THEN AnyWord ELSE IF c = "UTF32_ToUTF8" THEN Nat ELSE AnyByte

LEMMA UnitsNat ==
    ASSUME NEW c
    PROVE  UnitsOf(c) \subseteq Nat /\ NUL \in UnitsOf(c)
<1>1. /\ AnyByte \subseteq Nat /\ NUL \in Nat /\ NUL \in AnyByte
      /\ AnyWord \subseteq Nat /\ NUL \in AnyWord
  BY DEF AnyByte, AnyWord, MaxWord, NUL
<1> QED
  BY <1>1, Zenon DEF UnitsOf

LEMMA DecodedSize ==
    ASSUME NEW f, NEW s \in Seq(AnyByte), NEW c \in {"UTF8_ToUTF16", "UTF8_ToUTF32", "Inspect"},
           NEW chunk, chunk.status = "OK",
           c = "UTF8_ToUTF16" => chunk = ToWords(s, f),
           c = "UTF8_ToUTF32" => chunk = ToCode(s),
           c = "Inspect" => chunk = Inspected(s)
    PROVE  chunk.used \in 1 .. Len(s) /\ chunk.units \in Seq(Nat)
<1> DEFINE char == DecodeChar(s)
<1>1. char.status = "OK"
  BY DEF ToWords, ToCode, Inspected, Failed
<1>2. char.used \in 1 .. Len(s) /\ char.cp \in Nat
  BY <1>1, CharSize
<1>3. Words(char.cp, f) \in Seq(Nat) /\ <<char.cp>> \in Seq(Nat) /\ << >> \in Seq(Nat)
  BY <1>2, WordsNat, SmallSequences
<1>4. \E units \in {Words(char.cp, f), <<char.cp>>, << >>} : chunk = Done(char.used, units)
  BY <1>1, Zenon DEF ToWords, ToCode, Inspected
<1> HIDE DEF char
<1>5. PICK units \in Seq(Nat) : chunk = Done(char.used, units)
  BY <1>3, <1>4, Zenon
<1> QED
  BY <1>2, <1>5 DEF Done

LEMMA EncodedSize ==
    ASSUME NEW f, NEW s, s # << >>,
           NEW chunk, chunk.status = "OK",
           s \in Seq(Nat), chunk = FromWords(s, f) \/ chunk = FromCode(s)
    PROVE  chunk.used \in 1 .. Len(s) /\ chunk.units \in Seq(Nat)
<1>1. CASE chunk = FromWords(s, f)
  <2> DEFINE char == DecodeWords(s, f)
  <2>1. char.status = "OK"
    BY <1>1 DEF FromWords, Failed
  <2>2. char.used \in 1 .. Len(s) /\ char.cp \in Nat
    BY <2>1, DecodeWordsSize
  <2>3. chunk = Done(char.used, EncodeChar(char.cp))
    BY <1>1, <2>1, Zenon DEF FromWords
  <2>4. EncodeChar(char.cp) \in Seq(Nat)
    BY <2>2, EncodedNat
  <2> HIDE DEF char
  <2> QED
    BY <2>2, <2>3, <2>4 DEF Done
<1>2. CASE chunk = FromCode(s)
  <2>1. Len(s) \in Nat /\ Len(s) >= 1 /\ s[1] \in Nat
    OBVIOUS
  <2>2. chunk = Done(1, EncodeChar(s[1]))
    BY <1>2 DEF FromCode, Failed
  <2>3. EncodeChar(s[1]) \in Seq(Nat)
    BY <2>1, EncodedNat
  <2> QED
    BY <2>1, <2>2, <2>3 DEF Done
<1> QED
  BY <1>1, <1>2

(* Whatever is converted, at least one unit is used up, and in place no     *)
(* more bytes come out than went in.                                        *)
LEMMA ChunkSize ==
    ASSUME NEW c, NEW w, NEW s \in Seq(UnitsOf(c)), s # << >>,
           Chunk(c, s, w).status = "OK"
    PROVE  /\ Chunk(c, s, w).used \in 1 .. Len(s)
           /\ Chunk(c, s, w).units \in Seq(Nat)
           /\ in_place /\ c \in InPlaceConversions =>
                 /\ Chunk(c, s, w).units \in Seq(AnyByte)
                 /\ Len(Chunk(c, s, w).units) <= Chunk(c, s, w).used
<1> DEFINE chunk == Chunk(c, s, w)
<1>0. \A t \in Seq(AnyByte) : t \in Seq(Nat)
  BY BytesNat
<1>1. CASE c = "Normalize"
  <2>1. s \in Seq(AnyByte) /\ chunk = Normalized(s, flags, in_place)
    BY <1>1 DEF Chunk, UnitsOf, Wide
  <2> QED
    BY <1>0, <2>1, NormalizedSize
<1>2. CASE c = "DigitsToEnglish"
  <2>1. s \in Seq(AnyByte) /\ chunk = DigitToEnglish(s)
    BY <1>2 DEF Chunk, UnitsOf, Wide
  <2> QED
    BY <1>0, <2>1, EnglishSize
<1>3. CASE c \in {"DigitsToPersian", "DigitsToArabic"}
  <2>1. s \in Seq(AnyByte) /\ chunk \in {DigitToPersian(s), DigitToArabic(s)}
    BY <1>3 DEF Chunk, UnitsOf, Wide
  <2>2. chunk.used \in 1 .. Len(s) /\ chunk.units \in Seq(AnyByte)
    BY <2>1, EasternSize
  <2> QED
    BY <1>0, <1>3, <2>2 DEF InPlaceConversions
<1>4. CASE c = "ToLatin"
  <2>1. s \in Seq(AnyByte) /\ chunk = Transliterated(s, flags, w)
    BY <1>4 DEF Chunk, UnitsOf, Wide
  <2> QED
    BY <1>4, <2>1, TransliteratedSize DEF InPlaceConversions
<1>5. CASE c = "UTF8_ToUTF16"
  <2>1. s \in Seq(AnyByte) /\ chunk = ToWords(s, flags)
    BY <1>5 DEF Chunk, UnitsOf, Wide
  <2> HIDE DEF chunk
  <2>2. chunk.used \in 1 .. Len(s) /\ chunk.units \in Seq(Nat)
    BY <2>1, DecodedSize DEF chunk
  <2> QED
    BY <1>5, <2>2 DEF InPlaceConversions, chunk
<1>6. CASE c = "UTF8_ToUTF32"
  <2>1. s \in Seq(AnyByte) /\ chunk = ToCode(s)
    BY <1>6 DEF Chunk, UnitsOf, Wide
  <2> HIDE DEF chunk
  <2>2. chunk.used \in 1 .. Len(s) /\ chunk.units \in Seq(Nat)
    BY <2>1, DecodedSize DEF chunk
  <2> QED
    BY <1>6, <2>2 DEF InPlaceConversions, chunk
<1>7. CASE c \in Wide
  <2>1. s \in Seq(Nat) /\ (chunk = FromWords(s, flags) \/ chunk = FromCode(s))
    <3>1. chunk = FromWords(s, flags) \/ chunk = FromCode(s)
      BY <1>7 DEF Chunk, Wide
    <3> QED
      BY <3>1, UnitsNat, SeqSubset
  <2> HIDE DEF chunk
  <2>2. chunk.used \in 1 .. Len(s) /\ chunk.units \in Seq(Nat)
    BY <2>1, EncodedSize DEF chunk
  <2> QED
    BY <1>7, <2>2 DEF InPlaceConversions, Wide, chunk
<1>8. CASE c \notin PersianConversions \cup UnicodeConversions
  <2>1. s \in Seq(AnyByte) /\ chunk = Inspected(s)
    BY <1>8 DEF Chunk, UnitsOf, Wide, PersianConversions, InPlaceConversions, UnicodeConversions
  <2> HIDE DEF chunk
  <2>2. chunk.used \in 1 .. Len(s) /\ chunk.units \in Seq(Nat)
    BY <2>1, DecodedSize DEF chunk
  <2> QED
    BY <1>8, <2>2 DEF PersianConversions, chunk
<1> QED
  BY <1>1, <1>2, <1>3, <1>4, <1>5, <1>6, <1>7, <1>8, Zenon
  DEF PersianConversions, InPlaceConversions, UnicodeConversions, Wide

LEMMA ChunkStatus ==
    ASSUME NEW c, NEW w, NEW s \in Seq(UnitsOf(c)), s # << >>, Chunk(c, s, w).status # "OK"
    PROVE  Chunk(c, s, w).status \in {"INVALID_ENCODING", "INCOMPLETE", "INVALID_PARAM"}
<1> DEFINE chunk == Chunk(c, s, w)
<1>1. CASE c \in {"DigitsToEnglish", "DigitsToPersian", "DigitsToArabic"}
  <2>1. s \in Seq(AnyByte)
        /\ chunk \in {DigitToEnglish(s), DigitToPersian(s), DigitToArabic(s)}
    BY <1>1 DEF Chunk, UnitsOf, Wide
  <2> HIDE DEF chunk
  <2>2. chunk.status = "OK"
    BY <2>1, EnglishSize, EasternSize
  <2> QED
    BY <2>2 DEF chunk
<1>2. CASE c = "UTF16_ToUTF8"
  <2>1. chunk = FromWords(s, flags)
    BY <1>2 DEF Chunk
  <2>2. DecodeWords(s, flags).status # "OK" /\ chunk.status = DecodeWords(s, flags).status
    BY <2>1 DEF FromWords, Done, Failed
  <2>3. DecodeWords(s, flags).status \in {"OK", "INVALID_ENCODING", "INCOMPLETE"}
    BY DEF DecodeWords, Fail
  <2> QED
    BY <2>2, <2>3
<1>3. CASE c = "UTF32_ToUTF8"
  <2>1. chunk = FromCode(s)
    BY <1>3 DEF Chunk
  <2> QED
    BY <2>1 DEF FromCode, Done, Failed
<1>4. CASE c \notin {"DigitsToEnglish", "DigitsToPersian", "DigitsToArabic"} \cup Wide
  <2>1. chunk \in {Normalized(s, flags, in_place), Transliterated(s, flags, w),
                   ToWords(s, flags), ToCode(s), Inspected(s)}
    BY <1>4, Zenon DEF Chunk, Wide
  <2> HIDE DEF chunk
  <2>2. DecodeChar(s).status # "OK" /\ chunk.status = DecodeChar(s).status
    <3>1. DecodeChar(s).status = "OK" => \E n, u : chunk = Done(n, u)
      BY <2>1, Zenon DEF Normalized, Transliterated, ToWords, ToCode, Inspected
    <3>2. DecodeChar(s).status # "OK" => chunk = Failed(DecodeChar(s).status)
      BY <2>1, Zenon DEF Normalized, Transliterated, ToWords, ToCode, Inspected
    <3> QED
      BY <3>1, <3>2 DEF Done, Failed, chunk
  <2> QED
    BY <2>2, DecodeStatus DEF chunk
<1> QED
  BY <1>1, <1>2, <1>3, <1>4 DEF Wide

LEMMA PutKeeps ==
    ASSUME NEW S, NEW cells \in Seq(S), NEW at \in Nat, NEW bytes \in Seq(S)
    PROVE  /\ Put(cells, at, bytes) \in Seq(S)
           /\ Len(Put(cells, at, bytes)) = Len(cells)
           /\ \A i \in 1 .. Len(cells) :
                  i > at + Len(bytes) => Put(cells, at, bytes)[i] = cells[i]
<1> DEFINE p == Put(cells, at, bytes)
<1>1. p = [i \in 1 .. Len(cells) |->
             IF i > at /\ i <= at + Len(bytes) THEN bytes[i - at] ELSE cells[i]]
  BY DEF Put
<1>2. \A i \in 1 .. Len(cells) :
         (IF i > at /\ i <= at + Len(bytes) THEN bytes[i - at] ELSE cells[i]) \in S
  OBVIOUS
<1>3. p \in [1 .. Len(cells) -> S]
  BY <1>1, <1>2
<1>4. p \in Seq(S) /\ Len(p) = Len(cells)
  BY <1>3
<1>5. \A i \in 1 .. Len(cells) : i > at + Len(bytes) => p[i] = cells[i]
  BY <1>1
<1> QED
  BY <1>4, <1>5

-----------------------------------------------------------------------------
(* The invariant.  In place, the write position never passes the read       *)
(* position; out of place, the text is not touched at all.                  *)

Memory ==
    /\ original \in Seq(UnitsOf(conversion)) /\ mem \in Seq(UnitsOf(conversion))
    /\ Len(mem) = Len(original)
    /\ len \in 0 .. Len(original) - 1
    /\ read_pos \in 0 .. len /\ write_pos \in Nat

InPlaceInv ==
    in_place => /\ conversion \in InPlaceConversions
                /\ out = << >>
                /\ write_pos <= read_pos

OutOfPlaceInv ==
    ~in_place => /\ out \in Seq(Nat \cup {Fresh})
                 /\ write_pos <= Len(out)
                 /\ Terminated => write_pos < Len(out)
                 /\ mem = original

StatusInv ==
    /\ in_place \in BOOLEAN
    /\ status \in {"CONVERTING", "OK", "INVALID_ENCODING", "INCOMPLETE", "INVALID_PARAM",
                   "BUFFER_TOO_SMALL"}

IInv == Memory /\ InPlaceInv /\ OutOfPlaceInv /\ StatusInv /\ ReadsOriginal

LEMMA TextUnits ==
    ASSUME NEW c, NEW t \in InputsOf(c)
    PROVE  t \in Seq(UnitsOf(c))
  BY TextAssumption DEF InputsOf, UnitsOf, Wide

LEMMA InitIInv == Init => IInv
<1> SUFFICES ASSUME Init PROVE IInv
  OBVIOUS
<1>1. PICK t \in InputsOf(conversion) : original = Append(t, NUL)
  BY DEF Init
<1>2. t \in Seq(UnitsOf(conversion)) /\ NUL \in UnitsOf(conversion)
  BY <1>1, TextUnits, UnitsNat
<1>3. original \in Seq(UnitsOf(conversion)) /\ mem = original
  BY <1>1, <1>2 DEF Init
<1>4. Memory
  BY <1>3 DEF Init, Memory
<1>5. InPlaceInv
  BY DEF Init, InPlaceInv
<1>6. OutOfPlaceInv
  <2> SUFFICES ASSUME ~in_place PROVE OutOfPlaceInv
    BY DEF OutOfPlaceInv
  <2>1. CASE conversion \in Inspections
    <3>1. out = << >> /\ write_pos = 0
      BY <2>1 DEF Init
    <3>2. ~Terminated
      BY <2>1 DEF Terminated, Inspections, PersianConversions, InPlaceConversions
    <3> QED
      BY <1>3, <3>1, <3>2 DEF OutOfPlaceInv
  <2>2. CASE conversion \notin Inspections
    <3>1. PICK capacity \in Capacities : /\ Terminated => capacity # 0
                                         /\ out = [i \in 1 .. capacity |-> Fresh]
      BY <2>2 DEF Init
    <3>2. capacity \in Nat
      BY TextAssumption
    <3>3. out \in Seq(Nat \cup {Fresh}) /\ Len(out) = capacity
      BY <3>1, <3>2
    <3> QED
      BY <1>3, <3>1, <3>2, <3>3 DEF OutOfPlaceInv, Init
  <2> QED
    BY <2>1, <2>2
<1>7. StatusInv /\ ReadsOriginal
  BY <1>3 DEF Init, StatusInv, ReadsOriginal
<1> QED
  BY <1>4, <1>5, <1>6, <1>7 DEF IInv

(* Something can be read wherever the loop goes on.                         *)
LEMMA ReadableUnits ==
    ASSUME IInv, MoreToRead
    PROVE  /\ Readable \in Seq(UnitsOf(conversion)) /\ Readable # << >>
           /\ Len(Readable) = len - read_pos
<1>1. /\ mem \in Seq(UnitsOf(conversion)) /\ len <= Len(mem) /\ len \in Nat
      /\ read_pos \in Nat /\ read_pos < len
  BY DEF IInv, Memory, MoreToRead
<1> QED
  BY <1>1 DEF Readable

(* What a step writes stays inside the memory it is written to.             *)
LEMMA WriteInside ==
    ASSUME IInv, NEW units \in Seq(Nat), in_place => units \in Seq(AnyByte), Write(units)
    PROVE  /\ Len(mem') = Len(mem) /\ Len(out') = Len(out)
           /\ mem' \in Seq(UnitsOf(conversion))
           /\ in_place => out' = out
           /\ in_place => \A i \in 1 .. Len(mem) : i > write_pos + Len(units) => mem'[i] = mem[i]
           /\ ~in_place => mem' = mem /\ out' \in Seq(Nat \cup {Fresh})
<1>1. write_pos \in Nat /\ mem \in Seq(UnitsOf(conversion))
  BY DEF IInv, Memory
<1>2. CASE in_place
  <2>1. mem' = Put(mem, write_pos, units) /\ out' = out
    BY <1>2 DEF Write
  <2>2. conversion \in InPlaceConversions
    BY <1>2 DEF IInv, InPlaceInv
  <2>3. UnitsOf(conversion) = AnyByte
    BY <2>2 DEF UnitsOf, Wide, InPlaceConversions
  <2> QED
    BY <1>1, <1>2, <2>1, <2>3, PutKeeps
<1>3. CASE ~in_place
  <2>1. out' = Put(out, write_pos, units) /\ mem' = mem
    BY <1>3 DEF Write
  <2>2. out \in Seq(Nat \cup {Fresh}) /\ units \in Seq(Nat \cup {Fresh})
    BY <1>3 DEF IInv, OutOfPlaceInv
  <2> QED
    BY <1>1, <1>3, <2>1, <2>2, PutKeeps
<1> QED
  BY <1>2, <1>3

LEMMA ConvertIInv ==
    ASSUME IInv, Convert
    PROVE  IInv'
<1> DEFINE chunk == Current
<1>1. /\ chunk.used \in 1 .. len - read_pos /\ chunk.units \in Seq(Nat)
      /\ in_place => chunk.units \in Seq(AnyByte) /\ Len(chunk.units) <= chunk.used
  BY ReadableUnits, ChunkSize DEF Convert, IInv, InPlaceInv, Current
<1>2. /\ HasRoom(chunk.units) /\ Write(chunk.units)
      /\ read_pos' = read_pos + chunk.used
      /\ write_pos' = write_pos + Len(chunk.units)
      /\ conversion' = conversion /\ in_place' = in_place /\ original' = original
      /\ len' = len /\ status' = status /\ status = "CONVERTING"
  BY DEF Convert, call, MoreToRead
<1> HIDE DEF chunk
<1>3. /\ original \in Seq(UnitsOf(conversion)) /\ Len(mem) = Len(original)
      /\ len \in 0 .. Len(original) - 1 /\ read_pos \in 0 .. len /\ write_pos \in Nat
      /\ Len(original) \in Nat
  BY DEF IInv, Memory
<1>4. Len(chunk.units) \in Nat
  BY <1>1
<1>5. read_pos' \in 0 .. len /\ write_pos' \in Nat
  BY <1>1, <1>2, <1>3, <1>4
<1>6. /\ Len(mem') = Len(mem) /\ Len(out') = Len(out)
      /\ mem' \in Seq(UnitsOf(conversion))
      /\ in_place => out' = out
      /\ in_place => \A i \in 1 .. Len(mem) :
                        i > write_pos + Len(chunk.units) => mem'[i] = mem[i]
      /\ ~in_place => mem' = mem /\ out' \in Seq(Nat \cup {Fresh})
  BY <1>1, <1>2, WriteInside
<1>7. Memory'
  BY <1>2, <1>3, <1>5, <1>6 DEF Memory
<1>8. in_place => write_pos' <= read_pos'
  BY <1>1, <1>2, <1>3, <1>4 DEF IInv, InPlaceInv
<1>9. InPlaceInv'
  BY <1>2, <1>6, <1>8 DEF InPlaceInv, IInv
<1>10. OutOfPlaceInv'
  <2> SUFFICES ASSUME ~in_place PROVE OutOfPlaceInv'
    BY <1>2 DEF OutOfPlaceInv
  <2>1. /\ out \in Seq(Nat \cup {Fresh}) /\ write_pos <= Len(out) /\ mem = original
        /\ Terminated => write_pos < Len(out)
    BY DEF IInv, OutOfPlaceInv
  <2>2. Terminated' = Terminated
    BY <1>2 DEF Terminated
  <2>3. CASE chunk.units = << >>
    BY <1>2, <1>3, <1>6, <2>1, <2>2, <2>3 DEF OutOfPlaceInv
  <2>4. CASE chunk.units # << >>
    BY <1>2, <1>3, <1>4, <1>6, <2>1, <2>2, <2>4 DEF HasRoom, OutOfPlaceInv
  <2> QED
    BY <2>3, <2>4
<1>11. StatusInv'
  BY <1>2 DEF StatusInv, IInv
<1>12. ReadsOriginal'
  <2> SUFFICES ASSUME NEW i \in read_pos' + 1 .. Len(original)
               PROVE  mem'[i] = original[i]
    BY <1>2 DEF ReadsOriginal
  <2>1. i \in read_pos + 1 .. Len(original) /\ i \in 1 .. Len(mem)
    BY <1>1, <1>2, <1>3, <1>5
  <2>2. mem[i] = original[i]
    BY <1>2, <2>1 DEF IInv, ReadsOriginal
  <2>3. CASE in_place
    <3>1. i > write_pos + Len(chunk.units)
      BY <1>2, <1>3, <1>4, <1>5, <1>8, <2>3
    <3> QED
      BY <1>6, <2>1, <2>2, <2>3, <3>1
  <2>4. CASE ~in_place
    BY <1>6, <2>2, <2>4
  <2> QED
    BY <2>3, <2>4
<1> QED
  BY <1>7, <1>9, <1>10, <1>11, <1>12 DEF IInv

LEMMA FinishIInv ==
    ASSUME IInv, Finish
    PROVE  IInv'
<1> DEFINE units == IF Terminated THEN <<NUL>> ELSE << >>
<1>1. /\ Write(units) /\ status' = "OK"
      /\ read_pos' = read_pos /\ write_pos' = write_pos
      /\ conversion' = conversion /\ in_place' = in_place /\ original' = original
      /\ len' = len
  BY DEF Finish, call
<1>2. units \in Seq(Nat) /\ units \in Seq(AnyByte)
  <2>1. <<NUL>> \in Seq(AnyByte) /\ << >> \in Seq(AnyByte)
    BY DEF NUL, AnyByte
  <2>2. units \in Seq(AnyByte)
    BY <2>1, Zenon
  <2> HIDE DEF units
  <2> QED
    BY <2>2, BytesNat
<1> HIDE DEF units
<1>3. /\ Len(mem') = Len(mem) /\ Len(out') = Len(out)
      /\ mem' \in Seq(UnitsOf(conversion))
      /\ in_place => out' = out
      /\ ~in_place => mem' = mem /\ out' \in Seq(Nat \cup {Fresh})
  BY <1>1, <1>2, WriteInside
<1>4. ReadsOriginal'
  BY <1>1 DEF ReadsOriginal
<1>5. Memory' /\ InPlaceInv' /\ StatusInv'
  BY <1>1, <1>3 DEF IInv, Memory, InPlaceInv, StatusInv
<1>6. OutOfPlaceInv'
  BY <1>1, <1>3 DEF IInv, OutOfPlaceInv, Terminated
<1> QED
  BY <1>4, <1>5, <1>6 DEF IInv

LEMMA ReturnIInv ==
    ASSUME IInv, Malformed \/ TooSmall
    PROVE  IInv'
<1>1. /\ conversion' = conversion /\ in_place' = in_place /\ original' = original
      /\ len' = len /\ mem' = mem /\ out' = out /\ read_pos' = read_pos
      /\ write_pos' = write_pos
  BY DEF Malformed, TooSmall, Return, call
<1>2. status' \in {"INVALID_ENCODING", "INCOMPLETE", "INVALID_PARAM", "BUFFER_TOO_SMALL"}
  <2>1. CASE Malformed
    <3>1. Current.status \in {"INVALID_ENCODING", "INCOMPLETE", "INVALID_PARAM"}
      BY <2>1, ReadableUnits, ChunkStatus DEF Malformed, Current
    <3> QED
      BY <2>1, <3>1 DEF Malformed, Return
  <2>2. CASE TooSmall
    BY <2>2 DEF TooSmall, Return
  <2> QED
    BY <2>1, <2>2
<1>3. ReadsOriginal'
  BY <1>2 DEF ReadsOriginal
<1>4. Memory' /\ InPlaceInv' /\ OutOfPlaceInv' /\ StatusInv'
  BY <1>1, <1>2 DEF IInv, Memory, InPlaceInv, OutOfPlaceInv, StatusInv, Terminated
<1> QED
  BY <1>3, <1>4 DEF IInv

LEMMA NextIInv == IInv /\ [Next]_vars => IInv'
<1> SUFFICES ASSUME IInv, [Next]_vars PROVE IInv'
  OBVIOUS
<1>1. CASE Convert
  BY <1>1, ConvertIInv
<1>2. CASE Malformed \/ TooSmall
  BY <1>2, ReturnIInv
<1>3. CASE Finish
  BY <1>3, FinishIInv
<1>4. CASE Returned \/ UNCHANGED vars
  BY <1>4 DEF IInv, Memory, InPlaceInv, OutOfPlaceInv, StatusInv, ReadsOriginal,
              Returned, vars, call, Terminated
<1> QED
  BY <1>1, <1>2, <1>3, <1>4 DEF Next

(* For every text, all flags and every size of buffer: nothing is written   *)
(* outside the caller's memory (edc_persian.c:37-39, 170-178, 321-323,      *)
(* 503-505; edc_unicode.c:242, 251, 318, 364, 395).                         *)
THEOREM TypeCorrect == Spec => []TypeOK
<1>1. IInv => TypeOK
  <2> SUFFICES ASSUME IInv PROVE TypeOK
    OBVIOUS
  <2>1. Memory /\ StatusInv
    BY DEF IInv
  <2>2. mem \in Seq(Nat)
    BY <2>1, UnitsNat DEF Memory
  <2>3. CASE in_place
    BY <2>1, <2>2, <2>3 DEF IInv, Memory, StatusInv, InPlaceInv, TypeOK
  <2>4. CASE ~in_place
    BY <2>1, <2>2, <2>4 DEF IInv, Memory, StatusInv, OutOfPlaceInv, TypeOK
  <2> QED
    BY <2>3, <2>4
<1> QED
  BY <1>1, InitIInv, NextIInv, PTL DEF Spec

(* For every text and all flags: a conversion in place reads every          *)
(* character as the caller left it (edc_persian.h:67).                      *)
THEOREM NeverOvertakes == Spec => []ReadsOriginal
<1>1. IInv => ReadsOriginal
  BY DEF IInv
<1> QED
  BY <1>1, InitIInv, NextIInv, PTL DEF Spec
-----------------------------------------------------------------------------
(* The conversion of the rest of a text, by induction on how much of it     *)
(* there is: the recursive function that Rest is the value of exists.       *)
LEMMA LeastExists ==
    ASSUME NEW T, T \subseteq Nat, T # {}
    PROVE  \E x \in T : \A y \in T : x <= y
<1> DEFINE R == OpToRel(<, Nat)
<1>1. IsWellFoundedOn(R, Nat)
  BY NatLessThanWellFounded
<1>2. \A x, y \in Nat : y < x => <<y, x>> \in R
  BY DEF OpToRel
<1> HIDE DEF R
<1>3. PICK x \in T : \A y \in T : ~(<<y, x>> \in R)
  BY <1>1, WFMin
<1>4. ASSUME NEW y \in T PROVE x <= y
  <2>1. x \in Nat /\ y \in Nat
    OBVIOUS
  <2>2. ~(y < x)
    BY <1>2, <1>3, <2>1
  <2> QED
    BY <2>1, <2>2
<1> QED
  BY <1>4

At(c, t, p, w) == OutOfPlace(c, SubSeq(t, p + 1, Len(t)), w)

(* What a step converts in place it would convert the same out of place,    *)
(* with the flags that are honoured.                                        *)
LEMMA SameOutOfPlace ==
    ASSUME NEW c, NEW s, NEW w
    PROVE  OutOfPlace(c, s, w) = Chunk(c, s, w)
<1>1. CASE c # "Normalize" \/ ~in_place
  BY <1>1 DEF OutOfPlace, Chunk, Honoured, Normalized, Digit
<1>2. CASE c = "Normalize" /\ in_place
  <2>1. Honoured = flags \ {"DIGITS_TO_PERSIAN"}
    BY <1>2 DEF Honoured
  <2>2. ASSUME NEW x, x # "DIGITS_TO_PERSIAN"
        PROVE  x \in Honoured <=> x \in flags
    BY <2>1, <2>2
  <2>3. /\ "REMOVE_TATWEEL" \in Honoured <=> "REMOVE_TATWEEL" \in flags
        /\ "REMOVE_HARAKAT" \in Honoured <=> "REMOVE_HARAKAT" \in flags
        /\ "REMOVE_ZWNJ" \in Honoured <=> "REMOVE_ZWNJ" \in flags
        /\ "YEH_TO_PERSIAN" \in Honoured <=> "YEH_TO_PERSIAN" \in flags
        /\ "KAF_TO_PERSIAN" \in Honoured <=> "KAF_TO_PERSIAN" \in flags
        /\ "TEH_MARBUTA_TO_HEH" \in Honoured <=> "TEH_MARBUTA_TO_HEH" \in flags
        /\ "HAMZA_TO_BARE_ALEF" \in Honoured <=> "HAMZA_TO_BARE_ALEF" \in flags
        /\ "DIGITS_TO_ENGLISH" \in Honoured <=> "DIGITS_TO_ENGLISH" \in flags
    BY <2>2
  <2>4. ASSUME NEW cp PROVE Stripped(cp, Honoured) <=> Stripped(cp, flags)
    BY <2>3, SMT DEF Stripped
  <2>5. ASSUME NEW cp PROVE Letter(cp, Honoured) = Letter(cp, flags)
    <3> DEFINE yeh(f) == "YEH_TO_PERSIAN" \in f /\ cp \in {1609, 1610}
               kaf(f) == "KAF_TO_PERSIAN" \in f /\ cp = 1603
               teh(f) == "TEH_MARBUTA_TO_HEH" \in f /\ cp \in {1577, 1728}
               alef(f) == "HAMZA_TO_BARE_ALEF" \in f /\ cp \in {1571, 1573}
    <3>1. \A f : Letter(cp, f) = IF yeh(f) THEN 1740 ELSE IF kaf(f) THEN 1705
                                ELSE IF teh(f) THEN 1607 ELSE IF alef(f) THEN 1575 ELSE cp
      BY Zenon DEF Letter
    <3>2. (yeh(Honoured) <=> yeh(flags)) /\ (kaf(Honoured) <=> kaf(flags))
          /\ (teh(Honoured) <=> teh(flags)) /\ (alef(Honoured) <=> alef(flags))
      BY <2>3
    <3> HIDE DEF yeh, kaf, teh, alef
    <3> QED
      BY <3>1, <3>2, SMT
  <2>6. \A cp : Digit(cp, Honoured, FALSE) = Digit(cp, flags, in_place)
    <3>1. "DIGITS_TO_PERSIAN" \notin Honoured
      BY <2>1
    <3> QED
      BY <1>2, <2>3, <3>1 DEF Digit
  <2>7. Normalized(s, Honoured, FALSE) = Normalized(s, flags, in_place)
    BY <2>4, <2>5, <2>6, Zenon DEF Normalized
  <2> QED
    BY <1>2, <2>7 DEF OutOfPlace, Chunk
<1> QED
  BY <1>1, <1>2

LEMMA AtChunk ==
    ASSUME NEW c, NEW t, NEW p, NEW w
    PROVE  At(c, t, p, w) = Chunk(c, SubSeq(t, p + 1, Len(t)), w)
  BY SameOutOfPlace, Zenon DEF At

RestAt(g, c, t, p, w) ==
    IF p = Len(t) THEN {<< >>}
    ELSE IF At(c, t, p, w).status # "OK" THEN {}
    ELSE {At(c, t, p, w).units \o r :
             r \in g[p + At(c, t, p, w).used][WordStarts(w, At(c, t, p, w).units)]}

IsRest(g, c, t, k) ==
    g = [p \in k .. Len(t) |-> [w \in BOOLEAN |-> RestAt(g, c, t, p, w)]]

LEMMA AtSize ==
    ASSUME NEW c, NEW t \in Seq(UnitsOf(c)),
           NEW p \in 0 .. Len(t), p # Len(t), NEW w, At(c, t, p, w).status = "OK"
    PROVE  /\ At(c, t, p, w).used \in Nat /\ At(c, t, p, w).used >= 1
           /\ p + At(c, t, p, w).used \in p + 1 .. Len(t)
           /\ At(c, t, p, w).units \in Seq(Nat)
<1> DEFINE s == SubSeq(t, p + 1, Len(t))
<1>1. Len(t) \in Nat /\ p \in Nat /\ p < Len(t)
  OBVIOUS
<1>2. s \in Seq(UnitsOf(c)) /\ Len(s) = Len(t) - p
  <2>1. \A i \in p + 1 .. Len(t) : t[i] \in UnitsOf(c)
    BY <1>1
  <2>2. p + 1 \in Int /\ p + 1 <= Len(t)
    BY <1>1
  <2> QED
    BY <1>1, <2>1, <2>2, SubSeqProperties
<1>4. Chunk(c, s, w).status = "OK"
  BY AtChunk
<1> HIDE DEF s
<1>3. s # << >>
  BY <1>1, <1>2
<1>5. Chunk(c, s, w).used \in 1 .. Len(s) /\ Chunk(c, s, w).units \in Seq(Nat)
  BY <1>2, <1>3, <1>4, ChunkSize
<1>6. At(c, t, p, w) = Chunk(c, s, w)
  BY AtChunk DEF s
<1> QED
  BY <1>1, <1>2, <1>5, <1>6

LEMMA WordStartsBoolean ==
    ASSUME NEW w \in BOOLEAN, NEW letters
    PROVE  WordStarts(w, letters) \in BOOLEAN
<1>1. CASE letters = << >>
  BY <1>1 DEF WordStarts
<1>2. CASE letters # << >>
  <2> DEFINE ends == letters[1] \in {32, 9, 10}
  <2>1. WordStarts(w, letters) = ends
    BY <1>2, Zenon DEF WordStarts
  <2>2. ends \in BOOLEAN
    BY SMT
  <2> HIDE DEF ends
  <2> QED
    BY <2>1, <2>2
<1> QED
  BY <1>1, <1>2

LEMMA RestAtLater ==
    ASSUME NEW c, NEW t \in Seq(UnitsOf(c)),
           NEW p \in 0 .. Len(t), NEW w \in BOOLEAN,
           NEW g, NEW h, \A q \in p + 1 .. Len(t) : g[q] = h[q]
    PROVE  RestAt(g, c, t, p, w) = RestAt(h, c, t, p, w)
<1>1. CASE p # Len(t) /\ At(c, t, p, w).status = "OK"
  <2>1. p + At(c, t, p, w).used \in p + 1 .. Len(t)
    BY <1>1, AtSize
  <2> QED
    BY <2>1 DEF RestAt
<1>2. CASE ~(p # Len(t) /\ At(c, t, p, w).status = "OK")
  BY <1>2 DEF RestAt
<1> QED
  BY <1>1, <1>2

LEMMA RestExists ==
    ASSUME NEW c, NEW t \in Seq(UnitsOf(c))
    PROVE  \E g : IsRest(g, c, t, 0)
<1> DEFINE n == Len(t)
           Short == {m \in 0 .. n : ~\E g : IsRest(g, c, t, n - m)}
<1>0. n \in Nat
  OBVIOUS
<1>1. ASSUME NEW m \in Short PROVE FALSE
  <2>1. Short \subseteq Nat /\ Short # {}
    BY <1>0, <1>1
  <2>2. PICK l \in Short : \A j \in Short : l <= j
    BY <2>1, LeastExists
  <2>3. l \in 0 .. n /\ ~\E g : IsRest(g, c, t, n - l)
    BY <2>2
  <2> DEFINE k == n - l
  <2>4. k \in 0 .. n /\ k + l = n
    BY <1>0, <2>3
  <2>5. PICK g : k < n => IsRest(g, c, t, k + 1)
    <3>1. CASE l = 0
      BY <1>0, <2>4, <3>1
    <3>2. CASE l # 0
      <4>1. l - 1 \in 0 .. n /\ l - 1 < l /\ n - (l - 1) = k + 1
        BY <1>0, <2>3, <3>2
      <4>2. l - 1 \notin Short
        <5>1. l - 1 \in Short => l <= l - 1
          BY <2>2, Zenon
        <5>2. ~(l <= l - 1)
          BY <1>0, <2>3
        <5> QED
          BY <5>1, <5>2
      <4> QED
        BY <4>1, <4>2
    <3> QED
      BY <3>1, <3>2
  <2> HIDE DEF k
  <2> DEFINE h == [p \in k .. n |-> IF p = k THEN [w \in BOOLEAN |-> RestAt(g, c, t, k, w)]
                                    ELSE g[p]]
  <2>6. \A q \in k + 1 .. n : h[q] = g[q]
    BY <1>0, <2>4
  <2>7. ASSUME NEW p \in k .. n
        PROVE  h[p] = [w \in BOOLEAN |-> RestAt(h, c, t, p, w)]
    <3>1. p \in 0 .. n /\ \A q \in p + 1 .. n : q \in k + 1 .. n
      BY <1>0, <2>4
    <3>2. ASSUME NEW w \in BOOLEAN PROVE RestAt(h, c, t, p, w) = RestAt(g, c, t, p, w)
      <4>1. \A q \in p + 1 .. Len(t) : h[q] = g[q]
        BY <2>6, <3>1
      <4> HIDE DEF h
      <4> QED
        BY <3>1, <4>1, RestAtLater
    <3>3. h[p] = [w \in BOOLEAN |-> RestAt(g, c, t, p, w)]
      <4>1. CASE p = k
        BY <4>1
      <4>2. CASE p # k
        <5>1. k < n /\ p \in k + 1 .. n
          BY <1>0, <2>4, <4>2
        <5>2. g[p] = [w \in BOOLEAN |-> RestAt(g, c, t, p, w)]
          BY <2>5, <5>1 DEF IsRest
        <5> QED
          BY <2>6, <5>1, <5>2
      <4> QED
        BY <4>1, <4>2
    <3> HIDE DEF h
    <3> QED
      BY <3>2, <3>3
  <2>8. IsRest(h, c, t, k)
    <3>1. h = [p \in k .. n |-> h[p]]
      OBVIOUS
    <3> HIDE DEF h
    <3> QED
      BY <2>7, <3>1 DEF IsRest
  <2> HIDE DEF h
  <2> QED
    BY <2>3, <2>8 DEF k
<1>2. n \in 0 .. n /\ n - n = 0
  BY <1>0
<1> QED
  BY <1>1, <1>2

LEMMA RestEquation ==
    ASSUME NEW c, NEW t \in Seq(UnitsOf(c)),
           NEW p \in 0 .. Len(t), NEW w \in BOOLEAN
    PROVE  Rest(c, t)[p][w] = RestAt(Rest(c, t), c, t, p, w)
<1>1. Rest(c, t) = CHOOSE g : IsRest(g, c, t, 0)
  BY SMT DEF Rest, IsRest, RestAt, At
<1> DEFINE g == Rest(c, t)
<1>2. IsRest(g, c, t, 0)
  <2>1. \E h : IsRest(h, c, t, 0)
    BY RestExists
  <2> QED
    BY <1>1, <2>1, Zenon
<1> HIDE DEF g
<1>3. g = [q \in 0 .. Len(t) |-> [v \in BOOLEAN |-> RestAt(g, c, t, q, v)]]
  BY <1>2 DEF IsRest
<1>4. g[p] = [v \in BOOLEAN |-> RestAt(g, c, t, p, v)]
  BY <1>3, Zenon
<1>5. g[p][w] = RestAt(g, c, t, p, w)
  BY <1>4, Zenon
<1> QED
  BY <1>5 DEF g

(* What holds at k if it holds everywhere behind k, holds everywhere.       *)
LEMMA FromTheEnd ==
    ASSUME NEW n \in Nat, NEW G, \A k \in 0 .. n : (\A q \in k + 1 .. n : q \in G) => k \in G
    PROVE  \A k \in 0 .. n : k \in G
<1> DEFINE Wrong == {m \in 0 .. n : n - m \notin G}
<1>1. ASSUME NEW p \in 0 .. n, p \notin G
      PROVE  FALSE
  <2>1. PICK m \in 0 .. n : n - m = p
    <3>1. n - p \in 0 .. n /\ n - (n - p) = p
      OBVIOUS
    <3> QED
      BY <3>1
  <2>2. Wrong \subseteq Nat /\ Wrong # {}
    <3>1. p \notin G
      BY <1>1
    <3>2. n - m \notin G
      BY <2>1, <3>1, Zenon
    <3>3. m \in Wrong
      BY <3>2
    <3>4. Wrong \subseteq 0 .. n
      OBVIOUS
    <3> HIDE DEF Wrong
    <3> QED
      BY <3>3, <3>4, SMT
  <2>3. PICK l \in Wrong : \A j \in Wrong : l <= j
    BY <2>2, LeastExists
  <2> DEFINE k == n - l
  <2>4. l \in 0 .. n /\ k \in 0 .. n /\ k \notin G
    BY <2>3
  <2>5. ASSUME NEW q \in k + 1 .. n PROVE q \in G
    <3>1. n - q \in 0 .. n /\ n - q < l /\ n - (n - q) = q
      BY <2>4
    <3>2. n - q \notin Wrong
      BY <2>3, <2>4, <3>1
    <3> QED
      BY <3>1, <3>2
  <2> QED
    BY <2>4, <2>5
<1> QED
  BY <1>1

(* The units of a whole text are those of its characters.                   *)
LEMMA RestOver ==
    ASSUME NEW c, NEW t \in Seq(UnitsOf(c)), NEW S,
           \A p \in 0 .. Len(t), w \in BOOLEAN :
               p # Len(t) /\ At(c, t, p, w).status = "OK" => At(c, t, p, w).units \in Seq(S)
    PROVE  \A p \in 0 .. Len(t), w \in BOOLEAN : Rest(c, t)[p][w] \subseteq Seq(S)
<1> DEFINE n == Len(t)
           g == Rest(c, t)
           Good(k) == \A v \in BOOLEAN : g[k][v] \subseteq Seq(S)
           G == {k \in 0 .. n : Good(k)}
<1>0. n \in Nat
  OBVIOUS
<1>1. ASSUME NEW k \in 0 .. n, \A q \in k + 1 .. n : Good(q)
      PROVE  Good(k)
  <2> SUFFICES ASSUME NEW v \in BOOLEAN PROVE g[k][v] \subseteq Seq(S)
    OBVIOUS
  <2>1. g[k][v] = RestAt(g, c, t, k, v)
    BY RestEquation
  <2> HIDE DEF g
  <2>2. CASE k = n
    <3>1. g[k][v] = {<< >>}
      BY <2>1, <2>2 DEF RestAt
    <3> QED
      BY <3>1
  <2>3. CASE k # n /\ At(c, t, k, v).status # "OK"
    BY <2>1, <2>3 DEF RestAt
  <2>4. CASE k # n /\ At(c, t, k, v).status = "OK"
    <3> DEFINE q == k + At(c, t, k, v).used
               units == At(c, t, k, v).units
               u == WordStarts(v, units)
    <3>1. q \in k + 1 .. n
      BY <2>4, AtSize
    <3>2. u \in BOOLEAN
      BY WordStartsBoolean
    <3>3. g[k][v] = {units \o r : r \in g[q][u]}
      BY <2>1, <2>4, Zenon DEF RestAt
    <3>4. units \in Seq(S)
      BY <2>4
    <3> HIDE DEF q, u, units
    <3>5. g[q][u] \subseteq Seq(S)
      BY <1>1, <3>1, <3>2
    <3>6. \A r \in g[q][u] : units \o r \in Seq(S)
      BY <3>4, <3>5, ConcatProperties
    <3> QED
      BY <3>3, <3>6
  <2> QED
    BY <2>2, <2>3, <2>4
<1> HIDE DEF g, Good
<1>2. \A k \in 0 .. n : k \in G
  <2>1. \A k \in 0 .. n : (\A q \in k + 1 .. n : q \in G) => k \in G
    BY <1>0, <1>1
  <2> HIDE DEF G
  <2> QED
    BY <1>0, <2>1, FromTheEnd
<1> QED
  BY <1>2 DEF Good, g

LEMMA RestType ==
    ASSUME NEW c, NEW t \in Seq(UnitsOf(c)), NEW p \in 0 .. Len(t), NEW w \in BOOLEAN
    PROVE  Rest(c, t)[p][w] \subseteq Seq(Nat)
<1>1. \A q \in 0 .. Len(t), v \in BOOLEAN :
         q # Len(t) /\ At(c, t, q, v).status = "OK" => At(c, t, q, v).units \in Seq(Nat)
  BY AtSize
<1>2. \A q \in 0 .. Len(t), v \in BOOLEAN : Rest(c, t)[q][v] \subseteq Seq(Nat)
  BY <1>1, RestOver
<1> QED
  BY <1>2

-----------------------------------------------------------------------------
(* A conversion of Persian text looks no further than the NUL: it makes the *)
(* same of a character whether or not there is something behind the text.   *)
Continues(s, t) ==
    /\ Len(s) <= Len(t)
    /\ \A i \in 1 .. Len(s) : t[i] = s[i]
    /\ Len(s) < Len(t) => t[Len(s) + 1] = NUL

LEMMA DecodeAgrees ==
    ASSUME NEW s \in Seq(AnyByte), s # << >>, NEW t \in Seq(AnyByte), Continues(s, t)
    PROVE  \/ DecodeChar(t) = DecodeChar(s)
           \/ DecodeChar(t).status # "OK" /\ DecodeChar(s).status # "OK"
<1> DEFINE w == Width(s[1])
<1>1. /\ Len(s) \in Nat /\ Len(s) >= 1 /\ Len(t) \in Nat /\ Len(s) <= Len(t)
      /\ \A i \in 1 .. Len(s) : t[i] = s[i]
      /\ Len(s) < Len(t) => t[Len(s) + 1] = NUL
  BY DEF Continues
<1>2. t # << >> /\ t[1] = s[1] /\ s[1] \in AnyByte
  BY <1>1
<1>3. w \in 0 .. 4
  BY <1>2, LeadRange
<1>4. CASE w = 0
  BY <1>2, <1>4 DEF DecodeChar
<1>5. CASE w # 0 /\ Len(s) < w
  <2>1. DecodeChar(s).status # "OK"
    BY <1>5 DEF DecodeChar, Fail
  <2>2. CASE Len(t) < w
    BY <1>2, <1>5, <2>1, <2>2 DEF DecodeChar, Fail
  <2>3. CASE ~(Len(t) < w)
    <3> HIDE DEF w
    <3>1. Len(s) + 1 \in 2 .. w /\ t[Len(s) + 1] = NUL
      BY <1>1, <1>3, <1>5, <2>3
    <3>2. ~IsContinuation(NUL)
      BY DEF NUL, IsContinuation
    <3>3. ~\A i \in 2 .. w : IsContinuation(t[i])
      BY <3>1, <3>2
    <3>4. DecodeChar(t).status # "OK"
      BY <1>2, <1>5, <2>3, <3>3 DEF DecodeChar, Fail, w
    <3> QED
      BY <2>1, <3>4
  <2> QED
    BY <2>2, <2>3
<1>6. CASE w # 0 /\ ~(Len(s) < w)
  <2> HIDE DEF w
  <2>1. w \in 1 .. 4 /\ w <= Len(s) /\ ~(Len(t) < w)
    BY <1>1, <1>3, <1>6
  <2>2. \A i \in 1 .. w : t[i] = s[i]
    BY <1>1, <2>1
  <2>3. Value(t, w) = Value(s, w)
    BY <2>1, <2>2, ValueOfPrefix
  <2>4. w > 1 => t[2] = s[2]
    BY <2>1, <2>2
  <2>5. (\A i \in 2 .. w : IsContinuation(t[i])) <=> (\A i \in 2 .. w : IsContinuation(s[i]))
    <3>1. \A i \in 2 .. w : t[i] = s[i]
      BY <2>1, <2>2
    <3> QED
      BY <3>1
  <2>6. (w > 1 => SecondByteOK(t[1], t[2])) <=> (w > 1 => SecondByteOK(s[1], s[2]))
    BY <1>2, <2>4
  <2> QED
    BY <1>2, <1>6, <2>1, <2>3, <2>5, <2>6, Zenon DEF DecodeChar, w
<1> QED
  BY <1>3, <1>4, <1>5, <1>6

LEMMA ChunkAgrees ==
    ASSUME NEW c \in PersianConversions, NEW w,
           NEW s \in Seq(AnyByte), s # << >>, NEW t \in Seq(AnyByte), Continues(s, t)
    PROVE  \/ Chunk(c, t, w) = Chunk(c, s, w)
           \/ Chunk(c, t, w).status # "OK" /\ Chunk(c, s, w).status # "OK"
<1>0. /\ Len(s) \in Nat /\ Len(s) >= 1 /\ Len(t) \in Nat /\ Len(s) <= Len(t)
      /\ \A i \in 1 .. Len(s) : t[i] = s[i]
      /\ Len(s) < Len(t) => t[Len(s) + 1] = NUL
  BY DEF Continues
<1>1. t[1] = s[1]
  BY <1>0
<1>2. CASE c = "DigitsToEnglish"
  <2>1. Chunk(c, t, w) = DigitToEnglish(t) /\ Chunk(c, s, w) = DigitToEnglish(s)
    BY <1>2 DEF Chunk
  <2>2. CASE Len(s) > 1
    <3>1. Len(t) > 1 /\ t[2] = s[2]
      BY <1>0, <2>2
    <3> QED
      BY <1>1, <2>1, <2>2, <3>1 DEF DigitToEnglish
  <2>3. CASE ~(Len(s) > 1)
    <3>1. Len(t) > 1 => AsciiOf(t[1], t[2]) = {}
      <4>1. Len(t) > 1 => t[2] = 0
        BY <1>0, <2>3 DEF NUL
      <4>2. \A b \in AnyByte : AsciiOf(b, 0) = {}
        BY DEF AsciiOf
      <4> QED
        BY <1>0, <4>1, <4>2
    <3>2. DigitToEnglish(t) = Done(1, <<t[1]>>) /\ DigitToEnglish(s) = Done(1, <<s[1]>>)
      BY <2>3, <3>1 DEF DigitToEnglish
    <3> QED
      BY <1>1, <2>1, <3>2
  <2> QED
    BY <2>2, <2>3
<1>3. CASE c \in {"DigitsToPersian", "DigitsToArabic"}
  BY <1>1, <1>3 DEF Chunk, DigitToPersian, DigitToArabic
<1>4. CASE c \in {"Normalize", "ToLatin"}
  <2>1. \/ DecodeChar(t) = DecodeChar(s)
        \/ DecodeChar(t).status # "OK" /\ DecodeChar(s).status # "OK"
    BY DecodeAgrees
  <2>2. CASE DecodeChar(t) = DecodeChar(s)
    BY <1>4, <2>2 DEF Chunk, Normalized, Transliterated
  <2>3. CASE DecodeChar(t).status # "OK" /\ DecodeChar(s).status # "OK"
    BY <1>4, <2>3 DEF Chunk, Normalized, Transliterated, Failed
  <2> QED
    BY <2>1, <2>2, <2>3
<1> QED
  BY <1>2, <1>3, <1>4 DEF PersianConversions, InPlaceConversions

(* Where a word begins matters to transliteration only.                     *)
LEMMA ChunkWord ==
    ASSUME NEW c, c # "ToLatin", NEW s, NEW v, NEW w
    PROVE  Chunk(c, s, v) = Chunk(c, s, w)
  BY DEF Chunk

(* No NUL comes out of a character but NUL, so that the first NUL of the    *)
(* result is its end.                                                       *)

LEMMA SumsPositive ==
    ASSUME NEW a \in Nat, NEW b \in Nat, NEW c \in Nat, NEW d \in Nat, a >= 1 \/ b >= 1
    PROVE  /\ a * 64 + b # 0
           /\ a * 4096 + b * 64 + c # 0
           /\ a * 262144 + b * 4096 + c * 64 + d # 0
  OBVIOUS

LEMMA WholePositive ==
    ASSUME NEW w \in 1 .. 4, NEW b, Whole(b, w), b[1] # NUL,
           w > 1 => SecondByteOK(b[1], b[2])
    PROVE  Value(b, w) # 0
<1>1. CASE w = 1
  BY <1>1, WholeValue DEF NUL
<1>2. CASE w = 2
  <2>1. b[1] \in 194 .. 223 /\ b[2] \in 128 .. 191 /\ Value(b, w) = (b[1] - 192) * 64 + (b[2] - 128)
    BY <1>2, WholeValue
  <2>2. b[1] - 192 \in Nat /\ b[1] - 192 >= 1 /\ b[2] - 128 \in Nat
    BY <2>1
  <2> QED
    BY <2>1, <2>2, SumsPositive
<1>3. CASE w = 3
  <2>1. /\ b[1] \in 224 .. 239 /\ b[2] \in 128 .. 191 /\ b[3] \in 128 .. 191
        /\ Value(b, w) = (b[1] - 224) * 4096 + (b[2] - 128) * 64 + (b[3] - 128)
    BY <1>3, WholeValue
  <2>2. b[1] = 224 => b[2] \in 160 .. 191
    BY <1>3 DEF SecondByteOK
  <2>3. /\ b[1] - 224 \in Nat /\ b[2] - 128 \in Nat /\ b[3] - 128 \in Nat
        /\ b[1] - 224 >= 1 \/ b[2] - 128 >= 1
    BY <2>1, <2>2
  <2> QED
    BY <2>1, <2>3, SumsPositive
<1>4. CASE w = 4
  <2>1. /\ b[1] \in 240 .. 244 /\ b[2] \in 128 .. 191 /\ b[3] \in 128 .. 191
        /\ b[4] \in 128 .. 191
        /\ Value(b, w) = (b[1] - 240) * 262144 + (b[2] - 128) * 4096
                            + (b[3] - 128) * 64 + (b[4] - 128)
    BY <1>4, WholeValue
  <2>2. b[1] = 240 => b[2] \in 144 .. 191
    BY <1>4 DEF SecondByteOK
  <2>3. /\ b[1] - 240 \in Nat /\ b[2] - 128 \in Nat /\ b[3] - 128 \in Nat
        /\ b[4] - 128 \in Nat /\ (b[1] - 240 >= 1 \/ b[2] - 128 >= 1)
    BY <2>1, <2>2
  <2> QED
    BY <2>1, <2>3, SumsPositive
<1> QED
  BY <1>1, <1>2, <1>3, <1>4

LEMMA DecodedPositive ==
    ASSUME NEW s \in Seq(AnyByte), DecodeChar(s).status = "OK", s[1] # NUL
    PROVE  DecodeChar(s).cp \in Positive /\ DecodeChar(s).cp <= MaxCodePoint
<1>1. /\ DecodeChar(s).used \in 1 .. 4 /\ DecodeChar(s).cp <= MaxCodePoint
      /\ \E b \in Seq(AnyByte) :
             /\ Whole(b, DecodeChar(s).used) /\ b[1] = s[1]
             /\ DecodeChar(s).used > 1 => SecondByteOK(b[1], b[2])
             /\ DecodeChar(s).cp = Value(b, DecodeChar(s).used)
  BY DecodedWhole
<1>2. PICK w \in 1 .. 4, b \in Seq(AnyByte) :
         /\ Whole(b, w) /\ b[1] = s[1] /\ (w > 1 => SecondByteOK(b[1], b[2]))
         /\ DecodeChar(s).cp = Value(b, w)
  BY <1>1
<1>3. Value(b, w) \in Nat
  BY <1>1, <1>2, WholeNat
<1>4. Value(b, w) # 0
  <2>1. b[1] # NUL
    BY <1>2
  <2> QED
    BY <1>1, <1>2, <2>1, WholePositive
<1>5. Value(b, w) \in Positive
  BY <1>3, <1>4 DEF Positive
<1> QED
  BY <1>1, <1>2, <1>5

LEMMA PositiveSequences ==
    ASSUME NEW a \in Positive, NEW b \in Positive, NEW c \in Positive, NEW d \in Positive
    PROVE  /\ << >> \in Seq(Positive) /\ <<a>> \in Seq(Positive) /\ <<a, b>> \in Seq(Positive)
           /\ <<a, b, c>> \in Seq(Positive) /\ <<a, b, c, d>> \in Seq(Positive)
  OBVIOUS

LEMMA PositivePairs ==
    ASSUME NEW a \in Positive, NEW b \in Positive
    PROVE  << >> \in Seq(Positive) /\ <<a>> \in Seq(Positive) /\ <<a, b>> \in Seq(Positive)
  OBVIOUS

LEMMA BytePositive ==
    ASSUME NEW b \in AnyByte, b # NUL
    PROVE  b \in Nat /\ b \in Positive
  BY DEF AnyByte, NUL, Positive

LEMMA UnitsDone ==
    ASSUME NEW n, NEW units
    PROVE  Done(n, units).units = units
  BY DEF Done

LEMMA EncodedPositive ==
    ASSUME NEW cp \in Positive
    PROVE  EncodeChar(cp) \in Seq(Positive)
<1>0. cp \in Nat /\ cp # 0
  BY DEF Positive
<1>1. /\ 192 + (cp \div 64) \in Positive /\ 128 + (cp % 64) \in Positive
      /\ 224 + (cp \div 4096) \in Positive /\ 128 + ((cp \div 64) % 64) \in Positive
      /\ 240 + (cp \div 262144) \in Positive /\ 128 + ((cp \div 4096) % 64) \in Positive
  BY <1>0, SMT DEF Positive
<1>2. \E a, b, c, d \in Positive :
         EncodeChar(cp) \in {<<a>>, <<a, b>>, <<a, b, c>>, <<a, b, c, d>>}
  <2>1. CASE cp <= 127
    BY <2>1 DEF EncodeChar
  <2>2. CASE ~(cp <= 127) /\ cp <= 2047
    BY <1>1, <2>2 DEF EncodeChar
  <2>3. CASE ~(cp <= 127) /\ ~(cp <= 2047) /\ cp <= 65535
    BY <1>1, <2>3 DEF EncodeChar
  <2>4. CASE ~(cp <= 127) /\ ~(cp <= 2047) /\ ~(cp <= 65535)
    BY <1>1, <2>4 DEF EncodeChar
  <2> QED
    BY <2>1, <2>2, <2>3, <2>4
<1> QED
  BY <1>2, PositiveSequences, Zenon

LEMMA ReplacedPositive ==
    ASSUME NEW f, NEW p, NEW cp \in Positive
    PROVE  Digit(Letter(cp, f), f, p) \in Positive
<1> DEFINE letter == Letter(cp, f)
<1>0. cp \in Nat /\ cp # 0
  BY DEF Positive
<1>1. letter \in Nat /\ letter # 0
  BY <1>0, SMT DEF Letter
<1> HIDE DEF letter
<1>2. English(letter) \in Positive
  BY <1>1, SMT DEF English, Positive
<1>3. Persian(letter) \in Positive
  BY <1>1, SMT DEF Persian, Positive
<1>4. letter \in Positive
  BY <1>1 DEF Positive
<1>5. Digit(letter, f, p) \in Positive
  BY <1>2, <1>3, <1>4, Zenon DEF Digit
<1> QED
  BY <1>5 DEF letter

LEMMA NormalizedPositive ==
    ASSUME NEW f, NEW p, NEW s \in Seq(AnyByte), s[1] # NUL, Normalized(s, f, p).status = "OK"
    PROVE  Normalized(s, f, p).units \in Seq(Positive)
<1> DEFINE char == DecodeChar(s)
           cp   == Digit(Letter(char.cp, f), f, p)
<1>1. char.status = "OK"
  BY DEF Normalized, Failed
<1>2. char.cp \in Positive
  BY <1>1, DecodedPositive
<1>3. EncodeChar(cp) \in Seq(Positive)
  <2>1. cp \in Positive
    BY <1>2, ReplacedPositive
  <2> HIDE DEF cp
  <2> QED
    BY <2>1, EncodedPositive
<1>4. \E n : Normalized(s, f, p) \in {Done(n, << >>), Done(n, EncodeChar(cp))}
  BY <1>1, Zenon DEF Normalized
<1>5. << >> \in Seq(Positive)
  OBVIOUS
<1> HIDE DEF cp
<1> QED
  BY <1>3, <1>4, <1>5, UnitsDone, Zenon

LEMMA DigitsPositive ==
    ASSUME NEW s \in Seq(AnyByte), s # << >>, s[1] # NUL,
           NEW chunk \in {DigitToEnglish(s), DigitToPersian(s), DigitToArabic(s)}
    PROVE  chunk.units \in Seq(Positive)
<1>1. s[1] \in Nat /\ s[1] \in Positive
  <2>1. s[1] \in AnyByte
    OBVIOUS
  <2> QED
    BY <2>1, BytePositive
<1>2. 219 \in Positive /\ 217 \in Positive /\ 171 \in Positive
  BY DEF Positive
<1>3. s[1] \in 48 .. 57 => 176 + (s[1] - 48) \in Positive /\ 160 + (s[1] - 48) \in Positive
  BY <1>1 DEF Positive
<1>4. CASE chunk = DigitToEnglish(s)
  <2>1. CASE Len(s) > 1 /\ AsciiOf(s[1], s[2]) # {}
    <3> DEFINE c == CHOOSE c \in AsciiOf(s[1], s[2]) : TRUE
    <3>1. c \in AsciiOf(s[1], s[2])
      BY <2>1
    <3>2. ASSUME NEW a, NEW b PROVE AsciiOf(a, b) \subseteq Positive
      <4>1. /\ b \in 176 .. 185 => 48 + (b - 176) \in Positive
            /\ b \in 160 .. 169 => 48 + (b - 160) \in Positive
            /\ 46 \in Positive /\ 44 \in Positive
        <5>1. \A n \in 0 .. 9 : 48 + n \in Positive
          BY DEF Positive
        <5>2. /\ b \in 176 .. 185 => b - 176 \in 0 .. 9
              /\ b \in 160 .. 169 => b - 160 \in 0 .. 9
          OBVIOUS
        <5>3. 46 \in Positive /\ 44 \in Positive
          BY DEF Positive
        <5> QED
          BY <5>1, <5>2, <5>3, Zenon
      <4>2. \/ b \in 176 .. 185 /\ AsciiOf(a, b) = {48 + (b - 176)}
            \/ b \in 160 .. 169 /\ AsciiOf(a, b) = {48 + (b - 160)}
            \/ AsciiOf(a, b) \in {{46}, {44}, {}}
        BY Zenon DEF AsciiOf
      <4> QED
        BY <4>1, <4>2, Zenon
    <3>3. chunk = Done(2, <<c>>)
      BY <1>4, <2>1 DEF DigitToEnglish
    <3> HIDE DEF c
    <3>4. <<c>> \in Seq(Positive)
      BY <3>1, <3>2
    <3> QED
      BY <3>3, <3>4 DEF Done
  <2>2. CASE ~(Len(s) > 1 /\ AsciiOf(s[1], s[2]) # {})
    <3>1. chunk = Done(1, <<s[1]>>)
      BY <1>4, <2>2 DEF DigitToEnglish
    <3>2. <<s[1]>> \in Seq(Positive)
      BY <1>1
    <3> QED
      BY <3>1, <3>2 DEF Done
  <2> QED
    BY <2>1, <2>2
<1>5. CASE chunk \in {DigitToPersian(s), DigitToArabic(s)}
  <2>1. \E a, b \in Positive : chunk \in {Done(1, <<a>>), Done(1, <<a, b>>)}
    <3>1. \/ chunk = Done(1, <<219, 176 + (s[1] - 48)>>) /\ s[1] \in 48 .. 57
          \/ chunk = Done(1, <<217, 160 + (s[1] - 48)>>) /\ s[1] \in 48 .. 57
          \/ chunk = Done(1, <<217, 171>>)
          \/ chunk = Done(1, <<s[1]>>)
      BY <1>5 DEF DigitToPersian, DigitToArabic
    <3> QED
      BY <1>1, <1>2, <1>3, <3>1, Zenon
  <2>2. PICK a \in Positive, b \in Positive : chunk \in {Done(1, <<a>>), Done(1, <<a, b>>)}
    BY <2>1
  <2>3. <<a>> \in Seq(Positive) /\ <<a, b>> \in Seq(Positive)
    BY PositivePairs
  <2> QED
    BY <2>2, <2>3, UnitsDone, Zenon
<1> QED
  BY <1>4, <1>5

LEMMA LatinPositive ==
    ASSUME NEW opts, NEW cp \in Positive
    PROVE  Latin(cp, opts) \in Seq(Positive)
<1> DEFINE rows == {row \in Romanization(opts) : cp \in row[1]}
           row  == CHOOSE r \in rows : TRUE
<1>0. \/ Latin(cp, opts) = <<English(cp)>>
      \/ rows # {} /\ Latin(cp, opts) = row[2]
      \/ Latin(cp, opts) = <<cp>>
      \/ Latin(cp, opts) = << >>
  BY SMT DEF Latin
<1>1. CASE Latin(cp, opts) = <<English(cp)>>
  <2>1. English(cp) \in Positive
    BY SMT DEF English, Positive
  <2> QED
    BY <1>1, <2>1, PositivePairs
<1>2. CASE rows # {} /\ Latin(cp, opts) = row[2]
  <2>1. row \in rows
    <3> HIDE DEF rows
    <3> QED
      BY <1>2
  <2>2. row \in Romanization(opts)
    BY <2>1, Zenon
  <2> HIDE DEF row
  <2> QED
    <3>1. PICK a \in Positive, b \in Positive : row[2] \in {<<a>>, <<a, b>>}
      BY <2>2, RowLetters
    <3> QED
      BY <1>2, <3>1, PositivePairs, Zenon
<1>3. CASE Latin(cp, opts) = <<cp>> \/ Latin(cp, opts) = << >>
  BY <1>3, PositivePairs, Zenon
<1> HIDE DEF rows, row
<1> QED
  BY <1>0, <1>1, <1>2, <1>3, Zenon

LEMMA UpperPositive ==
    ASSUME NEW c \in Positive
    PROVE  ToUpper(c) \in Positive
<1>1. c \in Nat /\ c # 0
  BY DEF Positive
<1> QED
  BY <1>1, SMT DEF ToUpper, Positive

LEMMA TransliteratedPositive ==
    ASSUME NEW opts, NEW word_start, NEW s \in Seq(AnyByte), s[1] # NUL,
           Transliterated(s, opts, word_start).status = "OK"
    PROVE  Transliterated(s, opts, word_start).units \in Seq(Positive)
<1> DEFINE char == DecodeChar(s)
           latin == Latin(char.cp, opts)
<1>1. char.status = "OK"
  BY DEF Transliterated, Failed
<1>2. char.cp \in Positive
  BY <1>1, DecodedPositive
<1>3. latin \in Seq(Positive)
  BY <1>2, LatinPositive
<1>4. \/ Transliterated(s, opts, word_start) = Done(char.used, latin)
      \/ /\ latin # << >>
         /\ Transliterated(s, opts, word_start)
               = Done(char.used, <<ToUpper(latin[1])>> \o Tail(latin))
  BY <1>1, Zenon DEF Transliterated
<1> HIDE DEF char, latin
<1>5. latin # << >> => <<ToUpper(latin[1])>> \o Tail(latin) \in Seq(Positive)
  <2> SUFFICES ASSUME latin # << >> PROVE <<ToUpper(latin[1])>> \o Tail(latin) \in Seq(Positive)
    OBVIOUS
  <2>1. latin[1] \in Positive /\ Tail(latin) \in Seq(Positive)
    BY <1>3
  <2>2. ToUpper(latin[1]) \in Positive
    BY <2>1, UpperPositive
  <2> QED
    BY <2>1, <2>2
<1> QED
  BY <1>3, <1>4, <1>5 DEF Done

LEMMA ChunkPositive ==
    ASSUME NEW c \in PersianConversions, NEW w, NEW s \in Seq(AnyByte), s # << >>, s[1] # NUL,
           Chunk(c, s, w).status = "OK"
    PROVE  Chunk(c, s, w).units \in Seq(Positive)
<1>1. CASE c = "Normalize"
  <2>1. Chunk(c, s, w) = Normalized(s, flags, in_place)
    BY <1>1 DEF Chunk
  <2> QED
    BY <2>1, NormalizedPositive
<1>2. CASE c = "ToLatin"
  <2>1. Chunk(c, s, w) = Transliterated(s, flags, w)
    BY <1>2 DEF Chunk
  <2> QED
    BY <2>1, TransliteratedPositive
<1>3. CASE c \in {"DigitsToEnglish", "DigitsToPersian", "DigitsToArabic"}
  <2>1. Chunk(c, s, w) \in {DigitToEnglish(s), DigitToPersian(s), DigitToArabic(s)}
    BY <1>3 DEF Chunk
  <2> QED
    BY <2>1, DigitsPositive
<1> QED
  BY <1>1, <1>2, <1>3 DEF PersianConversions, InPlaceConversions

-----------------------------------------------------------------------------
(* The text that is converted: what the caller has given, as far as its NUL.*)

LEMMA Prefix ==
    ASSUME NEW S, NEW t \in Seq(S), NEW n \in 0 .. Len(t)
    PROVE  /\ SubSeq(t, 1, n) \in Seq(S) /\ Len(SubSeq(t, 1, n)) = n
           /\ \A i \in 1 .. n : SubSeq(t, 1, n)[i] = t[i]
<1>1. n \in Int /\ \A i \in 1 .. n : t[i] \in S
  OBVIOUS
<1> QED
  BY <1>1, SubSeqProperties

LEMMA NulCuts ==
    ASSUME NEW S, NEW t \in Seq(S)
    PROVE  /\ UpToNul(t) \in Seq(S) /\ Len(UpToNul(t)) <= Len(t)
           /\ \A i \in 1 .. Len(UpToNul(t)) : UpToNul(t)[i] = t[i] /\ t[i] # NUL
           /\ Len(UpToNul(t)) < Len(t) => t[Len(UpToNul(t)) + 1] = NUL
<1> DEFINE nuls == {i \in 1 .. Len(t) : t[i] = NUL}
           first == CHOOSE i \in nuls : \A j \in nuls : i <= j
<1>1. CASE nuls = {}
  <2>1. UpToNul(t) = t
    BY <1>1, Zenon DEF UpToNul
  <2> QED
    BY <1>1, <2>1
<1>2. CASE nuls # {}
  <2>1. \E i \in nuls : \A j \in nuls : i <= j
    <3>1. nuls \subseteq Nat
      OBVIOUS
    <3> HIDE DEF nuls
    <3> QED
      BY <1>2, <3>1, LeastExists
  <2>2. first \in nuls /\ \A j \in nuls : first <= j
    <3> HIDE DEF nuls
    <3> QED
      BY <2>1
  <2>3. UpToNul(t) = SubSeq(t, 1, first - 1)
    BY <1>2, Zenon DEF UpToNul
  <2> HIDE DEF first
  <2>4. first - 1 \in 0 .. Len(t) /\ first - 1 < Len(t) /\ t[first - 1 + 1] = NUL
    BY <2>2
  <2>5. \A i \in 1 .. first - 1 : t[i] # NUL
    <3> SUFFICES ASSUME NEW i \in 1 .. first - 1, t[i] = NUL PROVE FALSE
      OBVIOUS
    <3>1. i \in nuls
      BY <2>4
    <3> QED
      BY <2>2, <2>4, <3>1
  <2> HIDE DEF nuls
  <2>6. /\ SubSeq(t, 1, first - 1) \in Seq(S) /\ Len(SubSeq(t, 1, first - 1)) = first - 1
        /\ \A i \in 1 .. first - 1 : SubSeq(t, 1, first - 1)[i] = t[i]
    BY <2>4, Prefix
  <2> QED
    BY <2>3, <2>4, <2>5, <2>6
<1> QED
  BY <1>1, <1>2

LEMMA NulCutsHere ==
    ASSUME NEW S, NEW t \in Seq(S), NEW n \in 0 .. Len(t), n < Len(t), t[n + 1] = NUL,
           \A i \in 1 .. n : t[i] # NUL
    PROVE  UpToNul(t) = SubSeq(t, 1, n)
<1> DEFINE u == UpToNul(t)
<1>1. /\ u \in Seq(S) /\ Len(u) <= Len(t)
      /\ \A i \in 1 .. Len(u) : u[i] = t[i] /\ t[i] # NUL
      /\ Len(u) < Len(t) => t[Len(u) + 1] = NUL
  BY NulCuts
<1> HIDE DEF u
<1>2. Len(u) = n
  <2>1. Len(u) \in Nat
    BY <1>1
  <2>2. ~(n + 1 <= Len(u))
    BY <1>1, <2>1
  <2>3. ~(Len(u) + 1 <= n)
    <3> SUFFICES ASSUME Len(u) + 1 <= n PROVE FALSE
      OBVIOUS
    <3>1. Len(u) + 1 \in 1 .. n /\ Len(u) < Len(t)
      BY <2>1
    <3> QED
      BY <1>1, <3>1
  <2> QED
    BY <2>1, <2>2, <2>3
<1>3. /\ SubSeq(t, 1, n) \in Seq(S) /\ Len(SubSeq(t, 1, n)) = n
      /\ \A i \in 1 .. n : SubSeq(t, 1, n)[i] = t[i]
  BY Prefix
<1>4. u = SubSeq(t, 1, n)
  <2> DEFINE v == SubSeq(t, 1, n)
  <2>1. v \in Seq(S) /\ Len(v) = n /\ \A i \in 1 .. n : v[i] = u[i]
    BY <1>1, <1>2, <1>3
  <2> HIDE DEF v
  <2>2. u = v
    BY <1>1, <1>2, <2>1, SeqEqual
  <2> QED
    BY <2>2 DEF v
<1> QED
  BY <1>4 DEF u

LEMMA InputText ==
    ASSUME IInv
    PROVE  /\ Input \in Seq(UnitsOf(conversion)) /\ Len(Input) <= len
           /\ \A i \in 1 .. Len(Input) : /\ Input[i] = original[i]
                                         /\ Terminated => original[i] # NUL
           /\ Len(Input) < len => Terminated /\ original[Len(Input) + 1] = NUL
<1> DEFINE given == SubSeq(original, 1, len)
<1>1. original \in Seq(UnitsOf(conversion)) /\ len \in 0 .. Len(original)
  BY DEF IInv, Memory
<1>2. /\ given \in Seq(UnitsOf(conversion)) /\ Len(given) = len
      /\ \A i \in 1 .. len : given[i] = original[i]
  BY <1>1, Prefix
<1>3. Input = IF Terminated THEN UpToNul(given) ELSE given
  BY DEF Input
<1> HIDE DEF given
<1>4. CASE Terminated
  <2>1. Input = UpToNul(given)
    BY <1>3, <1>4
  <2>2. /\ Input \in Seq(UnitsOf(conversion)) /\ Len(Input) <= len
        /\ \A i \in 1 .. Len(Input) : Input[i] = given[i] /\ given[i] # NUL
        /\ Len(Input) < len => given[Len(Input) + 1] = NUL
    BY <1>2, <2>1, NulCuts
  <2>3. Len(Input) \in Nat /\ len \in Nat
    BY <1>1, <2>2
  <2> HIDE DEF Input
  <2>4. \A i \in 1 .. Len(Input) : i \in 1 .. len
    BY <2>2, <2>3
  <2>5. Len(Input) < len => Len(Input) + 1 \in 1 .. len
    BY <2>3
  <2> QED
    BY <1>2, <1>4, <2>2, <2>4, <2>5
<1>5. CASE ~Terminated
  BY <1>1, <1>2, <1>3, <1>5
<1> QED
  BY <1>4, <1>5

(* The loop reads as far as this text, and finds each character as it is in *)
(* this text.                                                               *)
LEMMA ReadsInput ==
    ASSUME IInv, status = "CONVERTING", read_pos <= Len(Input)
    PROVE  /\ MoreToRead <=> read_pos < Len(Input)
           /\ MoreToRead =>
                 LET s == SubSeq(Input, read_pos + 1, Len(Input))
                 IN  /\ s \in Seq(UnitsOf(conversion)) /\ s # << >>
                     /\ s[1] = Input[read_pos + 1]
                     /\ Readable \in Seq(UnitsOf(conversion))
                     /\ Readable = s \/ (Terminated /\ Continues(s, Readable))
<1>1. /\ Input \in Seq(UnitsOf(conversion)) /\ Len(Input) <= len /\ Len(Input) \in Nat
      /\ \A i \in 1 .. Len(Input) : Input[i] = original[i] /\ (Terminated => original[i] # NUL)
      /\ Len(Input) < len => Terminated /\ original[Len(Input) + 1] = NUL
  BY InputText
<1>2. /\ mem \in Seq(UnitsOf(conversion)) /\ len \in Nat /\ read_pos \in Nat
      /\ read_pos <= len /\ len < Len(original) /\ Len(mem) = Len(original)
      /\ Len(original) \in Nat
  BY DEF IInv, Memory
<1>3. \A i \in read_pos + 1 .. Len(original) : mem[i] = original[i]
  BY DEF IInv, ReadsOriginal
<1>4. read_pos < Len(Input) => MoreToRead
  <2> SUFFICES ASSUME read_pos < Len(Input) PROVE MoreToRead
    OBVIOUS
  <2>1. read_pos + 1 \in 1 .. Len(Input) /\ read_pos + 1 \in read_pos + 1 .. Len(original)
    BY <1>1, <1>2
  <2>2. mem[read_pos + 1] = original[read_pos + 1]
    BY <1>3, <2>1
  <2> QED
    BY <1>1, <1>2, <2>1, <2>2 DEF MoreToRead
<1>5. MoreToRead => read_pos < Len(Input)
  <2> SUFFICES ASSUME MoreToRead, read_pos = Len(Input) PROVE FALSE
    BY <1>1, <1>2
  <2>1. read_pos < len /\ (Terminated => mem[read_pos + 1] # NUL)
    BY DEF MoreToRead
  <2>2. read_pos + 1 \in read_pos + 1 .. Len(original)
    BY <1>2, <2>1
  <2>3. mem[read_pos + 1] = original[read_pos + 1]
    BY <1>3, <2>2
  <2> QED
    BY <1>1, <2>1, <2>3
<1>6. ASSUME MoreToRead
      PROVE  LET s == SubSeq(Input, read_pos + 1, Len(Input))
             IN  /\ s \in Seq(UnitsOf(conversion)) /\ s # << >>
                 /\ s[1] = Input[read_pos + 1]
                 /\ Readable \in Seq(UnitsOf(conversion))
                 /\ Readable = s \/ (Terminated /\ Continues(s, Readable))
  <2> DEFINE s == SubSeq(Input, read_pos + 1, Len(Input))
             r == Readable
             n == Len(Input) - read_pos
             m == len - read_pos
  <2>0. read_pos < Len(Input) /\ read_pos < len
    BY <1>1, <1>2, <1>5, <1>6
  <2>1. n \in Nat /\ n >= 1 /\ m \in Nat /\ n <= m
    BY <1>1, <1>2, <2>0
  <2>2. s \in Seq(UnitsOf(conversion)) /\ Len(s) = n /\ \A i \in 1 .. n : s[i] = Input[read_pos + i]
    <3>1. \A i \in read_pos + 1 .. Len(Input) : Input[i] \in UnitsOf(conversion)
      BY <1>1, <1>2
    <3>2. /\ s \in Seq(UnitsOf(conversion))
          /\ Len(s) = IF read_pos + 1 <= Len(Input) THEN Len(Input) - (read_pos + 1) + 1 ELSE 0
          /\ \A i \in 1 .. Len(Input) - (read_pos + 1) + 1 : s[i] = Input[read_pos + 1 + i - 1]
      BY <1>1, <1>2, <3>1, SubSeqProperties
    <3> HIDE DEF s
    <3>3. Len(s) = n
      BY <1>1, <1>2, <2>0, <3>2
    <3>4. ASSUME NEW i \in 1 .. n PROVE s[i] = Input[read_pos + i]
      <4>1. i \in 1 .. Len(Input) - (read_pos + 1) + 1 /\ read_pos + 1 + i - 1 = read_pos + i
        BY <1>1, <1>2
      <4> QED
        BY <3>2, <4>1
    <3> QED
      BY <3>2, <3>3, <3>4
  <2>3. r \in Seq(UnitsOf(conversion)) /\ Len(r) = m /\ \A i \in 1 .. m : r[i] = mem[read_pos + i]
    <3>1. \A i \in read_pos + 1 .. len : mem[i] \in UnitsOf(conversion)
      BY <1>2
    <3>2. /\ r \in Seq(UnitsOf(conversion))
          /\ Len(r) = IF read_pos + 1 <= len THEN len - (read_pos + 1) + 1 ELSE 0
          /\ \A i \in 1 .. len - (read_pos + 1) + 1 : r[i] = mem[read_pos + 1 + i - 1]
      BY <1>2, <3>1, SubSeqProperties DEF Readable
    <3> HIDE DEF r
    <3>3. Len(r) = m
      BY <1>2, <2>0, <3>2
    <3>4. ASSUME NEW i \in 1 .. m PROVE r[i] = mem[read_pos + i]
      <4>1. i \in 1 .. len - (read_pos + 1) + 1 /\ read_pos + 1 + i - 1 = read_pos + i
        BY <1>2
      <4> QED
        BY <3>2, <4>1
    <3> QED
      BY <3>2, <3>3, <3>4
  <2>4. \A i \in 1 .. m : r[i] = original[read_pos + i]
    <3> SUFFICES ASSUME NEW i \in 1 .. m PROVE r[i] = original[read_pos + i]
      OBVIOUS
    <3>1. read_pos + i \in read_pos + 1 .. Len(original)
      BY <1>2
    <3> QED
      BY <1>3, <2>3, <3>1
  <2>5. \A i \in 1 .. n : r[i] = s[i]
    <3> SUFFICES ASSUME NEW i \in 1 .. n PROVE r[i] = s[i]
      OBVIOUS
    <3>1. read_pos + i \in 1 .. Len(Input) /\ i \in 1 .. m
      BY <1>1, <1>2, <2>1
    <3> QED
      BY <1>1, <2>2, <2>4, <3>1
  <2>6. s # << >> /\ s[1] = Input[read_pos + 1]
    <3>1. Len(s) >= 1 /\ 1 \in 1 .. n
      BY <2>1, <2>2
    <3> HIDE DEF s, n
    <3> QED
      BY <2>2, <3>1
  <2>7. CASE n = m
    <3> HIDE DEF s, r, n
    <3>1. r = s
      BY <2>2, <2>3, <2>5, <2>7, SeqEqual
    <3> QED
      BY <2>2, <2>3, <2>6, <3>1 DEF s, r
  <2>8. CASE n # m
    <3>1. n + 1 \in 1 .. m /\ Len(Input) < len
      BY <1>1, <1>2, <2>1, <2>8
    <3>2. r[n + 1] = original[Len(Input) + 1]
      <4>1. read_pos + (n + 1) = Len(Input) + 1
        BY <1>1, <1>2
      <4> QED
        BY <2>4, <3>1, <4>1
    <3>3. Terminated /\ r[Len(s) + 1] = NUL
      BY <1>1, <2>2, <3>1, <3>2
    <3>4. Continues(s, r)
      <4> HIDE DEF s, r, n, m
      <4> QED
        BY <2>1, <2>2, <2>3, <2>5, <3>3 DEF Continues
    <3> HIDE DEF s, r, n, m
    <3> QED
      BY <2>2, <2>3, <2>6, <3>3, <3>4 DEF s, r
  <2> QED
    BY <2>7, <2>8
<1> QED
  BY <1>4, <1>5, <1>6

-----------------------------------------------------------------------------
(* What has been written so far, and what is to come: the conversion of the *)
(* text is what has been written and the conversion of what has not been    *)
(* read.                                                                    *)
Cells == IF in_place THEN mem ELSE out

Written == SubSeq(Cells, 1, write_pos)

Completed(w) == {Written \o r : r \in Rest(conversion, Input)[read_pos][w]}

Halfway ==
    /\ read_pos <= Len(Input)
    /\ Written \in Seq(Nat) /\ (Terminated => Written \in Seq(Positive))
    /\ \E w \in BOOLEAN : /\ conversion = "ToLatin" => w = at_word_start
                          /\ Converted(Input) = Completed(w)

CInv ==
    /\ IInv
    /\ at_word_start \in BOOLEAN
    /\ status = "CONVERTING" => Halfway
    /\ AsConverted

LEMMA SameText ==
    ASSUME UNCHANGED call
    PROVE  /\ Input' = Input /\ (Terminated' <=> Terminated)
           /\ Rest(conversion, Input)' = Rest(conversion, Input)
           /\ Converted(Input)' = Converted(Input)
<1>1. /\ conversion' = conversion /\ in_place' = in_place /\ flags' = flags
      /\ original' = original /\ len' = len
  BY DEF call
<1>2. Terminated' <=> Terminated
  BY <1>1 DEF Terminated
<1>3. Input' = Input
  BY <1>1, <1>2, SMT DEF Input
<1>4. Rest(conversion, Input)' = Rest(conversion, Input)
  BY <1>1, <1>3, SMT DEF Rest, OutOfPlace, Honoured, Chunk
<1>5. Converted(Input)' = Converted(Input)
  BY <1>4, Zenon DEF Converted, ConvertedBy
<1> QED
  BY <1>2, <1>3, <1>4, <1>5

LEMMA CellsSize ==
    ASSUME IInv
    PROVE  /\ Cells \in Seq(Nat \cup {Fresh}) /\ write_pos \in Nat /\ write_pos <= Len(Cells)
           /\ Terminated => write_pos < Len(Cells)
<1>1. CASE in_place
  <2>1. /\ mem \in Seq(UnitsOf(conversion)) /\ write_pos \in Nat /\ write_pos <= read_pos
        /\ read_pos <= len /\ len < Len(mem) /\ read_pos \in Nat /\ len \in Nat
    BY <1>1 DEF IInv, Memory, InPlaceInv
  <2>2. mem \in Seq(Nat \cup {Fresh})
    BY <2>1, UnitsNat, SeqSubset
  <2> QED
    BY <1>1, <2>1, <2>2 DEF Cells
<1>2. CASE ~in_place
  BY <1>2 DEF IInv, Memory, OutOfPlaceInv, Cells
<1> QED
  BY <1>1, <1>2

LEMMA PutAppends ==
    ASSUME NEW S, NEW cells \in Seq(S), NEW n \in Nat, NEW units \in Seq(S),
           n + Len(units) <= Len(cells)
    PROVE  SubSeq(Put(cells, n, units), 1, n + Len(units)) = SubSeq(cells, 1, n) \o units
<1> DEFINE p == Put(cells, n, units)
           k == Len(units)
<1>1. k \in Nat /\ n \in 0 .. Len(cells) /\ n + k \in 0 .. Len(cells)
  OBVIOUS
<1>2. /\ p \in Seq(S) /\ Len(p) = Len(cells)
      /\ \A i \in 1 .. Len(cells) : p[i] = IF i > n /\ i <= n + k THEN units[i - n] ELSE cells[i]
  <2>1. p \in Seq(S) /\ Len(p) = Len(cells)
    BY PutKeeps
  <2> QED
    BY <2>1 DEF Put
<1>3. /\ SubSeq(p, 1, n + k) \in Seq(S) /\ Len(SubSeq(p, 1, n + k)) = n + k
      /\ \A i \in 1 .. n + k : SubSeq(p, 1, n + k)[i] = p[i]
  <2> HIDE DEF p, k
  <2> QED
    BY <1>1, <1>2, Prefix
<1>4. /\ SubSeq(cells, 1, n) \in Seq(S) /\ Len(SubSeq(cells, 1, n)) = n
      /\ \A i \in 1 .. n : SubSeq(cells, 1, n)[i] = cells[i]
  BY <1>1, Prefix
<1> DEFINE a == SubSeq(p, 1, n + k)
           b == SubSeq(cells, 1, n)
<1>5. /\ b \o units \in Seq(S) /\ Len(b \o units) = n + k
      /\ \A i \in 1 .. n + k : (b \o units)[i] = IF i <= n THEN b[i] ELSE units[i - n]
  BY <1>4, ConcatProperties
<1>6. \A i \in 1 .. n + k : a[i] = (b \o units)[i]
  <2> SUFFICES ASSUME NEW i \in 1 .. n + k PROVE a[i] = (b \o units)[i]
    OBVIOUS
  <2> HIDE DEF a, b, p, k
  <2>1. i \in 1 .. Len(cells)
    BY <1>1
  <2>2. CASE i <= n
    <3>1. i \in 1 .. n /\ ~(i > n)
      BY <1>1, <2>2
    <3> QED
      BY <1>2, <1>3, <1>4, <1>5, <2>1, <2>2, <3>1 DEF a, b
  <2>3. CASE ~(i <= n)
    <3>1. i > n /\ i <= n + k
      BY <1>1, <2>3
    <3> QED
      BY <1>2, <1>3, <1>5, <2>1, <2>3, <3>1 DEF a
  <2> QED
    BY <2>2, <2>3
<1>7. a \in Seq(S) /\ Len(a) = n + k
  BY <1>3
<1> HIDE DEF a, b, p, k
<1>8. a = b \o units
  BY <1>5, <1>6, <1>7, SeqEqual
<1> QED
  BY <1>8 DEF a, b, p, k

(* What the loop makes of the next character is what the conversion of the  *)
(* whole text makes of it there.                                            *)
LEMMA SameCharacter ==
    ASSUME IInv, status = "CONVERTING", read_pos <= Len(Input), MoreToRead,
           NEW w, conversion = "ToLatin" => w = at_word_start
    PROVE  \/ At(conversion, Input, read_pos, w) = Current
           \/ Current.status # "OK" /\ At(conversion, Input, read_pos, w).status # "OK"
<1> DEFINE s == SubSeq(Input, read_pos + 1, Len(Input))
<1>1. /\ s \in Seq(UnitsOf(conversion)) /\ s # << >>
      /\ Readable \in Seq(UnitsOf(conversion))
      /\ Readable = s \/ (Terminated /\ Continues(s, Readable))
  BY ReadsInput
<1>2. At(conversion, Input, read_pos, w) = Chunk(conversion, s, w)
  BY AtChunk
<1> HIDE DEF s
<1>3. Chunk(conversion, s, w) = Chunk(conversion, s, at_word_start)
  BY ChunkWord
<1>4. Current = Chunk(conversion, Readable, at_word_start)
  BY DEF Current
<1>5. CASE Readable = s
  BY <1>2, <1>3, <1>4, <1>5
<1>6. CASE Terminated /\ Continues(s, Readable)
  <2>1. conversion \in PersianConversions
    BY <1>6 DEF Terminated
  <2>2. UnitsOf(conversion) = AnyByte
    BY <2>1 DEF UnitsOf, Wide, PersianConversions, InPlaceConversions
  <2>3. \/ Chunk(conversion, Readable, at_word_start) = Chunk(conversion, s, at_word_start)
        \/ /\ Chunk(conversion, Readable, at_word_start).status # "OK"
           /\ Chunk(conversion, s, at_word_start).status # "OK"
    BY <1>1, <1>6, <2>1, <2>2, ChunkAgrees
  <2> QED
    BY <1>2, <1>3, <1>4, <2>3
<1> QED
  BY <1>1, <1>5, <1>6

LEMMA RestHere ==
    ASSUME IInv, read_pos <= Len(Input), NEW w \in BOOLEAN
    PROVE  LET here == At(conversion, Input, read_pos, w)
               rest == Rest(conversion, Input)
           IN  /\ read_pos \in 0 .. Len(Input) /\ rest[read_pos][w] \subseteq Seq(Nat)
               /\ read_pos = Len(Input) => rest[read_pos][w] = {<< >>}
               /\ read_pos # Len(Input) /\ here.status # "OK" => rest[read_pos][w] = {}
               /\ read_pos # Len(Input) /\ here.status = "OK" =>
                     /\ here.units \in Seq(Nat)
                     /\ read_pos + here.used \in 0 .. Len(Input)
                     /\ rest[read_pos + here.used][WordStarts(w, here.units)] \subseteq Seq(Nat)
                     /\ rest[read_pos][w]
                           = {here.units \o r :
                                r \in rest[read_pos + here.used][WordStarts(w, here.units)]}
<1> DEFINE here == At(conversion, Input, read_pos, w)
           rest == Rest(conversion, Input)
<1>1. Input \in Seq(UnitsOf(conversion)) /\ (in_place => conversion \in InPlaceConversions)
  BY InputText DEF IInv, InPlaceInv
<1>2. read_pos \in 0 .. Len(Input)
  BY <1>1 DEF IInv, Memory
<1>3. rest[read_pos][w] = RestAt(rest, conversion, Input, read_pos, w)
  BY <1>1, <1>2, RestEquation
<1>4. rest[read_pos][w] \subseteq Seq(Nat)
  BY <1>1, <1>2, RestType
<1>5. ASSUME read_pos # Len(Input), here.status = "OK"
      PROVE  /\ here.units \in Seq(Nat)
             /\ read_pos + here.used \in 0 .. Len(Input)
             /\ rest[read_pos + here.used][WordStarts(w, here.units)] \subseteq Seq(Nat)
             /\ rest[read_pos][w]
                   = {here.units \o r :
                        r \in rest[read_pos + here.used][WordStarts(w, here.units)]}
  <2>1. here.used \in Nat /\ read_pos + here.used \in read_pos + 1 .. Len(Input) /\ here.units \in Seq(Nat)
    BY <1>1, <1>2, <1>5, AtSize
  <2>2. read_pos + here.used \in 0 .. Len(Input)
    BY <1>2, <2>1
  <2>3. WordStarts(w, here.units) \in BOOLEAN
    BY WordStartsBoolean
  <2>4. rest[read_pos + here.used][WordStarts(w, here.units)] \subseteq Seq(Nat)
    BY <1>1, <2>2, <2>3, RestType
  <2> HIDE DEF rest
  <2>5. rest[read_pos][w]
           = {here.units \o r : r \in rest[read_pos + here.used][WordStarts(w, here.units)]}
    BY <1>3, <1>5, Zenon DEF RestAt
  <2> QED
    BY <2>1, <2>2, <2>4, <2>5
<1> HIDE DEF rest
<1>6. read_pos = Len(Input) => rest[read_pos][w] = {<< >>}
  BY <1>3, Zenon DEF RestAt
<1>7. read_pos # Len(Input) /\ here.status # "OK" => rest[read_pos][w] = {}
  BY <1>3, Zenon DEF RestAt
<1> QED
  BY <1>2, <1>4, <1>5, <1>6, <1>7 DEF rest

LEMMA InitCInv == Init => CInv
<1> SUFFICES ASSUME Init PROVE CInv
  OBVIOUS
<1>1. IInv /\ at_word_start = TRUE /\ status = "CONVERTING" /\ read_pos = 0 /\ write_pos = 0
  BY InitIInv DEF Init
<1>2. Input \in Seq(UnitsOf(conversion)) /\ Len(Input) \in Nat
  BY <1>1, InputText
<1>3. Written = << >>
  <2>1. Cells \in Seq(Nat \cup {Fresh}) /\ 0 \in 0 .. Len(Cells)
    BY <1>1, CellsSize
  <2>2. Written \in Seq(Nat \cup {Fresh}) /\ Len(Written) = 0
    BY <1>1, <2>1, Prefix DEF Written
  <2> QED
    BY <2>2
<1>4. Converted(Input) = Completed(TRUE)
  <2> DEFINE R == Rest(conversion, Input)[0][TRUE]
  <2>1. R \subseteq Seq(Nat)
    <3>1. read_pos <= Len(Input)
      BY <1>1, <1>2
    <3>2. Rest(conversion, Input)[read_pos][TRUE] \subseteq Seq(Nat)
      BY <1>1, <3>1, RestHere
    <3> QED
      BY <1>1, <3>2
  <2>2. Converted(Input) = R
    BY DEF Converted, ConvertedBy
  <2>3. Completed(TRUE) = {<< >> \o r : r \in R}
    BY <1>1, <1>3 DEF Completed
  <2> HIDE DEF R
  <2>4. \A r \in R : << >> \o r = r
    BY <2>1, ConcatEmptySeq
  <2>5. R = {<< >> \o r : r \in R}
    BY <2>4, Zenon
  <2> QED
    BY <2>2, <2>3, <2>5
<1>5. Halfway
  <2>1. read_pos <= Len(Input) /\ << >> \in Seq(Nat) /\ << >> \in Seq(Positive)
    BY <1>1, <1>2
  <2> QED
    BY <1>1, <1>3, <1>4, <2>1, Zenon DEF Halfway
<1> QED
  BY <1>1, <1>5 DEF CInv, AsConverted

LEMMA ConvertCInv ==
    ASSUME CInv, Convert, IInv'
    PROVE  CInv'
<1> DEFINE units == Current.units
<1>1. /\ IInv /\ Halfway /\ at_word_start \in BOOLEAN /\ status = "CONVERTING" /\ MoreToRead
      /\ Current.status = "OK" /\ Write(units)
      /\ read_pos' = read_pos + Current.used /\ write_pos' = write_pos + Len(units)
      /\ at_word_start' = (conversion = "ToLatin" => WordStarts(at_word_start, units))
      /\ status' = status /\ UNCHANGED call
  BY DEF CInv, Convert, MoreToRead
<1>2. PICK w \in BOOLEAN : /\ conversion = "ToLatin" => w = at_word_start
                           /\ Converted(Input) = Completed(w)
  BY <1>1 DEF Halfway
<1>3. /\ read_pos <= Len(Input) /\ Written \in Seq(Nat)
      /\ Terminated => Written \in Seq(Positive)
  BY <1>1 DEF Halfway
<1>4. At(conversion, Input, read_pos, w) = Current
  BY <1>1, <1>2, <1>3, SameCharacter
<1>5. /\ Input' = Input /\ (Terminated' <=> Terminated)
      /\ Rest(conversion, Input)' = Rest(conversion, Input)
      /\ Converted(Input)' = Converted(Input)
      /\ conversion' = conversion /\ in_place' = in_place
  BY <1>1, SameText DEF call
<1>6. read_pos # Len(Input)
  BY <1>1, <1>3, ReadsInput
<1>7. PICK v \in BOOLEAN : v = WordStarts(w, units)
  BY WordStartsBoolean
<1> DEFINE R == Rest(conversion, Input)[read_pos + Current.used][v]
<1>8. /\ units \in Seq(Nat) /\ read_pos + Current.used \in 0 .. Len(Input)
      /\ R \subseteq Seq(Nat)
      /\ Rest(conversion, Input)[read_pos][w] = {units \o r : r \in R}
  BY <1>1, <1>3, <1>4, <1>6, <1>7, RestHere
<1>9. Terminated => units \in Seq(Positive)
  <2> SUFFICES ASSUME Terminated PROVE units \in Seq(Positive)
    OBVIOUS
  <2>1. conversion \in PersianConversions
    BY DEF Terminated
  <2>2. UnitsOf(conversion) = AnyByte
    BY <2>1 DEF UnitsOf, Wide, PersianConversions, InPlaceConversions
  <2>3. Readable \in Seq(AnyByte) /\ Readable # << >>
    BY <1>1, <2>2, ReadableUnits
  <2>4. Readable[1] # NUL
    <3>1. mem[read_pos + 1] # NUL
      BY <1>1 DEF MoreToRead
    <3>2. /\ mem \in Seq(UnitsOf(conversion)) /\ len <= Len(mem) /\ len \in Nat
          /\ read_pos \in Nat /\ read_pos < len
      BY <1>1 DEF IInv, Memory, MoreToRead
    <3>3. Readable[1] = mem[read_pos + 1]
      BY <3>2 DEF Readable
    <3> QED
      BY <3>1, <3>3
  <2> QED
    BY <1>1, <2>1, <2>3, <2>4, ChunkPositive DEF Current
<1>10. Written' = Written \o units
  <2>1. /\ Cells \in Seq(Nat \cup {Fresh}) /\ write_pos \in Nat
    BY <1>1, CellsSize
  <2>2. Cells' = Put(Cells, write_pos, units)
    BY <1>1, <1>5 DEF Write, Cells
  <2>3. write_pos' <= Len(Cells')
    <3>1. CASE in_place
      <4>1. /\ write_pos' <= read_pos' /\ read_pos' \in Nat /\ read_pos' <= len' /\ len' < Len(mem')
            /\ len' \in Nat /\ Len(mem') \in Nat /\ write_pos' \in Nat
        BY <1>5, <3>1 DEF IInv, Memory, InPlaceInv
      <4> QED
        BY <1>5, <3>1, <4>1 DEF Cells
    <3>2. CASE ~in_place
      BY <1>5, <3>2 DEF IInv, OutOfPlaceInv, Cells
    <3> QED
      BY <3>1, <3>2
  <2>4. units \in Seq(Nat \cup {Fresh})
    BY <1>8
  <2> HIDE DEF units
  <2>5. Len(Cells') = Len(Cells)
    BY <2>1, <2>2, <2>4, PutKeeps
  <2>6. SubSeq(Cells', 1, write_pos + Len(units)) = SubSeq(Cells, 1, write_pos) \o units
    BY <1>1, <2>1, <2>2, <2>3, <2>4, <2>5, PutAppends
  <2> QED
    BY <1>1, <2>6 DEF Written
<1>11. v \in BOOLEAN /\ (conversion = "ToLatin" => v = at_word_start')
  BY <1>1, <1>2, <1>7
<1>12. Converted(Input)' = Completed(v)'
  <2>1. Completed(v)' = {(Written \o units) \o r : r \in R}
    BY <1>1, <1>5, <1>10 DEF Completed
  <2>2. Completed(w) = {Written \o (units \o r) : r \in R}
    BY <1>8 DEF Completed
  <2> HIDE DEF R, units
  <2>3. \A r \in R : (Written \o units) \o r = Written \o (units \o r)
    BY <1>3, <1>8, ConcatAssociative
  <2>4. {(Written \o units) \o r : r \in R} = {Written \o (units \o r) : r \in R}
    BY <2>3, Zenon
  <2> QED
    BY <1>2, <1>5, <2>1, <2>2, <2>4, Zenon
<1>13. Halfway'
  <2>1. read_pos' <= Len(Input')
    BY <1>1, <1>5, <1>8
  <2>2. Written' \in Seq(Nat) /\ (Terminated' => Written' \in Seq(Positive))
    <3> HIDE DEF units
    <3> QED
      BY <1>3, <1>5, <1>8, <1>9, <1>10, ConcatProperties
  <2> QED
    BY <1>5, <1>11, <1>12, <2>1, <2>2, Zenon DEF Halfway
<1>14. at_word_start' \in BOOLEAN
  <2>1. CASE conversion = "ToLatin"
    <3>1. WordStarts(at_word_start, units) \in BOOLEAN
      BY <1>1, WordStartsBoolean
    <3> QED
      BY <1>1, <2>1, <3>1
  <2>2. CASE conversion # "ToLatin"
    BY <1>1, <2>2
  <2> QED
    BY <2>1, <2>2
<1> QED
  BY <1>1, <1>13, <1>14 DEF CInv, AsConverted

LEMMA MalformedCInv ==
    ASSUME CInv, Malformed, IInv'
    PROVE  CInv'
<1>1. /\ IInv /\ Halfway /\ at_word_start \in BOOLEAN /\ status = "CONVERTING" /\ MoreToRead
      /\ Current.status # "OK" /\ status' = Current.status
      /\ at_word_start' = at_word_start /\ UNCHANGED call
  BY DEF CInv, Malformed, MoreToRead, Return
<1>2. PICK w \in BOOLEAN : /\ conversion = "ToLatin" => w = at_word_start
                           /\ Converted(Input) = Completed(w)
  BY <1>1 DEF Halfway
<1>3. read_pos <= Len(Input)
  BY <1>1 DEF Halfway
<1>4. At(conversion, Input, read_pos, w).status # "OK"
  BY <1>1, <1>2, <1>3, SameCharacter
<1>5. read_pos # Len(Input)
  BY <1>1, <1>3, ReadsInput
<1>6. Rest(conversion, Input)[read_pos][w] = {}
  BY <1>1, <1>3, <1>4, <1>5, RestHere
<1>7. Converted(Input)' = {}
  <2>1. Completed(w) = {}
    BY <1>6 DEF Completed
  <2> QED
    BY <1>1, <1>2, <2>1, SameText
<1>8. status' \in {"INVALID_ENCODING", "INCOMPLETE", "INVALID_PARAM"}
  BY <1>1, ReadableUnits, ChunkStatus DEF Current
<1>9. AsConverted'
  <2>1. status' # "OK" /\ status' # "BUFFER_TOO_SMALL"
    BY <1>8
  <2> QED
    BY <1>7, <2>1, Zenon DEF AsConverted
<1> QED
  BY <1>1, <1>8, <1>9 DEF CInv

LEMMA TooSmallCInv ==
    ASSUME CInv, TooSmall, IInv'
    PROVE  CInv'
<1> DEFINE units == Current.units
<1>1. /\ IInv /\ Halfway /\ at_word_start \in BOOLEAN /\ status = "CONVERTING" /\ MoreToRead
      /\ Current.status = "OK" /\ ~HasRoom(units) /\ status' = "BUFFER_TOO_SMALL"
      /\ at_word_start' = at_word_start /\ out' = out /\ UNCHANGED call
  BY DEF CInv, TooSmall, MoreToRead, Return
<1>2. PICK w \in BOOLEAN : /\ conversion = "ToLatin" => w = at_word_start
                           /\ Converted(Input) = Completed(w)
  BY <1>1 DEF Halfway
<1>3. read_pos <= Len(Input) /\ Written \in Seq(Nat)
  BY <1>1 DEF Halfway
<1>4. At(conversion, Input, read_pos, w) = Current
  BY <1>1, <1>2, <1>3, SameCharacter
<1>5. read_pos # Len(Input)
  BY <1>1, <1>3, ReadsInput
<1> DEFINE R == Rest(conversion, Input)[read_pos + Current.used][WordStarts(w, units)]
<1>6. /\ units \in Seq(Nat) /\ R \subseteq Seq(Nat)
      /\ Rest(conversion, Input)[read_pos][w] = {units \o r : r \in R}
  BY <1>1, <1>3, <1>4, <1>5, RestHere
<1>7. /\ ~in_place
      /\ IF Terminated THEN ~(write_pos + Len(units) < Len(out))
         ELSE ~(write_pos + Len(units) <= Len(out))
  BY <1>1, Zenon DEF HasRoom
<1>8. Len(Written) = write_pos /\ write_pos \in Nat /\ Len(out) \in Nat
  <2>1. Cells \in Seq(Nat \cup {Fresh}) /\ write_pos \in Nat /\ write_pos <= Len(Cells)
    BY <1>1, CellsSize
  <2>2. write_pos \in 0 .. Len(Cells) /\ Cells = out
    BY <1>7, <2>1 DEF Cells
  <2> QED
    BY <2>1, <2>2, Prefix DEF Written
<1>9. ASSUME NEW s \in Converted(Input)
      PROVE  Len(s) + (IF Terminated THEN 1 ELSE 0) > Len(out)
  <2>1. PICK r \in R : s = Written \o (units \o r)
    BY <1>2, <1>6 DEF Completed
  <2> HIDE DEF R, units
  <2>2. r \in Seq(Nat)
    BY <1>6, <2>1
  <2>3. units \o r \in Seq(Nat) /\ Len(units \o r) = Len(units) + Len(r)
    BY <1>6, <2>2, ConcatProperties
  <2>4. Len(s) = write_pos + (Len(units) + Len(r))
    <3> DEFINE t == units \o r
    <3>1. t \in Seq(Nat) /\ Len(t) = Len(units) + Len(r) /\ s = Written \o t
      BY <2>1, <2>3
    <3> HIDE DEF t
    <3>2. Len(s) = Len(Written) + Len(t)
      BY <1>3, <3>1, ConcatProperties
    <3> QED
      BY <1>8, <3>1, <3>2
  <2>5. Len(units) \in Nat /\ Len(r) \in Nat
    BY <1>6, <2>2
  <2>6. CASE Terminated
    BY <1>7, <1>8, <2>4, <2>5, <2>6
  <2>7. CASE ~Terminated
    BY <1>7, <1>8, <2>4, <2>5, <2>7
  <2> QED
    BY <2>6, <2>7
<1>10. AsConverted'
  <2>1. \A s \in Converted(Input)' : Len(s) + (IF Terminated' THEN 1 ELSE 0) > Len(out')
    BY <1>1, <1>9, SameText
  <2>2. status' = "BUFFER_TOO_SMALL"
    BY <1>1
  <2> QED
    BY <2>1, <2>2 DEF AsConverted
<1> QED
  BY <1>1, <1>10 DEF CInv

LEMMA FinishCInv ==
    ASSUME CInv, Finish, IInv'
    PROVE  CInv'
<1> DEFINE units == IF Terminated THEN <<NUL>> ELSE << >>
<1>1. /\ IInv /\ Halfway /\ at_word_start \in BOOLEAN /\ status = "CONVERTING" /\ ~MoreToRead
      /\ Write(units) /\ status' = "OK" /\ read_pos' = read_pos /\ write_pos' = write_pos
      /\ at_word_start' = at_word_start /\ UNCHANGED call
  BY DEF CInv, Finish
<1>2. PICK w \in BOOLEAN : Converted(Input) = Completed(w)
  BY <1>1 DEF Halfway
<1>3. /\ read_pos <= Len(Input) /\ Written \in Seq(Nat)
      /\ Terminated => Written \in Seq(Positive)
  BY <1>1 DEF Halfway
<1>4. read_pos = Len(Input)
  <2>1. ~(read_pos < Len(Input))
    BY <1>1, <1>3, ReadsInput
  <2>2. Len(Input) \in Nat /\ read_pos \in Nat
    BY <1>1, InputText DEF IInv, Memory
  <2> QED
    BY <1>3, <2>1, <2>2
<1>5. Converted(Input) = {Written}
  <2>1. Rest(conversion, Input)[read_pos][w] = {<< >>}
    BY <1>1, <1>3, <1>4, RestHere
  <2>2. Written \o << >> = Written
    BY <1>3, ConcatEmptySeq
  <2>3. Completed(w) = {Written \o << >>}
    BY <2>1 DEF Completed
  <2> QED
    BY <1>2, <2>2, <2>3
<1>6. /\ Cells \in Seq(Nat \cup {Fresh}) /\ write_pos \in Nat /\ write_pos <= Len(Cells)
      /\ Terminated => write_pos < Len(Cells)
  BY <1>1, CellsSize
<1>7. /\ Len(Written) = write_pos /\ \A i \in 1 .. write_pos : Written[i] = Cells[i]
  <2>1. write_pos \in 0 .. Len(Cells)
    BY <1>6
  <2> QED
    BY <1>6, <2>1, Prefix DEF Written
<1>8. /\ Converted(Input)' = Converted(Input) /\ (Terminated' <=> Terminated)
      /\ in_place' = in_place /\ conversion' = conversion
  BY <1>1, SameText DEF call
<1>9. Cells' = Put(Cells, write_pos, units)
  BY <1>1, <1>8 DEF Write, Cells
<1>10. ASSUME Terminated
       PROVE  UpToNul(Cells') = Written
  <2>1. units = <<NUL>> /\ <<NUL>> \in Seq(Nat \cup {Fresh}) /\ Len(<<NUL>>) = 1
    BY <1>10 DEF NUL
  <2>2. write_pos < Len(Cells) /\ write_pos + Len(<<NUL>>) <= Len(Cells)
    BY <1>6, <1>10, <2>1
  <2> HIDE DEF units
  <2>3. Cells' = Put(Cells, write_pos, <<NUL>>)
    BY <1>9, <2>1
  <2>4. Cells' \in Seq(Nat \cup {Fresh}) /\ Len(Cells') = Len(Cells)
    BY <1>6, <2>1, <2>3, PutKeeps
  <2>5. \A i \in 1 .. Len(Cells) :
           Cells'[i] = IF i > write_pos /\ i <= write_pos + 1 THEN <<NUL>>[i - write_pos] ELSE Cells[i]
    <3>1. DOMAIN Cells = 1 .. Len(Cells)
      BY <1>6
    <3> QED
      BY <2>1, <2>3, <3>1 DEF Put
  <2>6. Cells'[write_pos + 1] = NUL
    <3> DEFINE k == write_pos + 1
    <3>1. k \in 1 .. Len(Cells) /\ k - write_pos = 1 /\ k > write_pos /\ k <= write_pos + 1
      BY <1>6, <2>2
    <3> HIDE DEF k
    <3>2. Cells'[k] = <<NUL>>[k - write_pos]
      BY <2>5, <3>1
    <3>3. Cells'[k] = NUL
      BY <3>1, <3>2
    <3> QED
      BY <3>3 DEF k
  <2>7. \A i \in 1 .. write_pos : Cells'[i] = Written[i]
    <3> SUFFICES ASSUME NEW i \in 1 .. write_pos PROVE Cells'[i] = Written[i]
      OBVIOUS
    <3>1. i \in 1 .. Len(Cells) /\ ~(i > write_pos)
      BY <1>6
    <3> QED
      BY <1>7, <2>5, <3>1
  <2>8. \A i \in 1 .. write_pos : Cells'[i] # NUL
    <3> SUFFICES ASSUME NEW i \in 1 .. write_pos PROVE Cells'[i] # NUL
      OBVIOUS
    <3>1. Written[i] \in Positive
      BY <1>3, <1>7, <1>10
    <3> QED
      BY <2>7, <3>1 DEF Positive, NUL
  <2>9. UpToNul(Cells') = SubSeq(Cells', 1, write_pos)
    BY <1>6, <2>2, <2>4, <2>6, <2>8, NulCutsHere
  <2>10. SubSeq(Cells', 1, write_pos) = Written
    <3>1. write_pos \in 0 .. Len(Cells')
      BY <1>6, <2>4
    <3>2. /\ SubSeq(Cells', 1, write_pos) \in Seq(Nat \cup {Fresh})
          /\ Len(SubSeq(Cells', 1, write_pos)) = write_pos
          /\ \A i \in 1 .. write_pos : SubSeq(Cells', 1, write_pos)[i] = Cells'[i]
      BY <2>4, <3>1, Prefix
    <3>3. Written \in Seq(Nat \cup {Fresh})
      BY <1>3
    <3> QED
      BY <1>7, <2>7, <3>2, <3>3, SeqEqual
  <2> QED
    BY <2>9, <2>10
<1>11. ASSUME ~Terminated
       PROVE  Cells' = Cells
  <2>1. units = << >> /\ Len(<< >>) = 0
    BY <1>11
  <2> HIDE DEF units
  <2>2. Cells' = [i \in DOMAIN Cells |-> Cells[i]]
    BY <1>6, <1>9, <2>1 DEF Put
  <2> QED
    BY <1>6, <2>2
<1>12. Result' = Written
  <2>1. CASE in_place
    <3>1. Terminated /\ Cells' = mem'
      BY <1>1, <1>8, <2>1 DEF IInv, InPlaceInv, Terminated, PersianConversions, Cells
    <3> QED
      BY <1>8, <1>10, <2>1, <3>1 DEF Result
  <2>2. CASE ~in_place /\ Terminated
    <3>1. Cells' = out'
      BY <1>8, <2>2 DEF Cells
    <3> QED
      BY <1>8, <1>10, <2>2, <3>1 DEF Result
  <2>3. CASE ~in_place /\ ~Terminated
    <3>1. Cells' = out' /\ Cells = out /\ out' = out
      BY <1>8, <1>11, <2>3 DEF Cells
    <3> QED
      BY <1>1, <1>8, <2>3, <3>1 DEF Result, Written
  <2> QED
    BY <2>1, <2>2, <2>3
<1>13. AsConverted'
  <2>1. Converted(Input)' = {Result'} /\ Len(Result') = write_pos'
    BY <1>1, <1>5, <1>7, <1>8, <1>12
  <2>2. /\ status' = "OK" /\ status' \notin {"INVALID_ENCODING", "INCOMPLETE", "INVALID_PARAM"}
        /\ status' # "BUFFER_TOO_SMALL"
    BY <1>1
  <2> QED
    BY <2>1, <2>2, Zenon DEF AsConverted
<1> QED
  BY <1>1, <1>13 DEF CInv

LEMMA IdleCInv ==
    ASSUME CInv, Returned \/ UNCHANGED vars, IInv'
    PROVE  CInv'
<1>1. /\ UNCHANGED call /\ mem' = mem /\ out' = out /\ read_pos' = read_pos
      /\ write_pos' = write_pos /\ at_word_start' = at_word_start /\ status' = status
  BY DEF Returned, vars
<1>2. /\ Input' = Input /\ (Terminated' <=> Terminated)
      /\ Rest(conversion, Input)' = Rest(conversion, Input)
      /\ Converted(Input)' = Converted(Input)
      /\ conversion' = conversion /\ in_place' = in_place
  BY <1>1, SameText DEF call
<1>3. Written' = Written /\ Result' = Result
  BY <1>1, <1>2 DEF Written, Cells, Result
<1>4. AsConverted'
  BY <1>1, <1>2, <1>3 DEF CInv, AsConverted
<1>5. status' = "CONVERTING" => Halfway'
  <2> SUFFICES ASSUME Halfway PROVE Halfway'
    BY <1>1 DEF CInv
  <2>1. PICK w \in BOOLEAN : /\ conversion = "ToLatin" => w = at_word_start
                             /\ Converted(Input) = Completed(w)
    BY DEF Halfway
  <2>2. Completed(w)' = Completed(w)
    BY <1>1, <1>2, <1>3 DEF Completed
  <2> QED
    BY <1>1, <1>2, <1>3, <2>1, <2>2 DEF Halfway
<1> QED
  BY <1>1, <1>4, <1>5 DEF CInv

LEMMA NextCInv == CInv /\ [Next]_vars => CInv'
<1> SUFFICES ASSUME CInv, [Next]_vars PROVE CInv'
  OBVIOUS
<1>1. IInv'
  BY NextIInv DEF CInv
<1>2. CASE Convert
  BY <1>1, <1>2, ConvertCInv
<1>3. CASE Malformed
  BY <1>1, <1>3, MalformedCInv
<1>4. CASE TooSmall
  BY <1>1, <1>4, TooSmallCInv
<1>5. CASE Finish
  BY <1>1, <1>5, FinishCInv
<1>6. CASE Returned \/ UNCHANGED vars
  BY <1>1, <1>6, IdleCInv
<1> QED
  BY <1>2, <1>3, <1>4, <1>5, <1>6 DEF Next

(* For every text, all flags and every size of buffer: the result is the    *)
(* conversion of the caller's text, in place as out of place, terminated    *)
(* and of the length handed out; an error means that the text is malformed, *)
(* or its conversion too long for the buffer.                               *)
THEOREM InPlaceAsOutOfPlace == Spec => []AsConverted
<1>1. CInv => AsConverted
  BY DEF CInv
<1> QED
  BY <1>1, InitCInv, NextCInv, PTL DEF Spec

-----------------------------------------------------------------------------
(* There and back.  First one character: the bytes it was decoded from are  *)
(* those it is encoded to, and the other way round.                         *)
LEMMA DecodedBack ==
    ASSUME NEW s \in Seq(AnyByte), DecodeChar(s).status = "OK"
    PROVE  /\ EncodeChar(DecodeChar(s).cp) = SubSeq(s, 1, DecodeChar(s).used)
           /\ DecodeChar(s).used \in 1 .. Len(s)
           /\ DecodeChar(s).cp \in Nat /\ IsValidCodePoint(DecodeChar(s).cp)
<1> DEFINE w == DecodeChar(s).used
           cp == DecodeChar(s).cp
<1>1. /\ s # << >> /\ w \in 1 .. 4 /\ w <= Len(s) /\ cp <= MaxCodePoint
      /\ \E prefix \in Seq(AnyByte) :
             /\ Whole(prefix, w) /\ \A i \in 1 .. w : prefix[i] = s[i]
             /\ w > 1 => SecondByteOK(prefix[1], prefix[2])
             /\ cp = Value(prefix, w)
  BY DecodedWhole
<1> HIDE DEF w, cp
<1>2. PICK prefix \in Seq(AnyByte) :
             /\ Whole(prefix, w) /\ \A i \in 1 .. w : prefix[i] = s[i]
             /\ w > 1 => SecondByteOK(prefix[1], prefix[2])
             /\ cp = Value(prefix, w)
  BY <1>1
<1>3. prefix = SubSeq(s, 1, w)
  <2>1. Len(prefix) = w /\ Len(s) \in Nat
    BY <1>2 DEF Whole
  <2>2. SubSeq(s, 1, w) \in Seq(AnyByte) /\ Len(SubSeq(s, 1, w)) = w
        /\ \A i \in 1 .. w : SubSeq(s, 1, w)[i] = s[i]
    BY <1>1, <2>1
  <2> QED
    BY <1>2, <2>1, <2>2
<1>4. cp \in Nat
  BY <1>1, <1>2, WholeNat
<1>5. /\ w > 1 => cp >= Shortest(w)
      /\ ~IsSurrogate(cp)
  <2>1. CASE w = 1
    <3>1. cp \in 0 .. 127
      <4>1. prefix[1] \in 0 .. 127 /\ Value(prefix, w) = prefix[1]
        BY <1>1, <1>2, <2>1, WholeValue
      <4> QED
        BY <1>2, <4>1
    <3> QED
      BY <1>4, <2>1, <3>1 DEF IsSurrogate
  <2>2. CASE w # 1
    <3>1. w \in 2 .. 4 /\ w > 1
      BY <1>1, <2>2
    <3>2. SecondByteOK(prefix[1], prefix[2]) /\ Value(prefix, w) <= MaxCodePoint
      BY <1>1, <1>2, <3>1, Zenon
    <3> QED
      BY <1>2, <3>1, <3>2, TestsAgree, Zenon
  <2> QED
    BY <2>1, <2>2
<1>6. EncodeChar(cp) = prefix
  BY <1>1, <1>2, <1>5, EncodeValue
<1>7. IsValidCodePoint(cp)
  BY <1>1, <1>5 DEF IsValidCodePoint
<1> QED
  BY <1>1, <1>3, <1>4, <1>6, <1>7 DEF w, cp

(* The bytes of a character, written out.                                   *)
LEMMA EncodedWhole ==
    ASSUME NEW cp \in Nat, cp <= MaxCodePoint
    PROVE  \E w \in 1 .. 4 :
               /\ Whole(EncodeChar(cp), w) /\ Value(EncodeChar(cp), w) = cp
               /\ w > 1 => cp >= Shortest(w)
<1> DEFINE u == EncodeChar(cp)
<1>0. cp <= 1114111
  BY DEF MaxCodePoint
<1>1. CASE cp <= 127
  <2>1. u = <<cp>> /\ cp \in AnyByte
    BY <1>1 DEF EncodeChar, AnyByte
  <2>2. Whole(u, 1)
    BY <1>1, <2>1 DEF Whole, Width
  <2>3. Value(u, 1) = cp
    BY <1>1, <2>1 DEF Value, LeadBits, Width
  <2> QED
    BY <2>2, <2>3
<1>2. CASE cp > 127 /\ cp <= 2047
  <2> DEFINE a == cp \div 64
             b == cp % 64
  <2>1. a \in 2 .. 31 /\ b \in 0 .. 63 /\ cp = a * 64 + b
    BY <1>2, SMT
  <2>2. u = <<192 + a, 128 + b>>
    BY <1>2 DEF EncodeChar
  <2> HIDE DEF a, b, u
  <2>3. u \in Seq(AnyByte) /\ Len(u) = 2 /\ u[1] = 192 + a /\ u[2] = 128 + b
    BY <2>1, <2>2 DEF AnyByte
  <2>4. u[1] \in 194 .. 223 /\ u[2] \in 128 .. 191 /\ u[1] - 192 = a /\ u[2] - 128 = b
    BY <2>1, <2>3
  <2>5. Whole(u, 2)
    <3>1. Width(u[1]) = 2 /\ IsContinuation(u[2])
      BY <2>4 DEF Width, IsContinuation
    <3> QED
      BY <2>3, <3>1 DEF Whole
  <2>6. Value(u, 2) = cp
    BY <2>1, <2>4, <2>5, WholeValue
  <2>7. cp >= Shortest(2)
    BY <1>2 DEF Shortest
  <2> QED
    BY <2>5, <2>6, <2>7 DEF u
<1>3. CASE cp > 2047 /\ cp <= 65535
  <2> DEFINE a == cp \div 4096
             b == (cp \div 64) % 64
             c == cp % 64
  <2>1. a \in 0 .. 15 /\ b \in 0 .. 63 /\ c \in 0 .. 63 /\ cp = a * 4096 + b * 64 + c
    <3>1. cp \div 64 \in Nat /\ cp \div 64 <= 1023 /\ c \in 0 .. 63 /\ cp = (cp \div 64) * 64 + c
      BY <1>3, SMT
    <3>2. a = (cp \div 64) \div 64
      BY DivTwice
    <3> DEFINE v == cp \div 64
    <3> HIDE DEF v
    <3>3. v \in Nat /\ v <= 1023
      BY <3>1 DEF v
    <3>4. v \div 64 \in 0 .. 15 /\ v % 64 \in 0 .. 63 /\ v = (v \div 64) * 64 + (v % 64)
      BY <3>3, SMT
    <3>5. a = v \div 64 /\ b = v % 64 /\ cp = v * 64 + c
      BY <3>1, <3>2 DEF v
    <3> HIDE DEF a, b, c
    <3> QED
      BY <3>1, <3>3, <3>4, <3>5
  <2>2. u = <<224 + a, 128 + b, 128 + c>>
    BY <1>3 DEF EncodeChar
  <2> HIDE DEF a, b, c, u
  <2>3. u \in Seq(AnyByte) /\ Len(u) = 3 /\ u[1] = 224 + a /\ u[2] = 128 + b /\ u[3] = 128 + c
    BY <2>1, <2>2 DEF AnyByte
  <2>4. /\ u[1] \in 224 .. 239 /\ u[2] \in 128 .. 191 /\ u[3] \in 128 .. 191
        /\ u[1] - 224 = a /\ u[2] - 128 = b /\ u[3] - 128 = c
    BY <2>1, <2>3
  <2>5. Whole(u, 3)
    <3>1. Width(u[1]) = 3 /\ IsContinuation(u[2]) /\ IsContinuation(u[3])
      BY <2>4 DEF Width, IsContinuation
    <3> QED
      BY <2>3, <3>1 DEF Whole
  <2>6. Value(u, 3) = cp
    BY <2>1, <2>4, <2>5, WholeValue
  <2>7. cp >= Shortest(3)
    BY <1>3 DEF Shortest
  <2> QED
    BY <2>5, <2>6, <2>7 DEF u
<1>4. CASE cp > 65535
  <2> DEFINE a == cp \div 262144
             b == (cp \div 4096) % 64
             c == (cp \div 64) % 64
             d == cp % 64
  <2>1. /\ a \in 0 .. 4 /\ b \in 0 .. 63 /\ c \in 0 .. 63 /\ d \in 0 .. 63
        /\ cp = a * 262144 + b * 4096 + c * 64 + d
    <3> DEFINE x == cp \div 64
               y == x \div 64
    <3>1. x \in Nat /\ d \in 0 .. 63 /\ cp = x * 64 + d
      BY SMT
    <3>2. cp \div 4096 = y
      BY DivTwice
    <3>3. cp \div 262144 = y \div 64
      BY <3>2, DivThrice
    <3>4. a = y \div 64 /\ b = y % 64 /\ c = x % 64
      BY <3>2, <3>3
    <3> HIDE DEF x, a, b, c, d
    <3>5. y \in Nat /\ c \in 0 .. 63 /\ x = y * 64 + c
      BY <3>1, <3>4, SMT
    <3> HIDE DEF y
    <3>6. a \in Nat /\ b \in 0 .. 63 /\ y = a * 64 + b
      BY <3>4, <3>5, SMT
    <3>7. cp = ((a * 64 + b) * 64 + c) * 64 + d
      BY <3>1, <3>5, <3>6
    <3>8. cp = a * 262144 + b * 4096 + c * 64 + d
      BY <3>1, <3>5, <3>6, <3>7, Horner
    <3>9. a <= 4
      BY <1>0, <3>1, <3>5, <3>6, <3>8
    <3> QED
      BY <3>1, <3>5, <3>6, <3>8, <3>9
  <2>2. u = <<240 + a, 128 + b, 128 + c, 128 + d>>
    BY <1>4, SMT DEF EncodeChar
  <2> HIDE DEF a, b, c, d, u
  <2>3. /\ u \in Seq(AnyByte) /\ Len(u) = 4
        /\ u[1] = 240 + a /\ u[2] = 128 + b /\ u[3] = 128 + c /\ u[4] = 128 + d
    BY <2>1, <2>2 DEF AnyByte
  <2>4. /\ u[1] \in 240 .. 244 /\ u[2] \in 128 .. 191 /\ u[3] \in 128 .. 191 /\ u[4] \in 128 .. 191
        /\ u[1] - 240 = a /\ u[2] - 128 = b /\ u[3] - 128 = c /\ u[4] - 128 = d
    BY <2>1, <2>3
  <2>5. Whole(u, 4)
    <3>1. Width(u[1]) = 4 /\ \A i \in 2 .. 4 : IsContinuation(u[i])
      BY <2>4 DEF Width, IsContinuation
    <3> QED
      BY <2>3, <3>1 DEF Whole
  <2>6. Value(u, 4) = cp
    BY <2>1, <2>4, <2>5, WholeValue
  <2>7. cp >= Shortest(4)
    BY <1>4 DEF Shortest
  <2> QED
    BY <2>5, <2>6, <2>7 DEF u
<1> QED
  BY <1>1, <1>2, <1>3, <1>4

LEMMA EncodedBack ==
    ASSUME NEW cp \in Nat, IsValidCodePoint(cp), NEW r \in Seq(AnyByte)
    PROVE  /\ EncodeChar(cp) \in Seq(AnyByte) /\ EncodeChar(cp) # << >>
           /\ DecodeChar(EncodeChar(cp) \o r)
              = [status |-> "OK", cp |-> cp, used |-> Len(EncodeChar(cp))]
<1> DEFINE u == EncodeChar(cp)
           s == u \o r
<1>1. cp <= MaxCodePoint /\ ~IsSurrogate(cp)
  BY DEF IsValidCodePoint
<1>2. PICK w \in 1 .. 4 : /\ Whole(u, w) /\ Value(u, w) = cp
                          /\ w > 1 => cp >= Shortest(w)
  BY <1>1, EncodedWhole
<1>3. w > 1 => SecondByteOK(u[1], u[2])
  <2> SUFFICES ASSUME w > 1 PROVE SecondByteOK(u[1], u[2])
    OBVIOUS
  <2>1. w \in 2 .. 4
    BY <1>2
  <2> HIDE DEF u
  <2> QED
    BY <1>1, <1>2, <2>1, TestsAgree
<1> HIDE DEF u
<1>4. u \in Seq(AnyByte) /\ Len(u) = w /\ Width(u[1]) = w /\ \A i \in 2 .. w : IsContinuation(u[i])
  BY <1>2 DEF Whole
<1>5. /\ s \in Seq(AnyByte) /\ Len(s) = w + Len(r) /\ Len(r) \in Nat
      /\ \A i \in 1 .. w : s[i] = u[i]
  BY <1>4
<1> HIDE DEF s
<1>6. Value(s, w) = Value(u, w)
  BY <1>2, <1>5, ValueOfPrefix
<1>7. s # << >> /\ ~(Len(s) < w) /\ s[1] = u[1] /\ (w > 1 => s[2] = u[2])
      /\ \A i \in 2 .. w : s[i] = u[i]
  BY <1>5
<1>8. Width(s[1]) = w /\ w # 0 /\ (w > 1 => SecondByteOK(s[1], s[2]))
      /\ \A i \in 2 .. w : IsContinuation(s[i])
  BY <1>3, <1>4, <1>7
<1>9. DecodeChar(s) = [status |-> "OK", cp |-> cp, used |-> w]
  BY <1>1, <1>2, <1>6, <1>7, <1>8 DEF DecodeChar
<1>10. u # << >>
  BY <1>4
<1> QED
  BY <1>4, <1>9, <1>10 DEF u, s

(* The same of words, in either byte order.                                 *)
LEMMA WordRange == \A w : w \in AnyWord <=> w \in Nat /\ w <= 65535
<1>1. MaxWord = 65535
  BY DEF MaxWord
<1>2. \A w : w \in AnyWord <=> w \in Nat /\ w <= MaxWord
  BY SMT DEF AnyWord
<1> QED
  BY <1>1, <1>2

LEMMA OrderedTwice ==
    ASSUME NEW f, NEW w \in AnyWord
    PROVE  Ordered(w, f) \in AnyWord /\ Ordered(Ordered(w, f), f) = w
<1>1. w \in Nat /\ w <= 65535
  BY WordRange
<1> DEFINE h == w \div 256
           l == w % 256
           v == l * 256 + h
<1>2. h \in 0 .. 255 /\ l \in 0 .. 255 /\ w = h * 256 + l
  BY <1>1, SMT
<1> HIDE DEF h, l
<1>3. v \in Nat /\ v <= 65535 /\ v % 256 = h /\ v \div 256 = l
  BY <1>2, SMT
<1>4. CASE "BIG_ENDIAN" \in f
  <2>1. \A x : Ordered(x, f) = (x % 256) * 256 + (x \div 256)
    BY <1>4 DEF Ordered
  <2>2. Ordered(w, f) = v
    BY <2>1 DEF h, l
  <2> HIDE DEF v
  <2>3. Ordered(v, f) = h * 256 + l
    BY <1>3, <2>1
  <2>4. v \in AnyWord
    BY <1>3, WordRange
  <2> QED
    BY <1>2, <2>2, <2>3, <2>4
<1>5. CASE "BIG_ENDIAN" \notin f
  BY <1>5 DEF Ordered
<1> QED
  BY <1>4, <1>5

(* A pair of surrogates, and the code point it stands for.                  *)
LEMMA HighRange == \A w \in Nat : IsHighSurrogate(w) <=> w >= 55296 /\ w <= 56319
  BY SMT DEF IsHighSurrogate

LEMMA LowRange == \A w \in Nat : IsLowSurrogate(w) <=> w >= 56320 /\ w <= 57343
  BY SMT DEF IsLowSurrogate

LEMMA PairValue ==
    ASSUME NEW w1 \in Nat, w1 >= 55296, w1 <= 56319, NEW w2 \in Nat, w2 >= 56320, w2 <= 57343,
           NEW cp, cp = 65536 + (w1 % 1024) * 1024 + (w2 % 1024)
    PROVE  /\ cp \in Nat /\ cp >= 65536 /\ cp <= 1114111
           /\ w1 = 55296 + ((cp - 65536) \div 1024)
           /\ w2 = 56320 + ((cp - 65536) % 1024)
<1> DEFINE a == w1 - 55296
           b == w2 - 56320
           v == a * 1024 + b
<1>1. a \in 0 .. 1023 /\ w1 % 1024 = a /\ w1 = 55296 + a
  BY SMT
<1>2. b \in 0 .. 1023 /\ w2 % 1024 = b /\ w2 = 56320 + b
  BY SMT
<1> HIDE DEF a, b
<1>3. v \in Nat /\ v <= 1048575 /\ v \div 1024 = a /\ v % 1024 = b
  BY <1>1, <1>2, SMT
<1>4. cp = 65536 + v
  BY <1>1, <1>2, <1>3, SMT
<1> HIDE DEF v
<1>5. cp - 65536 = v /\ cp \in Nat /\ cp >= 65536 /\ cp <= 1114111
  BY <1>3, <1>4, SMT
<1> QED
  BY ONLY <1>1, <1>2, <1>3, <1>5

LEMMA ValuePair ==
    ASSUME NEW cp \in Nat, cp >= 65536, cp <= 1114111,
           NEW w1, w1 = 55296 + ((cp - 65536) \div 1024),
           NEW w2, w2 = 56320 + ((cp - 65536) % 1024)
    PROVE  /\ w1 \in Nat /\ w1 >= 55296 /\ w1 <= 56319
           /\ w2 \in Nat /\ w2 >= 56320 /\ w2 <= 57343
           /\ cp = 65536 + (w1 % 1024) * 1024 + (w2 % 1024)
<1> DEFINE v == cp - 65536
           a == v \div 1024
           b == v % 1024
<1>1. v \in Nat /\ v <= 1048575 /\ cp = 65536 + v
  BY SMT
<1>2. w1 = 55296 + a /\ w2 = 56320 + b
  OBVIOUS
<1> HIDE DEF v
<1>3. a \in 0 .. 1023 /\ b \in 0 .. 1023 /\ v = a * 1024 + b
  BY <1>1, SMT
<1> HIDE DEF a, b
<1>4. /\ w1 \in Nat /\ w1 >= 55296 /\ w1 <= 56319 /\ w1 % 1024 = a
      /\ w2 \in Nat /\ w2 >= 56320 /\ w2 <= 57343 /\ w2 % 1024 = b
  BY ONLY <1>2, <1>3, SMT
<1> QED
  BY ONLY <1>1, <1>3, <1>4, SMT

LEMMA WordPairs ==
    ASSUME NEW a \in AnyWord, NEW b \in AnyWord, NEW r \in Seq(AnyWord)
    PROVE  /\ <<a>> \in Seq(AnyWord) /\ <<a, b>> \in Seq(AnyWord)
           /\ <<a>> \o r # << >> /\ (<<a>> \o r)[1] = a /\ Len(<<a>>) = 1
           /\ <<a, b>> \o r # << >> /\ (<<a, b>> \o r)[1] = a /\ (<<a, b>> \o r)[2] = b
           /\ ~(Len(<<a, b>> \o r) < 2) /\ Len(<<a, b>>) = 2
  OBVIOUS

LEMMA WordsBack ==
    ASSUME NEW f, NEW cp \in Nat, IsValidCodePoint(cp), NEW r \in Seq(AnyWord)
    PROVE  /\ Words(cp, f) \in Seq(AnyWord) /\ Words(cp, f) # << >>
           /\ DecodeWords(Words(cp, f) \o r, f).status = "OK"
           /\ DecodeWords(Words(cp, f) \o r, f).cp = cp
           /\ DecodeWords(Words(cp, f) \o r, f).used = Len(Words(cp, f))
<1>0. cp <= 1114111 /\ ~(cp >= 55296 /\ cp <= 57343)
  BY DEF IsValidCodePoint, MaxCodePoint, IsSurrogate
<1>1. CASE cp <= 65535
  <2> DEFINE w == Ordered(cp, f)
  <2>1. cp \in AnyWord
    BY <1>1, WordRange
  <2>2. w \in AnyWord /\ Ordered(w, f) = cp
    BY <2>1, OrderedTwice
  <2>3. Words(cp, f) = <<w>>
    BY <1>1 DEF Words
  <2> HIDE DEF w
  <2> DEFINE s == <<w>> \o r
  <2>4. <<w>> \in Seq(AnyWord) /\ s[1] = w /\ Len(<<w>>) = 1 /\ <<w>> # << >>
    BY <2>2, WordPairs
  <2> HIDE DEF s
  <2>5. ~IsLowSurrogate(cp) /\ ~IsHighSurrogate(cp)
    BY <1>0, HighRange, LowRange
  <2>6. DecodeWords(s, f) = [status |-> "OK", cp |-> cp, used |-> 1]
    BY <2>2, <2>4, <2>5 DEF DecodeWords
  <2> QED
    BY <2>3, <2>4, <2>6 DEF s
<1>2. CASE cp > 65535
  <2> DEFINE v == cp - 65536
             h == 55296 + (v \div 1024)
             l == 56320 + (v % 1024)
             x == Ordered(h, f)
             y == Ordered(l, f)
  <2>1. cp >= 65536
    BY <1>2
  <2>2. h = 55296 + ((cp - 65536) \div 1024) /\ l = 56320 + ((cp - 65536) % 1024)
    OBVIOUS
  <2>3. Words(cp, f) = <<x, y>>
    BY <1>2 DEF Words
  <2> HIDE DEF v, h, l
  <2>4. /\ h \in Nat /\ h >= 55296 /\ h <= 56319
         /\ l \in Nat /\ l >= 56320 /\ l <= 57343
         /\ cp = 65536 + (h % 1024) * 1024 + (l % 1024)
    BY ONLY <1>0, <2>1, <2>2, ValuePair
  <2>5. h \in AnyWord /\ l \in AnyWord
    BY <2>4, WordRange
  <2>6. x \in AnyWord /\ y \in AnyWord /\ Ordered(x, f) = h /\ Ordered(y, f) = l
    BY <2>5, OrderedTwice
  <2> HIDE DEF x, y
  <2> DEFINE s == <<x, y>> \o r
  <2>7. /\ <<x, y>> \in Seq(AnyWord) /\ s[1] = x /\ s[2] = y /\ Len(<<x, y>>) = 2 /\ ~(Len(s) < 2)
        /\ <<x, y>> # << >>
    BY <2>6, WordPairs
  <2> HIDE DEF s
  <2>8. IsHighSurrogate(h) /\ ~IsLowSurrogate(h) /\ IsLowSurrogate(l)
    BY <2>4, HighRange, LowRange
  <2>9. DecodeWords(s, f) = [status |-> "OK", used |-> 2,
                             cp |-> 65536 + (h % 1024) * 1024 + (l % 1024)]
    BY <2>6, <2>7, <2>8, SMT DEF DecodeWords
  <2>10. DecodeWords(s, f) = [status |-> "OK", used |-> 2, cp |-> cp]
    BY <2>4, <2>9
  <2> QED
    BY <2>3, <2>7, <2>10 DEF s
<1> QED
  BY <1>1, <1>2

LEMMA FirstWords ==
    ASSUME NEW s \in Seq(AnyWord)
    PROVE  /\ Len(s) >= 1 => SubSeq(s, 1, 1) = <<s[1]>>
           /\ Len(s) >= 2 => SubSeq(s, 1, 2) = <<s[1], s[2]>>
<1>1. ASSUME Len(s) >= 1
      PROVE  SubSeq(s, 1, 1) = <<s[1]>>
  <2>1. /\ SubSeq(s, 1, 1) \in Seq(AnyWord) /\ Len(SubSeq(s, 1, 1)) = 1
        /\ SubSeq(s, 1, 1)[1] = s[1]
    BY <1>1
  <2>2. s[1] \in AnyWord
    BY <1>1
  <2>3. <<s[1]>> \in Seq(AnyWord) /\ Len(<<s[1]>>) = 1 /\ <<s[1]>>[1] = s[1]
    BY <2>2
  <2> DEFINE u == SubSeq(s, 1, 1)
             v == <<s[1]>>
  <2> HIDE DEF u, v
  <2>4. \A i \in 1 .. Len(u) : u[i] = v[i]
    BY <2>1, <2>3 DEF u, v
  <2>5. u = v
    BY <2>1, <2>3, <2>4, SeqEqual DEF u, v
  <2> QED
    BY <2>5 DEF u, v
<1>2. ASSUME Len(s) >= 2
      PROVE  SubSeq(s, 1, 2) = <<s[1], s[2]>>
  <2>1. /\ SubSeq(s, 1, 2) \in Seq(AnyWord) /\ Len(SubSeq(s, 1, 2)) = 2
        /\ SubSeq(s, 1, 2)[1] = s[1] /\ SubSeq(s, 1, 2)[2] = s[2]
    BY <1>2
  <2>2. s[1] \in AnyWord /\ s[2] \in AnyWord
    BY <1>2
  <2>3. /\ <<s[1], s[2]>> \in Seq(AnyWord) /\ Len(<<s[1], s[2]>>) = 2
        /\ <<s[1], s[2]>>[1] = s[1] /\ <<s[1], s[2]>>[2] = s[2]
    BY <2>2
  <2> DEFINE u == SubSeq(s, 1, 2)
             v == <<s[1], s[2]>>
  <2> HIDE DEF u, v
  <2>4. \A i \in 1 .. Len(u) : u[i] = v[i]
    BY <2>1, <2>3 DEF u, v
  <2>5. u = v
    BY <2>1, <2>3, <2>4, SeqEqual DEF u, v
  <2> QED
    BY <2>5 DEF u, v
<1> QED
  BY <1>1, <1>2

LEMMA DecodedWordsBack ==
    ASSUME NEW f, NEW s \in Seq(AnyWord), s # << >>, DecodeWords(s, f).status = "OK"
    PROVE  LET char == DecodeWords(s, f)
           IN  /\ Words(char.cp, f) = SubSeq(s, 1, char.used)
               /\ char.used \in 1 .. Len(s)
               /\ char.cp \in Nat /\ IsValidCodePoint(char.cp)
<1> DEFINE w1 == Ordered(s[1], f)
           w2 == Ordered(s[2], f)
<1>1. Len(s) \in Nat /\ Len(s) >= 1 /\ s[1] \in AnyWord
  OBVIOUS
<1>2. w1 \in AnyWord /\ Ordered(w1, f) = s[1]
  BY <1>1, OrderedTwice
<1>3. ~IsLowSurrogate(w1)
  BY DEF DecodeWords, Fail
<1>4. CASE ~IsHighSurrogate(w1)
  <2>1. DecodeWords(s, f) = [status |-> "OK", cp |-> w1, used |-> 1]
    BY <1>3, <1>4 DEF DecodeWords
  <2>2. w1 \in Nat /\ w1 <= 65535 /\ IsValidCodePoint(w1)
    <3> HIDE DEF w1
    <3>1. w1 \in Nat /\ w1 <= 65535
      BY <1>2, WordRange
    <3>2. ~(w1 >= 55296 /\ w1 <= 57343)
      BY <1>3, <1>4, <3>1, HighRange, LowRange
    <3> QED
      BY <3>1, <3>2 DEF IsValidCodePoint, MaxCodePoint, IsSurrogate
  <2>4. SubSeq(s, 1, 1) = <<s[1]>>
    BY <1>1, FirstWords
  <2> HIDE DEF w1
  <2>3. Words(w1, f) = <<s[1]>>
    BY <1>2, <2>2, SMT DEF Words
  <2> QED
    BY <1>1, <2>1, <2>2, <2>3, <2>4
<1>5. CASE IsHighSurrogate(w1)
  <2>1. ~(Len(s) < 2)
    BY <1>3, <1>5 DEF DecodeWords, Fail
  <2>2. IsLowSurrogate(w2)
    BY <1>3, <1>5, <2>1 DEF DecodeWords, Fail
  <2> DEFINE cp == 65536 + (w1 % 1024) * 1024 + (w2 % 1024)
  <2>3. DecodeWords(s, f) = [status |-> "OK", used |-> 2, cp |-> cp]
    BY <1>3, <1>5, <2>1, <2>2, SMT DEF DecodeWords
  <2>4. s[2] \in AnyWord
    BY <1>1, <2>1
  <2>5. w2 \in AnyWord /\ Ordered(w2, f) = s[2]
    BY <2>4, OrderedTwice
  <2> HIDE DEF w1, w2
  <2>6. /\ w1 \in Nat /\ w1 >= 55296 /\ w1 <= 56319
        /\ w2 \in Nat /\ w2 >= 56320 /\ w2 <= 57343
    BY <1>2, <1>5, <2>2, <2>5, HighRange, LowRange, WordRange
  <2>7. /\ cp \in Nat /\ cp >= 65536 /\ cp <= 1114111
        /\ w1 = 55296 + ((cp - 65536) \div 1024)
        /\ w2 = 56320 + ((cp - 65536) % 1024)
    BY <2>6, PairValue
  <2> HIDE DEF cp
  <2>8. cp \in Nat /\ IsValidCodePoint(cp) /\ ~(cp <= 65535)
    BY <2>7 DEF IsValidCodePoint, MaxCodePoint, IsSurrogate
  <2>9. Words(cp, f) = <<Ordered(w1, f), Ordered(w2, f)>>
    BY <2>7, <2>8, SMT DEF Words
  <2>10. SubSeq(s, 1, 2) = <<s[1], s[2]>>
    BY <1>1, <2>1, FirstWords
  <2>11. 2 \in 1 .. Len(s)
    BY <1>1, <2>1
  <2> QED
    BY <1>2, <2>3, <2>5, <2>8, <2>9, <2>10, <2>11
<1> QED
  BY <1>4, <1>5

-----------------------------------------------------------------------------
(* A whole text there and back.  What is left of a text from p on.          *)
From(t, p) == SubSeq(t, p + 1, Len(t))

LEMMA FromSize ==
    ASSUME NEW S, NEW t \in Seq(S), NEW p \in 0 .. Len(t)
    PROVE  /\ From(t, p) \in Seq(S) /\ Len(From(t, p)) = Len(t) - p
           /\ \A i \in 1 .. Len(t) - p : From(t, p)[i] = t[p + i]
<1>1. Len(t) \in Nat /\ p \in Nat /\ p <= Len(t)
  OBVIOUS
<1>2. p + 1 \in Int /\ Len(t) \in Int /\ \A i \in p + 1 .. Len(t) : t[i] \in S
  BY <1>1
<1> DEFINE s == From(t, p)
           m == p + 1
           n == Len(t)
<1>3. s = SubSeq(t, m, n)
  BY DEF From
<1> HIDE DEF s, m, n
<1>4. m \in Int /\ n \in Int /\ \A i \in m .. n : t[i] \in S
  BY <1>2 DEF m, n
<1>5. /\ s \in Seq(S) /\ Len(s) = (IF m <= n THEN n - m + 1 ELSE 0)
      /\ \A i \in 1 .. n - m + 1 : s[i] = t[m + i - 1]
  BY <1>3, <1>4, SubSeqProperties
<1>6. n - m + 1 = Len(t) - p /\ (m <= n <=> p < Len(t))
  BY <1>1 DEF m, n
<1>7. Len(s) = Len(t) - p
  BY <1>1, <1>5, <1>6
<1>8. ASSUME NEW i \in 1 .. Len(t) - p
      PROVE  s[i] = t[p + i]
  <2>1. m + i - 1 = p + i
    BY <1>1 DEF m
  <2> QED
    BY <1>5, <1>6, <2>1
<1> QED
  BY <1>5, <1>7, <1>8 DEF s

LEMMA FromLater ==
    ASSUME NEW S, NEW t \in Seq(S), NEW p \in 0 .. Len(t), NEW n \in Nat, p + n \in 0 .. Len(t)
    PROVE  SubSeq(t, p + 1, p + n) \o From(t, p + n) = From(t, p)
<1>1. /\ p + 1 \in 1 .. Len(t) + 1 /\ p + n \in (p + 1) - 1 .. Len(t)
      /\ Len(t) \in p + n .. Len(t)
  OBVIOUS
<1> QED
  BY <1>1, ConcatAdjacentSubSeq DEF From

LEMMA FromConcat ==
    ASSUME NEW S, NEW y \in Seq(S), NEW n \in 0 .. Len(y)
    PROVE  \A u, r \in Seq(S) :
               From(y, n) = u \o r => n + Len(u) <= Len(y) /\ From(y, n + Len(u)) = r
<1> SUFFICES ASSUME NEW u \in Seq(S), NEW r \in Seq(S), From(y, n) = u \o r
             PROVE  n + Len(u) <= Len(y) /\ From(y, n + Len(u)) = r
  OBVIOUS
<1> DEFINE s == From(y, n)
           k == Len(u)
           v == From(y, n + k)
<1>1. /\ s \in Seq(S) /\ Len(s) = Len(y) - n
      /\ \A i \in 1 .. Len(y) - n : s[i] = y[n + i]
  BY FromSize
<1> HIDE DEF s
<1>2. /\ Len(s) = k + Len(r)
      /\ \A i \in 1 .. k + Len(r) : s[i] = IF i <= k THEN u[i] ELSE r[i - k]
  BY ConcatProperties DEF s
<1>3. k \in Nat /\ Len(r) \in Nat /\ Len(y) \in Nat /\ n \in Nat
  OBVIOUS
<1> HIDE DEF k
<1>4. n + k \in n .. Len(y) /\ Len(y) - (n + k) = Len(r)
  BY <1>1, <1>2, <1>3
<1>5. n + k \in 0 .. Len(y)
  BY <1>3, <1>4
<1>6. /\ v \in Seq(S) /\ Len(v) = Len(y) - (n + k)
      /\ \A i \in 1 .. Len(y) - (n + k) : v[i] = y[(n + k) + i]
  BY <1>5, FromSize
<1> HIDE DEF v
<1>7. ASSUME NEW i \in 1 .. Len(r)
      PROVE  v[i] = r[i]
  <2>1. k + i \in 1 .. Len(y) - n /\ ~(k + i <= k) /\ (k + i) - k = i
        /\ n + (k + i) = (n + k) + i /\ k + i \in 1 .. k + Len(r)
    BY <1>1, <1>2, <1>3
  <2>2. v[i] = y[n + (k + i)]
    BY <1>4, <1>6, <2>1
  <2>3. s[k + i] = y[n + (k + i)]
    BY <1>1, <2>1
  <2>4. s[k + i] = r[(k + i) - k]
    BY <1>2, <2>1
  <2> QED
    BY <2>1, <2>2, <2>3, <2>4
<1>8. Len(v) = Len(r)
  BY <1>4, <1>6
<1>9. v = r
  BY <1>6, <1>7, <1>8, SeqEqual
<1> QED
  BY <1>4, <1>9 DEF v, k

(* If every character is read back as what it was made of, so is the text.  *)
LEMMA BackAgain ==
    ASSUME NEW c, NEW b, NEW t \in Seq(UnitsOf(c)), NEW y \in Seq(UnitsOf(b)),
           \A p \in 0 .. Len(t), w \in BOOLEAN :
               p # Len(t) /\ At(c, t, p, w).status = "OK" =>
                   LET chunk == At(c, t, p, w)
                   IN  /\ chunk.units \in Seq(UnitsOf(b)) /\ chunk.units # << >>
                       /\ \A v \in BOOLEAN, r \in Seq(UnitsOf(b)) :
                              r \in Rest(c, t)[p + chunk.used][WordStarts(w, chunk.units)] =>
                                  Chunk(b, chunk.units \o r, v)
                                  = Done(Len(chunk.units), SubSeq(t, p + 1, p + chunk.used))
    PROVE  \A p \in 0 .. Len(t), n \in 0 .. Len(y), w \in BOOLEAN, v \in BOOLEAN :
               From(y, n) \in Rest(c, t)[p][w] => Rest(b, y)[n][v] = {From(t, p)}
<1> DEFINE e == Len(t)
           g == Rest(c, t)
           h == Rest(b, y)
           Good(p) == \A n \in 0 .. Len(y), w \in BOOLEAN, v \in BOOLEAN :
                          From(y, n) \in g[p][w] => h[n][v] = {From(t, p)}
           G == {p \in 0 .. e : Good(p)}
<1>0. e \in Nat /\ Len(y) \in Nat
  OBVIOUS
<1>1. \A n \in 0 .. Len(y) : \A a, z \in Seq(UnitsOf(b)) :
         From(y, n) = a \o z => n + Len(a) <= Len(y) /\ From(y, n + Len(a)) = z
  BY FromConcat
<1>2. ASSUME NEW p \in 0 .. e, \A q \in p + 1 .. e : Good(q)
      PROVE  Good(p)
  <2> SUFFICES ASSUME NEW n \in 0 .. Len(y), NEW w \in BOOLEAN, NEW v \in BOOLEAN,
                      From(y, n) \in g[p][w]
               PROVE  h[n][v] = {From(t, p)}
    OBVIOUS
  <2>1. g[p][w] = RestAt(g, c, t, p, w)
    BY RestEquation
  <2>2. h[n][v] = RestAt(h, b, y, n, v)
    BY RestEquation
  <2>3. From(y, n) \in Seq(UnitsOf(b)) /\ Len(From(y, n)) = Len(y) - n
    BY FromSize
  <2> HIDE DEF g, h
  <2>4. CASE p = e
    <3>1. From(y, n) = << >>
      BY <2>1, <2>4 DEF RestAt
    <3>2. n = Len(y)
      BY <1>0, <2>3, <3>1
    <3>3. h[n][v] = {<< >>}
      BY <2>2, <3>2 DEF RestAt
    <3>4. From(t, p) = << >>
      <4>1. From(t, p) \in Seq(UnitsOf(c)) /\ Len(From(t, p)) = 0
        BY <1>0, <2>4, FromSize
      <4> QED
        BY <4>1, EmptySeq
    <3> QED
      BY <3>3, <3>4
  <2>5. CASE p # e /\ At(c, t, p, w).status # "OK"
    BY <2>1, <2>5 DEF RestAt
  <2>6. CASE p # e /\ At(c, t, p, w).status = "OK"
    <3> DEFINE used == At(c, t, p, w).used
               units == At(c, t, p, w).units
               x == SubSeq(t, p + 1, p + used)
               q == p + used
               m == n + Len(units)
               v1 == WordStarts(v, x)
               w1 == WordStarts(w, units)
    <3>1. q \in p + 1 .. e /\ used \in Nat
      BY <2>6, AtSize
    <3>2. v1 \in BOOLEAN /\ w1 \in BOOLEAN
      BY WordStartsBoolean
    <3>3. g[p][w] = {units \o r : r \in g[q][w1]}
      BY <2>1, <2>6, Zenon DEF RestAt
    <3>4. units \in Seq(UnitsOf(b)) /\ units # << >>
      BY <2>6
    <3>5. \A r \in Seq(UnitsOf(b)) : r \in g[q][w1] => Chunk(b, units \o r, v) = Done(Len(units), x)
      BY <2>6 DEF g
    <3>6. From(t, p) = x \o From(t, q)
      <4>1. q \in 0 .. Len(t)
        BY <1>0, <3>1
      <4> QED
        BY <3>1, <4>1, FromLater
    <3> HIDE DEF used, units, x, v1, w1, q
    <3>7. PICK r \in g[q][w1] : From(y, n) = units \o r
      BY <3>3
    <3>8. r \in Seq(UnitsOf(b))
      <4>1. g[q][w1] \subseteq Seq(UnitsOf(b))
        <5>1. q \in 0 .. Len(t)
          BY <1>0, <3>1
        <5>2. \A i \in 0 .. Len(t), z \in BOOLEAN :
                 i # Len(t) /\ At(c, t, i, z).status = "OK" => At(c, t, i, z).units \in Seq(UnitsOf(b))
          OBVIOUS
        <5>3. \A i \in 0 .. Len(t), z \in BOOLEAN : Rest(c, t)[i][z] \subseteq Seq(UnitsOf(b))
          BY <5>2, RestOver
        <5> QED
          BY <3>2, <5>1, <5>3 DEF g
      <4> QED
        BY <3>7, <4>1
    <3>9. m <= Len(y) /\ From(y, m) = r
      BY <1>1, <3>4, <3>7, <3>8, Zenon
    <3>10. Len(units) >= 1 /\ Len(units) \in Nat
      BY <3>4
    <3>11. m \in 0 .. Len(y) /\ n # Len(y)
      BY <1>0, <3>9, <3>10
    <3>12. At(b, y, n, v) = Done(Len(units), x)
      BY <3>5, <3>7, <3>8, AtChunk DEF From
    <3>13. h[n][v] = {x \o s : s \in h[m][v1]}
      <4>1. /\ At(b, y, n, v).status = "OK" /\ At(b, y, n, v).used = Len(units)
            /\ At(b, y, n, v).units = x
        BY <3>12 DEF Done
      <4> QED
        BY <2>2, <3>11, <4>1, Zenon DEF RestAt, v1
    <3>14. h[m][v1] = {From(t, q)}
      <4>1. Good(q)
        BY <1>2, <3>1
      <4> QED
        BY <3>2, <3>7, <3>9, <3>11, <4>1
    <3> QED
      BY <3>6, <3>13, <3>14
  <2> QED
    BY <2>4, <2>5, <2>6
<1> HIDE DEF g, h, Good
<1>3. \A p \in 0 .. e : p \in G
  <2>1. \A p \in 0 .. e : (\A q \in p + 1 .. e : q \in G) => p \in G
    BY <1>0, <1>2
  <2> HIDE DEF G
  <2> QED
    BY <1>0, <2>1, FromTheEnd
<1> QED
  BY <1>3 DEF Good, g, h

(* The characters of the encodings.                                         *)
LEMMA CharacterBack ==
    ASSUME NEW c \in UnicodeConversions, NEW s \in Seq(UnitsOf(c)), s # << >>, NEW w,
           Chunk(c, s, w).status = "OK"
    PROVE  LET chunk == Chunk(c, s, w)
               b == WayBack[c]
           IN  /\ chunk.units \in Seq(UnitsOf(b)) /\ chunk.units # << >>
               /\ \A r \in Seq(UnitsOf(b)), v \in BOOLEAN :
                      Chunk(b, chunk.units \o r, v)
                      = Done(Len(chunk.units), SubSeq(s, 1, chunk.used))
<1>1. CASE c = "UTF8_ToUTF16"
  <2> DEFINE char == DecodeChar(s)
             units == Words(char.cp, flags)
  <2>1. /\ WayBack[c] = "UTF16_ToUTF8" /\ UnitsOf("UTF16_ToUTF8") = AnyWord
        /\ s \in Seq(AnyByte) /\ Chunk(c, s, w) = ToWords(s, flags)
    BY <1>1 DEF WayBack, UnitsOf, Chunk
  <2>2. char.status = "OK"
    BY <2>1 DEF ToWords, Failed
  <2>3. Chunk(c, s, w) = Done(char.used, units)
    BY <2>1, <2>2, Zenon DEF ToWords
  <2>4. /\ EncodeChar(char.cp) = SubSeq(s, 1, char.used)
        /\ char.cp \in Nat /\ IsValidCodePoint(char.cp)
    BY <2>1, <2>2, DecodedBack
  <2>5. units \in Seq(AnyWord) /\ units # << >>
    <3>1. << >> \in Seq(AnyWord)
      OBVIOUS
    <3> HIDE DEF char
    <3> QED
      BY <2>4, <3>1, WordsBack, Zenon
  <2>6. ASSUME NEW r \in Seq(AnyWord), NEW v \in BOOLEAN
        PROVE  Chunk("UTF16_ToUTF8", units \o r, v) = Done(Len(units), SubSeq(s, 1, char.used))
    <3> DEFINE back == DecodeWords(units \o r, flags)
    <3>1. Chunk("UTF16_ToUTF8", units \o r, v) = FromWords(units \o r, flags)
      BY DEF Chunk
    <3>2. back.status = "OK" /\ back.cp = char.cp /\ back.used = Len(units)
      BY <2>4, WordsBack, Zenon
    <3>3. FromWords(units \o r, flags) = Done(back.used, EncodeChar(back.cp))
      BY <3>2, Zenon DEF FromWords
    <3> QED
      BY <2>4, <3>1, <3>2, <3>3, Zenon
  <2> HIDE DEF char, units
  <2>7. Chunk(c, s, w).units = units /\ Chunk(c, s, w).used = char.used
    BY <2>3 DEF Done
  <2> QED
    BY <2>1, <2>5, <2>6, <2>7, Zenon
<1>2. CASE c = "UTF16_ToUTF8"
  <2> DEFINE char == DecodeWords(s, flags)
             units == EncodeChar(char.cp)
  <2>1. /\ WayBack[c] = "UTF8_ToUTF16" /\ UnitsOf("UTF8_ToUTF16") = AnyByte
        /\ s \in Seq(AnyWord) /\ Chunk(c, s, w) = FromWords(s, flags)
    BY <1>2 DEF WayBack, UnitsOf, Chunk
  <2>2. char.status = "OK"
    BY <2>1 DEF FromWords, Failed
  <2>3. Chunk(c, s, w) = Done(char.used, units)
    BY <2>1, <2>2, Zenon DEF FromWords
  <2>4. /\ Words(char.cp, flags) = SubSeq(s, 1, char.used)
        /\ char.cp \in Nat /\ IsValidCodePoint(char.cp)
    BY <2>1, <2>2, DecodedWordsBack
  <2>5. /\ units \in Seq(AnyByte) /\ units # << >>
        /\ \A r \in Seq(AnyByte) :
               DecodeChar(units \o r) = [status |-> "OK", cp |-> char.cp, used |-> Len(units)]
    <3>1. << >> \in Seq(AnyByte)
      OBVIOUS
    <3> HIDE DEF char
    <3> QED
      BY <2>4, <3>1, EncodedBack, Zenon
  <2> HIDE DEF units
  <2>6. ASSUME NEW r \in Seq(AnyByte), NEW v \in BOOLEAN
        PROVE  Chunk("UTF8_ToUTF16", units \o r, v) = Done(Len(units), SubSeq(s, 1, char.used))
    <3> DEFINE back == DecodeChar(units \o r)
    <3> HIDE DEF char
    <3>1. Chunk("UTF8_ToUTF16", units \o r, v) = ToWords(units \o r, flags)
      BY DEF Chunk
    <3>2. back.status = "OK" /\ back.cp = char.cp /\ back.used = Len(units)
      BY <2>5
    <3>3. ToWords(units \o r, flags) = Done(back.used, Words(back.cp, flags))
      BY <3>2, Zenon DEF ToWords
    <3> QED
      BY <2>4, <3>1, <3>2, <3>3, Zenon
  <2> HIDE DEF char
  <2>7. Chunk(c, s, w).units = units /\ Chunk(c, s, w).used = char.used
    BY <2>3 DEF Done
  <2> QED
    BY <2>1, <2>5, <2>6, <2>7, Zenon
<1>3. CASE c = "UTF8_ToUTF32"
  <2> DEFINE char == DecodeChar(s)
             units == <<char.cp>>
  <2>1. /\ WayBack[c] = "UTF32_ToUTF8" /\ UnitsOf("UTF32_ToUTF8") = Nat
        /\ s \in Seq(AnyByte) /\ Chunk(c, s, w) = ToCode(s)
    BY <1>3 DEF WayBack, UnitsOf, Chunk
  <2>2. char.status = "OK"
    BY <2>1 DEF ToCode, Failed
  <2>3. Chunk(c, s, w) = Done(char.used, units)
    BY <2>1, <2>2, Zenon DEF ToCode
  <2>4. /\ EncodeChar(char.cp) = SubSeq(s, 1, char.used)
        /\ char.cp \in Nat /\ IsValidCodePoint(char.cp)
    BY <2>1, <2>2, DecodedBack
  <2> HIDE DEF char
  <2>5. units \in Seq(Nat) /\ units # << >> /\ Len(units) = 1
    BY <2>4
  <2>6. ASSUME NEW r \in Seq(Nat), NEW v \in BOOLEAN
        PROVE  Chunk("UTF32_ToUTF8", units \o r, v) = Done(Len(units), SubSeq(s, 1, char.used))
    <3>1. Chunk("UTF32_ToUTF8", units \o r, v) = FromCode(units \o r)
      BY DEF Chunk
    <3>2. (units \o r)[1] = char.cp
      BY <2>4
    <3>3. FromCode(units \o r) = Done(1, EncodeChar(char.cp))
      BY <2>4, <3>2, Zenon DEF FromCode
    <3> QED
      BY <2>4, <2>5, <3>1, <3>3, Zenon
  <2> HIDE DEF units
  <2>7. Chunk(c, s, w).units = units /\ Chunk(c, s, w).used = char.used
    BY <2>3 DEF Done
  <2> QED
    BY <2>1, <2>5, <2>6, <2>7, Zenon
<1>4. CASE c = "UTF32_ToUTF8"
  <2> DEFINE cp == s[1]
             units == EncodeChar(cp)
  <2>1. /\ WayBack[c] = "UTF8_ToUTF32" /\ UnitsOf("UTF8_ToUTF32") = AnyByte
        /\ s \in Seq(Nat) /\ Chunk(c, s, w) = FromCode(s)
    BY <1>4 DEF WayBack, UnitsOf, Chunk
  <2>2. IsValidCodePoint(cp) /\ cp \in Nat
    BY <2>1 DEF FromCode, Failed
  <2>3. Chunk(c, s, w) = Done(1, units)
    BY <2>1, <2>2, Zenon DEF FromCode
  <2>4. SubSeq(s, 1, 1) = <<cp>>
    <3>1. 1 \in 1 .. Len(s)
      BY <2>1
    <3>2. SubSeq(s, 1, 1) = <<s[1]>> \o SubSeq(s, 2, 1)
      BY <2>1, <3>1, SubSeqRecursiveFirst
    <3>3. SubSeq(s, 2, 1) = << >>
      BY SubSeqEmpty
    <3>4. <<s[1]>> \in Seq(Nat)
      BY <2>2
    <3> HIDE DEF cp
    <3> QED
      BY <3>2, <3>3, <3>4, ConcatEmptySeq DEF cp
  <2>5. /\ units \in Seq(AnyByte) /\ units # << >>
        /\ \A r \in Seq(AnyByte) :
               DecodeChar(units \o r) = [status |-> "OK", cp |-> cp, used |-> Len(units)]
    <3>1. << >> \in Seq(AnyByte)
      OBVIOUS
    <3> HIDE DEF cp
    <3> QED
      BY <2>2, <3>1, EncodedBack, Zenon
  <2> HIDE DEF units
  <2>6. ASSUME NEW r \in Seq(AnyByte), NEW v \in BOOLEAN
        PROVE  Chunk("UTF8_ToUTF32", units \o r, v) = Done(Len(units), <<cp>>)
    <3> DEFINE back == DecodeChar(units \o r)
    <3> HIDE DEF cp
    <3>1. Chunk("UTF8_ToUTF32", units \o r, v) = ToCode(units \o r)
      BY DEF Chunk
    <3>2. back.status = "OK" /\ back.cp = cp /\ back.used = Len(units)
      BY <2>5
    <3>3. ToCode(units \o r) = Done(back.used, <<back.cp>>)
      BY <3>2, Zenon DEF ToCode
    <3> QED
      BY <3>1, <3>2, <3>3, Zenon
  <2> HIDE DEF cp
  <2>7. Chunk(c, s, w).units = units /\ Chunk(c, s, w).used = 1
    BY <2>3 DEF Done
  <2> QED
    BY <2>1, <2>4, <2>5, <2>6, <2>7, Zenon
<1> QED
  BY <1>1, <1>2, <1>3, <1>4 DEF UnicodeConversions

(* The digits.  Turning digits into English ones makes a text shorter, or   *)
(* finds none.                                                              *)
IsPair(t, p) == p + 1 < Len(t) /\ AsciiOf(t[p + 1], t[p + 2]) # {}

LEMMA EnglishAt ==
    ASSUME NEW t \in Seq(AnyByte), NEW p \in 0 .. Len(t), p # Len(t), NEW w
    PROVE  LET chunk == At("DigitsToEnglish", t, p, w)
           IN  /\ chunk.status = "OK" /\ chunk.used \in {1, 2} /\ Len(chunk.units) = 1
               /\ chunk.used = 1 => ~IsPair(t, p)
<1> DEFINE s == From(t, p)
           chunk == At("DigitsToEnglish", t, p, w)
<1>1. p \in Nat /\ Len(t) \in Nat /\ p < Len(t)
  OBVIOUS
<1>2. /\ s \in Seq(AnyByte) /\ Len(s) = Len(t) - p
      /\ \A i \in 1 .. Len(t) - p : s[i] = t[p + i]
  BY FromSize
<1>3. chunk = DigitToEnglish(s)
  BY AtChunk DEF Chunk, From
<1> HIDE DEF s, chunk
<1>4. s[1] = t[p + 1] /\ (Len(s) > 1 => s[2] = t[p + 2])
  BY <1>1, <1>2
<1>5. Len(s) > 1 <=> p + 1 < Len(t)
  BY <1>1, <1>2
<1>6. CASE Len(s) > 1 /\ AsciiOf(s[1], s[2]) # {}
  <2>1. chunk = Done(2, <<CHOOSE c \in AsciiOf(s[1], s[2]) : TRUE>>)
    BY <1>3, <1>6, Zenon DEF DigitToEnglish
  <2> DEFINE a == CHOOSE c \in AsciiOf(s[1], s[2]) : TRUE
  <2> HIDE DEF a
  <2>2. chunk = Done(2, <<a>>)
    BY <2>1 DEF a
  <2> QED
    BY <2>2 DEF Done, chunk
<1>7. CASE ~(Len(s) > 1 /\ AsciiOf(s[1], s[2]) # {})
  <2>1. chunk = Done(1, <<s[1]>>)
    BY <1>3, <1>7, Zenon DEF DigitToEnglish
  <2>2. ~IsPair(t, p)
    BY <1>4, <1>5, <1>7 DEF IsPair
  <2> QED
    BY <2>1, <2>2 DEF Done, chunk
<1> QED
  BY <1>6, <1>7

LEMMA SameLength ==
    ASSUME NEW t \in Seq(AnyByte), ConvertedBy("DigitsToEnglish", t) = {t}
    PROVE  \A p \in 0 .. Len(t) : ~IsPair(t, p)
<1> DEFINE c == "DigitsToEnglish"
           n == Len(t)
           g == Rest(c, t)
           Good(p) == \A w \in BOOLEAN : \A r \in g[p][w] :
                          /\ r \in Seq(Nat) /\ Len(r) <= n - p
                          /\ Len(r) = n - p => \A i \in p .. n : ~IsPair(t, i)
           G == {p \in 0 .. n : Good(p)}
<1>0. n \in Nat /\ t \in Seq(UnitsOf(c)) /\ c \in InPlaceConversions
  BY DEF UnitsOf, InPlaceConversions
<1>1. ASSUME NEW p \in 0 .. n, \A q \in p + 1 .. n : Good(q)
      PROVE  Good(p)
  <2> SUFFICES ASSUME NEW w \in BOOLEAN, NEW r \in g[p][w]
               PROVE  /\ r \in Seq(Nat) /\ Len(r) <= n - p
                      /\ Len(r) = n - p => \A i \in p .. n : ~IsPair(t, i)
    OBVIOUS
  <2>1. g[p][w] = RestAt(g, c, t, p, w)
    BY <1>0, RestEquation
  <2>2. g[p][w] \subseteq Seq(Nat)
    BY <1>0, RestType
  <2>3. CASE p = n
    <3>1. r = << >>
      BY <2>1, <2>3 DEF RestAt
    <3>2. Len(r) = 0 /\ r \in Seq(Nat)
      BY <3>1
    <3>3. \A i \in p .. n : ~IsPair(t, i)
      BY <1>0, <2>3 DEF IsPair
    <3> QED
      BY <1>0, <2>3, <3>2, <3>3
  <2>4. CASE p # n
    <3> DEFINE chunk == At(c, t, p, w)
               q == p + chunk.used
               v == WordStarts(w, chunk.units)
    <3>1. /\ chunk.status = "OK" /\ chunk.used \in {1, 2} /\ Len(chunk.units) = 1
          /\ chunk.used = 1 => ~IsPair(t, p)
      BY <2>4, EnglishAt
    <3>2. q \in p + 1 .. n /\ chunk.units \in Seq(Nat)
      BY <1>0, <2>4, <3>1, AtSize
    <3>3. v \in BOOLEAN
      BY WordStartsBoolean
    <3>4. g[p][w] = {chunk.units \o z : z \in g[q][v]}
      BY <2>1, <2>4, <3>1, Zenon DEF RestAt
    <3>5. PICK z \in g[q][v] : r = chunk.units \o z
      BY <3>4
    <3> HIDE DEF g, v
    <3>6. /\ z \in Seq(Nat) /\ Len(z) <= n - q
          /\ Len(z) = n - q => \A i \in q .. n : ~IsPair(t, i)
      BY <1>1, <3>2, <3>3, <3>5
    <3> DEFINE units == chunk.units
               k == chunk.used
    <3>7. units \in Seq(Nat) /\ Len(units) = 1 /\ r = units \o z
      BY <3>1, <3>2, <3>5
    <3> HIDE DEF units
    <3>8. r \in Seq(Nat) /\ Len(r) = 1 + Len(z)
      BY <3>6, <3>7, ConcatProperties
    <3>9. q = p + k /\ k \in {1, 2} /\ (k = 1 => ~IsPair(t, p))
      BY <3>1
    <3> HIDE DEF k, q, chunk
    <3>10. Len(z) \in Nat /\ p \in Nat
      BY <3>6
    <3>11. Len(r) <= n - p
      BY <1>0, <3>6, <3>8, <3>9, <3>10
    <3>12. ASSUME Len(r) = n - p, NEW i \in p .. n
           PROVE  ~IsPair(t, i)
      <4> DEFINE l == Len(z)
      <4>1. 1 + l = n - p /\ l \in Nat /\ l <= n - q
        BY <3>6, <3>8, <3>10, <3>12
      <4> HIDE DEF l
      <4>2. k = 1 /\ l = n - q /\ q = p + 1
        BY <1>0, <3>9, <3>10, <4>1
      <4>3. i = p \/ i \in q .. n
        BY <1>0, <3>10, <4>2
      <4> QED
        BY <3>6, <3>9, <4>2, <4>3 DEF l
    <3> QED
      BY <3>8, <3>11, <3>12
  <2> QED
    BY <2>3, <2>4
<1> HIDE DEF Good
<1>2. \A p \in 0 .. n : p \in G
  <2>1. \A p \in 0 .. n : (\A q \in p + 1 .. n : q \in G) => p \in G
    BY <1>0, <1>1
  <2> HIDE DEF G
  <2> QED
    BY <1>0, <2>1, FromTheEnd
<1>3. t \in g[0][TRUE]
  BY DEF ConvertedBy
<1> HIDE DEF g
<1>4. Good(0)
  BY <1>0, <1>2
<1>5. Len(t) = n - 0 => \A i \in 0 .. n : ~IsPair(t, i)
  BY <1>3, <1>4 DEF Good
<1> QED
  BY <1>0, <1>5

(* A text without pairs of bytes that are digits, turned into Eastern ones: *)
(* what a byte has become is read back as this byte, whatever follows it.   *)
LEMMA PairBack ==
    ASSUME NEW a \in 48 .. 57
    PROVE  /\ AsciiOf(219, 176 + (a - 48)) = {a} /\ AsciiOf(217, 160 + (a - 48)) = {a}
           /\ AsciiOf(217, 171) = {46}
<1>1. 176 + (a - 48) \in 176 .. 185 /\ 48 + ((176 + (a - 48)) - 176) = a
  OBVIOUS
<1>2. 160 + (a - 48) \in 160 .. 169 /\ 48 + ((160 + (a - 48)) - 160) = a
  OBVIOUS
<1>3. AsciiOf(219, 176 + (a - 48)) = {a}
  BY <1>1 DEF AsciiOf
<1>4. AsciiOf(217, 160 + (a - 48)) = {a}
  BY <1>2 DEF AsciiOf
<1> QED
  BY <1>3, <1>4 DEF AsciiOf

Becomes(a, u) ==
    \/ \E x \in {217, 219}, y \in AnyByte : u = <<x, y>> /\ AsciiOf(x, y) = {a}
    \/ u = <<a>>

LEMMA EasternUnits ==
    ASSUME NEW c \in {"DigitsToPersian", "DigitsToArabic"},
           NEW t \in Seq(AnyByte), NEW p \in 0 .. Len(t), p # Len(t), NEW w
    PROVE  LET chunk == At(c, t, p, w)
           IN  /\ chunk.status = "OK" /\ chunk.used = 1
               /\ t[p + 1] \in AnyByte /\ Becomes(t[p + 1], chunk.units)
<1> DEFINE s == From(t, p)
           chunk == At(c, t, p, w)
<1>1. p \in Nat /\ Len(t) \in Nat /\ p < Len(t)
  OBVIOUS
<1>2. /\ s \in Seq(AnyByte) /\ Len(s) = Len(t) - p
      /\ \A i \in 1 .. Len(t) - p : s[i] = t[p + i]
  BY FromSize
<1>3. chunk = DigitToPersian(s) \/ chunk = DigitToArabic(s)
  BY AtChunk DEF Chunk, From
<1> HIDE DEF s, chunk
<1>4. s[1] = t[p + 1] /\ t[p + 1] \in AnyByte
  BY <1>1, <1>2
<1> DEFINE a == t[p + 1]
<1> HIDE DEF a
<1>5. a \in AnyByte /\ s[1] = a
  BY <1>4 DEF a
<1>6. chunk.status = "OK" /\ chunk.used = 1 /\ Becomes(a, chunk.units)
  <2>1. ASSUME NEW u, chunk = Done(1, u), Becomes(a, u)
        PROVE  chunk.status = "OK" /\ chunk.used = 1 /\ Becomes(a, chunk.units)
    <3>1. chunk.status = "OK" /\ chunk.used = 1 /\ chunk.units = u
      BY <2>1 DEF Done
    <3> QED
      BY <2>1, <3>1
  <2>2. ASSUME NEW x \in {217, 219}, NEW y \in AnyByte, AsciiOf(x, y) = {a}, chunk = Done(1, <<x, y>>)
        PROVE  chunk.status = "OK" /\ chunk.used = 1 /\ Becomes(a, chunk.units)
    <3>1. Becomes(a, <<x, y>>)
      BY <2>2 DEF Becomes
    <3> QED
      BY <2>1, <2>2, <3>1, Zenon
  <2>3. CASE a \in 48 .. 57
    <3> DEFINE y == 176 + (a - 48)
               z == 160 + (a - 48)
    <3>1. y \in AnyByte /\ AsciiOf(219, y) = {a}
      BY <1>5, <2>3, DigitBytes, PairBack
    <3>2. z \in AnyByte /\ AsciiOf(217, z) = {a}
      BY <1>5, <2>3, DigitBytes, PairBack
    <3>3. chunk = Done(1, <<219, y>>) \/ chunk = Done(1, <<217, z>>)
      BY <1>3, <1>5, <2>3 DEF DigitToPersian, DigitToArabic
    <3> HIDE DEF y, z
    <3>4. 217 \in {217, 219} /\ 219 \in {217, 219}
      OBVIOUS
    <3> QED
      BY <2>2, <3>1, <3>2, <3>3, <3>4, Zenon
  <2>4. CASE a \notin 48 .. 57
    <3>1. (chunk = Done(1, <<217, 171>>) /\ a = 46) \/ chunk = Done(1, <<a>>)
      BY <1>3, <1>5, <2>4 DEF DigitToPersian, DigitToArabic
    <3>2. CASE chunk = Done(1, <<a>>)
      <4>1. Becomes(a, <<a>>)
        BY DEF Becomes
      <4> QED
        BY <2>1, <3>2, <4>1, Zenon
    <3>3. CASE chunk = Done(1, <<217, 171>>) /\ a = 46
      <4>1. 217 \in {217, 219} /\ 171 \in AnyByte /\ AsciiOf(217, 171) = {a}
        BY <3>3 DEF AsciiOf, AnyByte
      <4> QED
        BY <2>2, <3>3, <4>1, Zenon
    <3> QED
      BY <3>1, <3>2, <3>3
  <2> QED
    BY <2>3, <2>4
<1> QED
  BY <1>4, <1>6 DEF a, chunk

LEMMA OneBack ==
    ASSUME NEW a \in AnyByte, NEW r \in Seq(AnyByte), r # << >> => AsciiOf(a, r[1]) = {}
    PROVE  /\ DigitToEnglish(<<a>> \o r) = Done(1, <<a>>)
           /\ <<a>> \in Seq(AnyByte) /\ <<a>> # << >> /\ Len(<<a>>) = 1
<1> DEFINE s == <<a>> \o r
<1>1. s[1] = a /\ (Len(s) > 1 => r # << >> /\ s[2] = r[1])
  OBVIOUS
<1> HIDE DEF s
<1>2. ~(Len(s) > 1 /\ AsciiOf(s[1], s[2]) # {})
  BY <1>1
<1>3. DigitToEnglish(s) = Done(1, <<s[1]>>)
  BY <1>2, Zenon DEF DigitToEnglish
<1> QED
  BY <1>1, <1>3 DEF s

LEMMA TwoBack ==
    ASSUME NEW x \in AnyByte, NEW y \in AnyByte, NEW a, AsciiOf(x, y) = {a},
           NEW r \in Seq(AnyByte)
    PROVE  /\ DigitToEnglish(<<x, y>> \o r) = Done(2, <<a>>)
           /\ <<x, y>> \in Seq(AnyByte) /\ <<x, y>> # << >> /\ Len(<<x, y>>) = 2
<1> DEFINE s == <<x, y>> \o r
<1>1. s[1] = x /\ s[2] = y /\ Len(s) > 1
  OBVIOUS
<1> HIDE DEF s
<1>2. AsciiOf(s[1], s[2]) = {a}
  BY <1>1
<1>3. AsciiOf(s[1], s[2]) # {} /\ (CHOOSE i \in AsciiOf(s[1], s[2]) : TRUE) = a
  BY <1>2
<1>4. DigitToEnglish(s) = Done(2, <<a>>)
  BY <1>1, <1>3, Zenon DEF DigitToEnglish
<1> QED
  BY <1>4 DEF s

LEMMA UnitsBack ==
    ASSUME NEW a \in AnyByte, NEW u, Becomes(a, u), NEW r \in Seq(AnyByte),
           u = <<a>> /\ r # << >> => AsciiOf(a, r[1]) = {}
    PROVE  DigitToEnglish(u \o r) = Done(Len(u), <<a>>)
<1>1. ASSUME NEW x \in {217, 219}, NEW y \in AnyByte, u = <<x, y>>, AsciiOf(x, y) = {a}
      PROVE  DigitToEnglish(u \o r) = Done(Len(u), <<a>>)
  <2>1. x \in AnyByte
    BY DEF AnyByte
  <2>2. DigitToEnglish(<<x, y>> \o r) = Done(2, <<a>>) /\ Len(<<x, y>>) = 2
    BY <1>1, <2>1, TwoBack
  <2> QED
    BY <1>1, <2>2, Zenon
<1>2. ASSUME u = <<a>>
      PROVE  DigitToEnglish(u \o r) = Done(Len(u), <<a>>)
  <2>1. DigitToEnglish(<<a>> \o r) = Done(1, <<a>>) /\ Len(<<a>>) = 1
    BY <1>2, OneBack
  <2> QED
    BY <1>2, <2>1, Zenon
<1>3. u = <<a>> \/ \E x \in {217, 219}, y \in AnyByte : u = <<x, y>> /\ AsciiOf(x, y) = {a}
  BY DEF Becomes
<1> QED
  BY <1>1, <1>2, <1>3

LEMMA UnitsOfDigits ==
    ASSUME NEW a \in AnyByte, NEW u, Becomes(a, u)
    PROVE  u \in Seq(AnyByte) /\ u # << >> /\ u[1] \in {219, 217, a}
<1>1. ASSUME NEW x \in {217, 219}, NEW y \in AnyByte, u = <<x, y>>
      PROVE  u \in Seq(AnyByte) /\ u # << >> /\ u[1] \in {219, 217, a}
  <2>1. x \in AnyByte
    BY DEF AnyByte
  <2>2. <<x, y>> \in Seq(AnyByte) /\ <<x, y>> # << >> /\ <<x, y>>[1] \in {219, 217, a}
    BY <2>1
  <2> QED
    BY <1>1, <2>2, Zenon
<1>2. ASSUME u = <<a>>
      PROVE  u \in Seq(AnyByte) /\ u # << >> /\ u[1] \in {219, 217, a}
  BY <1>2
<1>3. u = <<a>> \/ \E x \in {217, 219}, y \in AnyByte : u = <<x, y>> /\ AsciiOf(x, y) = {a}
  BY DEF Becomes
<1> QED
  BY <1>1, <1>2, <1>3

LEMMA DigitBack ==
    ASSUME NEW c \in {"DigitsToPersian", "DigitsToArabic"}, ~in_place,
           NEW t \in Seq(AnyByte), \A p \in 0 .. Len(t) : ~IsPair(t, p),
           NEW p \in 0 .. Len(t), p # Len(t), NEW w \in BOOLEAN
    PROVE  LET chunk == At(c, t, p, w)
           IN  /\ chunk.units \in Seq(AnyByte) /\ chunk.units # << >>
               /\ \A v \in BOOLEAN, r \in Seq(AnyByte) :
                      r \in Rest(c, t)[p + chunk.used][WordStarts(w, chunk.units)] =>
                          Chunk("DigitsToEnglish", chunk.units \o r, v)
                          = Done(Len(chunk.units), SubSeq(t, p + 1, p + chunk.used))
<1> DEFINE chunk == At(c, t, p, w)
           a == t[p + 1]
           u == chunk.units
           q == p + 1
<1>1. p \in Nat /\ Len(t) \in Nat /\ p < Len(t) /\ q \in 0 .. Len(t) /\ t \in Seq(UnitsOf(c))
  BY DEF UnitsOf
<1>2. chunk.status = "OK" /\ chunk.used = 1 /\ a \in AnyByte /\ Becomes(a, u)
  BY EasternUnits
<1>3. SubSeq(t, p + 1, p + chunk.used) = <<a>>
  <2>1. p + 1 \in 1 .. Len(t) /\ p + 1 \in p + 1 .. Len(t)
    BY <1>1
  <2>2. SubSeq(t, p + 1, p + 1) = <<t[p + 1]>> \o SubSeq(t, (p + 1) + 1, p + 1)
    BY <2>1, SubSeqRecursiveFirst
  <2>3. SubSeq(t, (p + 1) + 1, p + 1) = << >>
    BY <1>1, SubSeqEmpty
  <2>4. <<t[p + 1]>> \in Seq(AnyByte)
    BY <1>2
  <2>5. <<t[p + 1]>> \o << >> = <<t[p + 1]>>
    BY <2>4, ConcatEmptySeq
  <2> QED
    BY <1>2, <2>2, <2>3, <2>5
<1> DEFINE R == Rest(c, t)[q][WordStarts(w, u)]
<1> HIDE DEF chunk, u
<1>4. ASSUME NEW r \in Seq(AnyByte), r \in R, r # << >>, u = <<a>>
      PROVE  AsciiOf(a, r[1]) = {}
  <2> DEFINE z == WordStarts(w, u)
             next == At(c, t, q, z)
             b == t[q + 1]
  <2>1. z \in BOOLEAN
    BY WordStartsBoolean
  <2>2. Rest(c, t)[q][z] = RestAt(Rest(c, t), c, t, q, z)
    BY <1>1, <2>1, RestEquation
  <2>3. q # Len(t)
    BY <1>4, <2>2 DEF RestAt
  <2>4. next.status = "OK" /\ Becomes(b, next.units)
    BY <1>1, <2>3, EasternUnits
  <2> DEFINE z1 == WordStarts(z, next.units)
             S == Rest(c, t)[q + next.used][z1]
  <2>5. PICK y \in S : r = next.units \o y
    BY <1>4, <2>2, <2>3, <2>4, Zenon DEF RestAt
  <2>6. y \in Seq(Nat)
    <3>1. q + next.used \in 0 .. Len(t)
      BY <1>1, <2>3, EasternUnits
    <3>2. z1 \in BOOLEAN
      BY <2>1, WordStartsBoolean
    <3>3. S \subseteq Seq(Nat)
      BY <1>1, <3>1, <3>2, RestType
    <3> QED
      BY <2>5, <3>3
  <2>7. b \in AnyByte
    BY <1>1, <2>3
  <2> HIDE DEF S, z, z1, next, b
  <2>8. r[1] = 219 \/ r[1] = 217 \/ r[1] = b
    <3>1. next.units \in Seq(AnyByte) /\ next.units # << >> /\ next.units[1] \in {219, 217, b}
      BY <2>4, <2>7, UnitsOfDigits
    <3> DEFINE units == next.units
    <3>2. units \in Seq(Nat) /\ units # << >> /\ r = units \o y /\ units[1] \in {219, 217, b}
      BY <2>5, <3>1, BytesNat
    <3> HIDE DEF units
    <3>3. r[1] = units[1]
      BY <2>6, <3>2
    <3> QED
      BY <3>2, <3>3
  <2>9. AsciiOf(a, b) = {}
    <3>1. ~IsPair(t, p)
      OBVIOUS
    <3>2. p + 1 < Len(t) /\ q + 1 = p + 2
      BY <1>1, <2>3
    <3> QED
      BY <3>1, <3>2 DEF IsPair, b
  <2>10. AsciiOf(a, 219) = {} /\ AsciiOf(a, 217) = {}
    BY DEF AsciiOf
  <2> QED
    BY <2>8, <2>9, <2>10
<1>5. u \in Seq(AnyByte) /\ u # << >>
  BY <1>2, UnitsOfDigits
<1>6. ASSUME NEW r \in Seq(AnyByte), r \in R, NEW v \in BOOLEAN
      PROVE  Chunk("DigitsToEnglish", u \o r, v) = Done(Len(u), <<a>>)
  <2>1. Chunk("DigitsToEnglish", u \o r, v) = DigitToEnglish(u \o r)
    BY DEF Chunk
  <2>2. u = <<a>> /\ r # << >> => AsciiOf(a, r[1]) = {}
    BY <1>4, <1>6, Zenon
  <2> HIDE DEF a, R
  <2>3. a \in AnyByte /\ Becomes(a, u)
    BY <1>2
  <2>4. DigitToEnglish(u \o r) = Done(Len(u), <<a>>)
    BY <2>2, <2>3, UnitsBack
  <2> QED
    BY <2>1, <2>4
<1> QED
  BY <1>2, <1>3, <1>5, <1>6 DEF chunk, u

LEMMA DigitsBack ==
    ASSUME IInv, AsConverted
    PROVE  DigitsReadBack
<1> SUFFICES ASSUME status = "OK", conversion \in {"DigitsToPersian", "DigitsToArabic"},
                    ConvertedBy("DigitsToEnglish", Input) = {Input}
             PROVE  ConvertedBy("DigitsToEnglish", Result) = {Input}
  BY DEF DigitsReadBack
<1> DEFINE c == conversion
           b == "DigitsToEnglish"
           t == Input
           y == Result
<1>1. ~in_place
  BY DEF IInv, InPlaceInv, InPlaceConversions
<1>2. t \in Seq(UnitsOf(c)) /\ UnitsOf(c) = AnyByte /\ UnitsOf(b) = AnyByte
  BY InputText DEF UnitsOf
<1>3. y \in Rest(c, t)[0][TRUE]
  <2>1. Converted(t) = {y}
    BY DEF AsConverted, Inspections
  <2> QED
    BY <2>1 DEF Converted, ConvertedBy
<1>4. c \in {"DigitsToPersian", "DigitsToArabic"} /\ ConvertedBy(b, t) = {t}
  OBVIOUS
<1> HIDE DEF c, t, y
<1>5. \A p \in 0 .. Len(t) : ~IsPair(t, p)
  BY <1>2, <1>4, SameLength
<1>6. \A p \in 0 .. Len(t), w \in BOOLEAN :
         p # Len(t) /\ At(c, t, p, w).status = "OK" =>
             LET chunk == At(c, t, p, w)
             IN  /\ chunk.units \in Seq(UnitsOf(b)) /\ chunk.units # << >>
                 /\ \A v \in BOOLEAN, r \in Seq(UnitsOf(b)) :
                        r \in Rest(c, t)[p + chunk.used][WordStarts(w, chunk.units)] =>
                            Chunk(b, chunk.units \o r, v)
                            = Done(Len(chunk.units), SubSeq(t, p + 1, p + chunk.used))
  <2>1. \A p \in 0 .. Len(t), w \in BOOLEAN :
           p # Len(t) =>
             LET chunk == At(c, t, p, w)
             IN  /\ chunk.units \in Seq(AnyByte) /\ chunk.units # << >>
                 /\ \A v \in BOOLEAN, r \in Seq(AnyByte) :
                        r \in Rest(c, t)[p + chunk.used][WordStarts(w, chunk.units)] =>
                            Chunk(b, chunk.units \o r, v)
                            = Done(Len(chunk.units), SubSeq(t, p + 1, p + chunk.used))
    BY <1>1, <1>2, <1>4, <1>5, DigitBack
  <2> QED
    BY <1>2, <2>1, Zenon
<1>7. y \in Seq(UnitsOf(b))
  <2>1. \A p \in 0 .. Len(t), w \in BOOLEAN :
           p # Len(t) /\ At(c, t, p, w).status = "OK" => At(c, t, p, w).units \in Seq(UnitsOf(b))
    BY <1>6, Zenon
  <2>2. 0 \in 0 .. Len(t) /\ TRUE \in BOOLEAN
    BY <1>2
  <2>3. Rest(c, t)[0][TRUE] \subseteq Seq(UnitsOf(b))
    BY <1>1, <1>2, <2>1, <2>2, RestOver
  <2> QED
    BY <1>3, <2>3
<1>8. From(y, 0) = y /\ From(t, 0) = t
  <2>1. 0 + 1 = 1
    OBVIOUS
  <2> QED
    BY <1>2, <1>7, <2>1, SubSeqFull DEF From
<1>9. 0 \in 0 .. Len(t) /\ 0 \in 0 .. Len(y) /\ TRUE \in BOOLEAN
  BY <1>2, <1>7
<1>10. \A p \in 0 .. Len(t), n \in 0 .. Len(y), w \in BOOLEAN, v \in BOOLEAN :
          From(y, n) \in Rest(c, t)[p][w] => Rest(b, y)[n][v] = {From(t, p)}
  BY <1>1, <1>2, <1>6, <1>7, BackAgain
<1>11. Rest(b, y)[0][TRUE] = {t}
  BY <1>3, <1>8, <1>9, <1>10
<1> QED
  BY <1>11 DEF ConvertedBy, t, y

LEMMA EncodingsBack ==
    ASSUME IInv, AsConverted
    PROVE  EncodingsReadBack
<1> SUFFICES ASSUME status = "OK", conversion \in UnicodeConversions
             PROVE  ConvertedBy(WayBack[conversion], Result) = {Input}
  BY DEF EncodingsReadBack
<1> DEFINE c == conversion
           b == WayBack[c]
           t == Input
           y == Result
<1>1. ~in_place
  BY DEF IInv, InPlaceInv, InPlaceConversions, UnicodeConversions
<1>2. t \in Seq(UnitsOf(c))
  BY InputText
<1>3. y \in Rest(c, t)[0][TRUE]
  <2>1. c \notin Inspections
    BY DEF Inspections, UnicodeConversions
  <2>2. Converted(t) = {y}
    BY <2>1 DEF AsConverted
  <2> QED
    BY <2>2 DEF Converted, ConvertedBy
<1>4. c \in UnicodeConversions
  OBVIOUS
<1> HIDE DEF c, b, t, y
<1>5. \A p \in 0 .. Len(t), w \in BOOLEAN :
         p # Len(t) /\ At(c, t, p, w).status = "OK" =>
             LET chunk == At(c, t, p, w)
             IN  /\ chunk.units \in Seq(UnitsOf(b)) /\ chunk.units # << >>
                 /\ \A v \in BOOLEAN, r \in Seq(UnitsOf(b)) :
                        r \in Rest(c, t)[p + chunk.used][WordStarts(w, chunk.units)] =>
                            Chunk(b, chunk.units \o r, v)
                            = Done(Len(chunk.units), SubSeq(t, p + 1, p + chunk.used))
  <2> SUFFICES ASSUME NEW p \in 0 .. Len(t), NEW w \in BOOLEAN,
                      p # Len(t), At(c, t, p, w).status = "OK"
               PROVE  LET chunk == At(c, t, p, w)
                      IN  /\ chunk.units \in Seq(UnitsOf(b)) /\ chunk.units # << >>
                          /\ \A v \in BOOLEAN, r \in Seq(UnitsOf(b)) :
                                 Chunk(b, chunk.units \o r, v)
                                 = Done(Len(chunk.units), SubSeq(t, p + 1, p + chunk.used))
    BY Zenon
  <2> DEFINE s == From(t, p)
             used == At(c, t, p, w).used
  <2>1. s \in Seq(UnitsOf(c)) /\ Len(s) = Len(t) - p
        /\ \A i \in 1 .. Len(t) - p : s[i] = t[p + i]
    BY <1>2, FromSize
  <2>2. At(c, t, p, w) = Chunk(c, s, w)
    BY AtChunk DEF From
  <2>3. used \in Nat /\ used >= 1 /\ p + used \in p + 1 .. Len(t)
    BY <1>1, <1>2, AtSize
  <2> HIDE DEF s
  <2>4. s # << >>
    BY <1>2, <2>1
  <2>5. LET chunk == Chunk(c, s, w)
        IN  /\ chunk.units \in Seq(UnitsOf(b)) /\ chunk.units # << >>
            /\ \A r \in Seq(UnitsOf(b)), v \in BOOLEAN :
                   Chunk(b, chunk.units \o r, v)
                   = Done(Len(chunk.units), SubSeq(s, 1, chunk.used))
    BY <1>4, <2>1, <2>2, <2>4, CharacterBack DEF b
  <2>6. SubSeq(s, 1, used) = SubSeq(t, p + 1, p + used)
    <3> HIDE DEF used
    <3>1. /\ Len(t) \in Nat /\ p \in Nat /\ p < Len(t) /\ used <= Len(t) - p /\ used \in 1 .. Len(t) - p
      BY <1>2, <2>3
    <3>2. /\ p + 1 \in 1 .. Len(t) /\ Len(t) \in 1 .. Len(t)
          /\ 1 \in 1 .. Len(t) - (p + 1) + 1 /\ used \in 1 .. Len(t) - (p + 1) + 1
      BY <3>1
    <3>3. SubSeq(SubSeq(t, p + 1, Len(t)), 1, used) = SubSeq(t, (p + 1) + 1 - 1, (p + 1) + used - 1)
      BY <1>2, <3>2, SubSeqOfSubSeq
    <3>4. (p + 1) + 1 - 1 = p + 1 /\ (p + 1) + used - 1 = p + used
      BY <3>1
    <3> QED
      BY <3>3, <3>4 DEF s, From
  <2> QED
    BY <2>2, <2>5, <2>6, Zenon
<1>6. y \in Seq(UnitsOf(b))
  <2>1. \A p \in 0 .. Len(t), w \in BOOLEAN :
           p # Len(t) /\ At(c, t, p, w).status = "OK" => At(c, t, p, w).units \in Seq(UnitsOf(b))
    BY <1>5, Zenon
  <2>2. 0 \in 0 .. Len(t) /\ TRUE \in BOOLEAN
    BY <1>2
  <2>3. Rest(c, t)[0][TRUE] \subseteq Seq(UnitsOf(b))
    BY <1>1, <1>2, <2>1, <2>2, RestOver
  <2> QED
    BY <1>3, <2>3
<1>7. From(y, 0) = y /\ From(t, 0) = t
  <2>1. 0 + 1 = 1
    OBVIOUS
  <2> QED
    BY <1>2, <1>6, <2>1, SubSeqFull DEF From
<1>8. 0 \in 0 .. Len(t) /\ 0 \in 0 .. Len(y) /\ TRUE \in BOOLEAN
  BY <1>2, <1>6
<1>9. \A p \in 0 .. Len(t), n \in 0 .. Len(y), w \in BOOLEAN, v \in BOOLEAN :
         From(y, n) \in Rest(c, t)[p][w] => Rest(b, y)[n][v] = {From(t, p)}
  BY <1>1, <1>2, <1>5, <1>6, BackAgain
<1>10. Rest(b, y)[0][TRUE] = {t}
  BY <1>3, <1>7, <1>8, <1>9
<1> QED
  BY <1>10 DEF ConvertedBy, b, c, t, y

(* For every text in every encoding, in either byte order: what is accepted *)
(* comes back as it was, and a text with English digits in it comes back    *)
(* from Persian and Arabic ones, the decimal separator included             *)
(* (edc_unicode.c:218-405, edc_persian.c:47-162).                           *)
THEOREM ComesBack == Spec => []ThereAndBack
<1>1. CInv => ThereAndBack
  BY DigitsBack, EncodingsBack DEF CInv, ThereAndBack
<1> QED
  BY <1>1, InitCInv, NextCInv, PTL DEF Spec

-----------------------------------------------------------------------------
(* Normal forms.  What a character is replaced by is not replaced again.    *)
LEMMA NotReplacedAgain ==
    ASSUME NEW f, NEW p, NEW cp \in Nat, IsValidCodePoint(cp), ~Stripped(cp, f)
    PROVE  LET d == Digit(Letter(cp, f), f, p)
           IN  /\ d \in Nat /\ IsValidCodePoint(d) /\ ~Stripped(d, f)
               /\ Digit(Letter(d, f), f, p) = d
<1> DEFINE l == Letter(cp, f)
           d == Digit(l, f, p)
           Letters == {1740, 1705, 1607, 1575}
           Digits1 == (48 .. 57) \cup {46, 44}
           Digits2 == 1776 .. 1785
<1>1. l \in Nat /\ (l = cp \/ l \in Letters) /\ Letter(l, f) = l
  BY SMT DEF Letter
<1> HIDE DEF l
<1>2. /\ English(l) \in Nat /\ (English(l) = l \/ English(l) \in Digits1)
      /\ English(English(l)) = English(l)
  BY <1>1, SMT DEF English
<1>3. /\ Persian(l) \in Nat /\ (Persian(l) = l \/ Persian(l) \in Digits2)
      /\ Persian(Persian(l)) = Persian(l)
  BY <1>1, SMT DEF Persian
<1>4. \A i \in Digits1 \cup Digits2 : Letter(i, f) = i
  BY SMT DEF Letter
<1>5. \A i \in Digits1 \cup Digits2 \cup Letters : i \in Nat /\ IsValidCodePoint(i) /\ ~Stripped(i, f)
  BY SMT DEF Stripped, IsValidCodePoint, IsSurrogate, MaxCodePoint
<1>6. l \in Nat /\ IsValidCodePoint(l) /\ ~Stripped(l, f)
  <2> HIDE DEF Letters, Digits1, Digits2
  <2> QED
    BY <1>1, <1>5, Zenon
<1>7. CASE "DIGITS_TO_ENGLISH" \in f
  <2>1. d = English(l) /\ Digit(d, f, p) = English(d)
    BY <1>7 DEF Digit
  <2> HIDE DEF d, Letters, Digits1, Digits2
  <2>2. Letter(d, f) = d /\ d \in Nat /\ IsValidCodePoint(d) /\ ~Stripped(d, f)
    BY <1>1, <1>2, <1>4, <1>5, <1>6, <2>1, Zenon
  <2>3. Digit(Letter(d, f), f, p) = d
    BY <1>2, <2>1, <2>2, Zenon
  <2> QED
    BY <2>2, <2>3 DEF d, l
<1>8. CASE "DIGITS_TO_ENGLISH" \notin f /\ "DIGITS_TO_PERSIAN" \in f /\ ~p
  <2>1. d = Persian(l) /\ Digit(d, f, p) = Persian(d)
    BY <1>8 DEF Digit
  <2> HIDE DEF d, Letters, Digits1, Digits2
  <2>2. Letter(d, f) = d /\ d \in Nat /\ IsValidCodePoint(d) /\ ~Stripped(d, f)
    BY <1>1, <1>3, <1>4, <1>5, <1>6, <2>1, Zenon
  <2>3. Digit(Letter(d, f), f, p) = d
    BY <1>3, <2>1, <2>2, Zenon
  <2> QED
    BY <2>2, <2>3 DEF d, l
<1>9. CASE "DIGITS_TO_ENGLISH" \notin f /\ ~("DIGITS_TO_PERSIAN" \in f /\ ~p)
  <2>1. d = l /\ Digit(d, f, p) = d
    BY <1>9 DEF Digit
  <2> HIDE DEF d, Letters
  <2>2. Letter(d, f) = d
    BY <1>1, <2>1
  <2>3. Digit(Letter(d, f), f, p) = d
    BY <2>1, <2>2
  <2> QED
    BY <1>6, <2>1, <2>3 DEF d, l
<1> QED
  BY <1>7, <1>8, <1>9

(* What is left of a character is left alone, whatever follows it.          *)
LEMMA NormalizedAgain ==
    ASSUME NEW s \in Seq(AnyByte), NEW w, Chunk("Normalize", s, w).status = "OK"
    PROVE  LET units == Chunk("Normalize", s, w).units
           IN  /\ units \in Seq(AnyByte)
               /\ units # << >> =>
                      \A v \in BOOLEAN, r \in Seq(AnyByte) :
                          Chunk("Normalize", units \o r, v) = Done(Len(units), units)
<1> DEFINE char == DecodeChar(s)
           d == Digit(Letter(char.cp, flags), flags, in_place)
           chunk == Normalized(s, flags, in_place)
<1>1. \A x, v : Chunk("Normalize", x, v) = Normalized(x, flags, in_place)
  BY DEF Chunk
<1>2. chunk.status = "OK" /\ char.status = "OK"
  BY <1>1 DEF Normalized, Failed
<1>3. char.cp \in Nat /\ IsValidCodePoint(char.cp)
  BY <1>2, DecodedBack
<1>4. CASE Stripped(char.cp, flags)
  <2>1. chunk = Done(char.used, << >>)
    BY <1>2, <1>4, Zenon DEF Normalized
  <2>2. chunk.units = << >> /\ << >> \in Seq(AnyByte)
    BY <2>1 DEF Done
  <2> QED
    BY <1>1, <2>2, Zenon
<1>5. CASE ~Stripped(char.cp, flags)
  <2> DEFINE units == EncodeChar(d)
  <2>1. chunk = Done(char.used, units)
    BY <1>2, <1>5, Zenon DEF Normalized
  <2>2. chunk.units = units
    <3> HIDE DEF chunk, units
    <3> QED
      BY <2>1 DEF Done
  <2>3. /\ d \in Nat /\ IsValidCodePoint(d) /\ ~Stripped(d, flags)
        /\ Digit(Letter(d, flags), flags, in_place) = d
    <3> HIDE DEF char
    <3> QED
      BY <1>3, <1>5, NotReplacedAgain
  <2> HIDE DEF chunk, char, d
  <2>4. << >> \in Seq(AnyByte)
    OBVIOUS
  <2>5. units \in Seq(AnyByte)
    BY <2>3, <2>4, EncodedBack
  <2>6. ASSUME NEW r \in Seq(AnyByte)
        PROVE  Normalized(units \o r, flags, in_place) = Done(Len(units), units)
    <3> DEFINE back == DecodeChar(units \o r)
    <3>1. back = [status |-> "OK", cp |-> d, used |-> Len(units)]
      BY <2>3, EncodedBack
    <3>2. back.status = "OK" /\ back.cp = d /\ back.used = Len(units)
      BY <3>1
    <3> HIDE DEF back
    <3>3. Normalized(units \o r, flags, in_place)
          = Done(back.used, EncodeChar(Digit(Letter(back.cp, flags), flags, in_place)))
      BY <2>3, <3>2, Zenon DEF Normalized, back
    <3> QED
      BY <2>3, <3>2, <3>3, Zenon
  <2> HIDE DEF units
  <2> QED
    BY <1>1, <2>2, <2>5, <2>6, Zenon DEF chunk
<1> QED
  BY <1>4, <1>5

(* If what is left of every character is left alone, so is what is left of  *)
(* the text.                                                                *)
LEMMA TextLeftAlone ==
    ASSUME NEW c, NEW t \in Seq(UnitsOf(c)), NEW y \in Seq(UnitsOf(c)),
           \A p \in 0 .. Len(t), w \in BOOLEAN :
               p # Len(t) /\ At(c, t, p, w).status = "OK" =>
                   LET units == At(c, t, p, w).units
                   IN  /\ units \in Seq(UnitsOf(c))
                       /\ units # << >> =>
                              \A v \in BOOLEAN, r \in Seq(UnitsOf(c)) :
                                  Chunk(c, units \o r, v) = Done(Len(units), units)
    PROVE  \A p \in 0 .. Len(t), n \in 0 .. Len(y), w \in BOOLEAN, v \in BOOLEAN :
               From(y, n) \in Rest(c, t)[p][w] => Rest(c, y)[n][v] = {From(y, n)}
<1> DEFINE e == Len(t)
           g == Rest(c, t)
           h == Rest(c, y)
           S == Seq(UnitsOf(c))
           Good(p) == \A n \in 0 .. Len(y), w \in BOOLEAN, v \in BOOLEAN :
                          From(y, n) \in g[p][w] => h[n][v] = {From(y, n)}
           G == {p \in 0 .. e : Good(p)}
<1>0. e \in Nat /\ Len(y) \in Nat
  OBVIOUS
<1>1. \A n \in 0 .. Len(y) : \A a, z \in S :
         From(y, n) = a \o z => n + Len(a) <= Len(y) /\ From(y, n + Len(a)) = z
  BY FromConcat
<1>2. ASSUME NEW p \in 0 .. e, \A q \in p + 1 .. e : Good(q)
      PROVE  Good(p)
  <2> SUFFICES ASSUME NEW n \in 0 .. Len(y), NEW w \in BOOLEAN, NEW v \in BOOLEAN,
                      From(y, n) \in g[p][w]
               PROVE  h[n][v] = {From(y, n)}
    OBVIOUS
  <2>1. g[p][w] = RestAt(g, c, t, p, w)
    BY RestEquation
  <2>2. h[n][v] = RestAt(h, c, y, n, v)
    BY RestEquation
  <2>3. From(y, n) \in S /\ Len(From(y, n)) = Len(y) - n
    BY FromSize
  <2> HIDE DEF g, h
  <2>4. CASE p = e
    <3>1. From(y, n) = << >>
      BY <2>1, <2>4 DEF RestAt
    <3>2. n = Len(y)
      BY <1>0, <2>3, <3>1
    <3>3. h[n][v] = {<< >>}
      BY <2>2, <3>2 DEF RestAt
    <3> QED
      BY <3>1, <3>3
  <2>5. CASE p # e /\ At(c, t, p, w).status # "OK"
    BY <2>1, <2>5 DEF RestAt
  <2>6. CASE p # e /\ At(c, t, p, w).status = "OK"
    <3> DEFINE q == p + At(c, t, p, w).used
               units == At(c, t, p, w).units
               m == n + Len(units)
               v1 == WordStarts(v, units)
               w1 == WordStarts(w, units)
    <3>1. q \in p + 1 .. e
      BY <2>6, AtSize
    <3>2. v1 \in BOOLEAN /\ w1 \in BOOLEAN
      BY WordStartsBoolean
    <3>3. g[p][w] = {units \o r : r \in g[q][w1]}
      BY <2>1, <2>6, Zenon DEF RestAt
    <3>4. /\ units \in S
          /\ units # << >> => \A r \in S : Chunk(c, units \o r, v) = Done(Len(units), units)
      BY <2>6
    <3> HIDE DEF units, v1, w1, q
    <3>5. PICK r \in g[q][w1] : From(y, n) = units \o r
      BY <3>3
    <3>6. r \in S
      <4>1. q \in 0 .. Len(t)
        BY <1>0, <3>1
      <4>2. \A i \in 0 .. Len(t), z \in BOOLEAN :
               i # Len(t) /\ At(c, t, i, z).status = "OK" => At(c, t, i, z).units \in Seq(UnitsOf(c))
        OBVIOUS
      <4>3. \A i \in 0 .. Len(t), z \in BOOLEAN : Rest(c, t)[i][z] \subseteq Seq(UnitsOf(c))
        BY <4>2, RestOver
      <4> QED
        BY <3>2, <3>5, <4>1, <4>3 DEF g
    <3>7. Good(q)
      BY <1>2, <3>1
    <3>8. CASE units = << >>
      <4>1. From(y, n) = r
        BY <3>5, <3>6, <3>8, ConcatEmptySeq, Zenon
      <4> QED
        BY <3>2, <3>5, <3>7, <4>1
    <3>9. CASE units # << >>
      <4>1. m <= Len(y) /\ From(y, m) = r
        BY <1>1, <3>4, <3>5, <3>6, Zenon
      <4>2. Len(units) >= 1 /\ Len(units) \in Nat
        BY <3>4, <3>9
      <4>3. m \in 0 .. Len(y) /\ n # Len(y)
        BY <1>0, <4>1, <4>2
      <4>4. At(c, y, n, v) = Done(Len(units), units)
        BY <3>4, <3>5, <3>6, <3>9, AtChunk DEF From
      <4>5. /\ At(c, y, n, v).status = "OK" /\ At(c, y, n, v).used = Len(units)
            /\ At(c, y, n, v).units = units
        BY <4>4 DEF Done
      <4>6. h[n][v] = {units \o s : s \in h[m][v1]}
        BY <2>2, <4>3, <4>5, Zenon DEF RestAt, v1
      <4>7. h[m][v1] = {r}
        BY <3>2, <3>5, <3>7, <4>1, <4>3
      <4> QED
        BY <3>5, <4>6, <4>7
    <3> QED
      BY <3>8, <3>9
  <2> QED
    BY <2>4, <2>5, <2>6
<1> HIDE DEF g, h, Good
<1>3. \A p \in 0 .. e : p \in G
  <2>1. \A p \in 0 .. e : (\A q \in p + 1 .. e : q \in G) => p \in G
    BY <1>0, <1>2
  <2> HIDE DEF G
  <2> QED
    BY <1>0, <2>1, FromTheEnd
<1> QED
  BY <1>3 DEF Good, g, h

(* Words of Latin letters.  A word begins after one of these.               *)
Blank == {32, 9, 10}
Ascii == {a \in Nat : a <= 127}

(* A word begins with the i-th character of r; w tells of the first one.    *)
Begins(r, i, w) == (i = 1 /\ w) \/ (i # 1 /\ r[i - 1] \in Blank)

(* Every word in r begins with a capital, if that was asked for.            *)
Capital(r, w) ==
    \A i \in 1 .. Len(r) : "UPPERCASE_FIRST" \in flags /\ Begins(r, i, w) => r[i] \notin Lower

LEMMA RowIsPersian ==
    ASSUME NEW opts, NEW row \in Romanization(opts), NEW cp \in Ascii
    PROVE  cp \notin row[1]
  BY SMTT(60) DEF Romanization, Ascii

(* A character becomes nothing, one ASCII character or two small letters.   *)
LEMMA LatinIsAscii ==
    ASSUME NEW opts, NEW cp \in Nat
    PROVE  \/ Latin(cp, opts) = << >>
           \/ \E a \in Ascii : Latin(cp, opts) = <<a>>
           \/ \E a, b \in Lower : Latin(cp, opts) = <<a, b>>
<1> DEFINE rows == {row \in Romanization(opts) : cp \in row[1]}
           row  == CHOOSE r \in rows : TRUE
           latin == Latin(cp, opts)
           eastern == cp \in (1776 .. 1785) \cup (1632 .. 1641)
<1>0. \/ eastern /\ latin = <<English(cp)>>
      \/ rows # {} /\ latin = row[2]
      \/ cp <= 127 /\ latin = <<cp>>
      \/ latin = << >>
  BY SMT DEF Latin
<1> HIDE DEF latin
<1>1. CASE eastern /\ latin = <<English(cp)>>
  <2>1. English(cp) \in Ascii
    BY <1>1, SMT DEF English, Ascii
  <2> QED
    BY <1>1, <2>1 DEF latin
<1>2. CASE rows # {} /\ latin = row[2]
  <2>1. row \in rows
    <3> HIDE DEF rows
    <3> QED
      BY <1>2
  <2>2. row \in Romanization(opts)
    BY <2>1, Zenon
  <2> HIDE DEF row
  <2>3. PICK a \in Lower, b \in Lower : row[2] \in {<<a>>, <<a, b>>}
    BY <2>2, RowIsLower
  <2>4. a \in Ascii
    BY SMT DEF Lower, Ascii
  <2> QED
    BY <1>2, <2>3, <2>4, Zenon DEF latin
<1>3. CASE cp <= 127 /\ latin = <<cp>>
  <2>1. cp \in Ascii
    BY <1>3 DEF Ascii
  <2> QED
    BY <1>3, <2>1 DEF latin
<1>4. CASE latin = << >>
  BY <1>4 DEF latin
<1> HIDE DEF rows, row, eastern
<1> QED
  BY <1>0, <1>1, <1>2, <1>3, <1>4

(* ASCII stays what it is.                                                  *)
LEMMA LatinOfAscii ==
    ASSUME NEW opts, NEW cp \in Ascii
    PROVE  Latin(cp, opts) = <<cp>>
<1> DEFINE rows == {row \in Romanization(opts) : cp \in row[1]}
<1>1. rows = {}
  BY RowIsPersian
<1>2. cp \notin (1776 .. 1785) \cup (1632 .. 1641) /\ cp <= 127
  BY DEF Ascii
<1> QED
  BY <1>1, <1>2, SMT DEF Latin

LEMMA NotLower == \A c \in Ascii : ToUpper(c) \in Ascii /\ ToUpper(c) \notin Lower
  BY SMT DEF ToUpper, Ascii, Lower

LEMMA CapitalOfPair ==
    ASSUME NEW a \in Nat, NEW b \in Nat, NEW c \in Nat
    PROVE  <<a, b>> # << >> /\ <<a, b>>[1] = a /\ <<c>> \o Tail(<<a, b>>) = <<c, b>>
<1> DEFINE s == <<a, b>>
           t == Tail(s)
<1>1. s \in Seq(Nat) /\ s # << >> /\ Len(s) = 2 /\ s[1] = a /\ s[2] = b
  OBVIOUS
<1> HIDE DEF s
<1>2. t \in Seq(Nat) /\ Len(t) = 1 /\ t[1] = b
  <2>1. /\ t \in Seq(Nat) /\ Len(t) = Len(s) - 1
        /\ \A i \in 1 .. Len(t) : t[i] = s[i + 1]
    BY <1>1, HeadTailProperties
  <2> HIDE DEF t
  <2> QED
    BY <1>1, <2>1
<1> HIDE DEF t
<1>3. <<c>> \o t = <<c, b>>
  <2> DEFINE x == <<c>> \o t
             h == <<c>>
  <2>1. h \in Seq(Nat) /\ Len(h) = 1 /\ h[1] = c
    OBVIOUS
  <2> HIDE DEF h
  <2>2. /\ h \o t \in Seq(Nat) /\ Len(h \o t) = Len(h) + Len(t)
        /\ \A i \in 1 .. Len(h) + Len(t) :
               (h \o t)[i] = IF i <= Len(h) THEN h[i] ELSE t[i - Len(h)]
    BY <1>2, <2>1, ConcatProperties, Zenon
  <2>3. x = h \o t
    BY DEF h
  <2> HIDE DEF x
  <2>4. x \in Seq(Nat) /\ Len(x) = 2 /\ x[1] = c /\ x[2] = b
    BY <1>2, <2>1, <2>2, <2>3
  <2>5. x = <<c, b>>
    BY <2>4
  <2> QED
    BY <2>5 DEF x
<1> QED
  BY <1>1, <1>3, Zenon DEF s, t

LEMMA UpToTwo ==
    \A u \in Seq(Nat) : Len(u) <= 2 =>
        Len(u) \in {0, 1, 2} /\ (Len(u) = 0 => u = << >>) /\ (Len(u) # 0 => u # << >>)
<1> SUFFICES ASSUME NEW u \in Seq(Nat), Len(u) <= 2
             PROVE  Len(u) \in {0, 1, 2} /\ (Len(u) = 0 => u = << >>) /\ (Len(u) # 0 => u # << >>)
  OBVIOUS
<1> DEFINE n == Len(u)
<1>1. n \in Nat /\ (n = 0 <=> u = << >>)
  BY EmptySeq
<1> HIDE DEF n
<1>2. n <= 2
  BY DEF n
<1>3. n \in {0, 1, 2}
  BY <1>1, <1>2
<1> QED
  BY <1>1, <1>3 DEF n

(* What a character becomes, with the capital.                              *)
LEMMA TransliteratedUnits ==
    ASSUME NEW s \in Seq(AnyByte), NEW w \in BOOLEAN, Transliterated(s, flags, w).status = "OK"
    PROVE  LET u == Transliterated(s, flags, w).units
           IN  \/ u = << >>
               \/ \E a \in Ascii : /\ u = <<a>>
                                   /\ "UPPERCASE_FIRST" \in flags /\ w => a \notin Lower
               \/ \E a, b \in Ascii : /\ u = <<a, b>> /\ a \notin Blank /\ b \notin Blank
                                      /\ "UPPERCASE_FIRST" \in flags /\ w => a \notin Lower
<1> DEFINE char == DecodeChar(s)
           latin == Latin(char.cp, flags)
           u == Transliterated(s, flags, w).units
           capital == w /\ "UPPERCASE_FIRST" \in flags
<1>1. char.status = "OK"
  BY DEF Transliterated, Failed
<1>2. char.cp \in Nat
  BY <1>1, CharSize
<1>3. /\ latin # << >> /\ capital =>
            Transliterated(s, flags, w) = Done(char.used, <<ToUpper(latin[1])>> \o Tail(latin))
      /\ ~(latin # << >> /\ capital) => Transliterated(s, flags, w) = Done(char.used, latin)
  BY <1>1, Zenon DEF Transliterated
<1>4. \/ latin = << >>
      \/ \E a \in Ascii : latin = <<a>>
      \/ \E a, b \in Lower : latin = <<a, b>>
  BY <1>2, LatinIsAscii
<1> HIDE DEF char, latin
<1>5. /\ latin # << >> /\ capital => u = <<ToUpper(latin[1])>> \o Tail(latin)
      /\ ~(latin # << >> /\ capital) => u = latin
  BY <1>3 DEF Done
<1> HIDE DEF u
<1>6. \A a \in Lower : a \in Ascii /\ a \notin Blank /\ ToUpper(a) \in Ascii /\ ToUpper(a) \notin Lower
                       /\ ToUpper(a) \notin Blank
  BY SMT DEF ToUpper, Lower, Ascii, Blank
<1>7. CASE latin = << >>
  BY <1>5, <1>7 DEF u
<1>8. ASSUME NEW a \in Ascii, latin = <<a>>
      PROVE  \E i \in Ascii : u = <<i>> /\ (capital => i \notin Lower)
  <2>1. latin # << >> /\ latin[1] = a /\ <<ToUpper(a)>> \o Tail(latin) = <<ToUpper(a)>>
    BY <1>8
  <2>2. ToUpper(a) \in Ascii /\ ToUpper(a) \notin Lower
    BY NotLower
  <2> QED
    BY <1>5, <1>8, <2>1, <2>2, Zenon
<1>9. ASSUME NEW a \in Lower, NEW b \in Lower, latin = <<a, b>>
      PROVE  \E i, k \in Ascii : /\ u = <<i, k>> /\ i \notin Blank /\ k \notin Blank
                                 /\ (capital => i \notin Lower)
  <2>1. latin # << >> /\ latin[1] = a /\ <<ToUpper(a)>> \o Tail(latin) = <<ToUpper(a), b>>
    <3>1. a \in Nat /\ b \in Nat /\ ToUpper(a) \in Nat
      <4>1. \A x \in Ascii : x \in Nat
        BY DEF Ascii
      <4>2. a \in Ascii /\ b \in Ascii /\ ToUpper(a) \in Ascii
        BY <1>6
      <4> QED
        BY <4>1, <4>2, Zenon
    <3> HIDE DEF capital
    <3> QED
      BY <1>9, <3>1, CapitalOfPair, Zenon
  <2> QED
    BY <1>5, <1>6, <1>9, <2>1, Zenon
<1> QED
  BY <1>4, <1>7, <1>8, <1>9, Zenon DEF u

(* The words of a text are those of its characters.                         *)
LEMMA CapitalConcat ==
    ASSUME NEW u \in Seq(Nat), NEW w \in BOOLEAN, Len(u) <= 2,
           Capital(u, w), Len(u) = 2 => u[1] \notin Blank /\ u[2] \notin Blank,
           NEW r \in Seq(Nat), Capital(r, WordStarts(w, u))
    PROVE  Capital(u \o r, w)
<1> DEFINE s == u \o r
           k == Len(u)
<1>1. /\ s \in Seq(Nat) /\ Len(s) = k + Len(r) /\ k \in Nat /\ Len(r) \in Nat
      /\ \A i \in 1 .. Len(s) : s[i] = IF i <= k THEN u[i] ELSE r[i - k]
  BY ConcatProperties
<1>k. k \in {0, 1, 2} /\ (k = 0 => u = << >>) /\ (k # 0 => u # << >>)
  BY UpToTwo, Zenon
<1> HIDE DEF s, k
<1> SUFFICES ASSUME "UPPERCASE_FIRST" \in flags, NEW i \in 1 .. Len(s),
                    Begins(s, i, w)
             PROVE  s[i] \notin Lower
  BY Zenon DEF Capital, s
<1>7. k = Len(u)
  BY DEF k
<1>0. /\ i \in Nat /\ i >= 1 /\ i <= k + Len(r)
      /\ i # 1 => i - 1 \in 1 .. Len(s) /\ i - 1 >= 1
  BY <1>1
<1>6. i # 1 => s[i - 1] = IF i - 1 <= k THEN u[i - 1] ELSE r[(i - 1) - k]
  BY <1>0, <1>1
<1>2. CASE i <= k
  <2>1. i \in 1 .. Len(u) /\ s[i] = u[i] /\ (i # 1 => s[i - 1] = u[i - 1])
    BY <1>0, <1>1, <1>2, <1>6, <1>7
  <2>2. Begins(u, i, w)
    BY <2>1, Zenon DEF Begins
  <2> QED
    BY <2>1, <2>2, Zenon DEF Capital
<1>3. CASE i > k
  <2> DEFINE j == i - k
             v == WordStarts(w, u)
  <2>5. j \in 1 .. Len(r) /\ s[i] = r[j]
    BY <1>0, <1>1, <1>3
  <2>6. j # 1 => i # 1 /\ ~(i - 1 <= k) /\ (i - 1) - k = j - 1
    BY <1>0, <1>1, <1>3
  <2>1. j \in 1 .. Len(r) /\ s[i] = r[j] /\ (j # 1 => i # 1 /\ s[i - 1] = r[j - 1])
    <3> HIDE DEF j
    <3> QED
      BY <1>6, <2>5, <2>6
  <2>7. i # 1 => s[i - 1] \in Blank
    BY Zenon DEF Begins
  <2>8. i = 1 => w
    BY Zenon DEF Begins
  <2>2. j = 1 => v
    <3> SUFFICES ASSUME j = 1 PROVE v
      OBVIOUS
    <3>1. i = k + 1
      BY <1>0, <1>1
    <3>2. CASE k = 0
      <4>1. u = << >> /\ i = 1
        BY <1>k, <3>1, <3>2
      <4> QED
        BY <2>8, <4>1, Zenon DEF WordStarts
    <3>3. CASE k = 1
      <4>1. u # << >> /\ i = 2 /\ i # 1 /\ i - 1 = 1 /\ i - 1 <= k
        BY <1>k, <3>1, <3>3
      <4>2. s[i - 1] = u[1]
        BY <1>6, <4>1
      <4> QED
        BY <2>7, <4>1, <4>2, Zenon DEF WordStarts, Blank
    <3>4. CASE k = 2
      <4>2. i = 3 /\ i # 1 /\ i - 1 = 2 /\ i - 1 <= k
        BY <3>1, <3>4
      <4>1. i # 1 /\ s[i - 1] = u[2]
        BY <1>6, <4>2
      <4> QED
        BY <1>7, <2>7, <3>4, <4>1
    <3> QED
      BY <1>k, <3>2, <3>3, <3>4
  <2> HIDE DEF j, v
  <2>3. Begins(r, j, v)
    BY <2>1, <2>2, <2>7, Zenon DEF Begins
  <2>4. Capital(r, v)
    BY DEF v
  <2> QED
    BY <2>1, <2>3, <2>4, Zenon DEF Capital
<1> QED
  BY <1>1, <1>2, <1>3

LEMMA UnitsCapital ==
    ASSUME NEW s \in Seq(AnyByte), NEW w \in BOOLEAN, Transliterated(s, flags, w).status = "OK"
    PROVE  LET u == Transliterated(s, flags, w).units
           IN  /\ u \in Seq(Ascii) /\ Len(u) <= 2 /\ Capital(u, w)
               /\ Len(u) = 2 => u[1] \notin Blank /\ u[2] \notin Blank
<1> DEFINE u == Transliterated(s, flags, w).units
           capital == "UPPERCASE_FIRST" \in flags /\ w
<1>1. \/ u = << >>
      \/ \E a \in Ascii : u = <<a>> /\ (capital => a \notin Lower)
      \/ \E a, b \in Ascii : /\ u = <<a, b>> /\ a \notin Blank /\ b \notin Blank
                             /\ capital => a \notin Lower
  BY TransliteratedUnits
<1> HIDE DEF u
<1>2. ASSUME u = << >>
      PROVE  u \in Seq(Ascii) /\ Len(u) = 0 /\ Capital(u, w)
  BY <1>2 DEF Capital
<1>3. ASSUME NEW a \in Ascii, u = <<a>>, capital => a \notin Lower
      PROVE  u \in Seq(Ascii) /\ Len(u) = 1 /\ Capital(u, w)
  <2>1. u \in Seq(Ascii) /\ Len(u) = 1 /\ u[1] = a
    BY <1>3
  <2>2. \A i \in 1 .. Len(u) : i = 1
    BY <2>1
  <2> QED
    BY <1>3, <2>1, <2>2, Zenon DEF Capital, Begins
<1>4. ASSUME NEW a \in Ascii, NEW b \in Ascii, u = <<a, b>>, a \notin Blank, b \notin Blank,
             capital => a \notin Lower
      PROVE  /\ u \in Seq(Ascii) /\ Len(u) = 2 /\ Capital(u, w)
             /\ u[1] \notin Blank /\ u[2] \notin Blank
  <2>1. u \in Seq(Ascii) /\ Len(u) = 2 /\ u[1] = a /\ u[2] = b
    BY <1>4
  <2>2. \A i \in 1 .. Len(u) : i = 1 \/ (i # 1 /\ u[i - 1] = a)
    BY <2>1
  <2>3. Capital(u, w)
    BY <1>4, <2>1, <2>2, Zenon DEF Capital, Begins
  <2> QED
    BY <1>4, <2>1, <2>3
<1>5. /\ u \in Seq(Ascii) /\ Len(u) \in {0, 1, 2} /\ Capital(u, w)
      /\ Len(u) = 2 => u[1] \notin Blank /\ u[2] \notin Blank
  BY <1>1, <1>2, <1>3, <1>4
<1>6. \A n \in {0, 1, 2} : n <= 2
  OBVIOUS
<1> QED
  BY <1>5, <1>6, Zenon DEF u

(* A transliterated text is ASCII, and every word begins with a capital.    *)
LEMMA TextCapital ==
    ASSUME NEW t \in Seq(AnyByte)
    PROVE  \A p \in 0 .. Len(t), w \in BOOLEAN :
               \A r \in Rest("ToLatin", t)[p][w] : r \in Seq(Ascii) /\ Capital(r, w)
<1> DEFINE c == "ToLatin"
           n == Len(t)
           g == Rest(c, t)
           Good(k) == \A w \in BOOLEAN : \A r \in g[k][w] : r \in Seq(Ascii) /\ Capital(r, w)
           G == {k \in 0 .. n : Good(k)}
<1>0. n \in Nat /\ t \in Seq(UnitsOf(c)) /\ UnitsOf(c) = AnyByte
  BY DEF UnitsOf
<1>1. \A s, w : Chunk(c, s, w) = Transliterated(s, flags, w)
  BY DEF Chunk
<1>2. ASSUME NEW k \in 0 .. n, \A q \in k + 1 .. n : Good(q)
      PROVE  Good(k)
  <2> SUFFICES ASSUME NEW w \in BOOLEAN, NEW r \in g[k][w]
               PROVE  r \in Seq(Ascii) /\ Capital(r, w)
    OBVIOUS
  <2>1. g[k][w] = RestAt(g, c, t, k, w)
    BY <1>0, RestEquation
  <2> HIDE DEF g
  <2>2. CASE k = n
    <3>1. r = << >>
      BY <2>1, <2>2 DEF RestAt
    <3>2. Len(<< >>) = 0 /\ << >> \in Seq(Ascii) /\ 1 .. 0 = {}
      OBVIOUS
    <3> QED
      BY <3>1, <3>2, Zenon DEF Capital
  <2>3. CASE k # n /\ At(c, t, k, w).status # "OK"
    BY <2>1, <2>3 DEF RestAt
  <2>4. CASE k # n /\ At(c, t, k, w).status = "OK"
    <3> DEFINE s == From(t, k)
               q == k + At(c, t, k, w).used
               u == At(c, t, k, w).units
               v == WordStarts(w, u)
    <3>1. q \in k + 1 .. n
      BY <1>0, <2>4, AtSize
    <3>2. v \in BOOLEAN
      BY WordStartsBoolean
    <3>3. g[k][w] = {u \o z : z \in g[q][v]}
      BY <2>1, <2>4, Zenon DEF RestAt
    <3>4. s \in Seq(AnyByte)
      BY FromSize
    <3>5. At(c, t, k, w) = Transliterated(s, flags, w)
      BY <1>1, AtChunk, Zenon DEF From
    <3>6. /\ u \in Seq(Ascii) /\ Len(u) <= 2 /\ Capital(u, w)
          /\ Len(u) = 2 => u[1] \notin Blank /\ u[2] \notin Blank
      <4> HIDE DEF s
      <4>1. Transliterated(s, flags, w).status = "OK"
        BY <2>4, <3>5, Zenon
      <4>2. LET i == Transliterated(s, flags, w).units
            IN  /\ i \in Seq(Ascii) /\ Len(i) <= 2 /\ Capital(i, w)
                /\ Len(i) = 2 => i[1] \notin Blank /\ i[2] \notin Blank
        BY <3>4, <4>1, UnitsCapital
      <4> QED
        BY <3>5, <4>2, Zenon
    <3> HIDE DEF q, u
    <3>7. PICK z \in g[q][v] : r = u \o z
      BY <3>3
    <3>8. z \in Seq(Ascii) /\ Capital(z, v)
      BY <1>2, <3>1, <3>2, <3>7
    <3>9. u \in Seq(Nat) /\ z \in Seq(Nat)
      <4>1. Ascii \subseteq Nat
        BY DEF Ascii
      <4> QED
        BY <3>6, <3>8, <4>1, SeqSubset
    <3>10. Capital(u \o z, w)
      BY <3>6, <3>8, <3>9, CapitalConcat
    <3>11. u \o z \in Seq(Ascii)
      BY <3>6, <3>8, ConcatProperties
    <3> QED
      BY <3>7, <3>10, <3>11
  <2> QED
    BY <2>2, <2>3, <2>4
<1> HIDE DEF g, Good
<1>3. \A k \in 0 .. n : k \in G
  <2>1. \A k \in 0 .. n : (\A q \in k + 1 .. n : q \in G) => k \in G
    BY <1>0, <1>2
  <2> HIDE DEF G
  <2> QED
    BY <1>0, <2>1, FromTheEnd
<1> QED
  BY <1>3 DEF Good, g

(* One ASCII character stays what it is, if it is a capital where one is    *)
(* asked for.                                                               *)
LEMMA AsciiAgain ==
    ASSUME NEW a \in Ascii, NEW r \in Seq(AnyByte), NEW v \in BOOLEAN,
           "UPPERCASE_FIRST" \in flags /\ v => a \notin Lower
    PROVE  Transliterated(<<a>> \o r, flags, v) = Done(1, <<a>>)
<1> DEFINE char == DecodeChar(<<a>> \o r)
<1>1. a \in Nat /\ a <= 127
  BY DEF Ascii
<1>2. EncodeChar(a) = <<a>> /\ IsValidCodePoint(a)
  BY <1>1, SMT DEF EncodeChar, IsValidCodePoint, IsSurrogate, MaxCodePoint
<1>3. char.status = "OK" /\ char.cp = a /\ char.used = 1
  <2>1. DecodeChar(EncodeChar(a) \o r) = [status |-> "OK", cp |-> a, used |-> Len(EncodeChar(a))]
    BY <1>1, <1>2, EncodedBack
  <2>2. Len(EncodeChar(a)) = 1
    BY <1>2
  <2>3. char = [status |-> "OK", cp |-> a, used |-> 1]
    BY <1>2, <2>1, <2>2, Zenon
  <2> HIDE DEF char
  <2> QED
    BY <2>3
<1> HIDE DEF char
<1>4. Latin(char.cp, flags) = <<a>> /\ <<a>> # << >> /\ <<a>>[1] = a
  BY <1>3, LatinOfAscii
<1>5. a \notin Lower => ToUpper(a) = a
  BY DEF ToUpper, Lower
<1>6. <<ToUpper(a)>> \o Tail(<<a>>) = <<ToUpper(a)>>
  <2>1. ToUpper(a) \in Nat
    BY <1>1, UpperNat
  <2> QED
    BY <1>1, <2>1
<1>7. /\ v /\ "UPPERCASE_FIRST" \in flags =>
            Transliterated(<<a>> \o r, flags, v) = Done(1, <<ToUpper(a)>> \o Tail(<<a>>))
      /\ ~(v /\ "UPPERCASE_FIRST" \in flags) => Transliterated(<<a>> \o r, flags, v) = Done(1, <<a>>)
  BY <1>3, <1>4, Zenon DEF Transliterated, char
<1> QED
  BY <1>5, <1>6, <1>7, Zenon

(* A text of that form is left alone.                                       *)
LEMMA LatinLeftAlone ==
    ASSUME NEW y \in Seq(Ascii), Capital(y, TRUE)
    PROVE  \A n \in 0 .. Len(y), v \in BOOLEAN :
               (v => Begins(y, n + 1, TRUE)) => Rest("ToLatin", y)[n][v] = {From(y, n)}
<1> DEFINE c == "ToLatin"
           e == Len(y)
           h == Rest(c, y)
           Good(n) == \A v \in BOOLEAN : (v => Begins(y, n + 1, TRUE)) => h[n][v] = {From(y, n)}
           G == {n \in 0 .. e : Good(n)}
<1>0. e \in Nat /\ y \in Seq(AnyByte) /\ UnitsOf(c) = AnyByte
  <2>1. Ascii \subseteq AnyByte
    <3> SUFFICES ASSUME NEW a \in Ascii PROVE a \in AnyByte
      OBVIOUS
    <3>1. a \in Nat /\ a <= 127
      BY DEF Ascii
    <3> QED
      BY <3>1 DEF AnyByte
  <2> QED
    BY <2>1, SeqSubset DEF UnitsOf
<1>1. \A s, w : Chunk(c, s, w) = Transliterated(s, flags, w)
  BY DEF Chunk
<1>2. ASSUME NEW n \in 0 .. e, \A q \in n + 1 .. e : Good(q)
      PROVE  Good(n)
  <2> SUFFICES ASSUME NEW v \in BOOLEAN, v => Begins(y, n + 1, TRUE)
               PROVE  h[n][v] = {From(y, n)}
    OBVIOUS
  <2>1. h[n][v] = RestAt(h, c, y, n, v)
    BY <1>0, RestEquation
  <2> HIDE DEF h
  <2>2. CASE n = e
    <3>1. From(y, n) \in Seq(Ascii) /\ Len(From(y, n)) = 0
      BY <1>0, <2>2, FromSize
    <3> QED
      BY <2>1, <2>2, <3>1, EmptySeq DEF RestAt
  <2>3. CASE n # e
    <3> DEFINE a == y[n + 1]
               m == n + 1
               r == From(y, m)
               v1 == WordStarts(v, <<a>>)
    <3>1. m \in 0 .. e /\ m \in n + 1 .. e /\ m \in 1 .. e /\ n \in Nat /\ n < e
      BY <1>0, <2>3
    <3>2. a \in Ascii
      BY <3>1
    <3>3. r \in Seq(AnyByte) /\ From(y, n) = <<a>> \o r
      <4>1. r \in Seq(AnyByte)
        BY <1>0, <3>1, FromSize
      <4>2. SubSeq(y, n + 1, n + 1) \o r = From(y, n)
        BY <3>1, FromLater
      <4>3. SubSeq(y, m, m) = <<a>> \o SubSeq(y, m + 1, m)
        <5>1. m \in 1 .. Len(y) /\ m \in m .. Len(y)
          BY <3>1
        <5> HIDE DEF m
        <5> QED
          BY <5>1, SubSeqRecursiveFirst DEF m
      <4>4. SubSeq(y, m + 1, m) = << >>
        BY <3>1, SubSeqEmpty
      <4>5. <<a>> \o << >> = <<a>>
        <5>1. <<a>> \in Seq(Ascii)
          BY <3>2
        <5> QED
          BY <5>1, ConcatEmptySeq
      <4> QED
        BY <4>1, <4>2, <4>3, <4>4, <4>5
    <3>4. "UPPERCASE_FIRST" \in flags /\ v => a \notin Lower
      BY <3>1, Zenon DEF Capital
    <3>5. v1 \in BOOLEAN
      BY WordStartsBoolean
    <3>6. v1 => Begins(y, m + 1, TRUE)
      <4>1. <<a>> # << >> /\ <<a>>[1] = a /\ m + 1 # 1 /\ (m + 1) - 1 = n + 1
        BY <3>1
      <4>2. v1 <=> a \in Blank
        BY <4>1, Zenon DEF WordStarts, Blank
      <4> QED
        BY <4>1, <4>2, Zenon DEF Begins
    <3> HIDE DEF a, r
    <3>7. Transliterated(<<a>> \o r, flags, v) = Done(1, <<a>>)
      BY <3>2, <3>3, <3>4, AsciiAgain
    <3>8. At(c, y, n, v) = Done(1, <<a>>)
      BY <1>1, <3>3, <3>7, AtChunk, Zenon DEF From
    <3>9. At(c, y, n, v).status = "OK" /\ At(c, y, n, v).used = 1 /\ At(c, y, n, v).units = <<a>>
      BY <3>8 DEF Done
    <3>10. h[n][v] = {<<a>> \o z : z \in h[m][v1]}
      BY <2>1, <2>3, <3>9, Zenon DEF RestAt
    <3>11. h[m][v1] = {r}
      <4>1. Good(m)
        BY <1>2, <3>1
      <4> QED
        BY <3>5, <3>6, <4>1, Zenon DEF r
    <3> QED
      BY <3>3, <3>10, <3>11
  <2> QED
    BY <2>2, <2>3
<1> HIDE DEF h, Good
<1>3. \A n \in 0 .. e : n \in G
  <2>1. \A n \in 0 .. e : (\A q \in n + 1 .. e : q \in G) => n \in G
    BY <1>0, <1>2
  <2> HIDE DEF G
  <2> QED
    BY <1>0, <2>1, FromTheEnd
<1> QED
  BY <1>3 DEF Good, h

LEMMA NormalForms ==
    ASSUME IInv, AsConverted
    PROVE  InNormalForm
<1> SUFFICES ASSUME status = "OK", conversion \in {"Normalize", "ToLatin"}
             PROVE  Converted(Result) = {Result} /\ (conversion = "ToLatin" => Capitalized)
  BY DEF InNormalForm, SecondPassSame, Capitalized
<1> DEFINE c == conversion
           t == Input
           y == Result
<1>1. in_place => c \in InPlaceConversions
  BY DEF IInv, InPlaceInv
<1>2. t \in Seq(UnitsOf(c)) /\ UnitsOf(c) = AnyByte
  BY InputText DEF UnitsOf
<1>3. y \in Rest(c, t)[0][TRUE]
  <2>1. Converted(t) = {y}
    BY DEF AsConverted, Inspections
  <2> QED
    BY <2>1 DEF Converted, ConvertedBy
<1>4. CASE c = "Normalize"
  <2> HIDE DEF c, t, y
  <2>1. \A p \in 0 .. Len(t), w \in BOOLEAN :
           p # Len(t) /\ At(c, t, p, w).status = "OK" =>
               LET units == At(c, t, p, w).units
               IN  /\ units \in Seq(UnitsOf(c))
                   /\ units # << >> =>
                          \A v \in BOOLEAN, r \in Seq(UnitsOf(c)) :
                              Chunk(c, units \o r, v) = Done(Len(units), units)
    <3> SUFFICES ASSUME NEW p \in 0 .. Len(t), NEW w \in BOOLEAN, At(c, t, p, w).status = "OK"
                 PROVE  LET units == At(c, t, p, w).units
                        IN  /\ units \in Seq(AnyByte)
                            /\ units # << >> =>
                                   \A v \in BOOLEAN, r \in Seq(AnyByte) :
                                       Chunk(c, units \o r, v) = Done(Len(units), units)
      BY <1>2, Zenon
    <3> DEFINE s == From(t, p)
    <3>1. s \in Seq(AnyByte)
      BY <1>2, FromSize
    <3>2. At(c, t, p, w) = Chunk("Normalize", s, w)
      BY <1>4, AtChunk, Zenon DEF From
    <3> HIDE DEF s
    <3>3. Chunk("Normalize", s, w).status = "OK"
      BY <3>2, Zenon
    <3>4. LET units == Chunk("Normalize", s, w).units
          IN  /\ units \in Seq(AnyByte)
              /\ units # << >> =>
                     \A v \in BOOLEAN, r \in Seq(AnyByte) :
                         Chunk("Normalize", units \o r, v) = Done(Len(units), units)
      BY <3>1, <3>3, NormalizedAgain
    <3> QED
      BY <1>4, <3>2, <3>4, Zenon
  <2>2. y \in Seq(UnitsOf(c))
    <3>1. \A p \in 0 .. Len(t), w \in BOOLEAN :
             p # Len(t) /\ At(c, t, p, w).status = "OK" => At(c, t, p, w).units \in Seq(UnitsOf(c))
      BY <2>1, Zenon
    <3>2. 0 \in 0 .. Len(t) /\ TRUE \in BOOLEAN
      BY <1>2
    <3>3. Rest(c, t)[0][TRUE] \subseteq Seq(UnitsOf(c))
      BY <1>1, <1>2, <3>1, <3>2, RestOver
    <3> QED
      BY <1>3, <3>3
  <2>3. From(y, 0) = y
    <3>1. 0 + 1 = 1
      OBVIOUS
    <3> QED
      BY <2>2, <3>1, SubSeqFull DEF From
  <2>4. 0 \in 0 .. Len(t) /\ 0 \in 0 .. Len(y) /\ TRUE \in BOOLEAN
    BY <1>2, <2>2
  <2>5. \A p \in 0 .. Len(t), n \in 0 .. Len(y), w \in BOOLEAN, v \in BOOLEAN :
           From(y, n) \in Rest(c, t)[p][w] => Rest(c, y)[n][v] = {From(y, n)}
    BY <1>1, <1>2, <2>1, <2>2, TextLeftAlone
  <2>6. Rest(c, y)[0][TRUE] = {y}
    BY <1>3, <2>3, <2>4, <2>5
  <2> QED
    BY <1>4, <2>6 DEF Converted, ConvertedBy, c, y
<1>5. CASE c = "ToLatin"
  <2>0. ~in_place
    BY <1>1, <1>5 DEF InPlaceConversions
  <2> HIDE DEF c, t, y
  <2>1. y \in Seq(Ascii) /\ Capital(y, TRUE)
    <3>1. 0 \in 0 .. Len(t) /\ TRUE \in BOOLEAN
      BY <1>2
    <3>2. \A p \in 0 .. Len(t), w \in BOOLEAN :
             \A r \in Rest("ToLatin", t)[p][w] : r \in Seq(Ascii) /\ Capital(r, w)
      BY <1>2, <2>0, TextCapital
    <3> QED
      BY <1>3, <1>5, <3>1, <3>2, Zenon
  <2>2. From(y, 0) = y /\ 0 \in 0 .. Len(y) /\ Begins(y, 0 + 1, TRUE)
    <3>1. 0 + 1 = 1
      OBVIOUS
    <3> QED
      BY <2>1, <3>1, SubSeqFull DEF From, Begins
  <2>3. Rest("ToLatin", y)[0][TRUE] = {y}
    <3>1. \A n \in 0 .. Len(y), v \in BOOLEAN :
             (v => Begins(y, n + 1, TRUE)) => Rest("ToLatin", y)[n][v] = {From(y, n)}
      BY <2>0, <2>1, LatinLeftAlone
    <3> QED
      BY <2>2, <3>1, Zenon
  <2>4. Converted(y) = {y}
    BY <1>5, <2>3, Zenon DEF Converted, ConvertedBy, c
  <2>5. \A i \in 1 .. Len(y) :
           /\ y[i] <= 127
           /\ "UPPERCASE_FIRST" \in flags /\ (i = 1 \/ y[i - 1] \in Blank) => y[i] \notin Lower
    <3> SUFFICES ASSUME NEW i \in 1 .. Len(y)
                 PROVE  /\ y[i] <= 127
                        /\ "UPPERCASE_FIRST" \in flags /\ (i = 1 \/ y[i - 1] \in Blank) => y[i] \notin Lower
      OBVIOUS
    <3>1. y[i] <= 127
      BY <2>1 DEF Ascii
    <3>2. "UPPERCASE_FIRST" \in flags /\ (i = 1 \/ y[i - 1] \in Blank) => y[i] \notin Lower
      BY <2>1, Zenon DEF Capital, Begins
    <3> QED
      BY <3>1, <3>2
  <2>6. Capitalized
    BY <2>5, Zenon DEF Capitalized, Blank, Lower, y
  <2> QED
    BY <2>4, <2>6 DEF y
<1> QED
  BY <1>4, <1>5

(* For every text, every choice of flags and every size of buffer: what is  *)
(* normalised is in normal form, and stays so; what is transliterated is    *)
(* ASCII, stays what it is, and every word in it begins with a capital if   *)
(* that was asked for (edc_persian.c:233-335, 410-530).                     *)
THEOREM NormalFormKept == Spec => []InNormalForm
<1>1. CInv => InNormalForm
  BY NormalForms DEF CInv
<1> QED
  BY <1>1, InitCInv, NextCInv, PTL DEF Spec

-----------------------------------------------------------------------------
(* Bytes and characters.  What a text decodes to, from p on.                *)
Codes(t, p) == Rest("UTF8_ToUTF32", t)[p][TRUE]

LEMMA CodeChunk ==
    ASSUME NEW t, NEW p, NEW w
    PROVE  LET char == DecodeChar(From(t, p))
               here == At("UTF8_ToUTF32", t, p, w)
           IN  /\ char.status # "OK" => here.status # "OK"
               /\ char.status = "OK" =>
                      here.status = "OK" /\ here.used = char.used /\ here.units = <<char.cp>>
<1> DEFINE s == From(t, p)
           char == DecodeChar(s)
<1>1. At("UTF8_ToUTF32", t, p, w) = ToCode(s)
  BY AtChunk DEF Chunk, From
<1> HIDE DEF char
<1>2. char.status # "OK" => ToCode(s) = Failed(char.status)
  BY DEF ToCode, char
<1>3. char.status = "OK" => ToCode(s) = Done(char.used, <<char.cp>>)
  BY DEF ToCode, char
<1> QED
  BY <1>1, <1>2, <1>3 DEF Failed, Done, char

LEMMA CodesHere ==
    ASSUME NEW t \in Seq(AnyByte), NEW p \in 0 .. Len(t)
    PROVE  LET char == DecodeChar(From(t, p))
           IN  /\ Codes(t, p) \subseteq Seq(Nat)
               /\ p = Len(t) => Codes(t, p) = {<< >>}
               /\ p # Len(t) /\ char.status # "OK" => Codes(t, p) = {}
               /\ p # Len(t) /\ char.status = "OK" =>
                      /\ char.used \in 1 .. 4 /\ p + char.used \in p + 1 .. Len(t)
                      /\ Codes(t, p) = {<<char.cp>> \o r : r \in Codes(t, p + char.used)}
<1> DEFINE c == "UTF8_ToUTF32"
           g == Rest(c, t)
           char == DecodeChar(From(t, p))
<1>0. t \in Seq(UnitsOf(c)) /\ TRUE \in BOOLEAN
  BY DEF UnitsOf
<1>1. \A q \in 0 .. Len(t), w \in BOOLEAN : g[q][w] = RestAt(g, c, t, q, w)
  BY <1>0, RestEquation
<1>2. \A q \in 0 .. Len(t), w \in BOOLEAN : g[q][w] = g[q][TRUE]
  <2> SUFFICES ASSUME NEW q \in 0 .. Len(t), NEW w \in BOOLEAN PROVE g[q][w] = g[q][TRUE]
    OBVIOUS
  <2>1. g[q][w] = RestAt(g, c, t, q, w) /\ g[q][TRUE] = RestAt(g, c, t, q, TRUE)
    BY <1>0, <1>1
  <2> HIDE DEF g
  <2>2. At(c, t, q, w) = At(c, t, q, TRUE)
    BY ChunkWord, AtChunk
  <2>3. CASE q # Len(t) /\ At(c, t, q, TRUE).status = "OK"
    <3>1. PICK a : At(c, t, q, TRUE).units = <<a>>
      BY <2>3, CodeChunk, Zenon
    <3>2. <<a>> # << >>
      OBVIOUS
    <3>3. WordStarts(w, <<a>>) = WordStarts(TRUE, <<a>>)
      BY <3>2, Zenon DEF WordStarts
    <3> QED
      BY <2>1, <2>2, <2>3, <3>1, <3>3, Zenon DEF RestAt
  <2> QED
    BY <2>1, <2>2, <2>3, Zenon DEF RestAt
<1>3. g[p][TRUE] \subseteq Seq(Nat) /\ g[p][TRUE] = RestAt(g, c, t, p, TRUE)
  BY <1>0, <1>1, RestType
<1>4. ASSUME p # Len(t), char.status = "OK"
      PROVE  /\ char.used \in 1 .. 4 /\ p + char.used \in p + 1 .. Len(t)
             /\ g[p][TRUE] = {<<char.cp>> \o r : r \in g[p + char.used][TRUE]}
  <2>1. /\ At(c, t, p, TRUE).status = "OK" /\ At(c, t, p, TRUE).used = char.used
        /\ At(c, t, p, TRUE).units = <<char.cp>>
    BY <1>4, CodeChunk
  <2>2. char.used \in 1 .. 4
    <3>1. From(t, p) \in Seq(AnyByte)
      BY FromSize
    <3> QED
      BY <1>4, <3>1, CharSize
  <2>3. p + char.used \in p + 1 .. Len(t)
    BY <1>0, <1>4, <2>1, AtSize
  <2>4. p + char.used \in 0 .. Len(t)
    <3>1. p \in Nat /\ Len(t) \in Nat
      OBVIOUS
    <3> HIDE DEF char
    <3> QED
      BY <2>3, <3>1
  <2>5. WordStarts(TRUE, <<char.cp>>) \in BOOLEAN
    BY WordStartsBoolean
  <2>6. g[p + char.used][WordStarts(TRUE, <<char.cp>>)] = g[p + char.used][TRUE]
    BY <1>2, <2>4, <2>5
  <2> HIDE DEF g, char
  <2>7. g[p][TRUE] = {<<char.cp>> \o r : r \in g[p + char.used][WordStarts(TRUE, <<char.cp>>)]}
    BY <1>3, <1>4, <2>1, Zenon DEF RestAt
  <2> QED
    BY <2>2, <2>3, <2>6, <2>7
<1>5. p = Len(t) => g[p][TRUE] = {<< >>}
  BY <1>3, Zenon DEF RestAt
<1>6. p # Len(t) /\ char.status # "OK" => g[p][TRUE] = {}
  <2>1. char.status # "OK" => At(c, t, p, TRUE).status # "OK"
    BY CodeChunk
  <2> QED
    BY <1>3, <2>1, Zenon DEF RestAt
<1> QED
  BY <1>3, <1>4, <1>5, <1>6, Zenon DEF Codes

(* Decoding a text is converting it to UTF-32: one recursive function is    *)
(* what the other one comes to.                                             *)
DecodedAt(g, t, p) ==
    IF p = Len(t) THEN {<< >>}
    ELSE LET char == DecodeChar(SubSeq(t, p + 1, Len(t)))
         IN  IF char.status # "OK" THEN {}
             ELSE {<<char.cp>> \o rest : rest \in g[p + char.used]}

IsDecoded(g, t) == g = [p \in 0 .. Len(t) |-> DecodedAt(g, t, p)]

LEMMA DecodedAtCodes ==
    ASSUME NEW t \in Seq(AnyByte), NEW p \in 0 .. Len(t),
           NEW g, \A q \in p + 1 .. Len(t) : g[q] = Codes(t, q)
    PROVE  DecodedAt(g, t, p) = Codes(t, p)
<1> DEFINE char == DecodeChar(From(t, p))
<1>1. /\ p = Len(t) => Codes(t, p) = {<< >>}
      /\ p # Len(t) /\ char.status # "OK" => Codes(t, p) = {}
      /\ p # Len(t) /\ char.status = "OK" =>
             /\ p + char.used \in p + 1 .. Len(t)
             /\ Codes(t, p) = {<<char.cp>> \o r : r \in Codes(t, p + char.used)}
  BY CodesHere
<1>2. DecodedAt(g, t, p) =
         IF p = Len(t) THEN {<< >>}
         ELSE IF char.status # "OK" THEN {}
         ELSE {<<char.cp>> \o r : r \in g[p + char.used]}
  BY Zenon DEF DecodedAt, From
<1> HIDE DEF char
<1> QED
  BY <1>1, <1>2

LEMMA DecodedCodes ==
    ASSUME NEW t \in Seq(AnyByte)
    PROVE  Decoded(t) = Codes(t, 0)
<1> DEFINE n == Len(t)
           h == [p \in 0 .. n |-> Codes(t, p)]
           f == CHOOSE g : IsDecoded(g, t)
           G == {p \in 0 .. n : f[p] = Codes(t, p)}
<1>0. n \in Nat
  OBVIOUS
<1>1. Decoded(t) = f[0]
  BY SMT DEF Decoded, IsDecoded, DecodedAt
<1>2. IsDecoded(h, t)
  <2>1. ASSUME NEW p \in 0 .. n PROVE h[p] = DecodedAt(h, t, p)
    <3>1. \A q \in p + 1 .. Len(t) : h[q] = Codes(t, q)
      BY <1>0
    <3>2. h[p] = Codes(t, p)
      OBVIOUS
    <3> HIDE DEF h
    <3> QED
      BY <3>1, <3>2, DecodedAtCodes
  <2>2. h = [p \in 0 .. n |-> h[p]]
    OBVIOUS
  <2> HIDE DEF h
  <2> QED
    BY <2>1, <2>2 DEF IsDecoded
<1>3. IsDecoded(f, t)
  BY <1>2, Zenon
<1> HIDE DEF f, h
<1>4. ASSUME NEW k \in 0 .. n, \A q \in k + 1 .. n : q \in G
      PROVE  k \in G
  <2>1. f[k] = DecodedAt(f, t, k)
    BY <1>3, Zenon DEF IsDecoded
  <2>2. \A q \in k + 1 .. Len(t) : f[q] = Codes(t, q)
    BY <1>4
  <2>3. f[k] = Codes(t, k)
    BY <2>1, <2>2, DecodedAtCodes
  <2> QED
    BY <2>3
<1>5. \A k \in 0 .. n : k \in G
  <2> HIDE DEF G
  <2> QED
    BY <1>0, <1>4, FromTheEnd
<1>6. 0 \in 0 .. n
  BY <1>0
<1> QED
  BY <1>1, <1>5, <1>6

(* A character is where its lead byte is.                                   *)
LEMMA LeadOfCharacter ==
    ASSUME NEW s \in Seq(AnyByte), DecodeChar(s).status = "OK"
    PROVE  LET w == DecodeChar(s).used
           IN  /\ w \in 1 .. 4 /\ w <= Len(s) /\ Width(s[1]) = w
               /\ \A i \in 2 .. w : s[i] \in 128 .. 191 /\ Width(s[i]) = 0
<1> DEFINE w == DecodeChar(s).used
<1>1. /\ w \in 1 .. 4 /\ w <= Len(s)
      /\ \E prefix \in Seq(AnyByte) :
             /\ Whole(prefix, w) /\ prefix[1] = s[1]
             /\ \A i \in 1 .. w : prefix[i] = s[i]
  BY DecodedWhole
<1> HIDE DEF w
<1>2. PICK prefix \in Seq(AnyByte) : /\ Whole(prefix, w) /\ prefix[1] = s[1]
                                     /\ \A i \in 1 .. w : prefix[i] = s[i]
  BY <1>1
<1>3. Width(s[1]) = w
  BY <1>2 DEF Whole
<1>4. ASSUME NEW i \in 2 .. w PROVE s[i] \in 128 .. 191 /\ Width(s[i]) = 0
  <2>1. i \in 1 .. w /\ i \in 1 .. Len(s)
    BY <1>1
  <2>2. IsContinuation(s[i]) /\ s[i] \in AnyByte
    BY <1>2, <2>1 DEF Whole
  <2>3. s[i] \in 128 .. 191
    BY <2>2, ContinuationBits
  <2>4. \A b \in 128 .. 191 : Width(b) = 0
    BY DEF Width
  <2> QED
    BY <2>3, <2>4, Zenon
<1> QED
  BY <1>1, <1>3, <1>4 DEF w

(* Decoding a text that goes on, or that breaks off behind the character.   *)
LEMMA DecodePrefix ==
    ASSUME NEW s \in Seq(AnyByte), s # << >>, NEW t \in Seq(AnyByte), Len(s) <= Len(t),
           \A i \in 1 .. Len(s) : t[i] = s[i]
    PROVE  /\ DecodeChar(s).status = "OK" => DecodeChar(t) = DecodeChar(s)
           /\ DecodeChar(t).status = "OK" /\ DecodeChar(t).used <= Len(s) =>
                  DecodeChar(s) = DecodeChar(t)
<1> DEFINE w == Width(s[1])
<1>1. Len(s) \in Nat /\ Len(s) >= 1 /\ Len(t) \in Nat /\ t # << >> /\ t[1] = s[1] /\ s[1] \in AnyByte
  OBVIOUS
<1>2. w \in 0 .. 4
  BY <1>1, LeadRange
<1>3. CASE w = 0
  BY <1>1, <1>3 DEF DecodeChar
<1>4. CASE w # 0 /\ Len(s) < w
  <2>1. DecodeChar(s).status # "OK"
    BY <1>4 DEF DecodeChar, Fail
  <2>2. DecodeChar(t).status = "OK" => DecodeChar(t).used = w
    BY <1>1, LeadOfCharacter
  <2> HIDE DEF w
  <2>3. ~(w <= Len(s))
    BY <1>1, <1>2, <1>4
  <2> QED
    BY <2>1, <2>2, <2>3
<1>5. CASE w # 0 /\ ~(Len(s) < w)
  <2> HIDE DEF w
  <2>1. w \in 1 .. 4 /\ w <= Len(s) /\ ~(Len(t) < w)
    BY <1>1, <1>2, <1>5
  <2>2. \A i \in 1 .. w : t[i] = s[i]
    BY <1>1, <2>1
  <2>3. Value(t, w) = Value(s, w)
    BY <2>1, <2>2, ValueOfPrefix
  <2>4. w > 1 => t[2] = s[2]
    BY <2>1, <2>2
  <2>5. (\A i \in 2 .. w : IsContinuation(t[i])) <=> (\A i \in 2 .. w : IsContinuation(s[i]))
    <3>1. \A i \in 2 .. w : t[i] = s[i]
      BY <2>1, <2>2
    <3> QED
      BY <3>1
  <2>6. (w > 1 => SecondByteOK(t[1], t[2])) <=> (w > 1 => SecondByteOK(s[1], s[2]))
    BY <1>1, <2>4
  <2> QED
    BY <1>1, <1>5, <2>1, <2>3, <2>5, <2>6, Zenon DEF DecodeChar, w
<1> QED
  BY <1>2, <1>3, <1>4, <1>5

(* Digits.  What the bytes of a character are matched with, is what the     *)
(* character is: only the bytes of a Persian or an Arabic digit match.      *)
LEMMA EnglishCode ==
    ASSUME NEW cp \in Nat, IsValidCodePoint(cp)
    PROVE  English(cp) \in Nat /\ IsValidCodePoint(English(cp))
<1>1. English(cp) = cp \/ English(cp) \in (48 .. 57) \cup {46, 44}
  BY SMT DEF English
<1>2. \A i \in (48 .. 57) \cup {46, 44} : i \in Nat /\ IsValidCodePoint(i)
  BY SMT DEF IsValidCodePoint, IsSurrogate, MaxCodePoint
<1> QED
  BY <1>1, <1>2

LEMMA EasternDigit ==
    ASSUME NEW a \in 194 .. 223, NEW b \in 128 .. 191, NEW cp, cp = (a - 192) * 64 + (b - 128)
    PROVE  AsciiOf(a, b) = IF English(cp) = cp THEN {} ELSE {English(cp)}
<1>1. CASE a = 219
  <2>1. cp = 1728 + (b - 128)
    BY <1>1
  <2>2. CASE b \in 176 .. 185
    BY <1>1, <2>1, <2>2 DEF AsciiOf, English
  <2>3. CASE b \notin 176 .. 185
    <3>1. AsciiOf(a, b) = {}
      BY <1>1, <2>3 DEF AsciiOf
    <3>2. English(cp) = cp
      BY <2>1, <2>3, SMT DEF English
    <3> QED
      BY <3>1, <3>2
  <2> QED
    BY <2>2, <2>3
<1>2. CASE a = 217
  <2>1. cp = 1600 + (b - 128)
    BY <1>2
  <2>2. CASE b \in 160 .. 169
    BY <1>2, <2>1, <2>2 DEF AsciiOf, English
  <2>3. CASE b \in {171, 172}
    BY <1>2, <2>1, <2>3 DEF AsciiOf, English
  <2>4. CASE b \notin (160 .. 169) \cup {171, 172}
    <3>1. AsciiOf(a, b) = {}
      BY <1>2, <2>4 DEF AsciiOf
    <3>2. English(cp) = cp
      BY <2>1, <2>4, SMT DEF English
    <3> QED
      BY <3>1, <3>2
  <2> QED
    BY <2>2, <2>3, <2>4
<1>3. CASE a # 219 /\ a # 217
  <2>1. AsciiOf(a, b) = {}
    BY <1>3 DEF AsciiOf
  <2>2. English(cp) = cp
    BY <1>3, SMT DEF English
  <2> QED
    BY <2>1, <2>2
<1> QED
  BY <1>1, <1>2, <1>3

LEMMA NoDigit ==
    ASSUME NEW a \in AnyByte, a \notin 194 .. 223, NEW b
    PROVE  AsciiOf(a, b) = {}
  BY DEF AsciiOf

LEMMA NoEasternDigit ==
    ASSUME NEW cp \in Nat, cp <= 127 \/ cp >= 2048
    PROVE  English(cp) = cp
  BY SMT DEF English

LEMMA WholeDigit ==
    ASSUME NEW w \in 1 .. 4, NEW u, Whole(u, w), w > 1 => Value(u, w) >= Shortest(w),
           NEW v, v = Value(u, w)
    PROVE      \/ /\ w = 2 /\ AsciiOf(u[1], u[2]) = {English(v)}
                  /\ English(v) \in Nat /\ English(v) <= 127
               \/ /\ English(v) = v /\ w = 2 /\ AsciiOf(u[1], u[2]) = {}
               \/ /\ English(v) = v /\ w # 2 /\ u[1] \in AnyByte /\ u[1] \notin 194 .. 223
<1>1. v \in Nat
  BY WholeNat
<1>2. CASE w = 1
  <2>1. u[1] \in 0 .. 127 /\ v = u[1]
    BY <1>2, WholeValue
  <2>2. u[1] \in AnyByte /\ u[1] \notin 194 .. 223 /\ v <= 127
    BY <2>1 DEF AnyByte
  <2>3. English(v) = v
    BY <1>1, <2>2, NoEasternDigit
  <2> QED
    BY <1>2, <2>2, <2>3
<1>3. CASE w = 2
  <2>1. /\ u[1] \in 194 .. 223 /\ u[2] \in 128 .. 191
        /\ v = (u[1] - 192) * 64 + (u[2] - 128)
    BY <1>3, WholeValue
  <2>2. AsciiOf(u[1], u[2]) = IF English(v) = v THEN {} ELSE {English(v)}
    BY <2>1, EasternDigit, Zenon
  <2>3. English(v) # v => English(v) \in Nat /\ English(v) <= 127
    BY <1>1, SMT DEF English
  <2> QED
    BY <1>3, <2>2, <2>3
<1>4. CASE w \in {3, 4}
  <2>1. v >= Shortest(w) /\ Shortest(w) \in Int /\ Shortest(w) >= 2048
    <3>1. \A n \in {3, 4} : Shortest(n) \in Int /\ Shortest(n) >= 2048
      BY SMT DEF Shortest
    <3>2. w > 1
      BY <1>4
    <3> QED
      BY <1>4, <3>1, <3>2
  <2>2. Width(u[1]) = w /\ u \in Seq(AnyByte) /\ Len(u) = w
    BY DEF Whole
  <2>3. English(v) = v
    <3>1. v >= 2048
      BY <1>1, <2>1
    <3> QED
      BY <1>1, <3>1, NoEasternDigit
  <2>4. u[1] \in AnyByte
    BY <2>2
  <2>5. u[1] \notin 194 .. 223
    BY <1>4, <2>2, <2>4, LeadRange
  <2> QED
    BY <1>4, <2>3, <2>4, <2>5
<1> QED
  BY <1>2, <1>3, <1>4

(* A character is either a digit of two bytes, or has no byte that begins   *)
(* one.                                                                     *)
LEMMA DigitOrNot ==
    ASSUME NEW s \in Seq(AnyByte), DecodeChar(s).status = "OK"
    PROVE  LET char == DecodeChar(s)
           IN  \/ /\ char.used = 2 /\ AsciiOf(s[1], s[2]) = {English(char.cp)}
                  /\ English(char.cp) \in Nat /\ English(char.cp) <= 127
               \/ /\ English(char.cp) = char.cp
                  /\ \A i \in 1 .. char.used :
                         \A b : (i < char.used => b = s[i + 1]) => AsciiOf(s[i], b) = {}
<1> DEFINE w == DecodeChar(s).used
           cp == DecodeChar(s).cp
           None(i) == \A b : (i < w => b = s[i + 1]) => AsciiOf(s[i], b) = {}
<1>1. /\ w \in 1 .. 4 /\ cp <= MaxCodePoint
      /\ \E prefix \in Seq(AnyByte) :
             /\ Whole(prefix, w) /\ prefix[1] = s[1]
             /\ \A i \in 1 .. w : prefix[i] = s[i]
             /\ w > 1 => SecondByteOK(prefix[1], prefix[2])
             /\ cp = Value(prefix, w)
  BY DecodedWhole
<1>2. \A i \in 2 .. w : s[i] \in 128 .. 191
  BY LeadOfCharacter
<1> HIDE DEF w, cp
<1>3. PICK prefix :
         /\ Whole(prefix, w) /\ prefix[1] = s[1]
         /\ \A i \in 1 .. w : prefix[i] = s[i]
         /\ w > 1 => SecondByteOK(prefix[1], prefix[2])
         /\ cp = Value(prefix, w)
  BY <1>1
<1>4. \A i \in 2 .. w : None(i)
  <2>1. \A a \in 128 .. 191 : a \in AnyByte /\ a \notin 194 .. 223
    BY DEF AnyByte
  <2>2. \A a \in 128 .. 191 : \A b : AsciiOf(a, b) = {}
    BY <2>1, NoDigit, Zenon
  <2> QED
    BY <1>2, <2>2, Zenon
<1>5. w > 1 => cp >= Shortest(w)
  <2> SUFFICES ASSUME w > 1 PROVE cp >= Shortest(w)
    OBVIOUS
  <2>1. w \in 2 .. 4
    BY <1>1
  <2>2. SecondByteOK(prefix[1], prefix[2]) /\ Value(prefix, w) <= MaxCodePoint
    BY <1>1, <1>3, Zenon
  <2> QED
    BY <1>3, <2>1, <2>2, TestsAgree, Zenon
<1>6. \/ /\ w = 2 /\ AsciiOf(prefix[1], prefix[2]) = {English(cp)}
         /\ English(cp) \in Nat /\ English(cp) <= 127
      \/ /\ English(cp) = cp /\ w = 2 /\ AsciiOf(prefix[1], prefix[2]) = {}
      \/ /\ English(cp) = cp /\ w # 2 /\ prefix[1] \in AnyByte /\ prefix[1] \notin 194 .. 223
  <2>1. w \in 1 .. 4 /\ Whole(prefix, w) /\ cp = Value(prefix, w)
    BY <1>1, <1>3, Zenon
  <2>2. w > 1 => Value(prefix, w) >= Shortest(w)
    BY <1>5, <2>1, Zenon
  <2> HIDE <1>1, <1>3, <1>5
  <2> QED
    BY <2>1, <2>2, WholeDigit, Zenon
<1>7. w = 2 => prefix[2] = s[2]
  <2>1. w = 2 => 2 \in 1 .. w
    OBVIOUS
  <2> QED
    BY <1>3, <2>1, Zenon
<1>8. None(1) => \A i \in 1 .. w : None(i)
  <2>1. \A i \in 1 .. w : i = 1 \/ i \in 2 .. w
    BY <1>1
  <2> HIDE DEF None
  <2> QED
    BY <1>4, <2>1, Zenon
<1>9. w = 2 => 1 < w /\ 1 + 1 = 2
  OBVIOUS
<1>10. \/ /\ w = 2 /\ AsciiOf(s[1], s[2]) = {English(cp)}
          /\ English(cp) \in Nat /\ English(cp) <= 127
       \/ English(cp) = cp /\ None(1)
  <2>1. CASE English(cp) = cp /\ w = 2 /\ AsciiOf(prefix[1], prefix[2]) = {}
    BY <1>3, <1>7, <1>9, <2>1, Zenon
  <2>2. CASE English(cp) = cp /\ w # 2 /\ prefix[1] \in AnyByte /\ prefix[1] \notin 194 .. 223
    BY <1>3, <2>2, NoDigit, Zenon
  <2> QED
    BY <1>3, <1>6, <1>7, <2>1, <2>2, Zenon
<1> HIDE DEF None
<1>11. \/ /\ w = 2 /\ AsciiOf(s[1], s[2]) = {English(cp)}
          /\ English(cp) \in Nat /\ English(cp) <= 127
       \/ English(cp) = cp /\ \A i \in 1 .. w : None(i)
  BY <1>8, <1>10, Zenon
<1> QED
  BY <1>11, Zenon DEF w, cp, None

(* A byte that begins no digit is copied; so are several.                   *)
LEMMA CopyByte ==
    ASSUME NEW t \in Seq(AnyByte), NEW q \in 0 .. Len(t), q # Len(t), NEW w \in BOOLEAN,
           AsciiOf(t[q + 1], t[q + 2]) = {}
    PROVE  q + 1 \in 0 .. Len(t) /\ \E v \in BOOLEAN :
               Rest("DigitsToEnglish", t)[q][w]
               = {<<t[q + 1]>> \o r : r \in Rest("DigitsToEnglish", t)[q + 1][v]}
<1> DEFINE c == "DigitsToEnglish"
           g == Rest(c, t)
           s == From(t, q)
           a == t[q + 1]
           v == WordStarts(w, <<a>>)
<1>1. q \in Nat /\ Len(t) \in Nat /\ q < Len(t) /\ q + 1 \in 0 .. Len(t)
  OBVIOUS
<1>2. /\ s \in Seq(AnyByte) /\ Len(s) = Len(t) - q
      /\ \A i \in 1 .. Len(t) - q : s[i] = t[q + i]
  BY FromSize
<1>3. s[1] = a /\ (Len(s) > 1 => s[2] = t[q + 2])
  <2> HIDE DEF s
  <2> QED
    BY <1>1, <1>2
<1>4. At(c, t, q, w) = Done(1, <<a>>)
  <2>1. At(c, t, q, w) = DigitToEnglish(s)
    BY AtChunk DEF Chunk, From
  <2> HIDE DEF s
  <2> QED
    BY <1>3, <2>1, Zenon DEF DigitToEnglish
<1>5. t \in Seq(UnitsOf(c))
  BY DEF UnitsOf
<1>6. g[q][w] = RestAt(g, c, t, q, w)
  BY <1>5, RestEquation
<1>7. v \in BOOLEAN
  BY WordStartsBoolean
<1> HIDE DEF g, a
<1>8. Done(1, <<a>>).status = "OK" /\ Done(1, <<a>>).used = 1 /\ Done(1, <<a>>).units = <<a>>
  BY DEF Done
<1>9. g[q][w] = {<<a>> \o r : r \in g[q + 1][v]}
  BY <1>4, <1>6, <1>8, Zenon DEF RestAt
<1> QED
  BY <1>1, <1>7, <1>9 DEF g, a

LEMMA CopyRun ==
    ASSUME NEW t \in Seq(AnyByte), NEW p \in 0 .. Len(t), NEW e \in p .. Len(t),
           \A q \in p + 1 .. e : AsciiOf(t[q], t[q + 1]) = {},
           NEW w \in BOOLEAN, NEW x \in Rest("DigitsToEnglish", t)[p][w]
    PROVE  \E v \in BOOLEAN : \E r \in Rest("DigitsToEnglish", t)[e][v] :
               x = SubSeq(t, p + 1, e) \o r
<1> DEFINE c == "DigitsToEnglish"
           g == Rest(c, t)
           Good(q) == p <= q => \A u \in BOOLEAN : \A y \in g[q][u] :
                          \E v \in BOOLEAN : \E r \in g[e][v] : y = SubSeq(t, q + 1, e) \o r
           G == {q \in 0 .. e : Good(q)}
<1>0. p \in Nat /\ e \in Nat /\ Len(t) \in Nat /\ e <= Len(t) /\ t \in Seq(UnitsOf(c))
  BY DEF UnitsOf
<1>1. \A q \in 0 .. Len(t), u \in BOOLEAN : g[q][u] \subseteq Seq(Nat)
  BY <1>0, RestType
<1>2. t \in Seq(Nat)
  BY BytesNat
<1> HIDE DEF g
<1>3. ASSUME NEW q \in 0 .. e, \A k \in q + 1 .. e : Good(k)
      PROVE  Good(q)
  <2> SUFFICES ASSUME p <= q, NEW u \in BOOLEAN, NEW y \in g[q][u]
               PROVE  \E v \in BOOLEAN : \E r \in g[e][v] : y = SubSeq(t, q + 1, e) \o r
    OBVIOUS
  <2>1. CASE q = e
    <3>1. SubSeq(t, q + 1, e) = << >>
      <4>1. q + 1 \in Int /\ e \in Int /\ e < q + 1
        BY <1>0, <2>1
      <4> QED
        BY <4>1, SubSeqEmpty
    <3>2. y \in Seq(Nat)
      <4>1. q \in 0 .. Len(t)
        BY <1>0
      <4> QED
        BY <1>1, <4>1
    <3>3. << >> \o y = y
      BY <3>2, ConcatEmptySeq
    <3> QED
      BY <2>1, <3>1, <3>3, Zenon
  <2>2. CASE q # e
    <3>1. q \in 0 .. Len(t) /\ q # Len(t) /\ q + 1 \in p + 1 .. e /\ q + 1 \in q + 1 .. e
      BY <1>0, <2>2
    <3>2. AsciiOf(t[q + 1], t[q + 2]) = {}
      <4>1. (q + 1) + 1 = q + 2
        BY <3>1
      <4>2. AsciiOf(t[q + 1], t[(q + 1) + 1]) = {}
        BY <3>1, Zenon
      <4> QED
        BY <4>1, <4>2
    <3>3. PICK v \in BOOLEAN : g[q][u] = {<<t[q + 1]>> \o r : r \in g[q + 1][v]}
      BY <3>1, <3>2, CopyByte DEF g
    <3>4. PICK z \in g[q + 1][v] : y = <<t[q + 1]>> \o z
      BY <3>3
    <3>5. Good(q + 1)
      BY <1>3, <3>1, Zenon
    <3>6. p <= q + 1
      BY <3>1
    <3>7. PICK v2 \in BOOLEAN : \E r \in g[e][v2] : z = SubSeq(t, (q + 1) + 1, e) \o r
      BY <3>5, <3>6
    <3>8. PICK r \in g[e][v2] : z = SubSeq(t, (q + 1) + 1, e) \o r
      BY <3>7
    <3> DEFINE h == <<t[q + 1]>>
               l == SubSeq(t, (q + 1) + 1, e)
    <3>9. SubSeq(t, q + 1, e) = h \o l
      <4>1. q + 1 \in 1 .. Len(t) /\ e \in q + 1 .. Len(t)
        BY <1>0, <3>1
      <4> QED
        BY <1>2, <4>1, SubSeqRecursiveFirst
    <3>10. h \in Seq(Nat) /\ l \in Seq(Nat) /\ r \in Seq(Nat)
      <4>1. q + 1 \in 1 .. Len(t) /\ e \in 0 .. Len(t)
        BY <1>0, <3>1
      <4>2. t[q + 1] \in Nat
        BY <1>2, <4>1, ElementOfSeq
      <4>3. \A i \in (q + 1) + 1 .. e : t[i] \in Nat
        <5>1. \A i \in (q + 1) + 1 .. e : i \in 1 .. Len(t)
          BY <1>0
        <5> QED
          BY <1>2, <5>1, ElementOfSeq
      <4>4. l \in Seq(Nat)
        <5>1. (q + 1) + 1 \in Int /\ e \in Int
          BY <1>0
        <5> QED
          BY <4>3, <5>1, SubSeqProperties
      <4> QED
        BY <1>1, <4>1, <4>2, <4>4
    <3> HIDE DEF h, l
    <3>11. (h \o l) \o r = h \o (l \o r)
      BY <3>10, ConcatAssociative
    <3>12. y = SubSeq(t, q + 1, e) \o r
      BY <3>4, <3>8, <3>9, <3>11, Zenon DEF h, l
    <3> QED
      BY <3>12
  <2> QED
    BY <2>1, <2>2
<1> HIDE DEF Good
<1>4. \A q \in 0 .. e : q \in G
  <2>1. \A q \in 0 .. e : (\A k \in q + 1 .. e : k \in G) => q \in G
    <3>1. \A q \in 0 .. e : \A k \in q + 1 .. e : k \in 0 .. e
      BY <1>0
    <3> QED
      BY <1>3, <3>1
  <2> HIDE DEF G
  <2> QED
    BY <1>0, <2>1, FromTheEnd
<1>5. Good(p)
  <2>1. p \in 0 .. e
    BY <1>0
  <2> QED
    BY <1>4, <2>1
<1>6. p <= p
  BY <1>0
<1> QED
  BY <1>5, <1>6 DEF Good, g

(* Whatever the English digits of a text are found in, it is its characters *)
(* that are turned into English ones.                                       *)
LEMMA EnglishCharacter ==
    ASSUME NEW t \in Seq(AnyByte), NEW p \in 0 .. Len(t), p # Len(t),
           DecodeChar(From(t, p)).status = "OK",
           NEW w \in BOOLEAN, NEW x \in Rest("DigitsToEnglish", t)[p][w]
    PROVE  LET char == DecodeChar(From(t, p))
           IN  \E v \in BOOLEAN : \E r \in Rest("DigitsToEnglish", t)[p + char.used][v] :
                   x = EncodeChar(English(char.cp)) \o r
<1> DEFINE c == "DigitsToEnglish"
           g == Rest(c, t)
           s == From(t, p)
           k == DecodeChar(s).used
           cp == DecodeChar(s).cp
<1>1. p \in Nat /\ Len(t) \in Nat /\ p < Len(t) /\ t \in Seq(UnitsOf(c))
  BY DEF UnitsOf
<1>2. /\ s \in Seq(AnyByte) /\ Len(s) = Len(t) - p
      /\ \A i \in 1 .. Len(t) - p : s[i] = t[p + i]
  BY FromSize
<1>3. /\ EncodeChar(cp) = SubSeq(s, 1, k)
      /\ k \in 1 .. Len(s) /\ cp \in Nat
  BY <1>2, DecodedBack
<1>4. \/ /\ k = 2 /\ AsciiOf(s[1], s[2]) = {English(cp)}
         /\ English(cp) \in Nat /\ English(cp) <= 127
      \/ /\ English(cp) = cp
         /\ \A i \in 1 .. k : \A b : (i < k => b = s[i + 1]) => AsciiOf(s[i], b) = {}
  BY <1>2, DigitOrNot
<1> HIDE DEF k, cp
<1>5. ASSUME k = 2, AsciiOf(s[1], s[2]) = {English(cp)}, English(cp) \in Nat, English(cp) <= 127
      PROVE  \E v \in BOOLEAN : \E r \in g[p + k][v] : x = EncodeChar(English(cp)) \o r
  <2> DEFINE d == English(cp)
             v == WordStarts(w, <<d>>)
  <2>1. At(c, t, p, w) = DigitToEnglish(s)
    BY AtChunk DEF Chunk, From
  <2>2. EncodeChar(d) = <<d>>
    BY <1>5 DEF EncodeChar
  <2>3. Len(s) > 1
    <3> HIDE DEF s
    <3> QED
      BY <1>1, <1>2, <1>3, <1>5
  <2>4. g[p][w] = RestAt(g, c, t, p, w)
    BY <1>1, RestEquation
  <2>5. v \in BOOLEAN
    BY WordStartsBoolean
  <2> HIDE DEF s, g, d
  <2>6. AsciiOf(s[1], s[2]) = {d}
    BY <1>5 DEF d
  <2>7. (CHOOSE z \in AsciiOf(s[1], s[2]) : TRUE) = d /\ AsciiOf(s[1], s[2]) # {}
    BY <2>6
  <2>8. At(c, t, p, w) = Done(2, <<d>>)
    BY <2>1, <2>3, <2>7, Zenon DEF DigitToEnglish
  <2>9. Done(2, <<d>>).status = "OK" /\ Done(2, <<d>>).used = 2 /\ Done(2, <<d>>).units = <<d>>
    BY DEF Done
  <2>10. g[p][w] = {<<d>> \o r : r \in g[p + 2][v]}
    BY <2>4, <2>8, <2>9, Zenon DEF RestAt
  <2>11. PICK r \in g[p + 2][v] : x = <<d>> \o r
    BY <2>10 DEF g
  <2>12. x = EncodeChar(English(cp)) \o r
    BY <2>2, <2>11, Zenon DEF d
  <2>13. r \in g[p + k][v]
    BY <1>5, <2>11, Zenon
  <2> QED
    BY <2>5, <2>12, <2>13, Zenon
<1>6. ASSUME English(cp) = cp,
             \A i \in 1 .. k : \A b : (i < k => b = s[i + 1]) => AsciiOf(s[i], b) = {}
      PROVE  \E v \in BOOLEAN : \E r \in g[p + k][v] : x = EncodeChar(English(cp)) \o r
  <2>1. p + k \in p .. Len(t) /\ k \in Nat /\ k >= 1 /\ k <= Len(t) - p
    <3> HIDE DEF s
    <3> QED
      BY <1>1, <1>2, <1>3
  <2>2. ASSUME NEW q \in p + 1 .. p + k PROVE AsciiOf(t[q], t[q + 1]) = {}
    <3> DEFINE i == q - p
    <3>1. i \in 1 .. k /\ p + i = q /\ i \in 1 .. Len(t) - p
      BY <1>1, <2>1
    <3>2. s[i] = t[q]
      <4> HIDE DEF s, i
      <4> QED
        BY <1>2, <3>1
    <3>3. i < k => t[q + 1] = s[i + 1]
      <4>1. i < k => i + 1 \in 1 .. Len(t) - p /\ p + (i + 1) = q + 1
        BY <1>1, <2>1, <3>1
      <4> HIDE DEF s, i
      <4> QED
        BY <1>2, <4>1
    <3> HIDE DEF s, i
    <3> QED
      BY <1>6, <3>1, <3>2, <3>3, Zenon
  <2>3. \E v \in BOOLEAN : \E r \in g[p + k][v] : x = SubSeq(t, p + 1, p + k) \o r
    <3> DEFINE e == p + k
    <3>1. e \in p .. Len(t) /\ \A q \in p + 1 .. e : AsciiOf(t[q], t[q + 1]) = {}
      BY <2>1, <2>2
    <3> HIDE DEF e
    <3> HIDE <1>4, <1>6, <2>2
    <3>2. \E v \in BOOLEAN : \E r \in g[e][v] : x = SubSeq(t, p + 1, e) \o r
      BY <3>1, CopyRun
    <3> QED
      BY <3>2 DEF e
  <2>4. SubSeq(s, 1, k) = SubSeq(t, p + 1, p + k)
    <3>1. /\ p + 1 \in 1 .. Len(t) /\ Len(t) \in 1 .. Len(t)
          /\ 1 \in 1 .. Len(t) - (p + 1) + 1 /\ k \in 1 .. Len(t) - (p + 1) + 1
      BY <1>1, <2>1
    <3>2. SubSeq(SubSeq(t, p + 1, Len(t)), 1, k) = SubSeq(t, (p + 1) + 1 - 1, (p + 1) + k - 1)
      BY <3>1, SubSeqOfSubSeq
    <3>3. (p + 1) + 1 - 1 = p + 1 /\ (p + 1) + k - 1 = p + k
      BY <1>1, <2>1
    <3> QED
      BY <3>2, <3>3 DEF From
  <2> HIDE DEF s, g
  <2> QED
    BY <1>3, <1>6, <2>3, <2>4, Zenon
<1> QED
  BY <1>4, <1>5, <1>6, Zenon DEF k, cp

LEMMA EnglishBytes ==
    ASSUME NEW t \in Seq(AnyByte), NEW p \in 0 .. Len(t), p # Len(t), NEW w
    PROVE  At("DigitsToEnglish", t, p, w).units \in Seq(AnyByte)
<1> DEFINE s == From(t, p)
           chunk == At("DigitsToEnglish", t, p, w)
<1>1. p \in Nat /\ Len(t) \in Nat /\ p < Len(t)
  OBVIOUS
<1>2. /\ s \in Seq(AnyByte) /\ Len(s) = Len(t) - p
  BY FromSize
<1>3. chunk = DigitToEnglish(s)
  BY AtChunk DEF Chunk, From
<1> HIDE DEF s
<1>4. CASE Len(s) > 1 /\ AsciiOf(s[1], s[2]) # {}
  <2> DEFINE a == CHOOSE c \in AsciiOf(s[1], s[2]) : TRUE
  <2>1. a \in AsciiOf(s[1], s[2])
    BY <1>4
  <2>2. s[1] \in AnyByte /\ s[2] \in AnyByte
    BY <1>2, <1>4
  <2> HIDE DEF a
  <2>3. a \in AnyByte
    <3>1. \A i \in AnyByte, j \in AnyByte : \A k \in AsciiOf(i, j) : k \in AnyByte
      <4>1. \A i, j : \A k \in AsciiOf(i, j) :
               k \in {46, 44} \/ (j \in 176 .. 185 /\ k = 48 + (j - 176))
               \/ (j \in 160 .. 169 /\ k = 48 + (j - 160))
        BY Zenon DEF AsciiOf
      <4>2. 46 \in AnyByte /\ 44 \in AnyByte
        BY DEF AnyByte
      <4> QED
        BY <4>1, <4>2, DigitBytes
    <3> QED
      BY <2>1, <2>2, <3>1, Zenon
  <2>4. chunk = Done(2, <<a>>)
    BY <1>3, <1>4, Zenon DEF DigitToEnglish, a
  <2>5. <<a>> \in Seq(AnyByte)
    BY <2>3
  <2> DEFINE u == <<a>>
  <2> HIDE DEF u, chunk
  <2>6. Done(2, u).units = u
    BY DEF Done
  <2> QED
    BY <2>4, <2>5, <2>6, Zenon DEF u, chunk
<1>5. CASE ~(Len(s) > 1 /\ AsciiOf(s[1], s[2]) # {})
  <2>1. chunk = Done(1, <<s[1]>>)
    BY <1>3, <1>5, Zenon DEF DigitToEnglish
  <2>2. s[1] \in AnyByte
    BY <1>1, <1>2
  <2> DEFINE a == s[1]
  <2> HIDE DEF a
  <2>3. <<a>> \in Seq(AnyByte)
    BY <2>2 DEF a
  <2>4. chunk = Done(1, <<a>>)
    BY <2>1 DEF a
  <2> DEFINE u == <<a>>
  <2> HIDE DEF u, chunk
  <2>5. Done(1, u).units = u
    BY DEF Done
  <2> QED
    BY <2>3, <2>4, <2>5, Zenon DEF u, chunk
<1> QED
  BY <1>4, <1>5

Digitised(cps) == [i \in 1 .. Len(cps) |-> English(cps[i])]

LEMMA EnglishNat == \A i \in Nat : English(i) \in Nat
<1>1. \A i \in Nat : English(i) = i \/ English(i) \in (48 .. 57) \cup {46, 44}
  BY SMT DEF English
<1> QED
  BY <1>1

LEMMA DigitisedSize ==
    ASSUME NEW x \in Seq(Nat)
    PROVE  /\ Digitised(x) \in Seq(Nat) /\ Len(Digitised(x)) = Len(x)
           /\ \A i \in 1 .. Len(x) : Digitised(x)[i] = English(x[i])
<1>1. Len(x) \in Nat /\ \A i \in 1 .. Len(x) : x[i] \in Nat
  OBVIOUS
<1>2. \A i \in 1 .. Len(x) : English(x[i]) \in Nat
  BY <1>1, EnglishNat
<1> QED
  BY <1>1, <1>2 DEF Digitised

LEMMA OneAndRest ==
    ASSUME NEW S, NEW a \in S, NEW z \in Seq(S)
    PROVE  /\ <<a>> \o z \in Seq(S) /\ Len(<<a>> \o z) = 1 + Len(z)
           /\ (<<a>> \o z)[1] = a
           /\ \A i \in 2 .. 1 + Len(z) : (<<a>> \o z)[i] = z[i - 1]
<1> DEFINE h == <<a>>
<1>1. h \in Seq(S) /\ Len(h) = 1 /\ h[1] = a
  OBVIOUS
<1> HIDE DEF h
<1>2. /\ h \o z \in Seq(S) /\ Len(h \o z) = Len(h) + Len(z)
      /\ \A i \in 1 .. Len(h) + Len(z) : (h \o z)[i] = IF i <= Len(h) THEN h[i] ELSE z[i - Len(h)]
  BY <1>1, ConcatProperties
<1>3. Len(z) \in Nat
  OBVIOUS
<1> QED
  BY <1>1, <1>2, <1>3 DEF h

LEMMA DigitisedConcat ==
    ASSUME NEW cp \in Nat, NEW cs \in Seq(Nat)
    PROVE  Digitised(<<cp>> \o cs) = <<English(cp)>> \o Digitised(cs)
<1> DEFINE x == <<cp>> \o cs
           l == Digitised(cs)
           a == Digitised(x)
           d == English(cp)
           z == <<d>> \o l
<1>1. /\ x \in Seq(Nat) /\ Len(x) = 1 + Len(cs) /\ x[1] = cp
      /\ \A i \in 2 .. 1 + Len(cs) : x[i] = cs[i - 1]
  BY OneAndRest
<1> HIDE DEF x
<1>2. d \in Nat
  BY EnglishNat
<1> HIDE DEF d
<1>3. l \in Seq(Nat) /\ Len(l) = Len(cs) /\ \A i \in 1 .. Len(cs) : l[i] = English(cs[i])
  BY DigitisedSize
<1>4. /\ a \in Seq(Nat) /\ Len(a) = 1 + Len(cs)
      /\ \A i \in 1 .. 1 + Len(cs) : a[i] = English(x[i])
  BY <1>1, DigitisedSize
<1> HIDE DEF l, a
<1>5. /\ z \in Seq(Nat) /\ Len(z) = 1 + Len(l) /\ z[1] = d
      /\ \A i \in 2 .. 1 + Len(l) : z[i] = l[i - 1]
  BY <1>2, <1>3, OneAndRest
<1>6. Len(cs) \in Nat
  OBVIOUS
<1> HIDE DEF z
<1>7. ASSUME NEW i \in 1 .. 1 + Len(cs) PROVE a[i] = z[i]
  <2>1. CASE i = 1
    BY <1>1, <1>4, <1>5, <2>1 DEF d
  <2>2. CASE i # 1
    <3>1. i \in 2 .. 1 + Len(cs) /\ i - 1 \in 1 .. Len(cs)
      BY <1>6, <2>2
    <3>2. x[i] = cs[i - 1] /\ l[i - 1] = English(cs[i - 1])
      BY <1>1, <1>3, <3>1
    <3>3. a[i] = English(x[i]) /\ z[i] = l[i - 1]
      BY <1>3, <1>4, <1>5, <3>1
    <3> QED
      BY <3>2, <3>3
  <2> QED
    BY <2>1, <2>2
<1>8. a = z
  <2>1. Len(a) = Len(z) /\ Len(a) = 1 + Len(cs)
    BY <1>3, <1>4, <1>5
  <2> QED
    BY <1>4, <1>5, <1>7, <2>1, SeqEqual
<1> QED
  BY <1>8 DEF a, z, l, x, d

LEMMA DigitsDecoded ==
    ASSUME NEW t \in Seq(AnyByte), NEW y \in Seq(AnyByte)
    PROVE  \A p \in 0 .. Len(t), n \in 0 .. Len(y), w \in BOOLEAN :
               From(y, n) \in Rest("DigitsToEnglish", t)[p][w] =>
                   \A cps \in Codes(t, p) : Codes(y, n) = {Digitised(cps)}
<1> DEFINE c == "DigitsToEnglish"
           g == Rest(c, t)
           Good(p) == \A n \in 0 .. Len(y), w \in BOOLEAN :
                          From(y, n) \in g[p][w] =>
                              \A cps \in Codes(t, p) : Codes(y, n) = {Digitised(cps)}
           G == {p \in 0 .. Len(t) : Good(p)}
<1>0. Len(t) \in Nat /\ Len(y) \in Nat /\ t \in Seq(UnitsOf(c))
  BY DEF UnitsOf
<1>1. \A p \in 0 .. Len(t), u \in BOOLEAN :
         g[p][u] \subseteq Seq(Nat) /\ g[p][u] = RestAt(g, c, t, p, u)
  BY <1>0, RestType, RestEquation
<1> HIDE DEF g
<1>2. \A n \in 0 .. Len(y), u \in Seq(Nat), x \in Seq(Nat) :
         From(y, n) = u \o x => n + Len(u) <= Len(y) /\ From(y, n + Len(u)) = x
  <2>1. y \in Seq(Nat)
    BY BytesNat
  <2> QED
    BY <2>1, FromConcat
<1>3. ASSUME NEW p \in 0 .. Len(t), \A q \in p + 1 .. Len(t) : Good(q)
      PROVE  Good(p)
  <2> SUFFICES ASSUME NEW n \in 0 .. Len(y), NEW w \in BOOLEAN, From(y, n) \in g[p][w],
                      NEW cps \in Codes(t, p)
               PROVE  Codes(y, n) = {Digitised(cps)}
    OBVIOUS
  <2>1. From(y, n) \in Seq(AnyByte) /\ Len(From(y, n)) = Len(y) - n
    BY FromSize
  <2>2. CASE p = Len(t)
    <3>1. g[p][w] = {<< >>} /\ Codes(t, p) = {<< >>}
      <4>1. g[p][w] = RestAt(g, c, t, p, w)
        BY <1>1
      <4>2. g[p][w] = {<< >>}
        BY <2>2, <4>1, Zenon DEF RestAt
      <4> QED
        BY <2>2, <4>2, CodesHere, Zenon
    <3>2. From(y, n) = << >> /\ cps = << >>
      BY <3>1
    <3>3. n = Len(y)
      <4>1. Len(From(y, n)) = 0
        BY <3>2
      <4> QED
        BY <1>0, <2>1, <4>1
    <3>4. Codes(y, n) = {<< >>}
      BY <3>3, CodesHere, Zenon
    <3>5. Digitised(<< >>) = << >>
      BY DEF Digitised
    <3> QED
      BY <3>2, <3>4, <3>5, Zenon
  <2>3. CASE p # Len(t)
    <3> DEFINE char == DecodeChar(From(t, p))
               k == char.used
               cp == char.cp
               e == EncodeChar(English(cp))
    <3>1. char.status = "OK"
      BY <2>3, CodesHere
    <3>2. /\ k \in 1 .. 4 /\ p + k \in p + 1 .. Len(t)
          /\ Codes(t, p) = {<<cp>> \o r : r \in Codes(t, p + k)}
      BY <2>3, <3>1, CodesHere, Zenon
    <3>3. cp \in Nat /\ IsValidCodePoint(cp)
      <4>1. From(t, p) \in Seq(AnyByte)
        BY FromSize
      <4> QED
        BY <3>1, <4>1, DecodedBack
    <3>4. PICK v \in BOOLEAN : \E r \in g[p + k][v] : From(y, n) = e \o r
      BY <2>3, <3>1, EnglishCharacter DEF g
    <3>5. PICK r \in g[p + k][v] : From(y, n) = e \o r
      BY <3>4
    <3>6. English(cp) \in Nat /\ IsValidCodePoint(English(cp))
      BY <3>3, EnglishCode
    <3>7. PICK cs \in Codes(t, p + k) : cps = <<cp>> \o cs
      BY <3>2
    <3> HIDE DEF char, k, cp
    <3> DEFINE b == English(cp)
    <3>8. b \in Nat /\ IsValidCodePoint(b) /\ e = EncodeChar(b)
      BY <3>6
    <3> HIDE DEF b, e
    <3>9. e \in Seq(AnyByte) /\ e # << >>
      <4>1. << >> \in Seq(AnyByte)
        OBVIOUS
      <4> QED
        BY <3>8, <4>1, EncodedBack
    <3>10. p + k \in 0 .. Len(t)
      BY <1>0, <3>2
    <3>11. r \in Seq(Nat)
      BY <1>1, <3>5, <3>10
    <3> DEFINE m == n + Len(e)
    <3>12. m <= Len(y) /\ From(y, m) = r
      <4>1. e \in Seq(Nat) /\ y \in Seq(Nat)
        BY <3>9, BytesNat
      <4> QED
        BY <1>2, <3>5, <3>11, <4>1, Zenon
    <3>13. Len(e) \in Nat /\ Len(e) >= 1
      BY <3>9
    <3>14. m \in 0 .. Len(y) /\ n # Len(y)
      BY <1>0, <3>12, <3>13
    <3>15. r \in Seq(AnyByte)
      BY <3>12, <3>14, FromSize
    <3>16. DecodeChar(From(y, n)) = [status |-> "OK", cp |-> b, used |-> Len(e)]
      BY <3>5, <3>8, <3>15, EncodedBack
    <3>17. Codes(y, m) = {Digitised(cs)}
      <4>1. Good(p + k)
        BY <1>3, <3>2
      <4> HIDE DEF m
      <4> QED
        BY <3>5, <3>7, <3>12, <3>14, <4>1, Zenon
    <3>18. Codes(y, n) = {<<b>> \o x : x \in Codes(y, m)}
      <4> DEFINE there == DecodeChar(From(y, n))
      <4>1. there.status = "OK" /\ there.cp = b /\ there.used = Len(e)
        BY <3>16
      <4> HIDE DEF there
      <4>2. there.status = "OK" => Codes(y, n) = {<<there.cp>> \o x : x \in Codes(y, n + there.used)}
        BY <3>14, CodesHere, Zenon DEF there
      <4> QED
        BY <4>1, <4>2, Zenon
    <3>19. Codes(y, n) = {<<b>> \o Digitised(cs)}
      <4> DEFINE x == Digitised(cs)
      <4> HIDE DEF x, m
      <4> QED
        BY <3>17, <3>18, Zenon DEF x
    <3>20. cs \in Seq(Nat)
      <4>1. Codes(t, p + k) \subseteq Seq(Nat)
        BY <3>10, CodesHere
      <4> QED
        BY <3>7, <4>1
    <3>21. Digitised(cps) = <<English(cp)>> \o Digitised(cs)
      BY <3>3, <3>7, <3>20, DigitisedConcat
    <3> QED
      BY <3>19, <3>21, Zenon DEF b
  <2> QED
    BY <2>2, <2>3
<1> HIDE DEF Good
<1>4. \A p \in 0 .. Len(t) : p \in G
  <2>1. \A p \in 0 .. Len(t) : (\A q \in p + 1 .. Len(t) : q \in G) => p \in G
    BY <1>3
  <2> HIDE DEF G
  <2> QED
    BY <1>0, <2>1, FromTheEnd
<1> QED
  BY <1>4 DEF Good, g

(* The digits that are matched byte by byte are those of the characters.    *)
LEMMA BytesCharacters ==
    ASSUME IInv, AsConverted
    PROVE  BytesAsCharacters
<1> SUFFICES ASSUME status = "OK", conversion = "DigitsToEnglish", NEW cps \in Decoded(Input)
             PROVE  Decoded(Result) = {Digitised(cps)}
  BY Zenon DEF BytesAsCharacters, Digitised
<1> DEFINE c == "DigitsToEnglish"
           t == Input
           y == Result
<1>1. t \in Seq(AnyByte) /\ t \in Seq(UnitsOf(c))
  <2>1. t \in Seq(UnitsOf(conversion))
    BY InputText
  <2> QED
    BY <2>1 DEF UnitsOf
<1>2. y \in Rest(c, t)[0][TRUE]
  <2>1. Converted(t) = {y}
    BY DEF AsConverted, Inspections
  <2> QED
    BY <2>1 DEF Converted, ConvertedBy
<1>3. cps \in Codes(t, 0)
  BY <1>1, DecodedCodes
<1> HIDE DEF t, y
<1>4. y \in Seq(AnyByte)
  <2>1. \A p \in 0 .. Len(t), w \in BOOLEAN :
           p # Len(t) /\ At(c, t, p, w).status = "OK" => At(c, t, p, w).units \in Seq(AnyByte)
    BY <1>1, EnglishBytes
  <2>2. 0 \in 0 .. Len(t) /\ TRUE \in BOOLEAN
    BY <1>1
  <2>3. Rest(c, t)[0][TRUE] \subseteq Seq(AnyByte)
    BY <1>1, <2>1, <2>2, RestOver
  <2> QED
    BY <1>2, <2>3
<1>5. From(y, 0) = y
  <2>1. 0 + 1 = 1
    OBVIOUS
  <2> QED
    BY <1>4, <2>1, SubSeqFull DEF From
<1>6. 0 \in 0 .. Len(t) /\ 0 \in 0 .. Len(y) /\ TRUE \in BOOLEAN
  BY <1>1, <1>4
<1>7. Codes(y, 0) = {Digitised(cps)}
  <2>1. \A p \in 0 .. Len(t), n \in 0 .. Len(y), w \in BOOLEAN :
           From(y, n) \in Rest(c, t)[p][w] =>
               \A z \in Codes(t, p) : Codes(y, n) = {Digitised(z)}
    BY <1>1, <1>4, DigitsDecoded
  <2> QED
    BY <1>2, <1>3, <1>5, <1>6, <2>1, Zenon
<1> QED
  BY <1>4, <1>7, DecodedCodes DEF y

-----------------------------------------------------------------------------
(* Lengths.  A lead byte for every character, and nothing else that counts: *)
(* those among the first p bytes that begin one of width bytes or more.     *)
Leads(t, p, width) == Cardinality({i \in 1 .. p : Width(t[i]) >= width})

LEMMA LeadsNone ==
    ASSUME NEW t, NEW width
    PROVE  Leads(t, 0, width) = 0
<1>1. {i \in 1 .. 0 : Width(t[i]) >= width} = {}
  OBVIOUS
<1> QED
  BY <1>1, FS_EmptySet, Zenon DEF Leads

LEMMA LeadsNat ==
    ASSUME NEW t, NEW p \in Nat, NEW width
    PROVE  Leads(t, p, width) \in Nat
<1> DEFINE S == {i \in 1 .. p : Width(t[i]) >= width}
<1>1. IsFiniteSet(1 .. p)
  BY FS_Interval
<1>2. S \subseteq 1 .. p
  OBVIOUS
<1>3. IsFiniteSet(S)
  BY <1>1, <1>2, FS_Subset
<1> HIDE DEF S
<1>4. Cardinality(S) \in Nat
  BY <1>3, FS_CardinalityType
<1> QED
  BY <1>4 DEF Leads, S

LEMMA LeadsStep ==
    ASSUME NEW t \in Seq(AnyByte), NEW p \in 0 .. Len(t), p # Len(t),
           DecodeChar(From(t, p)).status = "OK", NEW width \in 1 .. 4
    PROVE  LET used == DecodeChar(From(t, p)).used
           IN  Leads(t, p + used, width)
               = Leads(t, p, width) + (IF used >= width THEN 1 ELSE 0)
<1> DEFINE s == From(t, p)
           k == DecodeChar(s).used
           IsLead(i) == Width(t[i]) >= width
           S == {i \in 1 .. p : IsLead(i)}
           T == {i \in 1 .. p + k : IsLead(i)}
<1>1. p \in Nat /\ Len(t) \in Nat
  OBVIOUS
<1>2. /\ s \in Seq(AnyByte) /\ Len(s) = Len(t) - p
      /\ \A i \in 1 .. Len(t) - p : s[i] = t[p + i]
  BY FromSize
<1>3. /\ k \in 1 .. 4 /\ k <= Len(s) /\ Width(s[1]) = k
      /\ \A i \in 2 .. k : Width(s[i]) = 0
  BY <1>2, LeadOfCharacter
<1> HIDE DEF s, k
<1>4. Width(t[p + 1]) = k
  <2>1. s[1] = t[p + 1]
    BY <1>1, <1>2, <1>3
  <2> QED
    BY <1>3, <2>1
<1>5. ASSUME NEW i \in p + 2 .. p + k PROVE Width(t[i]) = 0
  <2> DEFINE j == i - p
  <2>1. j \in 2 .. k /\ j \in 1 .. Len(t) - p /\ p + j = i
    BY <1>1, <1>2, <1>3
  <2> HIDE DEF j
  <2>2. s[j] = t[i]
    BY <1>2, <2>1
  <2> QED
    BY <1>3, <2>1, <2>2
<1>6. /\ \A i \in p + 2 .. p + k : ~IsLead(i)
      /\ IsLead(p + 1) <=> k >= width
  <2>1. ~(0 >= width)
    OBVIOUS
  <2> QED
    BY <1>4, <1>5, <2>1
<1> HIDE DEF IsLead
<1>7. \A i : i \in 1 .. p + k <=> i \in 1 .. p \/ i = p + 1 \/ i \in p + 2 .. p + k
  BY <1>1, <1>3
<1>8. T = IF k >= width THEN S \cup {p + 1} ELSE S
  BY <1>6, <1>7, Zenon
<1>9. IsFiniteSet(S) /\ p + 1 \notin S
  <2>1. IsFiniteSet(1 .. p)
    BY <1>1, FS_Interval
  <2>2. S \subseteq 1 .. p
    OBVIOUS
  <2>3. p + 1 \notin 1 .. p
    BY <1>1
  <2> HIDE DEF S
  <2> QED
    BY <2>1, <2>2, <2>3, FS_Subset
<1>10. Cardinality(S) \in Nat
  BY <1>9, FS_CardinalityType
<1> HIDE DEF S, T
<1>11. Cardinality(T) = Cardinality(S) + (IF k >= width THEN 1 ELSE 0)
  <2>1. CASE k >= width
    <3>1. Cardinality(S \cup {p + 1}) = Cardinality(S) + 1
      BY <1>9, FS_AddElement
    <3> QED
      BY <1>8, <2>1, <3>1
  <2>2. CASE ~(k >= width)
    BY <1>8, <1>10, <2>2
  <2> QED
    BY <2>1, <2>2
<1> QED
  BY <1>11 DEF Leads, S, T, IsLead, k, s

(* A character is two words of 16 bits if, and only if, it is four bytes.   *)
LEMMA WordsLength ==
    ASSUME NEW s \in Seq(AnyByte), DecodeChar(s).status = "OK", NEW f
    PROVE  /\ Words(DecodeChar(s).cp, f) \in Seq(Nat)
           /\ Len(Words(DecodeChar(s).cp, f)) = 1 + (IF DecodeChar(s).used >= 4 THEN 1 ELSE 0)
<1> DEFINE w == DecodeChar(s).used
           cp == DecodeChar(s).cp
<1>1. /\ w \in 1 .. 4 /\ cp <= MaxCodePoint
      /\ \E prefix \in Seq(AnyByte) :
             /\ Whole(prefix, w) /\ prefix[1] = s[1]
             /\ w > 1 => SecondByteOK(prefix[1], prefix[2])
             /\ cp = Value(prefix, w)
  BY DecodedWhole
<1> HIDE DEF w, cp
<1>2. PICK prefix :
         /\ Whole(prefix, w)
         /\ w > 1 => SecondByteOK(prefix[1], prefix[2])
         /\ cp = Value(prefix, w)
  BY <1>1
<1>3. cp \in Nat /\ (w # 4 => cp <= 65535)
  <2>0. w \in 1 .. 4 /\ Whole(prefix, w)
    BY <1>1, <1>2, Zenon
  <2>1. /\ Value(prefix, w) \in Nat
        /\ w = 1 => Value(prefix, w) <= 127
        /\ w = 2 => Value(prefix, w) <= 2047
        /\ w = 3 => Value(prefix, w) <= 65535
    BY <2>0, ValueSize, SMT
  <2> QED
    BY <1>1, <1>2, <2>1
<1>4. w = 4 => ~(cp <= 65535)
  <2> SUFFICES ASSUME w = 4 PROVE ~(cp <= 65535)
    OBVIOUS
  <2>1. w \in 2 .. 4 /\ w > 1
    OBVIOUS
  <2>2. SecondByteOK(prefix[1], prefix[2]) /\ Value(prefix, w) <= MaxCodePoint
    BY <1>1, <1>2, <2>1, Zenon
  <2>3. cp >= Shortest(w)
    BY <1>2, <2>1, <2>2, TestsAgree, Zenon
  <2>4. Shortest(4) = 65536
    BY SMT DEF Shortest
  <2> QED
    BY <1>3, <2>3, <2>4
<1>5. cp <= 65535 => Len(Words(cp, f)) = 1
  BY DEF Words
<1>6. ~(cp <= 65535) => Len(Words(cp, f)) = 2
  <2> DEFINE a == Ordered(55296 + ((cp - 65536) \div 1024), f)
             b == Ordered(56320 + ((cp - 65536) % 1024), f)
  <2>1. ~(cp <= 65535) => Words(cp, f) = <<a, b>>
    BY SMT DEF Words
  <2> HIDE DEF a, b
  <2> QED
    BY <2>1
<1>7. Words(cp, f) \in Seq(Nat)
  BY <1>3, WordsNat
<1>8. Len(Words(cp, f)) = 1 + (IF w >= 4 THEN 1 ELSE 0)
  <2>1. w >= 4 <=> w = 4
    BY <1>1
  <2>2. w = 4 \/ cp <= 65535
    BY <1>3
  <2> QED
    BY <1>4, <1>5, <1>6, <2>1, <2>2
<1> QED
  BY <1>7, <1>8 DEF w, cp

Measure(c, t, p) ==
    Leads(t, p, 1) + (IF c = "UTF8_ToUTF16" THEN Leads(t, p, 4) ELSE 0)

LEMMA MeasureNat ==
    ASSUME NEW c, NEW t, NEW p \in Nat
    PROVE  Measure(c, t, p) \in Nat
<1>1. Leads(t, p, 1) \in Nat /\ Leads(t, p, 4) \in Nat
  BY LeadsNat
<1> QED
  BY <1>1 DEF Measure

LEMMA MeasureStep ==
    ASSUME NEW c \in {"UTF8_ToUTF32", "UTF8_ToUTF16"}, NEW t \in Seq(AnyByte),
           NEW p \in 0 .. Len(t), p # Len(t), NEW w, At(c, t, p, w).status = "OK"
    PROVE  LET chunk == At(c, t, p, w)
           IN  Measure(c, t, p + chunk.used) = Measure(c, t, p) + Len(chunk.units)
<1> DEFINE s == From(t, p)
           char == DecodeChar(s)
           k == char.used
           cp == char.cp
           units == IF c = "UTF8_ToUTF32" THEN <<cp>> ELSE Words(cp, flags)
<1>0. s \in Seq(AnyByte)
  BY FromSize
<1>1. At(c, t, p, w) = IF char.status # "OK" THEN Failed(char.status) ELSE Done(k, units)
  <2>1. CASE c = "UTF8_ToUTF32"
    <3>1. At(c, t, p, w) = ToCode(s)
      BY <2>1, AtChunk DEF Chunk, From
    <3> QED
      BY <2>1, <3>1 DEF ToCode
  <2>2. CASE c = "UTF8_ToUTF16"
    <3>1. At(c, t, p, w) = ToWords(s, flags)
      BY <2>2, AtChunk DEF Chunk, From
    <3> QED
      BY <2>2, <3>1 DEF ToWords
  <2> QED
    BY <2>1, <2>2
<1> HIDE DEF units
<1>2. char.status = "OK"
  BY <1>1, DecodeStatus DEF Failed
<1>3. At(c, t, p, w) = Done(k, units)
  BY <1>1, <1>2
<1> HIDE DEF k
<1>4. At(c, t, p, w).used = k /\ At(c, t, p, w).units = units
  BY <1>3 DEF Done
<1>5. p \in Nat
  OBVIOUS
<1>6. /\ Leads(t, p + k, 1) = Leads(t, p, 1) + (IF k >= 1 THEN 1 ELSE 0)
      /\ Leads(t, p + k, 4) = Leads(t, p, 4) + (IF k >= 4 THEN 1 ELSE 0)
  BY <1>2, LeadsStep DEF k
<1>7. k \in 1 .. 4
  BY <1>0, <1>2, LeadOfCharacter DEF k
<1>8. Leads(t, p, 1) \in Nat /\ Leads(t, p, 4) \in Nat
  BY <1>5, LeadsNat
<1>9. Len(units) = 1 + (IF c = "UTF8_ToUTF16" THEN (IF k >= 4 THEN 1 ELSE 0) ELSE 0)
  <2>1. CASE c = "UTF8_ToUTF32"
    <3>1. units = <<cp>>
      BY <2>1 DEF units
    <3> HIDE DEF cp
    <3>2. Len(units) = 1
      BY <3>1
    <3> QED
      BY <2>1, <3>2
  <2>2. CASE c = "UTF8_ToUTF16"
    <3>1. units = Words(cp, flags)
      BY <2>2 DEF units
    <3>2. Len(Words(cp, flags)) = 1 + (IF k >= 4 THEN 1 ELSE 0)
      BY <1>0, <1>2, WordsLength DEF k
    <3> HIDE DEF cp
    <3> QED
      BY <2>2, <3>1, <3>2
  <2> QED
    BY <2>1, <2>2
<1> DEFINE a == Leads(t, p, 1)
           b == Leads(t, p, 4)
<1> HIDE DEF a, b
<1>10. Measure(c, t, p + k) = Measure(c, t, p) + Len(units)
  <2>1. /\ Measure(c, t, p) = a + (IF c = "UTF8_ToUTF16" THEN b ELSE 0)
        /\ Measure(c, t, p + k)
              = Leads(t, p + k, 1) + (IF c = "UTF8_ToUTF16" THEN Leads(t, p + k, 4) ELSE 0)
    BY DEF Measure, a, b
  <2>2. Leads(t, p + k, 1) = a + 1 /\ Leads(t, p + k, 4) = b + (IF k >= 4 THEN 1 ELSE 0)
    BY <1>6, <1>7 DEF a, b
  <2>3. a \in Nat /\ b \in Nat
    BY <1>8 DEF a, b
  <2> QED
    BY <1>7, <1>9, <2>1, <2>2, <2>3
<1> QED
  BY <1>4, <1>10, Zenon

LEMMA TextLength ==
    ASSUME NEW c \in {"UTF8_ToUTF32", "UTF8_ToUTF16"}, NEW t \in Seq(AnyByte)
    PROVE  \A p \in 0 .. Len(t), w \in BOOLEAN : \A r \in Rest(c, t)[p][w] :
               Measure(c, t, p) + Len(r) = Measure(c, t, Len(t))
<1> DEFINE n == Len(t)
           g == Rest(c, t)
           m == Measure(c, t, n)
           Good(p) == \A w \in BOOLEAN : \A r \in g[p][w] : Measure(c, t, p) + Len(r) = m
           G == {p \in 0 .. n : Good(p)}
<1>0. n \in Nat /\ t \in Seq(UnitsOf(c))
  BY DEF UnitsOf
<1>1. \A p \in 0 .. n, w \in BOOLEAN :
         g[p][w] \subseteq Seq(Nat) /\ g[p][w] = RestAt(g, c, t, p, w)
  BY <1>0, RestType, RestEquation
<1>2. m \in Nat
  BY <1>0, MeasureNat
<1> HIDE DEF g, m
<1>3. ASSUME NEW p \in 0 .. n, \A q \in p + 1 .. n : Good(q)
      PROVE  Good(p)
  <2> SUFFICES ASSUME NEW w \in BOOLEAN, NEW r \in g[p][w]
               PROVE  Measure(c, t, p) + Len(r) = m
    OBVIOUS
  <2>1. g[p][w] = RestAt(g, c, t, p, w)
    BY <1>1
  <2>2. CASE p = n
    <3>1. r = << >>
      BY <2>1, <2>2, Zenon DEF RestAt
    <3>2. Len(r) = 0
      BY <3>1
    <3> QED
      BY <1>2, <2>2, <3>2 DEF m
  <2>3. CASE p # n /\ At(c, t, p, w).status # "OK"
    BY <2>1, <2>3, Zenon DEF RestAt
  <2>4. CASE p # n /\ At(c, t, p, w).status = "OK"
    <3> DEFINE units == At(c, t, p, w).units
               q == p + At(c, t, p, w).used
               v == WordStarts(w, units)
    <3>1. q \in p + 1 .. n /\ units \in Seq(Nat)
      BY <1>0, <2>4, AtSize
    <3>2. Measure(c, t, q) = Measure(c, t, p) + Len(units)
      BY <2>4, MeasureStep
    <3>3. v \in BOOLEAN
      BY WordStartsBoolean
    <3>4. g[p][w] = {units \o z : z \in g[q][v]}
      BY <2>1, <2>4, Zenon DEF RestAt
    <3> HIDE DEF units, q, v
    <3>5. PICK z \in g[q][v] : r = units \o z
      BY <3>4
    <3>6. z \in Seq(Nat) /\ Measure(c, t, q) + Len(z) = m
      <4>1. q \in 0 .. n
        BY <3>1
      <4> QED
        BY <1>1, <1>3, <3>1, <3>3, <3>5, <4>1
    <3>7. Len(r) = Len(units) + Len(z)
      BY <3>1, <3>5, <3>6, ConcatProperties
    <3> DEFINE a == Measure(c, t, p)
               b == Measure(c, t, q)
    <3>8. a \in Nat /\ b \in Nat /\ Len(units) \in Nat /\ Len(z) \in Nat
      <4>1. p \in Nat /\ q \in Nat
        BY <3>1
      <4> QED
        BY <3>1, <3>6, <4>1, MeasureNat
    <3>9. b = a + Len(units) /\ b + Len(z) = m
      BY <3>2, <3>6
    <3> HIDE DEF a, b
    <3>10. a + Len(r) = m
      BY <1>2, <3>7, <3>8, <3>9
    <3> QED
      BY <3>10 DEF a
  <2> QED
    BY <2>2, <2>3, <2>4
<1> HIDE DEF Good
<1>4. \A p \in 0 .. n : p \in G
  <2>1. \A p \in 0 .. n : (\A q \in p + 1 .. n : q \in G) => p \in G
    <3>1. \A p \in 0 .. n : \A q \in p + 1 .. n : q \in 0 .. n
      BY <1>0
    <3> QED
      BY <1>3, <3>1
  <2> HIDE DEF G
  <2> QED
    BY <1>0, <2>1, FromTheEnd
<1> QED
  BY <1>4 DEF Good, g, m

(* The whole of a text, in its two other encodings.                         *)
LEMMA ConvertedLength ==
    ASSUME IInv, AsConverted, status = "OK", conversion \in {"UTF8_ToUTF32", "UTF8_ToUTF16"}
    PROVE  write_pos = Measure(conversion, Input, Len(Input))
<1> DEFINE c == conversion
           t == Input
           y == Result
<1>1. t \in Seq(AnyByte)
  <2>1. t \in Seq(UnitsOf(conversion))
    BY InputText
  <2> QED
    BY <2>1 DEF UnitsOf
<1>2. y \in Rest(c, t)[0][TRUE] /\ Len(y) = write_pos
  <2>1. Converted(t) = {y} /\ Len(y) = write_pos
    BY DEF AsConverted, Inspections
  <2> QED
    BY <2>1 DEF Converted, ConvertedBy
<1>3. c \in {"UTF8_ToUTF32", "UTF8_ToUTF16"} /\ write_pos \in Nat
  BY DEF IInv, Memory
<1> HIDE DEF c, t, y
<1>4. 0 \in 0 .. Len(t) /\ TRUE \in BOOLEAN
  BY <1>1
<1>5. Measure(c, t, 0) + Len(y) = Measure(c, t, Len(t))
  <2>1. \A p \in 0 .. Len(t), w \in BOOLEAN : \A r \in Rest(c, t)[p][w] :
           Measure(c, t, p) + Len(r) = Measure(c, t, Len(t))
    BY <1>1, <1>3, TextLength
  <2> QED
    BY <1>2, <1>4, <2>1, Zenon
<1>6. Measure(c, t, 0) = 0
  <2>1. Leads(t, 0, 1) = 0 /\ Leads(t, 0, 4) = 0
    BY LeadsNone
  <2> QED
    BY <2>1 DEF Measure
<1> QED
  BY <1>2, <1>3, <1>5, <1>6 DEF c, t

-----------------------------------------------------------------------------
(* Checking and counting.  A beginning of the text is malformed if, and only*)
(* if, what it has behind the characters that were read is.                 *)
Upto(n) == SubSeq(Input, 1, n)

Broken(n, p) == Codes(Upto(n), p) = {}

Found(p) ==
    /\ ~Broken(p, 0)
    /\ \A n \in p + 1 .. Len(Input) : Broken(n, 0)

InspectInv ==
    /\ conversion = "CharCount" =>
          /\ count = Leads(Input, read_pos, 1)
          /\ status = "OK" => read_pos = Len(Input)
    /\ conversion = "Validate" =>
          /\ status = "CONVERTING" =>
                \A n \in read_pos .. Len(Input) : Broken(n, 0) <=> Broken(n, read_pos)
          /\ status \notin {"CONVERTING", "OK"} => Found(read_pos)

AInv == CInv /\ InspectInv

LEMMA SameCodes ==
    ASSUME UNCHANGED call
    PROVE  /\ \A n, p : Broken(n, p)' <=> Broken(n, p)
           /\ \A p, w : Leads(Input, p, w)' = Leads(Input, p, w)
           /\ Input' = Input /\ conversion' = conversion
<1>1. /\ conversion' = conversion /\ in_place' = in_place /\ flags' = flags
      /\ original' = original /\ len' = len
  BY DEF call
<1>2. Input' = Input
  BY SameText
<1>3. \A n, p : Broken(n, p)' <=> Broken(n, p)
  BY <1>1, <1>2, SMT DEF Broken, Upto, Codes, Rest, OutOfPlace, Honoured, Chunk
<1>4. \A p, w : Leads(Input, p, w)' = Leads(Input, p, w)
  BY <1>2 DEF Leads
<1> QED
  BY <1>1, <1>2, <1>3, <1>4

(* What is read at p is read there in every beginning of the text that has  *)
(* all of it, and in no other.                                              *)
LEMMA ReadInBeginning ==
    ASSUME NEW t \in Seq(AnyByte), NEW p \in 0 .. Len(t), p # Len(t), NEW n \in p .. Len(t)
    PROVE  LET char == DecodeChar(From(t, p))
               u == SubSeq(t, 1, n)
           IN  /\ n = p => Codes(u, p) # {}
               /\ char.status # "OK" /\ n # p => Codes(u, p) = {}
               /\ char.status = "OK" /\ p + char.used <= n =>
                      (Codes(u, p) = {} <=> Codes(u, p + char.used) = {})
<1> DEFINE u == SubSeq(t, 1, n)
           s == From(u, p)
           r == From(t, p)
           char == DecodeChar(r)
           k == char.used
<1>1. p \in Nat /\ n \in Nat /\ Len(t) \in Nat /\ n \in 0 .. Len(t)
  OBVIOUS
<1>2. u \in Seq(AnyByte) /\ Len(u) = n /\ \A i \in 1 .. n : u[i] = t[i]
  BY <1>1, Prefix
<1> HIDE DEF u
<1>3. p \in 0 .. Len(u)
  BY <1>1, <1>2
<1>4. /\ s \in Seq(AnyByte) /\ Len(s) = n - p
      /\ \A i \in 1 .. n - p : s[i] = u[p + i]
  BY <1>2, <1>3, FromSize
<1>5. /\ r \in Seq(AnyByte) /\ Len(r) = Len(t) - p
      /\ \A i \in 1 .. Len(t) - p : r[i] = t[p + i]
  BY FromSize
<1> HIDE DEF s, r
<1>6. Len(s) <= Len(r) /\ \A i \in 1 .. Len(s) : r[i] = s[i]
  <2>1. ASSUME NEW i \in 1 .. Len(s) PROVE r[i] = s[i]
    <3>1. i \in 1 .. n - p /\ i \in 1 .. Len(t) - p /\ p + i \in 1 .. n
      BY <1>1, <1>4
    <3> QED
      BY <1>2, <1>4, <1>5, <3>1
  <2> QED
    BY <1>1, <1>4, <1>5, <2>1
<1>7. n # p => s # << >>
  BY <1>1, <1>4
<1>8. /\ n = p => Codes(u, p) = {<< >>}
      /\ n # p /\ DecodeChar(s).status # "OK" => Codes(u, p) = {}
      /\ n # p /\ DecodeChar(s).status = "OK" =>
            Codes(u, p) = {<<DecodeChar(s).cp>> \o z : z \in Codes(u, p + DecodeChar(s).used)}
  BY <1>2, <1>3, CodesHere, Zenon DEF s
<1>9. ASSUME char.status # "OK", n # p PROVE Codes(u, p) = {}
  <2>1. DecodeChar(s).status = "OK" => char = DecodeChar(s)
    BY <1>4, <1>5, <1>6, <1>7, <1>9, DecodePrefix
  <2>2. DecodeChar(s).status # "OK"
    BY <1>9, <2>1, Zenon
  <2> QED
    BY <1>8, <1>9, <2>2, Zenon
<1>10. ASSUME char.status = "OK", p + k <= n
       PROVE  Codes(u, p) = {} <=> Codes(u, p + k) = {}
  <2>1. k \in 1 .. 4
    BY <1>5, <1>10, LeadOfCharacter
  <2> HIDE DEF k
  <2>2. n # p /\ k <= Len(s)
    BY <1>1, <1>4, <1>10, <2>1
  <2>3. DecodeChar(s) = char
    BY <1>4, <1>5, <1>6, <1>7, <1>10, <2>2, DecodePrefix DEF k
  <2> DEFINE cp == char.cp
  <2>4. Codes(u, p) = {<<cp>> \o z : z \in Codes(u, p + k)}
    BY <1>8, <1>10, <2>2, <2>3, Zenon DEF k
  <2> HIDE DEF cp
  <2> QED
    BY <2>4
<1>11. n = p => Codes(u, p) # {}
  BY <1>8
<1> QED
  BY <1>9, <1>10, <1>11 DEF u, r

LEMMA Inspecting ==
    ASSUME CInv, conversion \in Inspections, status = "CONVERTING"
    PROVE  LET char == DecodeChar(From(Input, read_pos))
           IN  /\ Input \in Seq(AnyByte) /\ read_pos \in 0 .. Len(Input)
               /\ MoreToRead <=> read_pos # Len(Input)
               /\ MoreToRead => /\ Current.status = "OK" <=> char.status = "OK"
                                /\ Current.status = "OK" =>
                                       Current.used = char.used /\ Current.units = << >>
<1> DEFINE s == From(Input, read_pos)
           char == DecodeChar(s)
<1>1. Input \in Seq(AnyByte)
  <2>1. Input \in Seq(UnitsOf(conversion))
    BY InputText DEF CInv
  <2> QED
    BY <2>1 DEF UnitsOf, Inspections
<1>2. read_pos <= Len(Input) /\ read_pos \in Nat
  BY DEF CInv, Halfway, IInv, Memory
<1>3. MoreToRead <=> read_pos < Len(Input)
  BY <1>2, ReadsInput DEF CInv
<1>4. ASSUME MoreToRead
      PROVE  \/ At(conversion, Input, read_pos, at_word_start) = Current
             \/ Current.status # "OK" /\ At(conversion, Input, read_pos, at_word_start).status # "OK"
  BY <1>2, <1>4, SameCharacter DEF CInv
<1>5. At(conversion, Input, read_pos, at_word_start) = Inspected(s)
  BY AtChunk DEF Chunk, From, Inspections
<1> HIDE DEF s
<1>6. Inspected(s) = IF char.status # "OK" THEN Failed(char.status) ELSE Done(char.used, << >>)
  BY DEF Inspected
<1> HIDE DEF char
<1>7. char.status # "OK" => Inspected(s).status # "OK"
  BY <1>6 DEF Failed
<1>8. char.status = "OK" =>
         /\ Inspected(s).status = "OK" /\ Inspected(s).used = char.used
         /\ Inspected(s).units = << >>
  BY <1>6 DEF Done
<1>9. MoreToRead => /\ Current.status = "OK" <=> char.status = "OK"
                    /\ Current.status = "OK" =>
                           Current.used = char.used /\ Current.units = << >>
  BY <1>4, <1>5, <1>7, <1>8, Zenon
<1>10. read_pos \in 0 .. Len(Input) /\ (MoreToRead <=> read_pos # Len(Input))
  BY <1>1, <1>2, <1>3
<1> QED
  BY <1>1, <1>9, <1>10 DEF char, s

LEMMA InitAInv == Init => AInv
<1> SUFFICES ASSUME Init PROVE InspectInv
  BY InitCInv DEF AInv
<1>1. read_pos = 0 /\ count = 0 /\ status = "CONVERTING"
  BY DEF Init
<1>2. Leads(Input, 0, 1) = 0
  BY LeadsNone
<1> QED
  BY <1>1, <1>2, Zenon DEF InspectInv

LEMMA ConvertAInv ==
    ASSUME AInv, Convert, CInv'
    PROVE  InspectInv'
<1> DEFINE char == DecodeChar(From(Input, read_pos))
           p == read_pos
           q == p + char.used
<1>1. /\ CInv /\ InspectInv /\ MoreToRead /\ status = "CONVERTING" /\ Current.status = "OK"
      /\ read_pos' = read_pos + Current.used /\ status' = status
      /\ count' = IF conversion = "CharCount" THEN count + 1 ELSE count
      /\ UNCHANGED call
  BY DEF AInv, Convert, MoreToRead
<1>2. /\ \A n, m : Broken(n, m)' <=> Broken(n, m)
      /\ \A m, w : Leads(Input, m, w)' = Leads(Input, m, w)
      /\ Input' = Input /\ conversion' = conversion
  BY <1>1, SameCodes
<1>3. SUFFICES ASSUME conversion \in Inspections PROVE InspectInv'
  <2>1. conversion \notin Inspections => conversion' # "CharCount" /\ conversion' # "Validate"
    BY <1>2 DEF Inspections
  <2> QED
    BY <1>3, <2>1, Zenon DEF InspectInv
<1>4. /\ Input \in Seq(AnyByte) /\ p \in 0 .. Len(Input) /\ p # Len(Input)
      /\ char.status = "OK" /\ read_pos' = q
  BY <1>1, <1>3, Inspecting
<1>5. char.used \in 1 .. 4 /\ q \in p + 1 .. Len(Input)
  BY <1>4, CodesHere
<1>6. ASSUME conversion = "CharCount" PROVE count' = Leads(Input, q, 1)
  <2>1. count = Leads(Input, p, 1) /\ count' = count + 1
    BY <1>1, <1>6 DEF InspectInv
  <2>2. Leads(Input, q, 1) = Leads(Input, p, 1) + (IF char.used >= 1 THEN 1 ELSE 0)
    BY <1>4, LeadsStep
  <2> HIDE DEF char
  <2>3. char.used >= 1
    BY <1>5
  <2> QED
    BY <2>1, <2>2, <2>3
<1>7. ASSUME conversion = "Validate", NEW n \in q .. Len(Input)
      PROVE  Broken(n, 0) <=> Broken(n, q)
  <2>0. /\ p \in Nat /\ Len(Input) \in Nat /\ n \in p .. Len(Input) /\ q <= n
    <3>1. p \in Nat /\ Len(Input) \in Nat
      BY <1>4
    <3> HIDE DEF char
    <3> DEFINE k == char.used
    <3>2. k \in 1 .. 4 /\ n \in p + k .. Len(Input)
      BY <1>5
    <3> HIDE DEF k
    <3>3. n \in p .. Len(Input) /\ p + k <= n
      BY <3>1, <3>2
    <3> QED
      BY <3>1, <3>3 DEF k
  <2>1. Broken(n, 0) <=> Broken(n, p)
    BY <1>1, <1>7, <2>0, Zenon DEF InspectInv
  <2>2. Broken(n, p) <=> Broken(n, q)
    BY <1>4, <2>0, ReadInBeginning DEF Broken, Upto
  <2> QED
    BY <2>1, <2>2
<1> HIDE DEF q
<1>8. conversion' = "CharCount" => count' = Leads(Input, read_pos, 1)'
  BY <1>2, <1>4, <1>6 DEF Leads
<1>9. conversion' = "Validate" =>
         \A n \in read_pos' .. Len(Input') : Broken(n, 0)' <=> Broken(n, read_pos)'
  <2>1. \A n : Broken(n, read_pos)' <=> Broken(n, q)
    <3>1. \A n, m : m = read_pos' => (Broken(n, read_pos)' <=> Broken(n, m)')
      BY DEF Broken
    <3> QED
      BY <1>2, <1>4, <3>1, Zenon
  <2> QED
    BY <1>2, <1>4, <1>7, <2>1
<1>10. status' = "CONVERTING"
  BY <1>1
<1> QED
  BY <1>8, <1>9, <1>10, Zenon DEF InspectInv

LEMMA MalformedAInv ==
    ASSUME AInv, Malformed, CInv'
    PROVE  InspectInv'
<1> DEFINE char == DecodeChar(From(Input, read_pos))
           p == read_pos
<1>1. /\ CInv /\ InspectInv /\ MoreToRead /\ status = "CONVERTING" /\ Current.status # "OK"
      /\ read_pos' = read_pos /\ status' = Current.status /\ count' = count
      /\ UNCHANGED call
  BY DEF AInv, Malformed, MoreToRead, Return
<1>2. /\ \A n, m : Broken(n, m)' <=> Broken(n, m)
      /\ \A m, w : Leads(Input, m, w)' = Leads(Input, m, w)
      /\ Input' = Input /\ conversion' = conversion
  BY <1>1, SameCodes
<1>3. status' \notin {"CONVERTING", "OK"}
  <2>1. status' \in {"INVALID_ENCODING", "INCOMPLETE", "INVALID_PARAM"}
    BY <1>1, ReadableUnits, ChunkStatus DEF Current, CInv
  <2> QED
    BY <2>1
<1>4. SUFFICES ASSUME conversion \in Inspections PROVE InspectInv'
  <2>1. conversion \notin Inspections => conversion' # "CharCount" /\ conversion' # "Validate"
    BY <1>2 DEF Inspections
  <2> QED
    BY <1>4, <2>1, Zenon DEF InspectInv
<1>5. /\ Input \in Seq(AnyByte) /\ p \in 0 .. Len(Input) /\ p # Len(Input)
      /\ char.status # "OK"
  BY <1>1, <1>4, Inspecting
<1>6. conversion = "CharCount" => count' = Leads(Input, read_pos, 1)'
  BY <1>1, <1>2 DEF InspectInv, Leads
<1>7. ASSUME conversion = "Validate" PROVE Found(p)
  <2>1. \A n \in p .. Len(Input) : Broken(n, 0) <=> Broken(n, p)
    BY <1>1, <1>7 DEF InspectInv
  <2>2. \A n \in p .. Len(Input) : n = p => ~Broken(n, p)
    BY <1>5, ReadInBeginning DEF Broken, Upto
  <2>3. \A n \in p .. Len(Input) : n # p => Broken(n, p)
    BY <1>5, ReadInBeginning DEF Broken, Upto
  <2>4. p \in p .. Len(Input) /\ \A n \in p + 1 .. Len(Input) : n \in p .. Len(Input) /\ n # p
    BY <1>5
  <2> QED
    BY <2>1, <2>2, <2>3, <2>4, Zenon DEF Found
<1>8. Found(read_pos)' <=> Found(read_pos)
  BY <1>1, <1>2 DEF Found
<1> QED
  BY <1>2, <1>3, <1>6, <1>7, <1>8, Zenon DEF InspectInv

LEMMA TooSmallAInv ==
    ASSUME AInv, TooSmall, CInv'
    PROVE  InspectInv'
<1>1. /\ CInv /\ InspectInv /\ MoreToRead /\ status = "CONVERTING" /\ Current.status = "OK"
      /\ ~HasRoom(Current.units) /\ UNCHANGED call
  BY DEF AInv, TooSmall, MoreToRead, Return
<1>2. conversion \notin Inspections
  BY <1>1, Inspecting DEF HasRoom
<1>3. conversion' # "CharCount" /\ conversion' # "Validate"
  BY <1>1, <1>2 DEF Inspections, call
<1> QED
  BY <1>3, Zenon DEF InspectInv

LEMMA FinishAInv ==
    ASSUME AInv, Finish, CInv'
    PROVE  InspectInv'
<1>1. /\ CInv /\ InspectInv /\ ~MoreToRead /\ status = "CONVERTING"
      /\ read_pos' = read_pos /\ status' = "OK" /\ count' = count /\ UNCHANGED call
  BY DEF AInv, Finish
<1>2. /\ \A m, w : Leads(Input, m, w)' = Leads(Input, m, w)
      /\ Input' = Input /\ conversion' = conversion
  BY <1>1, SameCodes
<1>3. conversion = "CharCount" => read_pos = Len(Input)
  BY <1>1, Inspecting DEF Inspections
<1>4. conversion = "CharCount" => count' = Leads(Input, read_pos, 1)'
  BY <1>1, <1>2 DEF InspectInv, Leads
<1>5. conversion' = "CharCount" => read_pos' = Len(Input')
  BY <1>1, <1>2, <1>3
<1>6. status' = "OK" /\ status' # "CONVERTING" /\ status' \in {"CONVERTING", "OK"}
  BY <1>1
<1> QED
  BY <1>2, <1>4, <1>5, <1>6, Zenon DEF InspectInv

LEMMA IdleAInv ==
    ASSUME AInv, Returned \/ UNCHANGED vars
    PROVE  InspectInv'
<1>1. /\ UNCHANGED call /\ read_pos' = read_pos /\ status' = status /\ count' = count
  BY DEF Returned, vars
<1>2. /\ \A n, m : Broken(n, m)' <=> Broken(n, m)
      /\ \A m, w : Leads(Input, m, w)' = Leads(Input, m, w)
      /\ Input' = Input /\ conversion' = conversion
  BY <1>1, SameCodes
<1>3. Found(read_pos)' <=> Found(read_pos)
  BY <1>1, <1>2 DEF Found
<1>4. Leads(Input, read_pos, 1)' = Leads(Input, read_pos, 1)
  BY <1>1, <1>2 DEF Leads
<1>5. \A n : /\ Broken(n, 0)' <=> Broken(n, 0)
             /\ Broken(n, read_pos)' <=> Broken(n, read_pos)
  <2>1. \A n : Broken(n, read_pos)' <=> Broken(n, read_pos)
    <3> DEFINE p == read_pos
    <3>1. \A n, m : m = read_pos' => (Broken(n, read_pos)' <=> Broken(n, m)')
      BY DEF Broken
    <3> QED
      BY <1>1, <1>2, <3>1
  <2> QED
    BY <1>2, <2>1
<1>6. InspectInv
  BY DEF AInv
<1> QED
  BY <1>1, <1>2, <1>3, <1>4, <1>5, <1>6, Zenon DEF InspectInv

LEMMA NextAInv == AInv /\ [Next]_vars => AInv'
<1> SUFFICES ASSUME AInv, [Next]_vars PROVE AInv'
  OBVIOUS
<1>1. CInv'
  BY NextCInv DEF AInv
<1> SUFFICES InspectInv'
  BY <1>1 DEF AInv
<1>2. CASE Convert
  BY <1>1, <1>2, ConvertAInv
<1>3. CASE Malformed
  BY <1>1, <1>3, MalformedAInv
<1>4. CASE TooSmall
  BY <1>1, <1>4, TooSmallAInv
<1>5. CASE Finish
  BY <1>1, <1>5, FinishAInv
<1>6. CASE Returned \/ UNCHANGED vars
  BY <1>6, IdleAInv
<1> QED
  BY <1>2, <1>3, <1>4, <1>5, <1>6 DEF Next

LEMMA Agrees ==
    ASSUME AInv
    PROVE  AgreesWithCharacters
<1>1. CInv /\ InspectInv /\ IInv /\ AsConverted
  BY DEF AInv, CInv
<1>2. BytesAsCharacters
  BY <1>1, BytesCharacters
<1>3. LengthsPredicted
  <2> SUFFICES ASSUME status = "OK"
               PROVE  /\ conversion = "CharCount" => count = LeadBytes(Input, 1)
                      /\ conversion = "UTF8_ToUTF32" => write_pos = LeadBytes(Input, 1)
                      /\ conversion = "UTF8_ToUTF16" =>
                             write_pos = LeadBytes(Input, 1) + LeadBytes(Input, 4)
    BY DEF LengthsPredicted
  <2>1. \A k : LeadBytes(Input, k) = Leads(Input, Len(Input), k)
    BY DEF LeadBytes, Leads
  <2>2. conversion = "CharCount" => count = Leads(Input, Len(Input), 1)
    BY <1>1 DEF InspectInv
  <2>3. conversion \in {"UTF8_ToUTF32", "UTF8_ToUTF16"} =>
           write_pos = Measure(conversion, Input, Len(Input))
    BY <1>1, ConvertedLength
  <2>4. Leads(Input, Len(Input), 1) \in Nat
    BY <1>1, InputText, LeadsNat
  <2>5. conversion = "UTF8_ToUTF32" => write_pos = Leads(Input, Len(Input), 1)
    BY <2>3, <2>4 DEF Measure
  <2>6. conversion = "UTF8_ToUTF16" =>
           write_pos = Leads(Input, Len(Input), 1) + Leads(Input, Len(Input), 4)
    BY <2>3 DEF Measure
  <2> QED
    BY <2>1, <2>2, <2>5, <2>6
<1>4. FirstError
  <2> SUFFICES ASSUME conversion = "Validate", status \notin {"CONVERTING", "OK"}
               PROVE  /\ Decoded(SubSeq(Input, 1, read_pos)) # {}
                      /\ \A n \in read_pos + 1 .. Len(Input) : Decoded(SubSeq(Input, 1, n)) = {}
    BY DEF FirstError
  <2>1. Input \in Seq(AnyByte)
    <3>1. Input \in Seq(UnitsOf(conversion))
      BY <1>1, InputText
    <3> QED
      BY <3>1 DEF UnitsOf
  <2>2. Len(Input) = len
    <3>1. ~Terminated
      BY DEF Terminated, PersianConversions, InPlaceConversions
    <3>2. len \in Nat /\ Len(Input) \in Nat
      BY <1>1, <2>1 DEF IInv, Memory
    <3>3. Len(Input) <= len /\ (Len(Input) < len => Terminated)
      BY <1>1, InputText
    <3> QED
      BY <3>1, <3>2, <3>3
  <2>3. read_pos \in 0 .. len
    BY <1>1 DEF IInv, Memory
  <2>4. \A n \in read_pos .. Len(Input) : Upto(n) \in Seq(AnyByte)
    <3> SUFFICES ASSUME NEW n \in read_pos .. Len(Input) PROVE Upto(n) \in Seq(AnyByte)
      OBVIOUS
    <3>1. n \in Nat /\ n <= Len(Input)
      BY <2>2, <2>3
    <3> QED
      BY <2>1, <3>1, SubSeqProperties DEF Upto
  <2>5. \A n \in read_pos .. Len(Input) : Decoded(Upto(n)) = {} <=> Broken(n, 0)
    BY <2>4, DecodedCodes DEF Broken
  <2>6. /\ read_pos \in read_pos .. Len(Input)
        /\ \A n \in read_pos + 1 .. Len(Input) : n \in read_pos .. Len(Input)
    BY <2>2, <2>3
  <2>7. Found(read_pos)
    BY <1>1, Zenon DEF InspectInv
  <2> QED
    BY <2>5, <2>6, <2>7, Zenon DEF Found, Upto
<1> QED
  BY <1>2, <1>3, <1>4 DEF AgreesWithCharacters

(* For every text: the digits that are matched byte by byte are those of the*)
(* characters; a text is as long in another encoding as its lead bytes tell,*)
(* and this is how many characters are counted in it; and the offset that   *)
(* checking it reports is that of the first error, with everything before it*)
(* well-formed and nothing longer (edc_persian.c:47-72, 297-306;            *)
(* edc_unicode.c:159-210, 218-270, 339-369).                                *)
THEOREM CharactersAgree == Spec => []AgreesWithCharacters
<1>1. AInv => AgreesWithCharacters
  BY Agrees
<1> QED
  BY <1>1, InitAInv, NextAInv, PTL DEF Spec
=============================================================================
