----------------------------- MODULE FieldUseProofs -----------------------------
(***************************************************************************)
(* Proofs about EDC_CSV_Tokenizer, for every text, every delimiter and any *)
(* number of calls, and about the caller who changes the case of the       *)
(* fields while he goes through them; and about hexadecimal text, which he *)
(* reads from a field or writes.                                           *)
(***************************************************************************)
EXTENDS FieldUse, FiniteSetTheorems, TLAPS

(* Scans for the first and the last place where something holds: there is   *)
(* one.                                                                     *)
LEMMA LeastExists ==
  ASSUME NEW T, T \subseteq Nat, T # {}
  PROVE  \E x \in T : \A y \in T : x <= y
  <1> DEFINE R == OpToRel(<, Nat)
  <1>1. IsWellFoundedOn(R, Nat)
    BY NatLessThanWellFounded
  <1>2. \A x, y \in Nat : y < x => <<y, x>> \in R
    BY DEF OpToRel
  <1> HIDE DEF R
  <1>3. PICK x \in T : \A y \in T : ~(<<y, x>> \in R)
    BY <1>1, WFMin
  <1>4. ASSUME NEW y \in T PROVE x <= y
    <2>1. x \in Nat /\ y \in Nat
      OBVIOUS
    <2>2. ~(y < x)
      BY <1>2, <1>3, <2>1
    <2> QED
      BY <2>1, <2>2
  <1> QED
    BY <1>4

LEMMA GreatestExists ==
  ASSUME NEW n \in Nat, NEW T, T \subseteq 0 .. n, T # {}
  PROVE  \E x \in T : \A y \in T : y <= x
  <1> DEFINE D == {k \in 0 .. n : n - k \in T}
  <1>1. D \subseteq Nat
    OBVIOUS
  <1>2. D # {}
    <2>1. PICK x \in T : TRUE
      OBVIOUS
    <2>2. x \in 0 .. n /\ n - x \in 0 .. n /\ n - (n - x) = x
      OBVIOUS
    <2> QED
      BY <2>1, <2>2
  <1>3. PICK d \in D : \A e \in D : d <= e
    BY <1>1, <1>2, LeastExists
  <1>4. ASSUME NEW y \in T PROVE y <= n - d
    <2>1. y \in 0 .. n /\ n - y \in 0 .. n /\ n - (n - y) = y
      OBVIOUS
    <2>2. n - (n - y) \in T
      BY <2>1
    <2>3. n - y \in D
      BY <2>1, <2>2
    <2>4. d \in Nat /\ d <= n - y
      BY <1>1, <1>3, <2>3
    <2> QED
      BY <2>1, <2>4
  <1> QED
    BY <1>3, <1>4

LEMMA StrLenInside ==
  ASSUME NEW s \in Seq(Char)
  PROVE  StrLen(Append(s, NUL), 0) \in 0 .. Len(s)
  <1> DEFINE t == Append(s, NUL)
             ends == {n \in 0 .. StrCap : n = StrCap \/ (0 + n < Len(t) /\ t[0 + n + 1] = NUL)}
  <1>1. StrCap \in Nat /\ Len(s) \in Nat /\ Len(t) = Len(s) + 1 /\ t[Len(s) + 1] = NUL
    BY StrCapAssumption
  <1>2. ends \subseteq Nat /\ StrCap \in ends
    BY <1>1
  <1>3. PICK n \in ends : \A m \in ends : n <= m
    BY <1>2, LeastExists
  <1>4. Len(s) < StrCap => Len(s) \in ends
    BY <1>1
  <1>5. /\ StrLen(Append(s, NUL), 0) \in ends
        /\ \A m \in ends : StrLen(Append(s, NUL), 0) <= m
    BY <1>3 DEF StrLen
  <1> QED
    BY <1>1, <1>2, <1>4, <1>5

Slices == [start : Nat, len : Nat]

LEMMA TrimmedType ==
  ASSUME NEW s, NEW first \in Nat, NEW last \in Nat, first <= last
  PROVE  /\ Trimmed(s, first, last) \in Slices
         /\ Trimmed(s, first, last).start + Trimmed(s, first, last).len <= last
  <1> USE DEF Slices
  <1> DEFINE solid == {i \in first .. last - 1 : ~IsSpace(s[i + 1])}
             start == CHOOSE i \in solid : \A j \in solid : i <= j
             end   == CHOOSE i \in solid : \A j \in solid : j <= i
  <1>1. CASE solid = {}
    BY <1>1 DEF Trimmed, Slice
  <1>2. CASE solid # {}
    <2>1. solid \subseteq Nat /\ solid \subseteq 0 .. last
      OBVIOUS
    <2>2. start \in solid /\ \A j \in solid : start <= j
      <3>1. \E i \in solid : \A j \in solid : i <= j
        BY <1>2, <2>1, LeastExists
      <3> HIDE DEF solid
      <3> QED
        BY <3>1
    <2>3. end \in solid /\ \A j \in solid : j <= end
      <3>1. \E i \in solid : \A j \in solid : j <= i
        BY <1>2, <2>1, GreatestExists
      <3> HIDE DEF solid
      <3> QED
        BY <3>1
    <2>4. Trimmed(s, first, last) = Slice(start, end - start + 1)
      BY <1>2 DEF Trimmed
    <2> HIDE DEF solid, start, end
    <2>5. start \in Nat /\ end \in Nat /\ start <= end
      BY <2>1, <2>2, <2>3
    <2>6. end < last
      BY <2>3 DEF solid
    <2> QED
      BY <2>4, <2>5, <2>6 DEF Slice
  <1> QED
    BY <1>1, <1>2

-----------------------------------------------------------------------------
(* The cursor.  Handed(b) are the fields that begin before the cut b.       *)
TextOK ==
    /\ text \in Seq(Char)
    /\ size \in Nat /\ size < Len(text)
    /\ source \in Nat /\ remaining_len \in Nat /\ source + remaining_len = size
    /\ delimiter \in Delimiters /\ trim_spaces \in BOOLEAN

AtCut == remaining_len > 0 => source - 1 \in Cuts

Handed(b) == {p \in Fields : p[1] < b}

TokensOK ==
    /\ tokens \in Seq(Slices)
    /\ Len(tokens) = Cardinality(Handed(source - 1))
    /\ \A p \in Handed(source - 1) : tokens[Rank(p)] = Between(p[1], p[2])

CsvInv == TextOK /\ AtCut /\ TokensOK /\ (status = "NOT_FOUND" => remaining_len = 0)

LEMMA QuotesFinite ==
  ASSUME NEW a \in Nat, NEW b \in Nat
  PROVE  IsFiniteSet(QuotesIn(a, b)) /\ Cardinality(QuotesIn(a, b)) \in Nat
  <1>1. IsFiniteSet(a + 1 .. b)
    BY FS_Interval
  <1>2. QuotesIn(a, b) \in SUBSET (a + 1 .. b)
    BY DEF QuotesIn
  <1> QED
    BY <1>1, <1>2, FS_Subset, FS_CardinalityType

LEMMA QuotesAdd ==
  ASSUME NEW a \in Nat, NEW b \in Nat, NEW c \in Nat, a <= b, b <= c
  PROVE  Cardinality(QuotesIn(a, c)) = Cardinality(QuotesIn(a, b)) + Cardinality(QuotesIn(b, c))
  <1>1. QuotesIn(a, c) = QuotesIn(a, b) \cup QuotesIn(b, c)
        /\ QuotesIn(a, b) \cap QuotesIn(b, c) = {}
    BY DEF QuotesIn
  <1>2. Cardinality(QuotesIn(a, b) \cap QuotesIn(b, c)) = 0
    BY <1>1, FS_EmptySet
  <1> DEFINE Q == QuotesIn(a, b)
             R == QuotesIn(b, c)
  <1>3. IsFiniteSet(Q) /\ IsFiniteSet(R) /\ Cardinality(Q) \in Nat /\ Cardinality(R) \in Nat
    BY QuotesFinite
  <1> HIDE DEF Q, R
  <1>4. Cardinality(Q \cup R) = Cardinality(Q) + Cardinality(R) - Cardinality(Q \cap R)
    BY <1>3, FS_Union
  <1>5. Cardinality(Q \cap R) = 0
    BY <1>2 DEF Q, R
  <1>6. Cardinality(Q \cup R) = Cardinality(Q) + Cardinality(R)
    BY <1>3, <1>4, <1>5
  <1> QED
    BY <1>1, <1>6 DEF Q, R

LEMMA Parity ==
  ASSUME NEW m \in Nat, NEW n \in Nat, m % 2 = 0
  PROVE  ((m + n) % 2 = 0) <=> ~(n % 2 = 1)
  OBVIOUS

(* An even number of quotes precedes the cursor: counting them anew from    *)
(* there makes no difference.                                               *)
LEMMA EvenBefore ==
  ASSUME TextOK, AtCut, remaining_len > 0
  PROVE  Cardinality(QuotesIn(0, source)) % 2 = 0
  <1>1. source \in Nat /\ source < size /\ size \in Nat
    BY DEF TextOK
  <1>2. CASE source = 0
    <2>1. QuotesIn(0, source) = {}
      BY <1>2 DEF QuotesIn
    <2> QED
      BY <2>1, FS_EmptySet
  <1>3. CASE source # 0
    <2>1. source - 1 \in 0 .. size - 1 /\ (source - 1) + 1 = source
      BY <1>1, <1>3
    <2>2. /\ text[source] = delimiter /\ delimiter # Quote
          /\ Cardinality(QuotesIn(0, source - 1)) % 2 = 0
      BY <1>1, <2>1 DEF AtCut, Cuts
    <2>3. QuotesIn(0, source) = QuotesIn(0, source - 1)
      BY <1>1, <2>1, <2>2 DEF QuotesIn
    <2> QED
      BY <2>2, <2>3
  <1> QED
    BY <1>2, <1>3

LEMMA CutAhead ==
  ASSUME TextOK, AtCut, NEW idx \in 0 .. remaining_len - 1
  PROVE  source + idx \in Cuts <=>
             (At(idx) = delimiter /\ At(idx) # Quote /\ ~InsideQuotes(idx))
  <1>1. source \in Nat /\ size \in Nat /\ remaining_len \in Nat /\ remaining_len > 0
        /\ source + remaining_len = size
    BY DEF TextOK
  <1>2. source + idx \in 0 .. size - 1 /\ source + idx \in Nat
        /\ source <= source + idx /\ source + idx # size /\ source + idx # -1
    BY <1>1
  <1>3. Cardinality(QuotesIn(0, source + idx))
            = Cardinality(QuotesIn(0, source)) + Cardinality(QuotesIn(source, source + idx))
    BY <1>1, <1>2, QuotesAdd
  <1>4. (Cardinality(QuotesIn(0, source + idx)) % 2 = 0) <=> ~InsideQuotes(idx)
    <2> DEFINE m == Cardinality(QuotesIn(0, source))
               n == Cardinality(QuotesIn(source, source + idx))
    <2>1. m \in Nat /\ n \in Nat /\ m % 2 = 0
      BY <1>1, <1>2, EvenBefore, QuotesFinite
    <2>2. InsideQuotes(idx) <=> n % 2 = 1
      BY DEF InsideQuotes
    <2>3. Cardinality(QuotesIn(0, source + idx)) = m + n
      BY <1>3
    <2> HIDE DEF m, n
    <2> QED
      BY <2>1, <2>2, <2>3, Parity
  <1>5. source + idx \in Cuts <=>
            /\ text[source + idx + 1] = delimiter /\ delimiter # Quote
            /\ Cardinality(QuotesIn(0, source + idx)) % 2 = 0
    BY <1>2 DEF Cuts
  <1> QED
    BY <1>4, <1>5 DEF At

LEMMA FieldEndPlace ==
  ASSUME TextOK, AtCut, remaining_len > 0
  PROVE  /\ FieldEnd \in 0 .. remaining_len
         /\ source + FieldEnd \in Cuts
         /\ \A c \in source .. source + FieldEnd - 1 : c \notin Cuts
  <1> DEFINE ends == {idx \in 0 .. remaining_len :
                         \/ idx = remaining_len
                         \/ /\ At(idx) = delimiter
                            /\ At(idx) # Quote
                            /\ ~InsideQuotes(idx)}
  <1>1. source \in Nat /\ size \in Nat /\ remaining_len \in Nat
        /\ source + remaining_len = size
    BY DEF TextOK
  <1>2. ends \subseteq Nat /\ remaining_len \in ends
    BY <1>1
  <1>3. \E idx \in ends : \A other \in ends : idx <= other
    BY <1>2, LeastExists
  <1>4. FieldEnd \in ends /\ \A other \in ends : FieldEnd <= other
    BY <1>3 DEF FieldEnd
  <1>5. FieldEnd \in 0 .. remaining_len
    BY <1>4
  <1>6. source + FieldEnd \in Cuts
    <2>1. CASE FieldEnd = remaining_len
      BY <1>1, <2>1 DEF Cuts
    <2>2. CASE FieldEnd # remaining_len
      <3>1. FieldEnd \in 0 .. remaining_len - 1
        BY <1>1, <1>5, <2>2
      <3> QED
        BY <1>4, <2>2, <3>1, CutAhead
    <2> QED
      BY <2>1, <2>2
  <1>7. ASSUME NEW c \in source .. source + FieldEnd - 1 PROVE c \notin Cuts
    <2>1. c - source \in 0 .. remaining_len - 1 /\ c - source < FieldEnd
          /\ source + (c - source) = c
      BY <1>1, <1>5
    <2>2. c - source \notin ends
      BY <1>1, <1>4, <1>5, <2>1
    <2>3. ~(At(c - source) = delimiter /\ At(c - source) # Quote /\ ~InsideQuotes(c - source))
      BY <1>1, <2>1, <2>2
    <2> QED
      BY <2>1, <2>3, CutAhead
  <1> QED
    BY <1>5, <1>6, <1>7

-----------------------------------------------------------------------------
(* The fields in their order.                                               *)
LEMMA FieldsType ==
  ASSUME size \in Nat
  PROVE  /\ Cuts \subseteq -1 .. size
         /\ IsFiniteSet(Fields)
         /\ \A p \in Fields :
               /\ p = <<p[1], p[2]>> /\ p[1] \in Cuts /\ p[2] \in Cuts
               /\ p[1] \in -1 .. size /\ p[2] \in -1 .. size /\ p[1] < p[2]
               /\ \A c \in Cuts : c <= p[1] \/ c >= p[2]
               /\ p[1] < size - 1
  <1>1. Cuts \subseteq -1 .. size
    BY DEF Cuts
  <1>2. IsFiniteSet(Cuts)
    <2>1. -1 \in Int /\ size \in Int
      OBVIOUS
    <2>2. IsFiniteSet(-1 .. size)
      BY <2>1, FS_Interval
    <2> QED
      BY <1>1, <2>2, FS_Subset
  <1>3. IsFiniteSet(Cuts \X Cuts)
    BY <1>2, FS_Product
  <1>4. Fields \in SUBSET (Cuts \X Cuts)
    BY DEF Fields, CutPairs
  <1>5. IsFiniteSet(Fields)
    BY <1>3, <1>4, FS_Subset
  <1>6. ASSUME NEW p \in Fields
        PROVE  /\ p = <<p[1], p[2]>> /\ p[1] \in Cuts /\ p[2] \in Cuts
               /\ p[1] \in -1 .. size /\ p[2] \in -1 .. size /\ p[1] < p[2]
               /\ \A c \in Cuts : c <= p[1] \/ c >= p[2]
               /\ p[1] < size - 1
    <2>1. p \in Cuts \X Cuts /\ p[1] < p[2] /\ ~(p[1] = size - 1 /\ p[2] = size)
          /\ \A c \in Cuts : c <= p[1] \/ c >= p[2]
      BY DEF Fields, CutPairs
    <2>2. p = <<p[1], p[2]>> /\ p[1] \in Cuts /\ p[2] \in Cuts
      BY <2>1
    <2>3. p[1] \in -1 .. size /\ p[2] \in -1 .. size
      BY <1>1, <2>2
    <2>4. p[1] < size - 1
      BY <2>1, <2>3
    <2> QED
      BY <2>1, <2>2, <2>3, <2>4
  <1> QED
    BY <1>1, <1>5, <1>6

LEMMA HandedFinite ==
  ASSUME size \in Nat, NEW b
  PROVE  IsFiniteSet(Handed(b)) /\ Cardinality(Handed(b)) \in Nat
  <1>1. Handed(b) \in SUBSET Fields
    BY DEF Handed
  <1> QED
    BY <1>1, FieldsType, FS_Subset, FS_CardinalityType

LEMMA RankIsNumber ==
  ASSUME size \in Nat, NEW p \in Fields
  PROVE  Rank(p) = Cardinality(Handed(p[1] + 1)) /\ Rank(p) \in Nat
  <1>1. \A q \in Fields : q[1] <= p[1] <=> q[1] < p[1] + 1
    BY FieldsType
  <1>2. {q \in Fields : q[1] <= p[1]} = Handed(p[1] + 1)
    BY <1>1 DEF Handed
  <1> QED
    BY <1>2, HandedFinite DEF Rank

(* A field has been handed out if and only if its rank is within the count. *)
LEMMA RankCounts ==
  ASSUME size \in Nat, NEW b \in Int, NEW p \in Fields
  PROVE  /\ p \in Handed(b) => Rank(p) \in 1 .. Cardinality(Handed(b))
         /\ p \notin Handed(b) => Rank(p) > Cardinality(Handed(b))
  <1> DEFINE H == Handed(b)
             R == Handed(p[1] + 1)
  <1>1. p[1] \in Int /\ \A q \in Fields : q[1] \in Int
    BY FieldsType
  <1>2. p \in R
    BY <1>1 DEF Handed
  <1>3. /\ IsFiniteSet(H) /\ Cardinality(H) \in Nat
        /\ IsFiniteSet(R) /\ Cardinality(R) \in Nat /\ Rank(p) = Cardinality(R)
    BY RankIsNumber, HandedFinite
  <1>4. CASE p \in H
    <2>1. R \in SUBSET H
      BY <1>1, <1>4 DEF Handed
    <2>2. R # {}
      BY <1>2
    <2> HIDE DEF H, R
    <2>3. Cardinality(R) <= Cardinality(H) /\ Cardinality(R) # 0
      BY <1>3, <2>1, <2>2, FS_Subset, FS_EmptySet
    <2> QED
      BY <1>3, <1>4, <2>3 DEF H
  <1>5. CASE p \notin H
    <2>1. H \cup {p} \in SUBSET R
      <3>1. b <= p[1]
        BY <1>1, <1>5 DEF Handed
      <3> QED
        BY <1>1, <1>2, <3>1 DEF Handed
    <2> HIDE DEF H, R
    <2>2. Cardinality(H \cup {p}) = Cardinality(H) + 1
      BY <1>3, <1>5, FS_AddElement
    <2>3. Cardinality(H \cup {p}) <= Cardinality(R)
      BY <1>3, <2>1, FS_Subset
    <2> QED
      BY <1>3, <1>5, <2>2, <2>3 DEF H
  <1> QED
    BY <1>4, <1>5

LEMMA InvImplies == CsvInv => HandsOutFields
  <1> SUFFICES ASSUME CsvInv PROVE HandsOutFields
    OBVIOUS
  <1> DEFINE H == Handed(source - 1)
  <1>1. /\ size \in Nat /\ source \in Nat /\ source + remaining_len = size
        /\ source - 1 \in Int
    BY DEF CsvInv, TextOK
  <1>2. Len(tokens) = Cardinality(H) /\ \A p \in H : tokens[Rank(p)] = Between(p[1], p[2])
    BY DEF CsvInv, TokensOK
  <1>3. Len(tokens) <= Cardinality(Fields)
    <2>1. H \in SUBSET Fields
      BY DEF Handed
    <2> HIDE DEF H
    <2> QED
      BY <1>1, <1>2, <2>1, FieldsType, FS_Subset
  <1>4. ASSUME NEW p \in Fields, Rank(p) <= Len(tokens)
        PROVE  tokens[Rank(p)] = Between(p[1], p[2])
    <2>1. p \in H
      <3>1. ~(Rank(p) > Cardinality(H))
        BY <1>1, <1>2, <1>4, RankIsNumber, HandedFinite
      <3> QED
        BY <1>1, <3>1, RankCounts
    <2> QED
      BY <1>2, <2>1
  <1>5. ASSUME status = "NOT_FOUND" PROVE Len(tokens) = Cardinality(Fields)
    <2>1. source - 1 = size - 1
      BY <1>1, <1>5 DEF CsvInv, TextOK
    <2>2. H = Fields
      BY <1>1, <2>1, FieldsType DEF Handed
    <2> QED
      BY <1>2, <2>2
  <1> QED
    BY <1>1, <1>3, <1>4, <1>5 DEF HandsOutFields

-----------------------------------------------------------------------------
(* One call of EDC_CSV_Next hands out the next of them.                     *)
LEMMA NextField ==
  ASSUME TextOK, AtCut, remaining_len > 0
  PROVE  LET p == <<source - 1, source + FieldEnd>>
         IN  /\ p \in Fields /\ p \notin Handed(source - 1)
             /\ Handed(source + Consumed(FieldEnd) - 1) = Handed(source - 1) \cup {p}
             /\ Between(p[1], p[2]) = Token(FieldEnd)
             /\ Token(FieldEnd) \in Slices
  <1> DEFINE first == source - 1
             last  == source + FieldEnd
             p     == <<first, last>>
             next  == source + Consumed(FieldEnd) - 1
  <1>1. source \in Nat /\ size \in Nat /\ remaining_len \in Nat
        /\ source + remaining_len = size
    BY DEF TextOK
  <1>2. FieldEnd \in 0 .. remaining_len /\ last \in Cuts
        /\ \A c \in source .. last - 1 : c \notin Cuts
    <2>1. FieldEnd \in 0 .. remaining_len /\ source + FieldEnd \in Cuts
      BY FieldEndPlace
    <2>2. \A c \in source .. source + FieldEnd - 1 : c \notin Cuts
      BY FieldEndPlace
    <2>3. last = source + FieldEnd
      OBVIOUS
    <2>4. last \in Cuts /\ source \in Int /\ FieldEnd \in Int /\ last \in Int
      BY <1>1, <2>1
    <2> HIDE DEF last
    <2>5. \A c \in source .. last - 1 : c \notin Cuts
      BY <2>2, <2>3, <2>4
    <2> QED
      BY <2>1, <2>4, <2>5
  <1>3. first \in Cuts /\ first \in Int /\ last \in Int /\ first < last
        /\ first < size - 1 /\ first + 1 = source
    BY <1>1, <1>2 DEF AtCut
  <1>4. \A c \in Cuts : c <= first \/ c >= last
    <2> SUFFICES ASSUME NEW c \in Cuts, c > first, c < last PROVE FALSE
      BY <1>1, <1>3, FieldsType
    <2>1. c \in Int
      BY <1>1, FieldsType
    <2> QED
      BY <1>2, <1>3, <2>1
  <1>5. last <= next + 1 /\ first < next /\ next \in Int
        /\ \A c \in Cuts : c >= last => ~(c < next)
    BY <1>1, <1>2, <1>3, FieldsType DEF Consumed
  <1>6. Between(first, last) = Token(FieldEnd)
    BY <1>1, <1>2 DEF Between, Token
  <1>7. Token(FieldEnd) \in Slices
    BY <1>1, <1>2, TrimmedType DEF Token, Slice, Slices
  <1> HIDE DEF first, last, next
  <1>8. p[1] = first /\ p[2] = last /\ p \in Fields
    BY <1>2, <1>3, <1>4 DEF Fields, CutPairs
  <1>9. p \notin Handed(first)
    BY <1>3, <1>8 DEF Handed
  <1>10. ASSUME NEW q \in Fields PROVE q \in Handed(next) <=> q \in Handed(first) \/ q = p
    <2>1. q[1] \in Cuts /\ q[2] \in Cuts /\ q[1] \in Int /\ q[2] \in Int /\ q[1] < q[2]
          /\ q = <<q[1], q[2]>> /\ \A c \in Cuts : c <= q[1] \/ c >= q[2]
      BY <1>1, FieldsType
    <2>2. CASE q[1] < first
      BY <1>3, <1>5, <2>1, <2>2 DEF Handed
    <2>3. CASE q[1] = first
      <3>1. q[2] = last
        BY <1>2, <1>3, <1>4, <2>1, <2>3
      <3> QED
        BY <1>3, <1>5, <2>1, <2>3, <3>1 DEF Handed
    <2>4. CASE q[1] > first
      <3>1. ~(q[1] < next)
        BY <1>3, <1>4, <1>5, <2>1, <2>4
      <3> QED
        BY <1>3, <1>8, <2>1, <2>4, <3>1 DEF Handed
    <2> QED
      BY <1>3, <2>1, <2>2, <2>3, <2>4
  <1>11. Handed(next) = Handed(first) \cup {p}
    BY <1>8, <1>10 DEF Handed
  <1> QED
    BY <1>6, <1>7, <1>8, <1>9, <1>11 DEF first, last, next

(* The fields are determined by where the delimiter, the quotes and the     *)
(* spaces stand, whatever the other characters are.                         *)
SameShape ==
    /\ text' \in Seq(Char) /\ Len(text') = Len(text)
    /\ size' = size /\ delimiter' = delimiter /\ trim_spaces' = trim_spaces
    /\ \A i \in 1 .. Len(text) :
          /\ text'[i] = delimiter <=> text[i] = delimiter
          /\ text'[i] = Quote <=> text[i] = Quote
          /\ IsSpace(text'[i]) <=> IsSpace(text[i])

LEMMA SameFields ==
  ASSUME TextOK, SameShape
  PROVE  /\ Cuts' = Cuts /\ Fields' = Fields
         /\ \A p \in Fields : Rank(p)' = Rank(p) /\ Between(p[1], p[2])' = Between(p[1], p[2])
  <1>1. size \in Nat /\ size < Len(text) /\ Len(text) \in Nat /\ size' = size
        /\ delimiter' = delimiter /\ trim_spaces' = trim_spaces
    BY DEF TextOK, SameShape
  <1>2. ASSUME NEW b \in 0 .. size PROVE QuotesIn(0, b)' = QuotesIn(0, b)
    <2>1. \A i \in 0 + 1 .. b : text'[i] = Quote <=> text[i] = Quote
      BY <1>1 DEF SameShape
    <2> QED
      BY <2>1 DEF QuotesIn
  <1>3. ASSUME NEW i \in 0 .. size - 1
        PROVE  (text'[i + 1] = delimiter' /\ delimiter' # Quote
                    /\ Cardinality(QuotesIn(0, i)') % 2 = 0)
               <=> (text[i + 1] = delimiter /\ delimiter # Quote
                        /\ Cardinality(QuotesIn(0, i)) % 2 = 0)
    <2>1. i \in 0 .. size /\ i + 1 \in 1 .. Len(text)
      BY <1>1
    <2>2. QuotesIn(0, i)' = QuotesIn(0, i)
      BY <1>2, <2>1
    <2>3. text'[i + 1] = delimiter <=> text[i + 1] = delimiter
      BY <2>1 DEF SameShape
    <2> QED
      BY <1>1, <2>2, <2>3
  <1>4. Cuts' = Cuts
    <2> DEFINE IsCut(i) == /\ text[i + 1] = delimiter /\ delimiter # Quote
                           /\ Cardinality(QuotesIn(0, i)) % 2 = 0
               New(i) == /\ text'[i + 1] = delimiter' /\ delimiter' # Quote
                         /\ Cardinality(QuotesIn(0, i)') % 2 = 0
    <2>1. \A i \in 0 .. size - 1 : New(i) <=> IsCut(i)
      BY <1>3
    <2>2. Cuts = {-1, size} \cup {i \in 0 .. size - 1 : IsCut(i)}
      BY DEF Cuts
    <2>3. Cuts' = {-1, size} \cup {i \in 0 .. size - 1 : New(i)}
      BY <1>1 DEF Cuts
    <2> HIDE DEF IsCut, New
    <2> QED
      BY <2>1, <2>2, <2>3
  <1>5. Fields' = Fields
    BY <1>1, <1>4 DEF Fields, CutPairs
  <1>6. ASSUME NEW p \in Fields PROVE Rank(p)' = Rank(p)
    BY <1>5 DEF Rank
  <1>7. ASSUME NEW p \in Fields PROVE Between(p[1], p[2])' = Between(p[1], p[2])
    <2> DEFINE a == p[1] + 1
               b == p[2]
    <2>1. a \in Nat /\ b \in -1 .. size
      BY <1>1, FieldsType
    <2>2. \A i \in a .. b - 1 : IsSpace(text'[i + 1]) <=> IsSpace(text[i + 1])
      <3> SUFFICES ASSUME NEW i \in a .. b - 1
                   PROVE  IsSpace(text'[i + 1]) <=> IsSpace(text[i + 1])
        OBVIOUS
      <3>1. i + 1 \in 1 .. Len(text)
        BY <1>1, <2>1
      <3> QED
        BY <3>1 DEF SameShape
    <2> DEFINE Filled(s) == {i \in a .. b - 1 : ~IsSpace(s[i + 1])}
               Trim(solid) ==
                   LET start == CHOOSE i \in solid : \A j \in solid : i <= j
                       end   == CHOOSE i \in solid : \A j \in solid : j <= i
                   IN  IF solid = {} THEN Slice(b, 0) ELSE Slice(start, end - start + 1)
    <2> HIDE DEF a, b
    <2>3. Filled(text') = Filled(text)
      BY <2>2
    <2>4. Trimmed(text', a, b) = Trimmed(text, a, b)
      <3>1. \A s : Trimmed(s, a, b) = Trim(Filled(s))
        BY Zenon DEF Trimmed
      <3> HIDE DEF Trim, Filled
      <3> QED
        BY <2>3, <3>1
    <2> QED
      BY <1>1, <2>4 DEF Between, a, b
  <1> QED
    BY <1>4, <1>5, <1>6, <1>7

-----------------------------------------------------------------------------
LEMMA InitInv == Init => CsvInv
  <1> SUFFICES ASSUME Init PROVE CsvInv
    OBVIOUS
  <1>1. PICK s \in Texts : text = Append(s, NUL)
    BY DEF Init
  <1>2. s \in Seq(Char) /\ NUL \in Char
    BY CsvAssumption, CharAssumption
  <1>3. text \in Seq(Char) /\ Len(text) = Len(s) + 1 /\ Len(s) \in Nat
    BY <1>1, <1>2
  <1>4. PICK length \in {0, Len(text) - 1} : remaining_len = Length(text, length)
    BY DEF Init
  <1>5. remaining_len \in 0 .. Len(s)
    BY <1>1, <1>2, <1>3, <1>4, StrLenInside DEF Length
  <1>6. TextOK
    BY <1>3, <1>5 DEF Init, TextOK
  <1>7. source = 0 /\ size \in Nat /\ tokens = << >> /\ status = "NONE"
    BY <1>6 DEF Init, TextOK
  <1>8. AtCut
    BY <1>7 DEF AtCut, Cuts
  <1>9. Handed(source - 1) = {}
    BY <1>7, FieldsType DEF Handed
  <1>10. TokensOK
    <2>1. Cardinality(Handed(source - 1)) = 0
      BY <1>9, FS_EmptySet
    <2>2. tokens \in Seq(Slices) /\ Len(tokens) = 0
      BY <1>7
    <2>3. \A p \in Handed(source - 1) : tokens[Rank(p)] = Between(p[1], p[2])
      BY <1>9
    <2> QED
      BY <2>1, <2>2, <2>3 DEF TokensOK
  <1> QED
    BY <1>6, <1>7, <1>8, <1>10 DEF CsvInv

LEMMA NextTokenInv ==
  ASSUME CsvInv, NextToken
  PROVE  CsvInv'
  <1>0. PICK p : p = <<source - 1, source + FieldEnd>>
    OBVIOUS
  <1> DEFINE H == Handed(source - 1)
             N == Len(tokens)
             T == Token(FieldEnd)
  <1>1. /\ TextOK /\ AtCut /\ TokensOK /\ remaining_len > 0
        /\ tokens' = Append(tokens, T)
        /\ source' = source + Consumed(FieldEnd)
        /\ remaining_len' = remaining_len - Consumed(FieldEnd)
        /\ status' = "OK"
        /\ text' = text /\ size' = size /\ delimiter' = delimiter /\ trim_spaces' = trim_spaces
    BY DEF CsvInv, NextToken, input
  <1>2. source \in Nat /\ size \in Nat /\ remaining_len \in Nat
        /\ source + remaining_len = size
    BY <1>1 DEF TextOK
  <1>3. FieldEnd \in 0 .. remaining_len /\ source + FieldEnd \in Cuts
    BY <1>1, FieldEndPlace
  <1>4. TextOK'
    <2>1. Consumed(FieldEnd) \in 1 .. remaining_len
      BY <1>1, <1>2, <1>3 DEF Consumed
    <2> DEFINE C == Consumed(FieldEnd)
    <2>2. C \in 1 .. remaining_len /\ source' = source + C
          /\ remaining_len' = remaining_len - C /\ size' = size
      BY <1>1, <2>1
    <2> HIDE DEF C
    <2>3. source' \in Nat /\ remaining_len' \in Nat /\ source' + remaining_len' = size'
      BY <1>2, <2>2
    <2> QED
      BY <1>1, <2>3 DEF TextOK
  <1>5. SameShape
    BY <1>1 DEF SameShape, TextOK
  <1>6. /\ Cuts' = Cuts /\ Fields' = Fields
        /\ \A q \in Fields : Rank(q)' = Rank(q) /\ Between(q[1], q[2])' = Between(q[1], q[2])
    BY <1>1, <1>5, SameFields
  <1>7. AtCut'
    <2> SUFFICES ASSUME remaining_len' > 0 PROVE source' - 1 \in Cuts
      BY <1>6 DEF AtCut
    <2>1. FieldEnd < remaining_len /\ Consumed(FieldEnd) = FieldEnd + 1
      BY <1>1, <1>2, <1>3 DEF Consumed
    <2>2. source' - 1 = source + FieldEnd
      BY <1>1, <1>2, <1>3, <2>1
    <2> QED
      BY <1>3, <2>2
  <1>8. /\ p \in Fields /\ p \notin H
        /\ Handed(source + Consumed(FieldEnd) - 1) = H \cup {p}
        /\ Between(p[1], p[2]) = T
        /\ T \in Slices
    BY <1>0, <1>1, NextField
  <1>9. Handed(source - 1)' = H \cup {p}
    <2>1. Handed(source - 1)' = {q \in Fields : q[1] < source' - 1}
      <3>1. Handed(source - 1)' = {q \in Fields' : q[1] < source' - 1}
        BY DEF Handed
      <3> QED
        BY <1>6, <3>1
    <2>2. source' - 1 = source + Consumed(FieldEnd) - 1
      <3>1. Consumed(FieldEnd) \in Int
        BY <1>2, <1>3 DEF Consumed
      <3>2. source' = source + Consumed(FieldEnd)
        BY <1>1
      <3> QED
        BY <1>2, <3>1, <3>2
    <2>3. Handed(source - 1)' = Handed(source + Consumed(FieldEnd) - 1)
      BY <2>1, <2>2 DEF Handed
    <2> QED
      BY <1>8, <2>3
  <1>10. /\ IsFiniteSet(H) /\ Cardinality(H) \in Nat /\ N = Cardinality(H)
         /\ tokens \in Seq(Slices)
         /\ \A q \in H : tokens[Rank(q)] = Between(q[1], q[2])
    BY <1>1, <1>2, HandedFinite DEF TokensOK
  <1> HIDE DEF H, T
  <1>11. Cardinality(H \cup {p}) = N + 1
    BY <1>8, <1>10, FS_AddElement
  <1>12. /\ tokens' \in Seq(Slices) /\ Len(tokens') = N + 1
         /\ tokens'[N + 1] = T /\ \A n \in 1 .. N : tokens'[n] = tokens[n]
    <2>1. tokens \in Seq(Slices) /\ T \in Slices /\ tokens' = Append(tokens, T)
      BY <1>1, <1>8, <1>10
    <2> QED
      BY <2>1
  <1>13. ASSUME NEW q \in H PROVE tokens'[Rank(q)'] = Between(q[1], q[2])'
    <2>1. q \in Fields /\ Rank(q) \in 1 .. N
      <3>1. q \in Fields /\ q \in Handed(source - 1) /\ source - 1 \in Int
        BY <1>2 DEF H, Handed
      <3> QED
        BY <1>2, <1>10, <3>1, RankCounts DEF H
    <2> QED
      BY <1>6, <1>10, <1>12, <2>1
  <1>14. tokens'[Rank(p)'] = Between(p[1], p[2])'
    <2>1. Rank(p) = N + 1
      <3>1. p[1] = source - 1 /\ source - 1 \in Int
        BY <1>0, <1>2
      <3>2. Rank(p) > N
        BY <1>2, <1>8, <1>10, <3>1, RankCounts DEF H
      <3>3. /\ p \in Handed(source + Consumed(FieldEnd) - 1)
            /\ source + Consumed(FieldEnd) - 1 \in Int
        BY <1>2, <1>3, <1>8 DEF Consumed
      <3>4. Rank(p) \in 1 .. N + 1
        BY <1>2, <1>8, <1>11, <3>3, RankCounts
      <3> QED
        BY <1>10, <3>2, <3>4
    <2> QED
      BY <1>6, <1>8, <1>12, <2>1
  <1>15. TokensOK'
    <2>1. Len(tokens') = Cardinality(Handed(source - 1)')
      BY <1>9, <1>11, <1>12
    <2>2. \A q \in Handed(source - 1)' : tokens'[Rank(q)'] = Between(q[1], q[2])'
      BY <1>9, <1>13, <1>14
    <2> QED
      BY <1>12, <2>1, <2>2 DEF TokensOK
  <1> QED
    BY <1>1, <1>4, <1>7, <1>15 DEF CsvInv

(* Whoever leaves the cursor and the shape of the text alone.               *)
LEMMA KeepsInv ==
  ASSUME CsvInv, SameShape, UNCHANGED <<source, remaining_len, tokens>>,
         status' = "NOT_FOUND" => remaining_len' = 0
  PROVE  CsvInv'
  <1>1. /\ TextOK /\ AtCut /\ TokensOK
        /\ source' = source /\ remaining_len' = remaining_len /\ tokens' = tokens
    BY DEF CsvInv
  <1>2. /\ Cuts' = Cuts /\ Fields' = Fields
        /\ \A q \in Fields : Rank(q)' = Rank(q) /\ Between(q[1], q[2])' = Between(q[1], q[2])
    BY <1>1, SameFields
  <1>3. TextOK'
    BY <1>1 DEF TextOK, SameShape
  <1>4. AtCut'
    BY <1>1, <1>2 DEF AtCut
  <1>5. Handed(source - 1)' = Handed(source - 1) /\ Handed(source - 1) \subseteq Fields
    BY <1>1, <1>2 DEF Handed
  <1>6. TokensOK'
    <2>1. tokens' \in Seq(Slices)
          /\ Len(tokens') = Cardinality(Handed(source - 1)')
      BY <1>1, <1>5 DEF TokensOK
    <2>2. \A q \in Handed(source - 1)' : tokens'[Rank(q)'] = Between(q[1], q[2])'
      BY <1>1, <1>2, <1>5 DEF TokensOK
    <2> QED
      BY <2>1, <2>2 DEF TokensOK
  <1> QED
    BY <1>3, <1>4, <1>6 DEF CsvInv

LEMMA NextInv == CsvInv /\ [Next]_vars => CsvInv'
  <1> SUFFICES ASSUME CsvInv, [Next]_vars PROVE CsvInv'
    OBVIOUS
  <1>1. CASE NextToken
    BY <1>1, NextTokenInv
  <1>2. CASE NoToken
    <2>1. SameShape
      BY <1>2 DEF NoToken, input, SameShape, CsvInv, TextOK
    <2> QED
      BY <1>2, <2>1, KeepsInv DEF NoToken
  <1>3. CASE UNCHANGED vars
    <2>1. SameShape
      BY <1>3 DEF vars, input, SameShape, CsvInv, TextOK
    <2> QED
      BY <1>3, <2>1, KeepsInv DEF vars, CsvInv
  <1> QED
    BY <1>1, <1>2, <1>3 DEF Next

(* Whatever the text, the delimiter and the spaces: the calls of            *)
(* EDC_CSV_Next hand out its fields, each once and in order, as an even     *)
(* number of quotes before a delimiter marks them, though every call counts *)
(* the quotes anew (edc_parser.c:178-234).                                  *)
THEOREM FieldsInOrder == Spec => []HandsOutFields
  <1>1. Spec => []CsvInv
    BY InitInv, NextInv, PTL DEF Spec
  <1> QED
    BY <1>1, InvImplies, PTL

-----------------------------------------------------------------------------
(* The caller who changes the case of a field.                              *)
LEMMA StrLenClear ==
  ASSUME NEW s \in Seq(Char), NEW start \in Nat
  PROVE  /\ StrLen(s, start) \in Nat
         /\ \A n \in 0 .. StrLen(s, start) - 1 : start + n < Len(s) => s[start + n + 1] # NUL
  <1> DEFINE ends == {n \in 0 .. StrCap : n = StrCap \/ (start + n < Len(s) /\ s[start + n + 1] = NUL)}
  <1>1. StrCap \in Nat
    BY StrCapAssumption
  <1>2. ends \subseteq Nat /\ StrCap \in ends
    BY <1>1
  <1>3. \E n \in ends : \A m \in ends : n <= m
    BY <1>2, LeastExists
  <1>4. StrLen(s, start) \in ends /\ \A m \in ends : StrLen(s, start) <= m
    BY <1>3 DEF StrLen
  <1>5. ASSUME NEW n \in 0 .. StrLen(s, start) - 1, start + n < Len(s)
        PROVE  s[start + n + 1] # NUL
    <2>1. n \in 0 .. StrCap /\ n \notin ends
      BY <1>1, <1>4
    <2> QED
      BY <1>5, <2>1
  <1> QED
    BY <1>4, <1>5

FieldInv ==
    /\ CsvInv
    /\ original \in Seq(Char) /\ Len(original) = Len(text)
    /\ ChangesFieldsOnly

(* The case of a character, changed either way.                             *)
IsCase(f) ==
    /\ f \in [Char -> Char]
    /\ \A sign \in Spaces \cup Delimiters \cup {NUL, Quote}, c \in Char :
          f[c] = sign <=> c = sign

InPlace(f) ==
    /\ tokens # << >> /\ status = "OK"
    /\ text' = [i \in 1 .. Len(text) |->
                   IF Within(i, Meant(text, Field)) THEN f[text[i]] ELSE text[i]]
    /\ UNCHANGED <<size, delimiter, trim_spaces, source, remaining_len, status, tokens, original>>

LEMMA InPlaceShape ==
  ASSUME FieldInv, NEW f, IsCase(f), InPlace(f)
  PROVE  /\ SameShape
         /\ \A i \in 1 .. Len(text) : text'[i] = NUL <=> text[i] = NUL
  <1>1. text \in Seq(Char) /\ delimiter \in Delimiters /\ Len(text) \in Nat
    BY DEF FieldInv, CsvInv, TextOK
  <1>2. ASSUME NEW i \in 1 .. Len(text)
        PROVE  /\ text'[i] \in Char
               /\ \A sign \in Spaces \cup Delimiters \cup {NUL, Quote} :
                     text'[i] = sign <=> text[i] = sign
    <2>1. text[i] \in Char
      BY <1>1
    <2>2. text'[i] = f[text[i]] \/ text'[i] = text[i]
      BY DEF InPlace
    <2> QED
      BY <2>1, <2>2 DEF IsCase
  <1>3. text' \in Seq(Char) /\ Len(text') = Len(text)
    <2>1. text' = [i \in 1 .. Len(text) |-> text'[i]]
      BY DEF InPlace
    <2>2. text' \in [1 .. Len(text) -> Char]
      BY <1>2, <2>1
    <2> QED
      BY <1>1, <2>2
  <1>4. ASSUME NEW i \in 1 .. Len(text)
        PROVE  /\ text'[i] = delimiter <=> text[i] = delimiter
               /\ text'[i] = Quote <=> text[i] = Quote
               /\ text'[i] = NUL <=> text[i] = NUL
               /\ IsSpace(text'[i]) <=> IsSpace(text[i])
    BY <1>1, <1>2 DEF IsSpace
  <1> QED
    BY <1>3, <1>4 DEF SameShape, InPlace

LEMMA InPlaceInv ==
  ASSUME FieldInv, NEW f, IsCase(f), InPlace(f)
  PROVE  FieldInv'
  <1>1. SameShape /\ \A i \in 1 .. Len(text) : text'[i] = NUL <=> text[i] = NUL
    BY InPlaceShape
  <1>2. CsvInv'
    BY <1>1, KeepsInv DEF FieldInv, InPlace, CsvInv
  <1>3. /\ text \in Seq(Char) /\ Len(text) \in Nat /\ Len(text') = Len(text)
        /\ tokens \in Seq(Slices) /\ tokens' = tokens /\ original' = original
        /\ original \in Seq(Char) /\ Len(original) = Len(text)
    BY <1>1 DEF FieldInv, CsvInv, TextOK, TokensOK, InPlace, SameShape
  <1>4. \A t \in 1 .. Len(tokens) : tokens[t].start \in Nat /\ tokens[t].len \in Nat
    <2>1. \A t \in 1 .. Len(tokens) : tokens[t] \in Slices
      BY <1>3
    <2> QED
      BY <2>1 DEF Slices
  <1>5. ASSUME NEW i \in 1 .. Len(text), text'[i] # original[i]
        PROVE  \E t \in 1 .. Len(tokens) :
                   \/ Within(i, tokens[t])
                   \/ tokens[t].len = 0 /\ i > tokens[t].start
                          /\ \A j \in tokens[t].start + 1 .. i : text'[j] # NUL
    <2>1. CASE text'[i] = text[i]
      <3>1. PICK t \in 1 .. Len(tokens) :
                \/ Within(i, tokens[t])
                \/ tokens[t].len = 0 /\ i > tokens[t].start
                       /\ \A j \in tokens[t].start + 1 .. i : text[j] # NUL
        BY <1>5, <2>1 DEF FieldInv, ChangesFieldsOnly
      <3>2. \A j \in tokens[t].start + 1 .. i : j \in 1 .. Len(text)
        BY <1>3, <1>4
      <3> QED
        BY <1>1, <3>1, <3>2
    <2>2. CASE text'[i] # text[i]
      <3> DEFINE t == Len(tokens)
                 start == Field.start
      <3>1. t \in 1 .. Len(tokens) /\ Field = tokens[t] /\ start \in Nat
        BY <1>3, <1>4 DEF InPlace, Field
      <3>2. Within(i, Meant(text, Field))
        BY <2>2 DEF InPlace
      <3>3. CASE Field.len # 0
        BY <3>1, <3>2, <3>3 DEF Meant
      <3>4. CASE Field.len = 0
        <4> HIDE DEF start, t
        <4>1. StrLen(text, start) \in Nat
              /\ \A n \in 0 .. StrLen(text, start) - 1 :
                     start + n < Len(text) => text[start + n + 1] # NUL
          BY <1>3, <3>1, StrLenClear
        <4>2. Meant(text, Field) = Slice(start, StrLen(text, start))
          BY <3>4 DEF Meant, start
        <4>3. i > start /\ i <= start + StrLen(text, start)
          BY <3>2, <4>2 DEF Within, Slice
        <4>4. ASSUME NEW j \in start + 1 .. i PROVE text'[j] # NUL
          <5>1. j \in 1 .. Len(text) /\ j - start - 1 \in 0 .. StrLen(text, start) - 1
                /\ start + (j - start - 1) < Len(text) /\ start + (j - start - 1) + 1 = j
            BY <1>3, <3>1, <4>1, <4>3
          <5>2. text[j] # NUL
            BY <4>1, <5>1
          <5> QED
            BY <1>1, <5>1, <5>2
        <4> QED
          BY <3>1, <3>4, <4>3, <4>4 DEF start
      <3> QED
        BY <3>3, <3>4
    <2> QED
      BY <2>1, <2>2
  <1>6. ChangesFieldsOnly'
    BY <1>3, <1>5 DEF ChangesFieldsOnly, Within
  <1> QED
    BY <1>2, <1>3, <1>6 DEF FieldInv

LEMMA TokenizeInv ==
  ASSUME FieldInv, CsvInv', Next \/ UNCHANGED vars, original' = original
  PROVE  FieldInv'
  <1>1. text' = text /\ (tokens' = tokens \/ tokens' = Append(tokens, Token(FieldEnd)))
    BY DEF Next, NextToken, NoToken, vars, input
  <1>2. tokens \in Seq(Slices) /\ tokens' \in Seq(Slices)
    BY DEF FieldInv, CsvInv, TokensOK
  <1>3. \A t \in 1 .. Len(tokens) : t \in 1 .. Len(tokens') /\ tokens'[t] = tokens[t]
    <2>1. CASE tokens' = tokens
      BY <2>1
    <2>2. CASE tokens' = Append(tokens, Token(FieldEnd))
      BY <1>2, <2>2
    <2> QED
      BY <1>1, <2>1, <2>2
  <1>4. ChangesFieldsOnly'
    <2> SUFFICES ASSUME NEW i \in 1 .. Len(text), text[i] # original[i]
                 PROVE  \E t \in 1 .. Len(tokens') :
                            \/ Within(i, tokens'[t])
                            \/ tokens'[t].len = 0 /\ i > tokens'[t].start
                                   /\ \A j \in tokens'[t].start + 1 .. i : text[j] # NUL
      BY <1>1 DEF ChangesFieldsOnly, Within
    <2>1. PICK t \in 1 .. Len(tokens) :
              \/ Within(i, tokens[t])
              \/ tokens[t].len = 0 /\ i > tokens[t].start
                     /\ \A j \in tokens[t].start + 1 .. i : text[j] # NUL
      BY DEF FieldInv, ChangesFieldsOnly
    <2>2. t \in 1 .. Len(tokens') /\ tokens'[t] = tokens[t]
      BY <1>3
    <2> QED
      BY <2>1, <2>2
  <1> QED
    BY <1>1, <1>4 DEF FieldInv

THEOREM FieldInvariance == FieldSpec => []FieldInv
  <1>1. FieldInit => FieldInv
    <2> SUFFICES ASSUME FieldInit PROVE FieldInv
      OBVIOUS
    <2>1. CsvInv /\ original = text
      BY InitInv DEF FieldInit
    <2>2. ChangesFieldsOnly
      BY <2>1 DEF ChangesFieldsOnly
    <2> QED
      BY <2>1, <2>2 DEF FieldInv, CsvInv, TextOK
  <1>2. FieldInv /\ [FieldNext]_<<vars, original>> => FieldInv'
    <2> SUFFICES ASSUME FieldInv, [FieldNext]_<<vars, original>> PROVE FieldInv'
      OBVIOUS
    <2>1. IsCase(Lower) /\ IsCase(Upper)
      BY CodeAssumption, CaseAssumption DEF IsCase
    <2>2. CASE Tokenize
      BY <2>2, NextInv, TokenizeInv DEF Tokenize, FieldInv
    <2>3. CASE LowerField
      <3>1. InPlace(Lower)
        BY <2>3 DEF LowerField, InPlace, StrToLower_InPlace
      <3> QED
        BY <2>1, <3>1, InPlaceInv
    <2>4. CASE UpperField
      <3>1. InPlace(Upper)
        BY <2>4 DEF UpperField, InPlace, StrToUpper_InPlace
      <3> QED
        BY <2>1, <3>1, InPlaceInv
    <2>5. CASE UNCHANGED <<vars, original>>
      BY <2>5, NextInv, TokenizeInv DEF FieldInv
    <2> QED
      BY <2>2, <2>3, <2>4, <2>5 DEF FieldNext
  <1> QED
    BY <1>1, <1>2, PTL DEF FieldSpec

(* The fields are the same, and in the same order, when the caller changes  *)
(* the case of those he has while he goes through the rest: no delimiter,   *)
(* quote or space is moved by EDC_StrToLower_InPlace and                    *)
(* EDC_StrToUpper_InPlace, not even when they run on behind an empty field, *)
(* over what is still to be read (edc_parser.c:178-234,                     *)
(* edc_string.c:271-291).                                                   *)
THEOREM FieldsInOrderInUse == FieldSpec => []HandsOutFields
  <1>1. FieldInv => HandsOutFields
    BY InvImplies DEF FieldInv
  <1> QED
    BY <1>1, FieldInvariance, PTL

(* He changes no character that lies in no field, but for what follows an   *)
(* empty one up to the NUL (edc_string.c:271-291).                          *)
THEOREM OnlyFieldsChange == FieldSpec => []ChangesFieldsOnly
  <1>1. FieldInv => ChangesFieldsOnly
    BY DEF FieldInv
  <1> QED
    BY <1>1, FieldInvariance, PTL
-----------------------------------------------------------------------------
(* What the utilities say of the fields.  First the order: the first place  *)
(* where two strings differ decides.                                        *)
Sign(a, b) == IF a < b THEN -1 ELSE IF a > b THEN 1 ELSE 0

FirstDifference(x, y, i) ==
    LET n == Least(Len(x), Len(y))
    IN  /\ i \in 1 .. n + 1 /\ \A j \in 1 .. i - 1 : x[j] = y[j]
        /\ i = n + 1 \/ x[i] # y[i]

DecidedAt(x, y, i) ==
    IF i <= Least(Len(x), Len(y)) THEN Sign(Code[x[i]], Code[y[i]]) ELSE Sign(Len(x), Len(y))

LEMMA OrderedDecided ==
  ASSUME NEW x \in Seq(Char), NEW y \in Seq(Char)
  PROVE  \E i \in Nat : FirstDifference(x, y, i) /\ Ordered(x, y) = DecidedAt(x, y, i)
  <1> DEFINE n == Least(Len(x), Len(y))
             differ == {i \in 1 .. n : x[i] # y[i]}
             first == CHOOSE i \in differ : \A j \in differ : i <= j
  <1>1. n \in Nat /\ n <= Len(x) /\ n <= Len(y)
    BY DEF Least
  <1>2. Ordered(x, y) = IF differ # {} THEN Sign(Code[x[first]], Code[y[first]])
                        ELSE Sign(Len(x), Len(y))
    BY DEF Ordered, Sign
  <1>3. \A i \in 1 .. n : i \in differ <=> x[i] # y[i]
    OBVIOUS
  <1>4. differ \subseteq 1 .. n
    OBVIOUS
  <1>5. CASE differ # {}
    <2>1. \E i \in differ : \A j \in differ : i <= j
      <3>1. differ \subseteq Nat
        BY <1>1, <1>4
      <3> HIDE DEF differ
      <3> QED
        BY <1>5, <3>1, LeastExists
    <2>2. first \in differ /\ \A j \in differ : first <= j
      <3> HIDE DEF differ
      <3> QED
        BY <2>1
    <2> HIDE DEF differ, first, n
    <2>3. first \in 1 .. n /\ x[first] # y[first]
      BY <1>3, <1>4, <2>2
    <2>4. \A j \in 1 .. first - 1 : x[j] = y[j]
      BY <1>1, <1>3, <2>2, <2>3
    <2>5. FirstDifference(x, y, first)
      BY <1>1, <2>3, <2>4 DEF FirstDifference, n
    <2>6. Ordered(x, y) = DecidedAt(x, y, first)
      BY <1>1, <1>2, <1>5, <2>3 DEF DecidedAt, n
    <2> QED
      BY <1>1, <2>3, <2>5, <2>6
  <1>6. CASE differ = {}
    <2> HIDE DEF differ, first, n
    <2>1. \A j \in 1 .. n : x[j] = y[j]
      BY <1>3, <1>6
    <2>2. FirstDifference(x, y, n + 1)
      BY <1>1, <2>1 DEF FirstDifference, n
    <2>3. Ordered(x, y) = DecidedAt(x, y, n + 1)
      BY <1>1, <1>2, <1>6 DEF DecidedAt, n
    <2> QED
      BY <1>1, <2>2, <2>3
  <1> QED
    BY <1>5, <1>6

LEMMA OneDifference ==
  ASSUME NEW x \in Seq(Char), NEW y \in Seq(Char), NEW i \in Nat, NEW j \in Nat,
         FirstDifference(x, y, i), FirstDifference(y, x, j)
  PROVE  i = j
  <1>1. Least(Len(x), Len(y)) = Least(Len(y), Len(x)) /\ Least(Len(x), Len(y)) \in Nat
    BY DEF Least
  <1>2. ~(i < j) /\ ~(j < i)
    BY <1>1 DEF FirstDifference
  <1> QED
    BY <1>2

(* 0 says that the strings are equal, and the order is the same seen from   *)
(* either side.                                                             *)
LEMMA OrderedSymmetry ==
  ASSUME NEW x \in Seq(Char), NEW y \in Seq(Char)
  PROVE  /\ Ordered(x, y) \in {-1, 0, 1}
         /\ Ordered(x, y) = 0 <=> x = y
         /\ Ordered(x, y) = -Ordered(y, x)
  <1>1. PICK i \in Nat : FirstDifference(x, y, i) /\ Ordered(x, y) = DecidedAt(x, y, i)
    BY OrderedDecided
  <1>2. PICK j \in Nat : FirstDifference(y, x, j) /\ Ordered(y, x) = DecidedAt(y, x, j)
    BY OrderedDecided
  <1>3. i = j
    BY <1>1, <1>2, OneDifference
  <1> DEFINE n == Least(Len(x), Len(y))
  <1>4. n = Least(Len(y), Len(x)) /\ n \in Nat /\ n <= Len(x) /\ n <= Len(y)
        /\ (n = Len(x) \/ n = Len(y))
    BY DEF Least
  <1>5. i \in 1 .. n + 1 /\ (\A k \in 1 .. i - 1 : x[k] = y[k]) /\ (i = n + 1 \/ x[i] # y[i])
    BY <1>1 DEF FirstDifference
  <1>6. CASE i <= n
    <2>1. x[i] \in Char /\ y[i] \in Char /\ x[i] # y[i]
      BY <1>4, <1>5, <1>6
    <2>2. Code[x[i]] \in Nat /\ Code[y[i]] \in Nat /\ Code[x[i]] # Code[y[i]]
      BY <2>1, CodeAssumption
    <2>3. Ordered(x, y) = Sign(Code[x[i]], Code[y[i]])
          /\ Ordered(y, x) = Sign(Code[y[i]], Code[x[i]])
      BY <1>1, <1>2, <1>3, <1>4, <1>6 DEF DecidedAt
    <2>4. x # y
      BY <2>1
    <2> QED
      BY <2>2, <2>3, <2>4 DEF Sign
  <1>7. CASE i = n + 1
    <2>1. Ordered(x, y) = Sign(Len(x), Len(y)) /\ Ordered(y, x) = Sign(Len(y), Len(x))
      BY <1>1, <1>2, <1>3, <1>4, <1>7 DEF DecidedAt
    <2>2. \A k \in 1 .. n : x[k] = y[k]
      BY <1>4, <1>5, <1>7
    <2>3. Len(x) = Len(y) => x = y
      BY <1>4, <2>2
    <2> QED
      BY <2>1, <2>3 DEF Sign
  <1> QED
    BY <1>4, <1>5, <1>6, <1>7

(* x stands before y, or is y.                                              *)
NotBehind(x, y) ==
    /\ \A i \in 1 .. Least(Len(x), Len(y)) :
          (\A j \in 1 .. i - 1 : x[j] = y[j]) => Code[x[i]] <= Code[y[i]]
    /\ (\A j \in 1 .. Least(Len(x), Len(y)) : x[j] = y[j]) => Len(x) <= Len(y)

LEMMA OrderedNotBehind ==
  ASSUME NEW x \in Seq(Char), NEW y \in Seq(Char)
  PROVE  Ordered(x, y) <= 0 <=> NotBehind(x, y)
  <1>1. PICK i \in Nat : FirstDifference(x, y, i) /\ Ordered(x, y) = DecidedAt(x, y, i)
    BY OrderedDecided
  <1> DEFINE n == Least(Len(x), Len(y))
  <1>2. n \in Nat /\ n <= Len(x) /\ n <= Len(y)
    BY DEF Least
  <1>3. i \in 1 .. n + 1 /\ (\A k \in 1 .. i - 1 : x[k] = y[k]) /\ (i = n + 1 \/ x[i] # y[i])
    BY <1>1 DEF FirstDifference
  <1>4. \A k \in 1 .. n : Code[x[k]] \in Nat /\ Code[y[k]] \in Nat
    BY <1>2, CodeAssumption
  <1>5. NotBehind(x, y) <=>
            /\ \A k \in 1 .. n : (\A j \in 1 .. k - 1 : x[j] = y[j]) => Code[x[k]] <= Code[y[k]]
            /\ (\A j \in 1 .. n : x[j] = y[j]) => Len(x) <= Len(y)
    BY DEF NotBehind
  <1>6. CASE i <= n
    <2>1. Ordered(x, y) = Sign(Code[x[i]], Code[y[i]]) /\ x[i] # y[i]
      <3>1. Ordered(x, y) = Sign(Code[x[i]], Code[y[i]])
        BY <1>1, <1>6 DEF DecidedAt
      <3>2. i # n + 1
        BY <1>2, <1>6
      <3> QED
        BY <1>3, <3>1, <3>2
    <2>2. Ordered(x, y) <= 0 <=> Code[x[i]] <= Code[y[i]]
      BY <1>3, <1>4, <1>6, <2>1 DEF Sign
    <2>3. NotBehind(x, y) => Code[x[i]] <= Code[y[i]]
      BY <1>3, <1>5, <1>6
    <2>4. ASSUME Code[x[i]] <= Code[y[i]] PROVE NotBehind(x, y)
      <3>1. ASSUME NEW k \in 1 .. n, \A j \in 1 .. k - 1 : x[j] = y[j]
            PROVE  Code[x[k]] <= Code[y[k]]
        <4>1. k <= i
          BY <1>2, <1>3, <1>6, <2>1, <3>1
        <4>2. CASE k = i
          BY <2>4, <4>2
        <4>3. CASE k < i
          <5>1. x[k] = y[k]
            BY <1>3, <4>3
          <5> QED
            BY <1>4, <5>1
        <4> QED
          BY <4>1, <4>2, <4>3
      <3>2. ~ \A j \in 1 .. n : x[j] = y[j]
        BY <1>3, <1>6, <2>1
      <3> QED
        BY <1>5, <3>1, <3>2
    <2> QED
      BY <2>2, <2>3, <2>4
  <1>7. CASE i = n + 1
    <2>1. Ordered(x, y) = Sign(Len(x), Len(y))
      BY <1>1, <1>2, <1>7 DEF DecidedAt
    <2>2. \A k \in 1 .. n : x[k] = y[k]
      BY <1>2, <1>3, <1>7
    <2>3. \A k \in 1 .. n : Code[x[k]] <= Code[y[k]]
      BY <1>4, <2>2
    <2>4. NotBehind(x, y) <=> Len(x) <= Len(y)
      BY <1>5, <2>2, <2>3
    <2> QED
      BY <2>1, <2>4 DEF Sign
  <1> QED
    BY <1>2, <1>3, <1>6, <1>7

(* Where z and y agree, what stands between them agrees with both.          *)
LEMMA AgreesBetween ==
  ASSUME NEW x \in Seq(Char), NEW y \in Seq(Char), NEW z \in Seq(Char),
         NotBehind(z, x), NotBehind(x, y),
         NEW n \in Nat, n <= Len(z), n <= Len(y), \A j \in 1 .. n : z[j] = y[j]
  PROVE  n <= Len(x) /\ \A j \in 1 .. n : x[j] = z[j]
  <1> DEFINE apart == {j \in 1 .. n : j > Len(x) \/ x[j] # z[j]}
  <1>1. SUFFICES ASSUME apart # {} PROVE FALSE
    <2>1. CASE apart = {}
      <3>1. \A j \in 1 .. n : j <= Len(x) /\ x[j] = z[j]
        BY <2>1
      <3>2. n = 0 \/ n \in 1 .. n
        OBVIOUS
      <3> QED
        BY <3>1, <3>2
    <2> QED
      BY <1>1, <2>1
  <1>2. PICK i \in apart : \A j \in apart : i <= j
    <2>1. apart \subseteq Nat
      OBVIOUS
    <2> HIDE DEF apart
    <2> QED
      BY <1>1, <2>1, LeastExists
  <1>3. i \in 1 .. n /\ (i > Len(x) \/ x[i] # z[i])
    BY <1>2
  <1>4. \A j \in 1 .. i - 1 : j <= Len(x) /\ x[j] = z[j] /\ x[j] = y[j]
    <2> SUFFICES ASSUME NEW j \in 1 .. i - 1 PROVE j <= Len(x) /\ x[j] = z[j] /\ x[j] = y[j]
      OBVIOUS
    <2>1. j \in 1 .. n /\ ~(i <= j)
      BY <1>3
    <2>2. j \notin apart
      BY <1>2, <2>1
    <2> QED
      BY <2>1, <2>2
  <1> HIDE DEF apart
  <1>5. Least(Len(z), Len(x)) \in Nat /\ Least(Len(x), Len(y)) \in Nat
    BY DEF Least
  <1>6. CASE i <= Len(x)
    <2>1. i \in 1 .. Least(Len(z), Len(x)) /\ i \in 1 .. Least(Len(x), Len(y))
      BY <1>3, <1>6 DEF Least
    <2>2. Code[z[i]] <= Code[x[i]]
      BY <1>4, <2>1 DEF NotBehind
    <2>3. Code[x[i]] <= Code[y[i]]
      BY <1>4, <2>1 DEF NotBehind
    <2>4. z[i] \in Char /\ x[i] \in Char /\ z[i] = y[i] /\ x[i] # z[i]
      BY <1>3, <1>6
    <2>5. Code[z[i]] \in Nat /\ Code[x[i]] \in Nat /\ Code[x[i]] # Code[z[i]]
      BY <2>4, CodeAssumption
    <2> QED
      BY <2>2, <2>3, <2>4, <2>5
  <1>7. CASE i > Len(x)
    <2>1. i - 1 = Len(x)
      <3>1. i = 1 \/ i - 1 \in 1 .. i - 1
        BY <1>3
      <3>2. i - 1 <= Len(x)
        BY <1>3, <1>4, <3>1
      <3> QED
        BY <1>3, <1>7, <3>2
    <2>2. Least(Len(z), Len(x)) = Len(x) /\ Len(x) < Len(z)
      BY <1>3, <2>1 DEF Least
    <2>3. \A j \in 1 .. Len(x) : z[j] = x[j]
      BY <1>4, <2>1
    <2>4. Len(z) <= Len(x)
      BY <2>2, <2>3 DEF NotBehind
    <2> QED
      BY <2>2, <2>4
  <1> QED
    BY <1>3, <1>6, <1>7

LEMMA OrderedTransitive ==
  ASSUME NEW x \in Seq(Char), NEW y \in Seq(Char), NEW z \in Seq(Char),
         Ordered(z, x) <= 0, Ordered(x, y) <= 0
  PROVE  Ordered(z, y) <= 0
  <1>1. NotBehind(z, x) /\ NotBehind(x, y)
    BY OrderedNotBehind
  <1>2. Least(Len(z), Len(y)) \in Nat
        /\ Least(Len(z), Len(y)) <= Len(z) /\ Least(Len(z), Len(y)) <= Len(y)
    BY DEF Least
  <1>3. ASSUME NEW i \in 1 .. Least(Len(z), Len(y)), \A j \in 1 .. i - 1 : z[j] = y[j]
        PROVE  Code[z[i]] <= Code[y[i]]
    <2>1. i - 1 \in Nat /\ i - 1 <= Len(z) /\ i - 1 <= Len(y) /\ i <= Len(z) /\ i <= Len(y)
      BY <1>2
    <2>2. i - 1 <= Len(x) /\ \A j \in 1 .. i - 1 : x[j] = z[j]
      <3> DEFINE m == i - 1
      <3>1. m \in Nat /\ m <= Len(z) /\ m <= Len(y) /\ \A j \in 1 .. m : z[j] = y[j]
        BY <1>3, <2>1
      <3> HIDE DEF m
      <3>2. m <= Len(x) /\ \A j \in 1 .. m : x[j] = z[j]
        BY <1>1, <3>1, AgreesBetween
      <3> QED
        BY <3>2 DEF m
    <2>3. i <= Len(x)
      <3> SUFFICES ASSUME Len(x) = i - 1 PROVE FALSE
        BY <2>2
      <3>1. Least(Len(z), Len(x)) = Len(x)
        BY <2>1 DEF Least
      <3>2. Len(z) <= Len(x)
        BY <1>1, <2>2, <3>1 DEF NotBehind
      <3> QED
        BY <2>1, <3>2
    <2>4. i \in 1 .. Least(Len(z), Len(x)) /\ i \in 1 .. Least(Len(x), Len(y))
      BY <2>1, <2>3 DEF Least
    <2>5. Code[z[i]] <= Code[x[i]]
      BY <1>1, <2>2, <2>4 DEF NotBehind
    <2>6. Code[x[i]] <= Code[y[i]]
      <3>1. \A j \in 1 .. i - 1 : x[j] = y[j]
        BY <1>3, <2>2
      <3> QED
        BY <1>1, <2>4, <3>1 DEF NotBehind
    <2>7. Code[z[i]] \in Nat /\ Code[x[i]] \in Nat /\ Code[y[i]] \in Nat
      BY <2>1, <2>3, CodeAssumption
    <2> QED
      BY <2>5, <2>6, <2>7
  <1>4. ASSUME \A j \in 1 .. Least(Len(z), Len(y)) : z[j] = y[j]
        PROVE  Len(z) <= Len(y)
    <2> SUFFICES ASSUME Len(y) < Len(z) PROVE FALSE
      OBVIOUS
    <2>1. Least(Len(z), Len(y)) = Len(y)
      BY DEF Least
    <2>2. \A j \in 1 .. Len(y) : z[j] = y[j]
      BY <1>4, <2>1
    <2>3. Len(y) <= Len(x) /\ \A j \in 1 .. Len(y) : x[j] = z[j]
      BY <1>1, <2>2, AgreesBetween
    <2>4. Least(Len(x), Len(y)) = Len(y)
      BY <2>3 DEF Least
    <2>5. Len(x) <= Len(y)
      BY <1>1, <2>2, <2>3, <2>4 DEF NotBehind
    <2>6. Len(x) = Len(y) /\ Least(Len(z), Len(x)) = Len(x)
      BY <2>3, <2>5 DEF Least
    <2>7. \A j \in 1 .. Len(x) : z[j] = x[j]
      BY <2>3, <2>6
    <2>8. Len(z) <= Len(x)
      BY <1>1, <2>6, <2>7 DEF NotBehind
    <2> QED
      BY <2>6, <2>8
  <1>5. NotBehind(z, y)
    BY <1>3, <1>4 DEF NotBehind
  <1> QED
    BY <1>5, OrderedNotBehind

(* What a field that lies in the text is made of.                           *)
LEMMA ContentsOf ==
  ASSUME NEW s \in Seq(Char), NEW start \in Nat, NEW len \in Nat, start + len <= Len(s)
  PROVE  /\ Contents(s, Slice(start, len)) \in Seq(Char)
         /\ Len(Contents(s, Slice(start, len))) = len
         /\ \A i \in 1 .. len : Contents(s, Slice(start, len))[i] = s[start + i]
  <1>1. Contents(s, Slice(start, len)) = SubSeq(s, start + 1, start + len)
    BY DEF Contents, Slice
  <1> QED
    BY <1>1

LEMMA CharactersOf ==
  ASSUME NEW s \in Seq(Char), NEW f \in Slices, f.len > 0, f.start + f.len <= Len(s)
  PROVE  /\ Characters(s, f) = Contents(s, f)
         /\ Contents(s, f) \in Seq(Char) /\ Len(Contents(s, f)) = f.len
         /\ \A i \in 1 .. f.len : Contents(s, f)[i] = s[f.start + i]
  <1>1. f = Slice(f.start, f.len) /\ f.start \in Nat /\ f.len \in Nat
    BY DEF Slices, Slice
  <1>2. Characters(s, f) = Contents(s, f)
    BY <1>1 DEF Characters, Meant
  <1> DEFINE a == f.start
             n == f.len
             x == Contents(s, Slice(a, n))
  <1>3. x = Contents(s, f)
    BY <1>1
  <1>4. x \in Seq(Char) /\ Len(x) = n /\ \A i \in 1 .. n : x[i] = s[a + i]
    <2>1. a \in Nat /\ n \in Nat /\ a + n <= Len(s)
      BY <1>1
    <2> HIDE DEF a, n
    <2> QED
      BY <2>1, ContentsOf
  <1> HIDE DEF x
  <1> QED
    BY <1>2, <1>3, <1>4

(* A field stands in another where the characters from there on are its own.*)
LEMMA StandsThere ==
  ASSUME NEW s \in Seq(Char), NEW f \in Slices, f.len > 0, f.start + f.len <= Len(s),
         NEW g \in Slices, g.len > 0, g.start + g.len <= Len(s),
         NEW i \in Nat, i + g.len <= f.len
  PROVE  StandsAt(Contents(s, f), i, Contents(s, g))
         <=> Contents(s, Slice(f.start + i, g.len)) = Contents(s, g)
  <1> DEFINE x == Contents(s, f)
             y == Contents(s, g)
             z == Contents(s, Slice(f.start + i, g.len))
  <1>1. f.start \in Nat /\ f.len \in Nat /\ g.start \in Nat /\ g.len \in Nat
    BY DEF Slices
  <1>2. /\ \A j \in 1 .. f.len : x[j] = s[f.start + j]
        /\ y \in Seq(Char) /\ Len(y) = g.len
    BY CharactersOf
  <1>3. z \in Seq(Char) /\ Len(z) = g.len /\ \A j \in 1 .. g.len : z[j] = s[f.start + i + j]
    <2>1. f.start + i \in Nat /\ f.start + i + g.len <= Len(s)
      BY <1>1
    <2> QED
      BY <1>1, <2>1, ContentsOf
  <1>4. \A j \in 1 .. g.len : x[i + j] = z[j]
    <2> HIDE DEF x, z
    <2> SUFFICES ASSUME NEW j \in 1 .. g.len PROVE x[i + j] = z[j]
      OBVIOUS
    <2>1. i + j \in 1 .. f.len /\ f.start + (i + j) = f.start + i + j
      BY <1>1
    <2>2. x[i + j] = s[f.start + (i + j)]
      BY <1>2, <2>1
    <2> QED
      BY <1>3, <2>1, <2>2
  <1> HIDE DEF x, y, z
  <1>5. StandsAt(x, i, y) <=> \A j \in 1 .. g.len : z[j] = y[j]
    BY <1>2, <1>4 DEF StandsAt
  <1>6. (\A j \in 1 .. g.len : z[j] = y[j]) <=> z = y
    BY <1>2, <1>3
  <1> QED
    BY <1>5, <1>6 DEF x, y, z

LEMMA FindsPlaces ==
  ASSUME NEW s \in Seq(Char), NEW f \in Slices, f.len > 0, f.start + f.len <= Len(s),
         NEW g \in Slices, g.len > 0, g.start + g.len <= Len(s)
  PROVE  LET found  == StrFind(s, f, g)
             places == {i \in 0 .. f.len - g.len :
                           Contents(s, Slice(f.start + i, g.len)) = Contents(s, g)}
         IN  /\ found = {} <=> places = {}
             /\ \A i \in found : i \in places /\ \A j \in places : i <= j
             /\ StrStartsWith(s, f, g) <=> 0 \in places
             /\ StrEndsWith(s, f, g) <=> f.len - g.len \in places
  <1> DEFINE x == Contents(s, f)
             y == Contents(s, g)
             found  == StrFind(s, f, g)
             matches == {i \in 0 .. Len(x) - Len(y) : StandsAt(x, i, y)}
             places == {i \in 0 .. f.len - g.len :
                           Contents(s, Slice(f.start + i, g.len)) = y}
  <1>1. f.len \in Nat /\ g.len \in Nat
    BY DEF Slices
  <1>2. /\ x \in Seq(Char) /\ Len(x) = f.len /\ y \in Seq(Char) /\ Len(y) = g.len
        /\ Characters(s, f) = x /\ Characters(s, g) = y
    BY CharactersOf
  <1>3. y # << >>
    BY <1>2
  <1>4. \A i \in 0 .. f.len - g.len :
            StandsAt(x, i, y) <=> Contents(s, Slice(f.start + i, g.len)) = y
    <2> SUFFICES ASSUME NEW i \in 0 .. f.len - g.len
                 PROVE  StandsAt(x, i, y) <=> Contents(s, Slice(f.start + i, g.len)) = y
      OBVIOUS
    <2>1. i \in Nat /\ i + g.len <= f.len
      BY <1>1
    <2> QED
      BY <2>1, StandsThere
  <1>5. matches = places
    BY <1>2, <1>4
  <1>6. found = {i \in places : \A j \in places : i <= j}
    <2>1. found = {i \in matches : \A j \in matches : i <= j}
      BY <1>2, <1>3 DEF StrFind
    <2> QED
      BY <1>5, <2>1
  <1>7. StrStartsWith(s, f, g) <=> 0 \in places
    <2>1. StrStartsWith(s, f, g) <=> f.len >= g.len /\ StandsAt(x, 0, y)
      BY <1>2 DEF StrStartsWith
    <2>2. f.len >= g.len <=> 0 \in 0 .. f.len - g.len
      BY <1>1
    <2> QED
      BY <1>4, <2>1, <2>2
  <1>8. StrEndsWith(s, f, g) <=> f.len - g.len \in places
    <2>1. StrEndsWith(s, f, g) <=> f.len >= g.len /\ StandsAt(x, f.len - g.len, y)
      BY <1>2 DEF StrEndsWith
    <2>2. f.len >= g.len <=> f.len - g.len \in 0 .. f.len - g.len
      BY <1>1
    <2> QED
      BY <1>4, <2>1, <2>2
  <1>9. places \subseteq Nat
    OBVIOUS
  <1> HIDE DEF places, found
  <1>10. places # {} => \E i \in places : \A j \in places : i <= j
    BY <1>9, LeastExists
  <1> QED
    BY <1>6, <1>7, <1>8, <1>10 DEF places, found

LEMMA CopyTells ==
  ASSUME NEW s \in Seq(Char), NEW f \in Slices, f.start + f.len <= Len(s),
         NEW dst_size \in Nat \ {0}
  PROVE  LET copy == StrCopy(dst_size, s, f)
             last == Len(copy.dst)
         IN  /\ last <= dst_size /\ copy.dst[last] = NUL
             /\ \A i \in 1 .. last - 1 : copy.dst[i] # NUL
             /\ copy.status = "OK" <=> last - 1 = f.len \/ s[f.start + last] = NUL
             /\ SubSeq(copy.dst, 1, last - 1) = SubSeq(s, f.start + 1, f.start + last - 1)
  <1> DEFINE start == f.start
             len == f.len
             ends == {i \in 0 .. len : i = len \/ i + 1 = dst_size \/ s[start + i + 1] = NUL}
             n == Copied(dst_size, s, f)
             part == SubSeq(s, start + 1, start + n)
             copy == StrCopy(dst_size, s, f)
  <1>1. start \in Nat /\ len \in Nat
    BY DEF Slices
  <1>2. ends \subseteq 0 .. len /\ len \in ends
    BY <1>1
  <1>3. \E i \in ends : \A j \in ends : i <= j
    <2>1. ends \subseteq Nat /\ ends # {}
      BY <1>1, <1>2
    <2> HIDE DEF ends
    <2> QED
      BY <2>1, LeastExists
  <1>4. n = CHOOSE i \in ends : \A j \in ends : i <= j
    BY DEF Copied
  <1>5. n \in ends /\ \A j \in ends : n <= j
    <2> HIDE DEF ends, n
    <2> QED
      BY <1>3, <1>4
  <1>6. /\ copy.dst = Append(part, NUL)
        /\ copy.status = IF n = len \/ s[start + n + 1] = NUL THEN "OK" ELSE "BUFFER_TOO_SMALL"
    BY DEF StrCopy
  <1>7. \A i \in 0 .. len : i \in ends <=> i = len \/ i + 1 = dst_size \/ s[start + i + 1] = NUL
    OBVIOUS
  <1> HIDE DEF ends, n, copy, part, start, len
  <1>8. n \in 0 .. len /\ start + n <= Len(s) /\ Len(s) \in Nat
    BY <1>1, <1>2, <1>5 DEF start, len
  <1>9. /\ part \in Seq(Char) /\ Len(part) = n
        /\ \A i \in 1 .. n : part[i] = s[start + i]
    BY <1>1, <1>8 DEF part
  <1>10. /\ Len(copy.dst) = n + 1 /\ copy.dst[n + 1] = NUL
         /\ \A i \in 1 .. n : copy.dst[i] = part[i]
         /\ SubSeq(copy.dst, 1, n) = part
    <2>1. NUL \in Char
      BY CharAssumption
    <2> QED
      BY <1>6, <1>8, <1>9, <2>1
  <1>11. n + 1 <= dst_size
    <2>1. CASE dst_size - 1 <= len
      <3>1. dst_size - 1 \in 0 .. len /\ (dst_size - 1) + 1 = dst_size
        BY <1>1, <2>1
      <3>2. dst_size - 1 \in ends
        BY <1>7, <3>1
      <3> QED
        BY <1>5, <1>8, <3>2
    <2>2. CASE ~(dst_size - 1 <= len)
      BY <1>1, <1>8, <2>2
    <2> QED
      BY <2>1, <2>2
  <1>12. ASSUME NEW i \in 1 .. n PROVE copy.dst[i] # NUL
    <2>1. i - 1 \in 0 .. len /\ ~(n <= i - 1) /\ start + (i - 1) + 1 = start + i
      BY <1>1, <1>8
    <2>2. i - 1 \notin ends
      BY <1>5, <2>1
    <2>3. s[start + i] # NUL
      BY <1>7, <2>1, <2>2
    <2> QED
      BY <1>9, <1>10, <2>3
  <1>13. Len(copy.dst) - 1 = n /\ start + Len(copy.dst) = start + n + 1
         /\ start + Len(copy.dst) - 1 = start + n
    BY <1>1, <1>8, <1>10
  <1>14. copy.status = "OK" <=> n = len \/ s[start + n + 1] = NUL
    BY <1>6
  <1>15. SubSeq(copy.dst, 1, Len(copy.dst) - 1) = SubSeq(s, start + 1, start + Len(copy.dst) - 1)
    BY <1>10, <1>13 DEF part
  <1>16. Len(copy.dst) <= dst_size /\ copy.dst[Len(copy.dst)] = NUL
    BY <1>10, <1>11
  <1> QED
    BY <1>12, <1>13, <1>14, <1>15, <1>16 DEF copy, start, len

(* EDC_StrCompareCase makes its own lowercase copies; whoever has made them *)
(* with EDC_StrToLower and compares those is told the same.                 *)
LEMMA ComparesCopies ==
  ASSUME NEW s \in Seq(Char), NEW f \in Slices, f.len > 0, f.start + f.len <= Len(s),
         NEW g \in Slices, g.len > 0, g.start + g.len <= Len(s), NEW enough,
         NEW x \in StrToLower(s, f, enough), NEW y \in StrToLower(s, g, enough)
  PROVE  StrCompareCase(s, f, g)
         = StrCompare(x \o y, Slice(0, f.len), Slice(Len(x), g.len))
  <1> DEFINE u == Lowered(Contents(s, f))
             v == Lowered(Contents(s, g))
  <1>1. f.len \in Nat /\ g.len \in Nat
    BY DEF Slices
  <1>2. /\ Contents(s, f) \in Seq(Char) /\ Len(Contents(s, f)) = f.len
        /\ Contents(s, g) \in Seq(Char) /\ Len(Contents(s, g)) = g.len
        /\ Characters(s, f) = Contents(s, f) /\ Characters(s, g) = Contents(s, g)
    BY CharactersOf
  <1>3. \A z \in Seq(Char) : Lowered(z) \in Seq(Char) /\ Len(Lowered(z)) = Len(z)
    <2> SUFFICES ASSUME NEW z \in Seq(Char)
                 PROVE  Lowered(z) \in Seq(Char) /\ Len(Lowered(z)) = Len(z)
      OBVIOUS
    <2>1. \A i \in 1 .. Len(z) : Lower[z[i]] \in Char
      BY CodeAssumption
    <2> QED
      BY <2>1 DEF Lowered
  <1>4. u \in Seq(Char) /\ Len(u) = f.len /\ v \in Seq(Char) /\ Len(v) = g.len
    BY <1>2, <1>3
  <1>5. x = Append(u, NUL) /\ y = Append(v, NUL)
    BY <1>2 DEF StrToLower
  <1>6. StrCompareCase(s, f, g) = Ordered(u, v)
    BY <1>2 DEF StrCompareCase
  <1> DEFINE m == f.len
             n == g.len
             w == x \o y
  <1> HIDE DEF u, v, m, n, w
  <1>7. m \in Nat /\ n \in Nat /\ m > 0 /\ n > 0 /\ Len(u) = m /\ Len(v) = n
    BY <1>1, <1>4 DEF m, n
  <1>8. /\ x \in Seq(Char) /\ Len(x) = m + 1 /\ \A i \in 1 .. m : x[i] = u[i]
        /\ y \in Seq(Char) /\ Len(y) = n + 1 /\ \A i \in 1 .. n : y[i] = v[i]
    <2>1. NUL \in Char
      BY CharAssumption
    <2> QED
      BY <1>4, <1>5, <1>7, <2>1
  <1>9. /\ w \in Seq(Char) /\ Len(w) = m + 1 + n + 1
        /\ \A i \in 1 .. m : w[0 + i] = u[i]
        /\ \A i \in 1 .. n : w[m + 1 + i] = v[i]
    <2>1. /\ w \in Seq(Char) /\ Len(w) = m + 1 + n + 1
          /\ \A i \in 1 .. m : w[i] = x[i]
      <3>1. x \in Seq(Char) /\ y \in Seq(Char) /\ Len(x) = m + 1 /\ Len(y) = n + 1
            /\ m \in Nat /\ n \in Nat
        BY <1>7, <1>8
      <3>2. w \in Seq(Char) /\ Len(w) = Len(x) + Len(y)
        BY <3>1 DEF w
      <3>3. \A i \in 1 .. Len(x) : w[i] = x[i]
        BY <3>1 DEF w
      <3>4. \A i \in 1 .. m : i \in 1 .. Len(x)
        BY ONLY <3>1
      <3>5. Len(w) = m + 1 + n + 1
        BY ONLY <3>1, <3>2
      <3> QED
        BY <3>2, <3>3, <3>4, <3>5, Zenon
    <2>2. ASSUME NEW i \in 1 .. n PROVE w[m + 1 + i] = v[i]
      <3> DEFINE k == m + 1 + i
      <3>1. k \in Len(x) + 1 .. Len(x) + Len(y) /\ k - Len(x) = i
        BY <1>7, <1>8
      <3> HIDE DEF k
      <3>2. w[k] = y[k - Len(x)]
        BY <1>8, <3>1 DEF w
      <3> QED
        BY <1>8, <3>1, <3>2 DEF k
    <2> QED
      BY <1>7, <1>8, <2>1, <2>2
  <1>10. Characters(w, Slice(0, m)) = u
    <2>1. Characters(w, Slice(0, m)) = Contents(w, Slice(0, m))
      BY <1>7 DEF Characters, Meant, Slice
    <2>2. 0 + m <= Len(w) /\ 0 \in Nat
      BY <1>7, <1>9
    <2> DEFINE z == Contents(w, Slice(0, m))
    <2>3. z \in Seq(Char) /\ Len(z) = m /\ \A i \in 1 .. m : z[i] = w[0 + i]
      BY <1>7, <1>9, <2>2, ContentsOf
    <2> HIDE DEF z
    <2>4. z = u
      BY <1>4, <1>7, <1>9, <2>3
    <2> QED
      BY <2>1, <2>4 DEF z
  <1>11. Characters(w, Slice(m + 1, n)) = v
    <2>1. Characters(w, Slice(m + 1, n)) = Contents(w, Slice(m + 1, n))
      BY <1>7 DEF Characters, Meant, Slice
    <2>2. m + 1 + n <= Len(w) /\ m + 1 \in Nat
      BY <1>7, <1>9
    <2> DEFINE z == Contents(w, Slice(m + 1, n))
    <2>3. z \in Seq(Char) /\ Len(z) = n /\ \A i \in 1 .. n : z[i] = w[m + 1 + i]
      BY <1>7, <1>9, <2>2, ContentsOf
    <2> HIDE DEF z
    <2>4. z = v
      <3>1. \A i \in 1 .. n : z[i] = v[i]
        BY <1>9, <2>3
      <3>2. v \in Seq(Char) /\ Len(v) = n /\ z \in Seq(Char) /\ Len(z) = n
        BY <1>4, <1>7, <2>3
      <3> QED
        BY ONLY <3>1, <3>2
    <2> QED
      BY <2>1, <2>4 DEF z
  <1>12. StrCompare(w, Slice(0, m), Slice(Len(x), n)) = Ordered(u, v)
    BY <1>8, <1>10, <1>11 DEF StrCompare
  <1> QED
    BY <1>6, <1>12 DEF m, n, w

-----------------------------------------------------------------------------
(* No field reaches beyond the text.                                        *)
InText == \A t \in 1 .. Len(tokens) : tokens[t].start + tokens[t].len <= size

LEMMA TokenInText ==
  ASSUME TextOK, AtCut, remaining_len > 0
  PROVE  Token(FieldEnd).start + Token(FieldEnd).len <= size
  <1>1. /\ source \in Nat /\ remaining_len \in Nat /\ source + remaining_len = size
        /\ FieldEnd \in 0 .. remaining_len
    BY FieldEndPlace DEF TextOK
  <1> DEFINE last == source + FieldEnd
  <1>2. last \in Nat /\ source <= last /\ last <= size
    BY <1>1
  <1> HIDE DEF last
  <1>3. Trimmed(text, source, last).start + Trimmed(text, source, last).len <= last
        /\ Trimmed(text, source, last) \in Slices
    BY <1>1, <1>2, TrimmedType
  <1>4. size \in Nat
    BY DEF TextOK
  <1>5. CASE trim_spaces
    BY <1>2, <1>3, <1>4, <1>5 DEF Token, last, Slices
  <1>6. CASE ~trim_spaces
    BY <1>1, <1>6 DEF Token, Slice
  <1> QED
    BY <1>5, <1>6

LEMMA StaysInText ==
  ASSUME CsvInv, InText, [FieldNext]_<<vars, original>>
  PROVE  InText'
  <1>1. CASE NextToken
    <2>1. tokens' = Append(tokens, Token(FieldEnd)) /\ size' = size
          /\ Token(FieldEnd).start + Token(FieldEnd).len <= size
      BY <1>1, TokenInText DEF NextToken, input, CsvInv
    <2>2. tokens \in Seq(Slices)
      BY DEF CsvInv, TokensOK
    <2> DEFINE T == Token(FieldEnd)
    <2> HIDE DEF T
    <2>3. ASSUME NEW t \in 1 .. Len(tokens')
          PROVE  tokens'[t].start + tokens'[t].len <= size
      <3>1. (t \in 1 .. Len(tokens) /\ tokens'[t] = tokens[t]) \/ tokens'[t] = T
        BY <2>1, <2>2 DEF T
      <3> QED
        BY <2>1, <3>1 DEF InText, T
    <2> QED
      BY <2>1, <2>3 DEF InText
  <1>2. CASE tokens' = tokens /\ size' = size
    BY <1>2 DEF InText
  <1> QED
    BY <1>1, <1>2
       DEF FieldNext, Tokenize, Next, NoToken, LowerField, UpperField, vars, input

(* Nor does any, for ever.                                                  *)
LEMMA TokensInText == FieldSpec => []InText
  <1>1. FieldInit => InText
    BY DEF FieldInit, Init, InText
  <1>2. FieldInv /\ InText /\ [FieldNext]_<<vars, original>> => InText'
    BY StaysInText DEF FieldInv
  <1> QED
    BY <1>1, <1>2, FieldInvariance, PTL DEF FieldSpec

LEMMA SolidFields ==
  ASSUME FieldInv, InText
  PROVE  /\ text \in Seq(Char) /\ Len(text) \in Nat
         /\ \A t \in Solid : tokens[t] \in Slices /\ tokens[t].len > 0
                                /\ tokens[t].start + tokens[t].len <= Len(text)
         /\ Using => \E t \in Solid : Field = tokens[t]
  <1>1. text \in Seq(Char) /\ size \in Nat /\ size < Len(text) /\ tokens \in Seq(Slices)
    BY DEF FieldInv, CsvInv, TextOK, TokensOK
  <1>2. ASSUME NEW t \in 1 .. Len(tokens)
        PROVE  tokens[t] \in Slices /\ tokens[t].start + tokens[t].len <= Len(text)
    <2>1. tokens[t] \in Slices /\ tokens[t].start + tokens[t].len <= size
      BY <1>1 DEF InText
    <2>2. tokens[t].start \in Nat /\ tokens[t].len \in Nat
      BY <2>1 DEF Slices
    <2> QED
      BY <1>1, <2>1, <2>2
  <1>3. ASSUME Using PROVE \E t \in Solid : Field = tokens[t]
    <2>1. Len(tokens) \in 1 .. Len(tokens)
      BY <1>1, <1>3 DEF Using
    <2> QED
      BY <1>3, <2>1 DEF Using, Solid, Field
  <1> QED
    BY <1>1, <1>2, <1>3 DEF Solid

LEMMA TellsOfFields ==
  ASSUME FieldInv, InText
  PROVE  UsesFieldOnly
  <1> SUFFICES ASSUME Using PROVE UsesFieldOnly
    BY DEF UsesFieldOnly, FindsFirst, ComparesInOrder, CopiesOrTells
  <1>1. text \in Seq(Char) /\ Len(text) \in Nat
    BY SolidFields
  <1>2. \A t \in Solid : tokens[t] \in Slices /\ tokens[t].len > 0
                            /\ tokens[t].start + tokens[t].len <= Len(text)
    BY SolidFields
  <1>3. Field \in Slices /\ Field.len > 0 /\ Field.start + Field.len <= Len(text)
    BY <1>2, SolidFields
  <1>4. FindsFirst
    <2> SUFFICES ASSUME NEW t \in Solid
                 PROVE  LET part   == tokens[t]
                            found  == StrFind(text, Field, part)
                            places == {i \in 0 .. Field.len - part.len :
                                Contents(text, Slice(Field.start + i, part.len)) = Contents(text, part)}
                        IN  /\ (found = {}) = (places = {})
                            /\ \A i \in found : i \in places /\ \A j \in places : i <= j
                            /\ StrStartsWith(text, Field, part) = (0 \in places)
                            /\ StrEndsWith(text, Field, part) = (Field.len - part.len \in places)
      BY Zenon DEF FindsFirst
    <2> DEFINE part   == tokens[t]
               found  == StrFind(text, Field, part)
               places == {i \in 0 .. Field.len - part.len :
                   Contents(text, Slice(Field.start + i, part.len)) = Contents(text, part)}
    <2>1. part \in Slices /\ part.len > 0 /\ part.start + part.len <= Len(text)
      BY <1>2
    <2>2. /\ found = {} <=> places = {}
          /\ \A i \in found : i \in places /\ \A j \in places : i <= j
          /\ StrStartsWith(text, Field, part) <=> 0 \in places
          /\ StrEndsWith(text, Field, part) <=> Field.len - part.len \in places
      <3> HIDE DEF part
      <3> QED
        BY <1>1, <1>3, <2>1, FindsPlaces, Zenon
    <2>3. StrStartsWith(text, Field, part) \in BOOLEAN /\ StrEndsWith(text, Field, part) \in BOOLEAN
      BY DEF StrStartsWith, StrEndsWith
    <2> HIDE DEF part, found, places
    <2>4. /\ (found = {}) = (places = {})
          /\ StrStartsWith(text, Field, part) = (0 \in places)
          /\ StrEndsWith(text, Field, part) = (Field.len - part.len \in places)
      BY <2>2, <2>3
    <2> QED
      BY <2>2, <2>4 DEF part, found, places
  <1>5. ASSUME NEW t \in Solid, NEW u \in Solid
        PROVE  LET a == tokens[t]
                   b == tokens[u]
                   enough == Len(text) + 1
               IN  /\ (StrCompare(text, a, b) = 0) = (Contents(text, a) = Contents(text, b))
                   /\ StrCompare(text, a, b) = -StrCompare(text, b, a)
                   /\ (StrCompare(text, Field, a) <= 0 /\ StrCompare(text, a, b) <= 0)
                          => StrCompare(text, Field, b) <= 0
                   /\ \A x \in StrToLower(text, a, enough), y \in StrToLower(text, b, enough) :
                          StrCompareCase(text, a, b)
                              = StrCompare(x \o y, Slice(0, a.len), Slice(Len(x), b.len))
    <2> DEFINE a == tokens[t]
               b == tokens[u]
    <2>1. /\ a \in Slices /\ a.len > 0 /\ a.start + a.len <= Len(text)
          /\ b \in Slices /\ b.len > 0 /\ b.start + b.len <= Len(text)
      BY <1>2
    <2> HIDE DEF a, b
    <2>2. /\ Characters(text, a) = Contents(text, a) /\ Contents(text, a) \in Seq(Char)
          /\ Characters(text, b) = Contents(text, b) /\ Contents(text, b) \in Seq(Char)
          /\ Characters(text, Field) = Contents(text, Field) /\ Contents(text, Field) \in Seq(Char)
      BY <1>1, <1>3, <2>1, CharactersOf
    <2>3. /\ StrCompare(text, a, b) = 0 <=> Contents(text, a) = Contents(text, b)
          /\ StrCompare(text, a, b) = -StrCompare(text, b, a)
      BY <2>2, OrderedSymmetry DEF StrCompare
    <2>4. (StrCompare(text, Field, a) <= 0 /\ StrCompare(text, a, b) <= 0)
              => StrCompare(text, Field, b) <= 0
      BY <2>2, OrderedTransitive DEF StrCompare
    <2>5. \A x \in StrToLower(text, a, Len(text) + 1), y \in StrToLower(text, b, Len(text) + 1) :
              StrCompareCase(text, a, b)
                  = StrCompare(x \o y, Slice(0, a.len), Slice(Len(x), b.len))
      BY <1>1, <2>1, ComparesCopies
    <2> QED
      BY <2>3, <2>4, <2>5 DEF a, b
  <1>6. ComparesInOrder
    BY <1>5 DEF ComparesInOrder
  <1>7. CopiesOrTells
    BY <1>1, <1>3, SizesAssumption, CopyTells DEF CopiesOrTells
  <1> QED
    BY <1>4, <1>6, <1>7 DEF UsesFieldOnly

(* Of the fields, in whatever order they are changed in place and read:     *)
(* EDC_StrFind, EDC_StrStartsWith and EDC_StrEndsWith find one in another   *)
(* where it stands and nowhere else; EDC_StrCompare is an order, 0 for      *)
(* equal fields only, and EDC_StrCompareCase that of the lowercase copies;  *)
(* and EDC_StrCopy leaves a NUL-terminated string in a buffer of any size,  *)
(* and says whether it is all of the field (edc_string.c:24-189).           *)
THEOREM FieldsForWhatTheyAre == FieldSpec => []UsesFieldOnly
  <1>1. FieldInv /\ InText => UsesFieldOnly
    BY TellsOfFields
  <1> QED
    BY <1>1, FieldInvariance, TokensInText, PTL
-----------------------------------------------------------------------------
(* Hexadecimal text.  No character of it is in it for two reasons.          *)
Signs == Spaces \cup Separators \cup X \cup {NUL}

LEMMA DigitsApart ==
  ASSUME NEW c
  PROVE  /\ DigitValue(c) \in 0 .. Radix
         /\ DigitValue(c) = NoDigit <=> \A d \in 0 .. Radix - 1 : c \notin Digits(d)
         /\ \A d \in 0 .. Radix - 1 : c \in Digits(d) => DigitValue(c) = d
         /\ c \in Signs => DigitValue(c) = NoDigit
  <1>1. Radix \in Nat /\ Radix > 1
    BY DigitAssumption DEF Radix
  <1>2. /\ \A d, e \in 0 .. Radix - 1 : d # e => Digits(d) \cap Digits(e) = {}
        /\ \A d \in 0 .. Radix - 1 : Digits(d) \cap Signs = {}
    BY HexAssumption DEF Radix, Signs
  <1>3. CASE \E d \in 0 .. Radix - 1 : c \in Digits(d)
    <2>1. DigitValue(c) = CHOOSE d \in 0 .. Radix - 1 : c \in Digits(d)
      BY <1>3, Zenon DEF DigitValue
    <2> DEFINE e == DigitValue(c)
    <2>2. e \in 0 .. Radix - 1 /\ c \in Digits(e)
      BY <1>3, <2>1, Zenon
    <2> HIDE DEF e
    <2>3. e # NoDigit /\ e \in 0 .. Radix
      BY <1>1, <2>2 DEF NoDigit
    <2>4. \A d \in 0 .. Radix - 1 : c \in Digits(d) => e = d
      BY <1>2, <2>2
    <2> QED
      BY <1>2, <1>3, <2>2, <2>3, <2>4, Zenon DEF e
  <1>4. CASE ~\E d \in 0 .. Radix - 1 : c \in Digits(d)
    <2>1. DigitValue(c) = NoDigit
      BY <1>4, Zenon DEF DigitValue
    <2>2. NoDigit \in 0 .. Radix
      BY <1>1 DEF NoDigit
    <2> QED
      BY <1>4, <2>1, <2>2, Zenon
  <1> QED
    BY <1>3, <1>4

LEMMA SkipsApart ==
  ASSUME NEW c, Skips(c)
  PROVE  DigitValue(c) = NoDigit /\ c # Zero /\ c \notin X
  <1>1. c \in Spaces \cup Separators /\ c \in Signs
    BY DEF Skips, IsSpace, Signs
  <1>2. DigitValue(c) = NoDigit
    BY <1>1, DigitsApart
  <1>3. 0 \in 0 .. Len(LowerDigits) - 1
    BY DigitAssumption
  <1> QED
    BY <1>1, <1>2, <1>3, HexAssumption

(* What is found at i, and what the loop does there.                        *)
Incomplete(x, i) == i + 1 = Len(x) \/ x[i + 2] = NUL

Turn(x, i) ==
    IF i = Len(x) \/ x[i + 1] = NUL THEN "END"
    ELSE IF Skips(x[i + 1]) THEN "SKIP"
    ELSE IF PrefixAt(x, i) THEN "PREFIX"
    ELSE IF Incomplete(x, i) THEN "CUT"
    ELSE IF HexToByte(x[i + 1], x[i + 2]) = {} THEN "WRONG"
    ELSE "BYTE"

ByteAt(x, i) == CHOOSE b \in HexToByte(x[i + 1], x[i + 2]) : TRUE

Returns(outcome, bytes) == [status |-> outcome, bytes |-> bytes]

ScanAt(g, x, m, i, b) ==
    IF i = Len(x) \/ x[i + 1] = NUL THEN Returns("OK", b)
    ELSE IF Skips(x[i + 1]) THEN g[i + 1][b]
    ELSE IF PrefixAt(x, i) THEN g[i + 2][b]
    ELSE IF i + 1 = Len(x) \/ x[i + 2] = NUL THEN Returns("INVALID_FORMAT", b)
    ELSE IF Len(b) >= m THEN Returns("BUFFER_TOO_SMALL", b)
    ELSE IF HexToByte(x[i + 1], x[i + 2]) = {} THEN Returns("INVALID_FORMAT", b)
    ELSE g[i + 2][Append(b, CHOOSE v \in HexToByte(x[i + 1], x[i + 2]) : TRUE)]

IsScan(g, x, m, k) ==
    g = [i \in k .. Len(x) |-> [b \in Seq(Nat) |-> ScanAt(g, x, m, i, b)]]

Scan(x, m) == CHOOSE g : IsScan(g, x, m, 0)

LEMMA ByteFound ==
  ASSUME NEW x, NEW i, Turn(x, i) = "BYTE"
  PROVE  /\ DigitValue(x[i + 1]) # NoDigit /\ DigitValue(x[i + 2]) # NoDigit
         /\ ByteAt(x, i) = DigitValue(x[i + 1]) * Radix + DigitValue(x[i + 2])
         /\ ByteAt(x, i) \in Nat
  <1>1. HexToByte(x[i + 1], x[i + 2]) # {}
    BY DEF Turn
  <1>2. DigitValue(x[i + 1]) # NoDigit /\ DigitValue(x[i + 2]) # NoDigit
    BY <1>1 DEF HexToByte
  <1>3. HexToByte(x[i + 1], x[i + 2]) = {DigitValue(x[i + 1]) * Radix + DigitValue(x[i + 2])}
    BY <1>2 DEF HexToByte
  <1>4. ByteAt(x, i) = DigitValue(x[i + 1]) * Radix + DigitValue(x[i + 2])
    BY <1>3 DEF ByteAt
  <1>5. DigitValue(x[i + 1]) \in Nat /\ DigitValue(x[i + 2]) \in Nat /\ Radix \in Nat
    BY DigitsApart, DigitAssumption DEF Radix
  <1>6. \A a, b, c \in Nat : a * c + b \in Nat
    OBVIOUS
  <1> QED
    BY <1>2, <1>4, <1>5, <1>6

LEMMA TurnStays ==
  ASSUME NEW x \in Seq(Char), NEW i \in 0 .. Len(x)
  PROVE  /\ Turn(x, i) \in {"END", "SKIP", "PREFIX", "CUT", "WRONG", "BYTE"}
         /\ Turn(x, i) = "SKIP" => i + 1 \in i + 1 .. Len(x)
         /\ Turn(x, i) \in {"PREFIX", "BYTE"} => i + 2 \in i + 1 .. Len(x)
  <1>1. Len(x) \in Nat /\ i \in Nat
    OBVIOUS
  <1>2. Turn(x, i) \in {"END", "SKIP", "PREFIX", "CUT", "WRONG", "BYTE"}
    BY DEF Turn
  <1>3. Turn(x, i) = "SKIP" => i # Len(x)
    BY DEF Turn
  <1>4. Turn(x, i) = "PREFIX" => i + 1 < Len(x)
    BY DEF Turn, PrefixAt
  <1>5. Turn(x, i) = "BYTE" => i # Len(x) /\ i + 1 # Len(x)
    BY DEF Turn, Incomplete
  <1> QED
    BY <1>1, <1>2, <1>3, <1>4, <1>5

LEMMA ScanTurn ==
  ASSUME NEW x, NEW i, NEW g, NEW m, NEW b
  PROVE  /\ Turn(x, i) = "END" => ScanAt(g, x, m, i, b) = Returns("OK", b)
         /\ Turn(x, i) = "SKIP" => ScanAt(g, x, m, i, b) = g[i + 1][b]
         /\ Turn(x, i) = "PREFIX" => ScanAt(g, x, m, i, b) = g[i + 2][b]
         /\ Turn(x, i) = "CUT" => ScanAt(g, x, m, i, b) = Returns("INVALID_FORMAT", b)
         /\ Turn(x, i) \in {"WRONG", "BYTE"} /\ Len(b) >= m =>
                ScanAt(g, x, m, i, b) = Returns("BUFFER_TOO_SMALL", b)
         /\ Turn(x, i) = "WRONG" /\ ~(Len(b) >= m) =>
                ScanAt(g, x, m, i, b) = Returns("INVALID_FORMAT", b)
         /\ Turn(x, i) = "BYTE" /\ ~(Len(b) >= m) =>
                ScanAt(g, x, m, i, b) = g[i + 2][Append(b, ByteAt(x, i))]
  BY DEF Turn, ScanAt, Incomplete, ByteAt

LEMMA ScanAtLater ==
  ASSUME NEW x \in Seq(Char), NEW i \in 0 .. Len(x), NEW m, NEW b \in Seq(Nat),
         NEW g, NEW h, \A q \in i + 1 .. Len(x) : g[q] = h[q]
  PROVE  ScanAt(g, x, m, i, b) = ScanAt(h, x, m, i, b)
  <1>1. /\ Turn(x, i) = "SKIP" => g[i + 1] = h[i + 1]
        /\ Turn(x, i) \in {"PREFIX", "BYTE"} => g[i + 2] = h[i + 2]
    BY TurnStays
  <1>2. Turn(x, i) \in {"END", "SKIP", "PREFIX", "CUT", "WRONG", "BYTE"}
    BY TurnStays
  <1> QED
    BY <1>1, <1>2, ScanTurn

(* What holds at k if it holds everywhere behind k, holds everywhere.       *)
LEMMA FromTheEnd ==
  ASSUME NEW n \in Nat, NEW G, \A k \in 0 .. n : (\A q \in k + 1 .. n : q \in G) => k \in G
  PROVE  \A k \in 0 .. n : k \in G
  <1> DEFINE Wrong == {m \in 0 .. n : n - m \notin G}
  <1>1. ASSUME NEW p \in 0 .. n, p \notin G
        PROVE  FALSE
    <2>1. PICK m \in 0 .. n : n - m = p
      <3>1. n - p \in 0 .. n /\ n - (n - p) = p
        OBVIOUS
      <3> QED
        BY <3>1
    <2>2. Wrong \subseteq Nat /\ Wrong # {}
      <3>1. p \notin G
        BY <1>1
      <3>2. n - m \notin G
        BY <2>1, <3>1, Zenon
      <3>3. m \in Wrong
        BY <3>2
      <3>4. Wrong \subseteq 0 .. n
        OBVIOUS
      <3> HIDE DEF Wrong
      <3> QED
        BY <3>3, <3>4, SMT
    <2>3. PICK l \in Wrong : \A j \in Wrong : l <= j
      BY <2>2, LeastExists
    <2> DEFINE k == n - l
    <2>4. l \in 0 .. n /\ k \in 0 .. n /\ k \notin G
      BY <2>3
    <2>5. ASSUME NEW q \in k + 1 .. n PROVE q \in G
      <3>1. n - q \in 0 .. n /\ n - q < l /\ n - (n - q) = q
        BY <2>4
      <3>2. n - q \notin Wrong
        BY <2>3, <2>4, <3>1
      <3> QED
        BY <3>1, <3>2
    <2> QED
      BY <2>4, <2>5
  <1> QED
    BY <1>1

LEMMA ScanExists ==
  ASSUME NEW x \in Seq(Char), NEW m
  PROVE  \E g : IsScan(g, x, m, 0)
  <1> DEFINE n == Len(x)
             K == {k \in 0 .. n : \E g : IsScan(g, x, m, k)}
  <1>0. n \in Nat
    OBVIOUS
  <1>1. ASSUME NEW k \in 0 .. n, \A q \in k + 1 .. n : q \in K
        PROVE  k \in K
    <2>1. PICK g : k < n => IsScan(g, x, m, k + 1)
      <3>1. k < n => k + 1 \in k + 1 .. n
        BY <1>0
      <3> QED
        BY <1>1, <3>1
    <2> DEFINE h == [i \in k .. n |-> IF i = k THEN [b \in Seq(Nat) |-> ScanAt(g, x, m, k, b)]
                                      ELSE g[i]]
    <2>2. \A q \in k + 1 .. n : h[q] = g[q]
      BY <1>0
    <2>3. ASSUME NEW i \in k .. n
          PROVE  h[i] = [b \in Seq(Nat) |-> ScanAt(h, x, m, i, b)]
      <3>1. i \in 0 .. n /\ \A q \in i + 1 .. n : q \in k + 1 .. n
        BY <1>0
      <3>2. ASSUME NEW b \in Seq(Nat) PROVE ScanAt(h, x, m, i, b) = ScanAt(g, x, m, i, b)
        <4>1. \A q \in i + 1 .. Len(x) : h[q] = g[q]
          BY <2>2, <3>1
        <4> HIDE DEF h
        <4> QED
          BY <3>1, <4>1, ScanAtLater
      <3>3. h[i] = [b \in Seq(Nat) |-> ScanAt(g, x, m, i, b)]
        <4>1. CASE i = k
          BY <4>1
        <4>2. CASE i # k
          <5>1. k < n /\ i \in k + 1 .. n
            BY <1>0, <4>2
          <5>2. g[i] = [b \in Seq(Nat) |-> ScanAt(g, x, m, i, b)]
            BY <2>1, <5>1 DEF IsScan
          <5> QED
            BY <2>2, <5>1, <5>2
        <4> QED
          BY <4>1, <4>2
      <3> HIDE DEF h
      <3> QED
        BY <3>2, <3>3
    <2>4. IsScan(h, x, m, k)
      <3>1. h = [i \in k .. n |-> h[i]]
        OBVIOUS
      <3> HIDE DEF h
      <3> QED
        BY <2>3, <3>1 DEF IsScan
    <2> HIDE DEF h
    <2> QED
      BY <2>4
  <1>2. \A k \in 0 .. n : k \in K
    <2> HIDE DEF K
    <2> QED
      BY <1>0, <1>1, FromTheEnd
  <1>3. 0 \in 0 .. n
    BY <1>0
  <1> QED
    BY <1>2, <1>3

LEMMA ScanEquation ==
  ASSUME NEW x \in Seq(Char), NEW m, NEW i \in 0 .. Len(x), NEW b \in Seq(Nat)
  PROVE  Scan(x, m)[i][b] = ScanAt(Scan(x, m), x, m, i, b)
  <1> DEFINE g == Scan(x, m)
  <1>1. IsScan(g, x, m, 0)
    BY ScanExists, Zenon DEF Scan
  <1> HIDE DEF g
  <1>2. g[i] = [c \in Seq(Nat) |-> ScanAt(g, x, m, i, c)]
    BY <1>1, Zenon DEF IsScan
  <1>3. g[i][b] = ScanAt(g, x, m, i, b)
    BY <1>2, Zenon
  <1> QED
    BY <1>3 DEF g

(* What the loop returns from i on, with b written.                         *)
From(x, m, i, b) == Scan(x, m)[i][b]

LEMMA HexScan ==
  ASSUME NEW s, NEW slice, NEW m
  PROVE  HexToBytes(s, slice, m) = From(Characters(s, slice), m, 0, << >>)
  BY SMT DEF HexToBytes, Scan, IsScan, ScanAt, Returns, From

LEMMA FromTurn ==
  ASSUME NEW x \in Seq(Char), NEW m, NEW i \in 0 .. Len(x), NEW b \in Seq(Nat)
  PROVE  /\ Turn(x, i) = "END" => From(x, m, i, b) = Returns("OK", b)
         /\ Turn(x, i) = "SKIP" => From(x, m, i, b) = From(x, m, i + 1, b)
         /\ Turn(x, i) = "PREFIX" => From(x, m, i, b) = From(x, m, i + 2, b)
         /\ Turn(x, i) = "CUT" => From(x, m, i, b) = Returns("INVALID_FORMAT", b)
         /\ Turn(x, i) \in {"WRONG", "BYTE"} /\ Len(b) >= m =>
                From(x, m, i, b) = Returns("BUFFER_TOO_SMALL", b)
         /\ Turn(x, i) = "WRONG" /\ ~(Len(b) >= m) =>
                From(x, m, i, b) = Returns("INVALID_FORMAT", b)
         /\ Turn(x, i) = "BYTE" /\ ~(Len(b) >= m) =>
                From(x, m, i, b) = From(x, m, i + 2, Append(b, ByteAt(x, i)))
  <1> DEFINE g == Scan(x, m)
  <1>1. From(x, m, i, b) = ScanAt(g, x, m, i, b)
    BY ScanEquation DEF From
  <1>2. \A j, c : From(x, m, j, c) = g[j][c]
    BY DEF From
  <1> HIDE DEF g
  <1> QED
    BY <1>1, <1>2, ScanTurn, SMT

-----------------------------------------------------------------------------
(* The result in a buffer that is too small is the beginning of the one in  *)
(* a buffer that is not.                                                    *)
BeginsWith(t, b) == Len(b) <= Len(t) /\ \A j \in 1 .. Len(b) : t[j] = b[j]

Bounded(all, some, b, m) ==
    /\ all.status \in {"OK", "INVALID_FORMAT"}
    /\ all.bytes \in Seq(Nat) /\ BeginsWith(all.bytes, b)
    /\ Len(b) <= m =>
          /\ some.bytes = SubSeq(all.bytes, 1, Least(m, Len(all.bytes)))
          /\ some = all \/ some.status = "BUFFER_TOO_SMALL"
          /\ Len(all.bytes) # m \/ all.status = "OK" =>
                (some = all <=> Len(all.bytes) <= m)

LEMMA Beginning ==
  ASSUME NEW t \in Seq(Nat), NEW b \in Seq(Nat), BeginsWith(t, b)
  PROVE  SubSeq(t, 1, Len(b)) = b
  <1>1. Len(b) \in Nat /\ Len(b) <= Len(t) /\ \A j \in 1 .. Len(b) : t[j] = b[j]
    BY DEF BeginsWith
  <1>2. SubSeq(t, 1, Len(b)) \in Seq(Nat)
    BY <1>1
  <1>3. Len(SubSeq(t, 1, Len(b))) = Len(b)
    BY <1>1
  <1>4. \A j \in 1 .. Len(b) : SubSeq(t, 1, Len(b))[j] = b[j]
    BY <1>1
  <1> QED
    BY <1>2, <1>3, <1>4

LEMMA BoundedHere ==
  ASSUME NEW b \in Seq(Nat), NEW m \in Nat, NEW outcome \in {"OK", "INVALID_FORMAT"},
         NEW some,
         \/ some = Returns(outcome, b)
         \/ some = Returns("BUFFER_TOO_SMALL", b) /\ Len(b) >= m /\ outcome # "OK"
  PROVE  Bounded(Returns(outcome, b), some, b, m)
  <1>1. BeginsWith(b, b) /\ Len(b) \in Nat
    BY DEF BeginsWith
  <1>2. SubSeq(b, 1, Len(b)) = b
    BY <1>1, Beginning
  <1>3. Len(b) <= m => Least(m, Len(b)) = Len(b)
    BY <1>1 DEF Least
  <1>4. some.bytes = b /\ Returns(outcome, b).bytes = b /\ Returns(outcome, b).status = outcome
    BY DEF Returns
  <1>5. some = Returns(outcome, b) \/ some.status = "BUFFER_TOO_SMALL"
    BY DEF Returns
  <1>6. Len(b) <= m =>
           (Len(b) # m \/ outcome = "OK" => (some = Returns(outcome, b) <=> Len(b) <= m))
    BY <1>1
  <1> QED
    BY <1>1, <1>2, <1>3, <1>4, <1>5, <1>6, Zenon DEF Bounded

LEMMA BoundedLonger ==
  ASSUME NEW b \in Seq(Nat), NEW v \in Nat, NEW m \in Nat, NEW all, NEW some, NEW more,
         Bounded(all, more, Append(b, v), m),
         IF Len(b) >= m THEN some = Returns("BUFFER_TOO_SMALL", b) ELSE some = more
  PROVE  Bounded(all, some, b, m)
  <1> DEFINE c == Append(b, v)
             t == all.bytes
  <1>1. /\ all.status \in {"OK", "INVALID_FORMAT"}
        /\ t \in Seq(Nat) /\ BeginsWith(t, c)
    BY DEF Bounded
  <1>2. Len(c) = Len(b) + 1 /\ Len(b) \in Nat /\ \A j \in 1 .. Len(b) : c[j] = b[j]
    OBVIOUS
  <1> HIDE DEF c
  <1>3. BeginsWith(t, b) /\ Len(b) < Len(t) /\ Len(t) \in Nat
    <2>1. Len(c) <= Len(t) /\ \A j \in 1 .. Len(c) : t[j] = c[j]
      BY <1>1 DEF BeginsWith
    <2>2. \A j \in 1 .. Len(b) : j \in 1 .. Len(c)
      BY <1>2
    <2>3. Len(t) \in Nat
      BY <1>1
    <2> QED
      BY <1>2, <2>1, <2>2, <2>3 DEF BeginsWith
  <1>4. CASE Len(b) < m
    <2>1. some = more /\ Len(c) <= m
      BY <1>2, <1>4
    <2>2. Bounded(all, more, c, m)
      BY DEF c
    <2> QED
      BY <1>1, <1>3, <2>1, <2>2 DEF Bounded
  <1>5. CASE Len(b) = m
    <2>1. some = Returns("BUFFER_TOO_SMALL", b)
      BY <1>5
    <2>2. some.status = "BUFFER_TOO_SMALL" /\ some.bytes = b /\ some # all
      BY <1>1, <2>1 DEF Returns
    <2>3. Least(m, Len(t)) = Len(b) /\ ~(Len(t) <= m)
      BY <1>3, <1>5 DEF Least
    <2>4. SubSeq(t, 1, Len(b)) = b
      BY <1>1, <1>3, Beginning
    <2> QED
      BY <1>1, <1>3, <2>2, <2>3, <2>4 DEF Bounded
  <1>6. CASE Len(b) > m
    <2>1. ~(Len(b) <= m)
      BY <1>2, <1>6
    <2> QED
      BY <1>1, <1>3, <2>1 DEF Bounded
  <1> QED
    BY <1>2, <1>4, <1>5, <1>6

LEMMA ReadsBounded ==
  ASSUME NEW x \in Seq(Char), NEW m \in Nat, NEW enough \in Nat, enough > Len(x)
  PROVE  \A i \in 0 .. Len(x) : \A b \in Seq(Nat) :
             Len(b) <= i => Bounded(From(x, enough, i, b), From(x, m, i, b), b, m)
  <1> DEFINE n == Len(x)
             Good(i) == \A b \in Seq(Nat) :
                 Len(b) <= i => Bounded(From(x, enough, i, b), From(x, m, i, b), b, m)
             G == {i \in 0 .. n : Good(i)}
  <1>0. n \in Nat
    OBVIOUS
  <1>1. ASSUME NEW i \in 0 .. n, \A q \in i + 1 .. n : Good(q)
        PROVE  Good(i)
    <2> SUFFICES ASSUME NEW b \in Seq(Nat), Len(b) <= i
                 PROVE  Bounded(From(x, enough, i, b), From(x, m, i, b), b, m)
      OBVIOUS
    <2> DEFINE all == From(x, enough, i, b)
               some == From(x, m, i, b)
               turn == Turn(x, i)
    <2>1. /\ turn \in {"END", "SKIP", "PREFIX", "CUT", "WRONG", "BYTE"}
          /\ turn = "SKIP" => i + 1 \in i + 1 .. n
          /\ turn \in {"PREFIX", "BYTE"} => i + 2 \in i + 1 .. n
      BY TurnStays
    <2>2. Len(b) \in Nat /\ Len(b) <= i + 1 /\ Len(b) <= i + 2 /\ ~(Len(b) >= enough)
      BY <1>0
    <2>3. CASE turn = "END"
      <3>1. all = Returns("OK", b) /\ some = Returns("OK", b)
        BY <2>3, FromTurn
      <3> QED
        BY <3>1, BoundedHere, Zenon
    <2>4. CASE turn = "SKIP"
      <3>1. all = From(x, enough, i + 1, b) /\ some = From(x, m, i + 1, b)
        BY <2>4, FromTurn
      <3>2. Bounded(From(x, enough, i + 1, b), From(x, m, i + 1, b), b, m)
        BY <1>1, <2>1, <2>2, <2>4, Zenon
      <3> QED
        BY <3>1, <3>2, Zenon
    <2>5. CASE turn = "PREFIX"
      <3>1. all = From(x, enough, i + 2, b) /\ some = From(x, m, i + 2, b)
        BY <2>5, FromTurn
      <3>2. Bounded(From(x, enough, i + 2, b), From(x, m, i + 2, b), b, m)
        BY <1>1, <2>1, <2>2, <2>5, Zenon
      <3> QED
        BY <3>1, <3>2, Zenon
    <2>6. CASE turn = "CUT"
      <3>1. all = Returns("INVALID_FORMAT", b) /\ some = Returns("INVALID_FORMAT", b)
        BY <2>6, FromTurn
      <3> QED
        BY <3>1, BoundedHere, Zenon
    <2>7. CASE turn = "WRONG"
      <3>1. /\ all = Returns("INVALID_FORMAT", b)
            /\ \/ some = Returns("INVALID_FORMAT", b)
               \/ some = Returns("BUFFER_TOO_SMALL", b) /\ Len(b) >= m
        BY <2>2, <2>7, FromTurn
      <3>2. "INVALID_FORMAT" # "OK" /\ "INVALID_FORMAT" \in {"OK", "INVALID_FORMAT"}
        OBVIOUS
      <3>3. Bounded(Returns("INVALID_FORMAT", b), some, b, m)
        <4> HIDE DEF some
        <4> QED
          BY <3>1, <3>2, BoundedHere
      <3> QED
        BY <3>1, <3>3, Zenon
    <2>8. CASE turn = "BYTE"
      <3> DEFINE v == ByteAt(x, i)
      <3>1. v \in Nat
        BY <2>8, ByteFound
      <3>2. all = From(x, enough, i + 2, Append(b, v))
        BY <2>2, <2>8, FromTurn
      <3>3. IF Len(b) >= m THEN some = Returns("BUFFER_TOO_SMALL", b)
            ELSE some = From(x, m, i + 2, Append(b, v))
        BY <2>8, FromTurn
      <3> HIDE DEF v
      <3>4. Append(b, v) \in Seq(Nat) /\ Len(Append(b, v)) <= i + 2
        BY <2>2, <3>1
      <3>5. Bounded(From(x, enough, i + 2, Append(b, v)), From(x, m, i + 2, Append(b, v)),
                    Append(b, v), m)
        BY <1>1, <2>1, <2>8, <3>4, Zenon
      <3> HIDE DEF all, some
      <3>6. Bounded(all, some, b, m)
        BY <3>1, <3>2, <3>3, <3>5, BoundedLonger, Zenon
      <3> QED
        BY <3>6 DEF all, some
    <2> QED
      BY <2>1, <2>3, <2>4, <2>5, <2>6, <2>7, <2>8
  <1> HIDE DEF Good
  <1>2. \A i \in 0 .. n : i \in G
    <2>1. \A i \in 0 .. n : (\A q \in i + 1 .. n : q \in G) => i \in G
      BY <1>0, <1>1
    <2> HIDE DEF G
    <2> QED
      BY <1>0, <2>1, FromTheEnd
  <1> QED
    BY <1>2 DEF Good

-----------------------------------------------------------------------------
(* What is accepted is what can be cut into items, from i to n.             *)
Cuttable(v, n, i) ==
    \E cuts \in SUBSET (i .. n) :
        /\ {i, n} \subseteq cuts
        /\ \A p, q \in cuts : Follows(p, q, cuts) => IsItem(v, p, q)

LEMMA CuttableEnd ==
  ASSUME NEW v, NEW n \in Nat
  PROVE  Cuttable(v, n, n)
  <1> DEFINE cuts == {n}
  <1>1. cuts \in SUBSET (n .. n) /\ {n, n} \subseteq cuts
    OBVIOUS
  <1>2. \A p, q \in cuts : ~Follows(p, q, cuts)
    BY DEF Follows
  <1> QED
    BY <1>1, <1>2, Zenon DEF Cuttable

LEMMA CutOff ==
  ASSUME NEW v, NEW n \in Nat, NEW i \in 0 .. n, i # n, Cuttable(v, n, i)
  PROVE  \E q \in i + 1 .. n : IsItem(v, i, q) /\ Cuttable(v, n, q)
  <1>1. PICK cuts \in SUBSET (i .. n) :
           /\ {i, n} \subseteq cuts
           /\ \A p, q \in cuts : Follows(p, q, cuts) => IsItem(v, p, q)
    BY Zenon DEF Cuttable
  <1> DEFINE rest == cuts \ {i}
  <1>2. i \in Nat /\ cuts \subseteq i .. n /\ i \in cuts /\ n \in cuts
    BY <1>1
  <1>3. rest \subseteq Nat /\ rest # {} /\ rest \subseteq i + 1 .. n
    BY <1>2
  <1>4. PICK q \in rest : \A c \in rest : q <= c
    <2> HIDE DEF rest
    <2> QED
      BY <1>3, LeastExists
  <1>5. q \in i + 1 .. n /\ q \in cuts /\ q \in Nat
    BY <1>3, <1>4
  <1>6. Follows(i, q, cuts)
    <2>1. i < q
      BY <1>2, <1>5
    <2>2. \A c \in cuts : c <= i \/ c >= q
      BY <1>2, <1>3, <1>4, <1>5
    <2> QED
      BY <2>1, <2>2 DEF Follows
  <1>7. IsItem(v, i, q)
    BY <1>1, <1>2, <1>5, <1>6, Zenon
  <1>8. Cuttable(v, n, q)
    <2>1. rest \in SUBSET (q .. n) /\ {q, n} \subseteq rest
      BY <1>2, <1>3, <1>4, <1>5
    <2>2. ASSUME NEW p \in rest, NEW r \in rest, Follows(p, r, rest)
          PROVE  IsItem(v, p, r)
      <3>1. Follows(p, r, cuts)
        BY <1>2, <1>3, <2>2 DEF Follows
      <3> QED
        BY <1>1, <3>1, Zenon
    <2> HIDE DEF rest
    <2> QED
      BY <2>1, <2>2, Zenon DEF Cuttable
  <1> QED
    BY <1>5, <1>7, <1>8

LEMMA CutAgain ==
  ASSUME NEW v, NEW n \in Nat, NEW i \in 0 .. n, NEW q \in i + 1 .. n,
         IsItem(v, i, q), Cuttable(v, n, q)
  PROVE  Cuttable(v, n, i)
  <1>1. PICK cuts \in SUBSET (q .. n) :
           /\ {q, n} \subseteq cuts
           /\ \A p, r \in cuts : Follows(p, r, cuts) => IsItem(v, p, r)
    BY Zenon DEF Cuttable
  <1> DEFINE more == cuts \cup {i}
  <1>2. i \in Nat /\ q \in Nat /\ i < q /\ cuts \subseteq q .. n /\ q \in cuts /\ n \in cuts
    BY <1>1
  <1>3. more \in SUBSET (i .. n) /\ {i, n} \subseteq more
    BY <1>2
  <1>4. ASSUME NEW p \in more, NEW r \in more, Follows(p, r, more)
        PROVE  IsItem(v, p, r)
    <2>1. CASE p = i
      <3>1. r = q
        BY <1>2, <1>4, <2>1 DEF Follows
      <3> QED
        BY <2>1, <3>1
    <2>2. CASE p # i
      <3>1. p \in cuts /\ r \in cuts
        BY <1>2, <1>4, <2>2 DEF Follows
      <3>2. Follows(p, r, cuts)
        BY <1>4 DEF Follows
      <3> QED
        BY <1>1, <3>1, <3>2, Zenon
    <2> QED
      BY <2>1, <2>2
  <1> HIDE DEF more
  <1> QED
    BY <1>3, <1>4, Zenon DEF Cuttable

(* n is where the NUL is, or the end of the field; v is what stands before. *)
Seen(x, n, v) ==
    /\ n \in 0 .. Len(x) /\ (n = Len(x) \/ x[n + 1] = NUL)
    /\ \A j \in 1 .. n : x[j] # NUL /\ v[j] = x[j]

LEMMA TurnItem ==
  ASSUME NEW x \in Seq(Char), NEW n, NEW v, Seen(x, n, v), NEW i \in 0 .. n
  PROVE  /\ Turn(x, i) = "END" <=> i = n
         /\ Turn(x, i) = "SKIP" =>
                i + 1 \in i + 1 .. n /\ \A q \in i + 1 .. n : IsItem(v, i, q) <=> q = i + 1
         /\ Turn(x, i) \in {"PREFIX", "BYTE"} =>
                i + 2 \in i + 1 .. n /\ \A q \in i + 1 .. n : IsItem(v, i, q) <=> q = i + 2
         /\ Turn(x, i) \in {"CUT", "WRONG"} => \A q \in i + 1 .. n : ~IsItem(v, i, q)
  <1>1. /\ n \in Nat /\ i \in Nat /\ i <= n /\ n <= Len(x) /\ Len(x) \in Nat
        /\ n = Len(x) \/ x[n + 1] = NUL
        /\ \A j \in 1 .. n : x[j] # NUL /\ v[j] = x[j]
    BY DEF Seen
  <1>2. Turn(x, i) = "END" <=> i = n
    <2>1. CASE i = n
      BY <1>1, <2>1 DEF Turn
    <2>2. CASE i < n
      <3>1. i # Len(x) /\ x[i + 1] # NUL
        BY <1>1, <2>2
      <3> QED
        BY <1>1, <2>2, <3>1 DEF Turn
    <2> QED
      BY <1>1, <2>1, <2>2
  <1>3. CASE i = n
    BY <1>1, <1>2, <1>3
  <1> SUFFICES ASSUME i < n PROVE
         /\ Turn(x, i) = "SKIP" =>
                i + 1 \in i + 1 .. n /\ \A q \in i + 1 .. n : IsItem(v, i, q) <=> q = i + 1
         /\ Turn(x, i) \in {"PREFIX", "BYTE"} =>
                i + 2 \in i + 1 .. n /\ \A q \in i + 1 .. n : IsItem(v, i, q) <=> q = i + 2
         /\ Turn(x, i) \in {"CUT", "WRONG"} => \A q \in i + 1 .. n : ~IsItem(v, i, q)
    BY <1>1, <1>2, <1>3
  <1>4. /\ i # Len(x) /\ x[i + 1] # NUL /\ v[i + 1] = x[i + 1]
        /\ i + 2 <= n => i + 1 < Len(x) /\ x[i + 2] # NUL /\ v[i + 2] = x[i + 2]
        /\ i + 2 > n => i + 1 = Len(x) \/ x[i + 2] = NUL
    BY <1>1
  <1>5. ASSUME NEW q \in i + 1 .. n
        PROVE  IsItem(v, i, q) <=>
                  \/ q = i + 1 /\ Skips(x[i + 1])
                  \/ q = i + 2 /\ x[i + 1] = Zero /\ x[i + 2] \in X
                  \/ q = i + 2 /\ DigitValue(x[i + 1]) # NoDigit /\ DigitValue(x[i + 2]) # NoDigit
    <2>1. v[i + 1] = x[i + 1] /\ (q = i + 2 => v[q] = x[i + 2] /\ v[i + 2] = x[i + 2])
      BY <1>1, <1>4
    <2> QED
      BY <2>1 DEF IsItem, IsPair
  <1>6. NUL \notin X /\ DigitValue(NUL) = NoDigit
    BY HexAssumption, DigitsApart DEF Signs
  <1>7. CASE Turn(x, i) = "SKIP"
    <2>1. Skips(x[i + 1])
      BY <1>7 DEF Turn
    <2>2. DigitValue(x[i + 1]) = NoDigit /\ x[i + 1] # Zero
      BY <2>1, SkipsApart
    <2> QED
      BY <1>1, <1>5, <1>7, <2>1, <2>2
  <1>8. CASE Turn(x, i) = "PREFIX"
    <2>1. ~Skips(x[i + 1]) /\ x[i + 1] = Zero /\ x[i + 2] \in X /\ i + 1 < Len(x)
      BY <1>8 DEF Turn, PrefixAt
    <2>2. i + 2 <= n
      BY <1>1, <1>4, <1>6, <2>1
    <2> QED
      BY <1>1, <1>5, <1>8, <2>1, <2>2
  <1>9. CASE Turn(x, i) = "BYTE"
    <2>1. ~Skips(x[i + 1]) /\ ~Incomplete(x, i)
      BY <1>9 DEF Turn
    <2>2. i + 2 <= n
      BY <1>1, <1>4, <2>1 DEF Incomplete
    <2>3. DigitValue(x[i + 1]) # NoDigit /\ DigitValue(x[i + 2]) # NoDigit
      BY <1>9, ByteFound
    <2> QED
      BY <1>1, <1>5, <1>9, <2>1, <2>2, <2>3
  <1>10. CASE Turn(x, i) = "CUT"
    <2>1. ~Skips(x[i + 1]) /\ Incomplete(x, i)
      BY <1>10 DEF Turn
    <2>2. ~(i + 2 <= n)
      BY <1>1, <1>4, <2>1 DEF Incomplete
    <2> QED
      BY <1>1, <1>5, <1>10, <2>1, <2>2
  <1>11. CASE Turn(x, i) = "WRONG"
    <2>1. /\ ~Skips(x[i + 1]) /\ ~PrefixAt(x, i)
          /\ HexToByte(x[i + 1], x[i + 2]) = {}
      BY <1>11 DEF Turn
    <2>2. DigitValue(x[i + 1]) = NoDigit \/ DigitValue(x[i + 2]) = NoDigit
      BY <2>1 DEF HexToByte
    <2>3. i + 2 <= n => ~(x[i + 1] = Zero /\ x[i + 2] \in X)
      BY <1>4, <2>1 DEF PrefixAt
    <2> QED
      BY <1>1, <1>5, <1>11, <2>1, <2>2, <2>3
  <1>12. Turn(x, i) \in {"END", "SKIP", "PREFIX", "CUT", "WRONG", "BYTE"}
    BY DEF Turn
  <1> QED
    BY <1>7, <1>8, <1>9, <1>10, <1>11, <1>12

LEMMA AcceptsItems ==
  ASSUME NEW x \in Seq(Char), NEW n, NEW v, Seen(x, n, v), NEW enough \in Nat, enough > Len(x)
  PROVE  \A i \in 0 .. n : \A b \in Seq(Nat) :
             Len(b) <= i => (From(x, enough, i, b).status = "OK" <=> Cuttable(v, n, i))
  <1> DEFINE Good(i) == \A b \in Seq(Nat) :
                 Len(b) <= i => (From(x, enough, i, b).status = "OK" <=> Cuttable(v, n, i))
             G == {i \in 0 .. n : Good(i)}
  <1>0. n \in Nat /\ n <= Len(x) /\ Len(x) \in Nat
    BY DEF Seen
  <1>1. ASSUME NEW i \in 0 .. n, \A q \in i + 1 .. n : Good(q)
        PROVE  Good(i)
    <2> SUFFICES ASSUME NEW b \in Seq(Nat), Len(b) <= i
                 PROVE  From(x, enough, i, b).status = "OK" <=> Cuttable(v, n, i)
      OBVIOUS
    <2> DEFINE turn == Turn(x, i)
               all == From(x, enough, i, b)
    <2>1. turn \in {"END", "SKIP", "PREFIX", "CUT", "WRONG", "BYTE"}
      BY DEF Turn
    <2>2. /\ Len(b) \in Nat /\ Len(b) <= i + 1 /\ Len(b) <= i + 2 /\ ~(Len(b) >= enough)
          /\ i \in 0 .. Len(x)
      BY <1>0
    <2>3. /\ turn = "END" <=> i = n
          /\ turn = "SKIP" =>
                i + 1 \in i + 1 .. n /\ \A q \in i + 1 .. n : IsItem(v, i, q) <=> q = i + 1
          /\ turn \in {"PREFIX", "BYTE"} =>
                i + 2 \in i + 1 .. n /\ \A q \in i + 1 .. n : IsItem(v, i, q) <=> q = i + 2
          /\ turn \in {"CUT", "WRONG"} => \A q \in i + 1 .. n : ~IsItem(v, i, q)
      BY TurnItem
    <2>4. turn # "END" => i # n
      BY <2>3
    <2>5. i # n /\ Cuttable(v, n, i) => \E q \in i + 1 .. n : IsItem(v, i, q) /\ Cuttable(v, n, q)
      BY <1>0, CutOff
    <2>6. \A q \in i + 1 .. n : IsItem(v, i, q) /\ Cuttable(v, n, q) => Cuttable(v, n, i)
      BY <1>0, CutAgain
    <2>7. CASE turn = "END"
      <3>1. all = Returns("OK", b)
        BY <2>2, <2>7, FromTurn
      <3>2. Cuttable(v, n, i)
        BY <1>0, <2>3, <2>7, CuttableEnd
      <3> QED
        BY <3>1, <3>2 DEF Returns
    <2>8. CASE turn = "SKIP"
      <3>1. all = From(x, enough, i + 1, b)
        BY <2>2, <2>8, FromTurn
      <3>2. From(x, enough, i + 1, b).status = "OK" <=> Cuttable(v, n, i + 1)
        BY <1>1, <2>2, <2>3, <2>8, Zenon
      <3>3. Cuttable(v, n, i) <=> Cuttable(v, n, i + 1)
        BY <2>3, <2>4, <2>5, <2>6, <2>8, Zenon
      <3> QED
        BY <3>1, <3>2, <3>3, Zenon
    <2>9. CASE turn = "PREFIX"
      <3>1. all = From(x, enough, i + 2, b)
        BY <2>2, <2>9, FromTurn
      <3>2. From(x, enough, i + 2, b).status = "OK" <=> Cuttable(v, n, i + 2)
        BY <1>1, <2>2, <2>3, <2>9, Zenon
      <3>3. Cuttable(v, n, i) <=> Cuttable(v, n, i + 2)
        BY <2>3, <2>4, <2>5, <2>6, <2>9, Zenon
      <3> QED
        BY <3>1, <3>2, <3>3, Zenon
    <2>10. CASE turn \in {"CUT", "WRONG"}
      <3>1. all = Returns("INVALID_FORMAT", b)
        BY <2>2, <2>10, FromTurn
      <3>2. ~Cuttable(v, n, i)
        BY <2>3, <2>4, <2>5, <2>10, Zenon
      <3> QED
        BY <3>1, <3>2 DEF Returns
    <2>11. CASE turn = "BYTE"
      <3> DEFINE c == Append(b, ByteAt(x, i))
      <3>1. ByteAt(x, i) \in Nat
        BY <2>11, ByteFound
      <3>2. c \in Seq(Nat) /\ Len(c) <= i + 2
        BY <2>2, <3>1
      <3>3. all = From(x, enough, i + 2, c)
        BY <2>2, <2>11, FromTurn
      <3> HIDE DEF c
      <3>4. From(x, enough, i + 2, c).status = "OK" <=> Cuttable(v, n, i + 2)
        BY <1>1, <2>3, <2>11, <3>2, Zenon
      <3>5. Cuttable(v, n, i) <=> Cuttable(v, n, i + 2)
        BY <2>3, <2>4, <2>5, <2>6, <2>11, Zenon
      <3> QED
        BY <3>3, <3>4, <3>5, Zenon
    <2> QED
      BY <2>1, <2>7, <2>8, <2>9, <2>10, <2>11
  <1> HIDE DEF Good
  <1>2. \A i \in 0 .. n : i \in G
    <2>1. \A i \in 0 .. n : (\A q \in i + 1 .. n : q \in G) => i \in G
      BY <1>0, <1>1
    <2> HIDE DEF G
    <2> QED
      BY <1>0, <2>1, FromTheEnd
  <1> QED
    BY <1>2 DEF Good

-----------------------------------------------------------------------------
(* Spaces around the items change nothing.                                  *)
LEMMA SpaceSkipped ==
  ASSUME NEW x \in Seq(Char), NEW i \in 0 .. Len(x), i # Len(x), IsSpace(x[i + 1])
  PROVE  Turn(x, i) = "SKIP"
  <1>1. x[i + 1] # NUL
    BY CharAssumption DEF IsSpace
  <1> QED
    BY <1>1 DEF Turn, Skips

LEMMA SpacesBefore ==
  ASSUME NEW x \in Seq(Char), NEW m, NEW a \in 0 .. Len(x), \A j \in 1 .. a : IsSpace(x[j])
  PROVE  From(x, m, 0, << >>) = From(x, m, a, << >>)
  <1> DEFINE G == {k \in 0 .. a : From(x, m, k, << >>) = From(x, m, a, << >>)}
  <1>0. a \in Nat /\ a <= Len(x) /\ Len(x) \in Nat
    OBVIOUS
  <1>1. ASSUME NEW k \in 0 .. a, \A q \in k + 1 .. a : q \in G
        PROVE  k \in G
    <2>1. CASE k = a
      BY <2>1
    <2>2. CASE k # a
      <3>1. k \in 0 .. Len(x) /\ k # Len(x) /\ k + 1 \in 1 .. a /\ k + 1 \in k + 1 .. a
        BY <1>0, <2>2
      <3>2. Turn(x, k) = "SKIP"
        <4>1. IsSpace(x[k + 1])
          BY <3>1
        <4> QED
          BY <3>1, <4>1, SpaceSkipped
      <3>3. From(x, m, k, << >>) = From(x, m, k + 1, << >>)
        <4>1. << >> \in Seq(Nat)
          OBVIOUS
        <4> QED
          BY <3>1, <3>2, <4>1, FromTurn, Zenon
      <3>4. k + 1 \in G
        BY <1>1, <3>1, Zenon
      <3> QED
        BY <3>3, <3>4
    <2> QED
      BY <2>1, <2>2
  <1>2. \A k \in 0 .. a : k \in G
    <2> HIDE DEF G
    <2> QED
      BY <1>0, <1>1, FromTheEnd
  <1>3. 0 \in 0 .. a
    BY <1>0
  <1> QED
    BY <1>2, <1>3

LEMMA SpacesBehind ==
  ASSUME NEW x \in Seq(Char), NEW m, NEW e \in 0 .. Len(x), NEW b \in Seq(Nat),
         \A j \in e + 1 .. Len(x) : IsSpace(x[j])
  PROVE  From(x, m, e, b) = Returns("OK", b)
  <1> DEFINE n == Len(x)
             G == {k \in 0 .. n : k >= e => From(x, m, k, b) = Returns("OK", b)}
  <1>0. n \in Nat /\ e \in Nat /\ e <= n
    OBVIOUS
  <1>1. ASSUME NEW k \in 0 .. n, \A q \in k + 1 .. n : q \in G
        PROVE  k \in G
    <2> SUFFICES ASSUME k >= e PROVE From(x, m, k, b) = Returns("OK", b)
      OBVIOUS
    <2>1. CASE k = n
      <3>1. Turn(x, k) = "END"
        BY <2>1 DEF Turn
      <3> QED
        BY <3>1, FromTurn
    <2>2. CASE k # n
      <3>1. k + 1 \in e + 1 .. n /\ k + 1 \in k + 1 .. n /\ k + 1 >= e
        BY <1>0, <2>2
      <3>2. Turn(x, k) = "SKIP"
        BY <2>2, <3>1, SpaceSkipped
      <3>3. From(x, m, k, b) = From(x, m, k + 1, b)
        BY <3>2, FromTurn
      <3>4. k + 1 \in G
        BY <1>1, <3>1, Zenon
      <3> QED
        BY <3>1, <3>3, <3>4
    <2> QED
      BY <2>1, <2>2
  <1>2. \A k \in 0 .. n : k \in G
    <2> HIDE DEF G
    <2> QED
      BY <1>0, <1>1, FromTheEnd
  <1>3. e \in 0 .. n /\ e >= e
    BY <1>0
  <1> QED
    BY <1>2, <1>3

(* The part y of x behind the first a characters, up to the last non-space. *)
IsTrimmed(x, a, y) ==
    /\ a \in Nat /\ y \in Seq(Char) /\ y # << >> /\ a + Len(y) <= Len(x)
    /\ \A j \in 1 .. Len(y) : y[j] = x[a + j]
    /\ \A j \in 1 .. a : IsSpace(x[j])
    /\ \A j \in a + Len(y) + 1 .. Len(x) : IsSpace(x[j])
    /\ ~IsSpace(y[Len(y)])

LEMMA TrimmedTurn ==
  ASSUME NEW x \in Seq(Char), NEW a, NEW y, IsTrimmed(x, a, y),
         NEW i \in 0 .. Len(y), i # Len(y)
  PROVE  \/ Turn(x, a + i) = Turn(y, i) /\ (Turn(y, i) = "BYTE" => ByteAt(x, a + i) = ByteAt(y, i))
         \/ Turn(y, i) = "CUT" /\ Turn(x, a + i) = "WRONG"
  <1> DEFINE l == Len(y)
  <1>1. /\ l \in Nat /\ i \in Nat /\ i < l /\ a \in Nat /\ Len(x) \in Nat /\ a + l <= Len(x)
        /\ \A j \in 1 .. l : y[j] = x[a + j]
        /\ \A j \in a + l + 1 .. Len(x) : IsSpace(x[j])
    BY DEF IsTrimmed
  <1>2. y[i + 1] = x[a + i + 1] /\ a + i # Len(x) /\ i # l
    BY <1>1
  <1>3. CASE i + 1 < l
    <2>1. y[i + 2] = x[a + i + 2] /\ i + 1 # l /\ a + i + 1 # Len(x) /\ a + i + 1 < Len(x)
      BY <1>1, <1>3
    <2>2. Incomplete(x, a + i) <=> Incomplete(y, i)
      BY <2>1 DEF Incomplete
    <2>3. PrefixAt(x, a + i) <=> PrefixAt(y, i)
      BY <1>2, <1>3, <2>1 DEF PrefixAt
    <2>4. Turn(x, a + i) = Turn(y, i)
      BY <1>2, <2>1, <2>2, <2>3, Zenon DEF Turn
    <2>5. ByteAt(x, a + i) = ByteAt(y, i)
      BY <1>2, <2>1, Zenon DEF ByteAt
    <2> QED
      BY <2>4, <2>5
  <1>4. CASE i + 1 = l
    <2>1. Incomplete(y, i) /\ ~PrefixAt(y, i)
      BY <1>1, <1>4 DEF Incomplete, PrefixAt
    <2>2. a + i + 1 # Len(x) => a + i + 2 \in a + l + 1 .. Len(x)
      BY <1>1, <1>4
    <2>3. a + i + 1 # Len(x) =>
             x[a + i + 2] \notin X /\ DigitValue(x[a + i + 2]) = NoDigit
      <3>1. a + i + 1 # Len(x) => Skips(x[a + i + 2])
        BY <1>1, <2>2 DEF Skips
      <3> QED
        BY <3>1, SkipsApart
    <2>4. ~PrefixAt(x, a + i)
      BY <1>1, <2>3 DEF PrefixAt
    <2>5. ~Incomplete(x, a + i) => HexToByte(x[a + i + 1], x[a + i + 2]) = {}
      BY <2>3 DEF Incomplete, HexToByte
    <2>6. Turn(y, i) =
             IF y[i + 1] = NUL THEN "END" ELSE IF Skips(y[i + 1]) THEN "SKIP" ELSE "CUT"
      BY <1>2, <2>1 DEF Turn
    <2>7. Turn(x, a + i) =
             IF x[a + i + 1] = NUL THEN "END" ELSE IF Skips(x[a + i + 1]) THEN "SKIP"
             ELSE IF Incomplete(x, a + i) THEN "CUT" ELSE "WRONG"
      BY <1>2, <2>4, <2>5 DEF Turn
    <2> QED
      BY <1>2, <2>6, <2>7
  <1> QED
    BY <1>1, <1>3, <1>4

LEMMA TrimmedReads ==
  ASSUME NEW x \in Seq(Char), NEW a, NEW y, IsTrimmed(x, a, y),
         NEW enough \in Nat, enough > Len(x)
  PROVE  From(y, enough, 0, << >>) = From(x, enough, 0, << >>)
  <1> DEFINE l == Len(y)
             Good(i) == \A b \in Seq(Nat) :
                           Len(b) <= i => From(x, enough, a + i, b) = From(y, enough, i, b)
             G == {i \in 0 .. l : Good(i)}
  <1>0. /\ l \in Nat /\ a \in Nat /\ Len(x) \in Nat /\ a + l <= Len(x) /\ y \in Seq(Char)
        /\ \A j \in 1 .. a : IsSpace(x[j])
        /\ \A j \in a + l + 1 .. Len(x) : IsSpace(x[j])
    BY DEF IsTrimmed
  <1>1. ASSUME NEW i \in 0 .. l, \A q \in i + 1 .. l : Good(q)
        PROVE  Good(i)
    <2> SUFFICES ASSUME NEW b \in Seq(Nat), Len(b) <= i
                 PROVE  From(x, enough, a + i, b) = From(y, enough, i, b)
      OBVIOUS
    <2>1. /\ Len(b) \in Nat /\ Len(b) <= i + 1 /\ Len(b) <= i + 2 /\ ~(Len(b) >= enough)
          /\ i \in Nat /\ a + i \in 0 .. Len(x) /\ i \in 0 .. Len(y)
          /\ a + i + 1 = a + (i + 1) /\ a + i + 2 = a + (i + 2)
      BY <1>0
    <2>2. CASE i = l
      <3>1. Turn(y, i) = "END"
        BY <2>2 DEF Turn
      <3>2. From(y, enough, i, b) = Returns("OK", b)
        BY <1>0, <2>1, <3>1, FromTurn
      <3>3. From(x, enough, a + i, b) = Returns("OK", b)
        BY <1>0, <2>1, <2>2, SpacesBehind
      <3> QED
        BY <3>2, <3>3
    <2>3. CASE i # l
      <3> DEFINE turn == Turn(y, i)
                 byte == ByteAt(y, i)
      <3>1. /\ turn \in {"END", "SKIP", "PREFIX", "CUT", "WRONG", "BYTE"}
            /\ turn = "SKIP" => i + 1 \in i + 1 .. l
            /\ turn \in {"PREFIX", "BYTE"} => i + 2 \in i + 1 .. l
        BY <1>0, <2>1, TurnStays
      <3>2. \/ Turn(x, a + i) = turn /\ (turn = "BYTE" => ByteAt(x, a + i) = byte)
            \/ turn = "CUT" /\ Turn(x, a + i) = "WRONG"
        BY <2>3, TrimmedTurn
      <3>3. turn = "BYTE" => byte \in Nat
        BY ByteFound
      <3>4. /\ turn = "END" => From(y, enough, i, b) = Returns("OK", b)
            /\ turn = "SKIP" => From(y, enough, i, b) = From(y, enough, i + 1, b)
            /\ turn = "PREFIX" => From(y, enough, i, b) = From(y, enough, i + 2, b)
            /\ turn \in {"CUT", "WRONG"} => From(y, enough, i, b) = Returns("INVALID_FORMAT", b)
            /\ turn = "BYTE" => From(y, enough, i, b) = From(y, enough, i + 2, Append(b, byte))
        BY <1>0, <2>1, FromTurn
      <3> DEFINE there == Turn(x, a + i)
      <3>5. /\ there = "END" => From(x, enough, a + i, b) = Returns("OK", b)
            /\ there = "SKIP" => From(x, enough, a + i, b) = From(x, enough, a + i + 1, b)
            /\ there = "PREFIX" => From(x, enough, a + i, b) = From(x, enough, a + i + 2, b)
            /\ there \in {"CUT", "WRONG"} =>
                  From(x, enough, a + i, b) = Returns("INVALID_FORMAT", b)
            /\ there = "BYTE" => From(x, enough, a + i, b)
                                   = From(x, enough, a + i + 2, Append(b, ByteAt(x, a + i)))
        BY <2>1, FromTurn
      <3>6. turn = "SKIP" => From(x, enough, a + (i + 1), b) = From(y, enough, i + 1, b)
        BY <1>1, <2>1, <3>1, Zenon
      <3>7. turn = "PREFIX" => From(x, enough, a + (i + 2), b) = From(y, enough, i + 2, b)
        BY <1>1, <2>1, <3>1, Zenon
      <3>8. turn = "BYTE" => Append(b, byte) \in Seq(Nat) /\ Len(Append(b, byte)) <= i + 2
        BY <2>1, <3>3
      <3>9. turn = "BYTE" =>
               From(x, enough, a + (i + 2), Append(b, byte)) = From(y, enough, i + 2, Append(b, byte))
        BY <1>1, <3>1, <3>8, Zenon
      <3> HIDE DEF turn, byte, there
      <3> QED
        BY <2>1, <3>1, <3>2, <3>4, <3>5, <3>6, <3>7, <3>9 DEF there
    <2> QED
      BY <2>2, <2>3
  <1> HIDE DEF Good
  <1>2. \A i \in 0 .. l : i \in G
    <2>1. \A i \in 0 .. l : (\A q \in i + 1 .. l : q \in G) => i \in G
      BY <1>0, <1>1
    <2> HIDE DEF G
    <2> QED
      BY <1>0, <2>1, FromTheEnd
  <1>3. From(x, enough, a + 0, << >>) = From(y, enough, 0, << >>)
    <2>1. 0 \in 0 .. l /\ << >> \in Seq(Nat) /\ Len(<< >>) <= 0
      BY <1>0
    <2> QED
      BY <1>2, <2>1 DEF Good
  <1>4. From(x, enough, 0, << >>) = From(x, enough, a, << >>)
    BY <1>0, SpacesBefore
  <1>5. a + 0 = a
    BY <1>0
  <1> QED
    BY <1>3, <1>4, <1>5

-----------------------------------------------------------------------------
(* A field: what stands before its NUL, and what EDC_StrTrim leaves of it.  *)
LEMMA VisibleSeen ==
  ASSUME Contents(text, Field) \in Seq(Char)
  PROVE  Seen(Contents(text, Field), Len(Visible), Visible)
  <1> DEFINE x == Contents(text, Field)
             Ends(i) == /\ i = Len(x) \/ x[i + 1] = NUL
                        /\ \A j \in 1 .. i : x[j] # NUL
             n == CHOOSE i \in 0 .. Len(x) : Ends(i)
             stops == {i \in 0 .. Len(x) : i = Len(x) \/ x[i + 1] = NUL}
  <1>1. Visible = SubSeq(x, 1, n)
    BY Zenon DEF Visible
  <1>2. x \in Seq(Char) /\ Len(x) \in Nat
    OBVIOUS
  <1> HIDE DEF x
  <1>3. \E i \in 0 .. Len(x) : Ends(i)
    <2>1. stops \subseteq Nat /\ stops # {}
      BY <1>2
    <2>2. PICK i \in stops : \A j \in stops : i <= j
      <3> HIDE DEF stops
      <3> QED
        BY <2>1, LeastExists
    <2>3. i \in 0 .. Len(x) /\ (i = Len(x) \/ x[i + 1] = NUL)
      BY <2>2
    <2>4. ASSUME NEW j \in 1 .. i, x[j] = NUL PROVE FALSE
      <3>1. j - 1 \in 0 .. Len(x) /\ j - 1 + 1 = j /\ j - 1 < i /\ i \in Nat
        BY <1>2, <2>3
      <3>2. j - 1 \in stops
        BY <2>4, <3>1
      <3>3. i <= j - 1
        BY <2>2, <3>2, Zenon
      <3> QED
        BY <3>1, <3>3
    <2> QED
      BY <2>3, <2>4
  <1>4. n \in 0 .. Len(x) /\ Ends(n)
    BY <1>3, Zenon
  <1> HIDE DEF n, Ends
  <1>5. Len(SubSeq(x, 1, n)) = n /\ \A j \in 1 .. n : SubSeq(x, 1, n)[j] = x[j]
    BY <1>2, <1>4
  <1> QED
    BY <1>1, <1>4, <1>5 DEF Seen, Ends, x

LEMMA TrimmedPart ==
  ASSUME NEW s \in Seq(Char), NEW f \in Slices, f.len > 0, f.start + f.len <= Len(s),
         StrTrim(s, f).len > 0
  PROVE  LET t == StrTrim(s, f)
         IN  /\ t \in Slices /\ t.start + t.len <= Len(s)
             /\ IsTrimmed(Contents(s, f), t.start - f.start, Contents(s, t))
  <1> DEFINE first == f.start
             last  == f.start + f.len
             solid == {i \in first .. last - 1 : ~IsSpace(s[i + 1])}
             start == CHOOSE i \in solid : \A j \in solid : i <= j
             end   == CHOOSE i \in solid : \A j \in solid : j <= i
             t     == StrTrim(s, f)
             x     == Contents(s, f)
             y     == Contents(s, t)
  <1>1. first \in Nat /\ f.len \in Nat /\ last \in Nat /\ last <= Len(s) /\ Len(s) \in Nat
    BY DEF Slices
  <1>2. t = Trimmed(s, first, last)
    <2>1. Meant(s, f) = f
      BY DEF Meant
    <2> QED
      BY <2>1, Zenon DEF StrTrim
  <1>3. solid # {}
    <2>1. solid = {} => t = Slice(last, 0)
      BY <1>2, Zenon DEF Trimmed
    <2>2. t.len > 0
      OBVIOUS
    <2>3. ~(Slice(last, 0).len > 0)
      BY DEF Slice
    <2> QED
      BY <2>1, <2>2, <2>3, Zenon
  <1>4. solid \subseteq Nat /\ solid \subseteq 0 .. last
    BY <1>1
  <1>5. start \in solid /\ \A j \in solid : start <= j
    <2>1. \E i \in solid : \A j \in solid : i <= j
      <3> HIDE DEF solid
      <3> QED
        BY <1>3, <1>4, LeastExists
    <2> HIDE DEF solid
    <2> QED
      BY <2>1, Zenon
  <1>6. end \in solid /\ \A j \in solid : j <= end
    <2>1. \E i \in solid : \A j \in solid : j <= i
      <3> HIDE DEF solid, last
      <3> QED
        BY <1>1, <1>3, <1>4, GreatestExists
    <2> HIDE DEF solid
    <2> QED
      BY <2>1, Zenon
  <1>7. t = Slice(start, end - start + 1)
    BY <1>2, <1>3, Zenon DEF Trimmed
  <1> HIDE DEF start, end, t
  <1>8. /\ start \in Nat /\ end \in Nat /\ first <= start /\ start <= end /\ end < last
        /\ ~IsSpace(s[end + 1])
        /\ \A i \in first .. start - 1 : IsSpace(s[i + 1])
        /\ \A i \in end + 1 .. last - 1 : IsSpace(s[i + 1])
    <2>1. /\ start \in first .. last - 1 /\ end \in first .. last - 1 /\ ~IsSpace(s[end + 1])
          /\ start <= end
      BY <1>5, <1>6
    <2>2. start \in Nat /\ end \in Nat /\ first <= start /\ end < last /\ start < last /\ first <= end
      BY <1>1, <2>1
    <2>3. ASSUME NEW i \in first .. last - 1, i < start \/ i > end
          PROVE  IsSpace(s[i + 1])
      <3>1. i \notin solid
        <4>1. i \in Int
          BY <1>1
        <4>2. i \in solid => start <= i /\ i <= end
          BY <1>5, <1>6, Zenon
        <4> QED
          BY <2>2, <2>3, <4>1, <4>2
      <3> QED
        BY <3>1
    <2>4. \A i \in first .. start - 1 : i \in first .. last - 1 /\ i < start
      BY <1>1, <2>2
    <2>5. \A i \in end + 1 .. last - 1 : i \in first .. last - 1 /\ i > end
      BY <1>1, <2>2
    <2> HIDE DEF solid, first, last
    <2> QED
      BY <2>1, <2>2, <2>3, <2>4, <2>5
  <1> HIDE DEF solid
  <1>9. t \in Slices /\ t.start = start /\ t.len = end - start + 1 /\ t.len > 0
        /\ t.start + t.len = end + 1 /\ t.start + t.len <= Len(s)
    <2>1. end - start + 1 \in Nat /\ end - start + 1 > 0 /\ start + (end - start + 1) = end + 1
          /\ end + 1 <= Len(s)
      BY <1>1, <1>8
    <2> QED
      BY <1>7, <1>8, <2>1 DEF Slice, Slices
  <1>10. x \in Seq(Char) /\ Len(x) = f.len /\ \A i \in 1 .. f.len : x[i] = s[first + i]
    BY CharactersOf
  <1>11. y \in Seq(Char) /\ Len(y) = t.len /\ \A i \in 1 .. t.len : y[i] = s[start + i]
    BY <1>9, CharactersOf
  <1> DEFINE a == start - first
  <1> HIDE DEF x, y
  <1>12. a \in Nat /\ a + Len(y) = end + 1 - first /\ a + Len(y) <= Len(x) /\ Len(y) > 0
    BY <1>1, <1>8, <1>9, <1>10, <1>11
  <1>13. /\ f.len \in Nat /\ first \in Nat /\ start \in Nat /\ end \in Nat
         /\ first <= start /\ start <= end /\ end < first + f.len
         /\ Len(x) = f.len /\ Len(y) = t.len /\ t.len = end - start + 1
    BY <1>1, <1>8, <1>9, <1>10, <1>11
  <1>14. \A j \in 1 .. Len(y) : y[j] = x[a + j]
    <2> SUFFICES ASSUME NEW j \in 1 .. Len(y) PROVE y[j] = x[a + j]
      OBVIOUS
    <2>1. a + j \in 1 .. f.len /\ first + (a + j) = start + j
      BY <1>13
    <2> QED
      BY <1>10, <1>11, <2>1
  <1>15. \A j \in 1 .. a : IsSpace(x[j])
    <2> SUFFICES ASSUME NEW j \in 1 .. a PROVE IsSpace(x[j])
      OBVIOUS
    <2>1. j \in 1 .. f.len /\ first + j - 1 \in first .. start - 1 /\ first + j - 1 + 1 = first + j
      BY <1>13
    <2> QED
      BY <1>8, <1>10, <2>1
  <1>16. \A j \in a + Len(y) + 1 .. Len(x) : IsSpace(x[j])
    <2> SUFFICES ASSUME NEW j \in a + Len(y) + 1 .. Len(x) PROVE IsSpace(x[j])
      OBVIOUS
    <2>1. j \in 1 .. f.len /\ first + j - 1 \in end + 1 .. last - 1 /\ first + j - 1 + 1 = first + j
      BY <1>13
    <2> QED
      BY <1>8, <1>10, <2>1
  <1>17. ~IsSpace(y[Len(y)])
    <2>1. Len(y) \in 1 .. t.len /\ start + Len(y) = end + 1
      BY <1>8, <1>9, <1>11
    <2> QED
      BY <1>8, <1>11, <2>1
  <1>18. y # << >>
    BY <1>12
  <1>19. IsTrimmed(x, a, y)
    <2> HIDE DEF a
    <2> QED
      BY <1>10, <1>11, <1>12, <1>14, <1>15, <1>16, <1>17, <1>18 DEF IsTrimmed
  <1> QED
    BY <1>9, <1>19 DEF a, x, y, t

LEMMA WellFormedCuttable ==
  ASSUME NEW v
  PROVE  WellFormed(v) <=> Cuttable(v, Len(v), 0)
  BY DEF WellFormed, Cuttable

LEMMA Decodes ==
  ASSUME FieldInv, InText
  PROVE  DecodesItems
  <1> SUFFICES ASSUME Using PROVE DecodesItems
    BY DEF DecodesItems
  <1> DEFINE x == Contents(text, Field)
             enough == Len(text)
             all == HexToBytes(text, Field, enough)
  <1>1. /\ text \in Seq(Char) /\ enough \in Nat
        /\ Field \in Slices /\ Field.len > 0 /\ Field.start + Field.len <= Len(text)
    BY SolidFields
  <1>2. Field.len < enough
    <2>1. Field.start + Field.len <= size
      <3>1. Len(tokens) \in 1 .. Len(tokens)
        BY DEF Using, FieldInv, CsvInv, TokensOK
      <3> QED
        BY <3>1 DEF InText, Field
    <2>2. size \in Nat /\ size < Len(text)
      BY DEF FieldInv, CsvInv, TextOK
    <2>3. Field.start \in Nat /\ Field.len \in Nat
      BY <1>1 DEF Slices
    <2> QED
      BY <1>1, <2>1, <2>2, <2>3
  <1>3. /\ Characters(text, Field) = x /\ x \in Seq(Char) /\ Len(x) = Field.len
        /\ Len(x) \in Nat /\ enough > Len(x)
    BY <1>1, <1>2, CharactersOf DEF Slices
  <1>4. \A m : HexToBytes(text, Field, m) = From(x, m, 0, << >>)
    BY <1>3, HexScan
  <1>5. << >> \in Seq(Nat) /\ Len(<< >>) = 0 /\ 0 \in 0 .. Len(x)
    BY <1>3
  <1>6. (all.status = "OK") = WellFormed(Visible)
    <2> DEFINE v == Visible
               n == Len(v)
    <2>1. Seen(x, n, v)
      BY <1>3, VisibleSeen
    <2>2. n \in Nat /\ 0 \in 0 .. n
      BY <1>3, <2>1 DEF Seen
    <2> HIDE DEF v, n, x
    <2>3. From(x, enough, 0, << >>).status = "OK" <=> Cuttable(v, n, 0)
      <3>1. \A i \in 0 .. n : \A b \in Seq(Nat) :
               Len(b) <= i => (From(x, enough, i, b).status = "OK" <=> Cuttable(v, n, i))
        BY <1>1, <1>3, <2>1, AcceptsItems
      <3>2. Len(<< >>) <= 0
        BY <1>5
      <3> QED
        BY <1>5, <2>2, <3>1, <3>2, Zenon
    <2>4. Cuttable(v, n, 0) <=> WellFormed(Visible)
      BY WellFormedCuttable DEF v, n
    <2>5. WellFormed(Visible) \in BOOLEAN
      BY DEF WellFormed
    <2> QED
      BY <1>4, <2>3, <2>4, <2>5
  <1>7. \A m \in Nat : Bounded(all, HexToBytes(text, Field, m), << >>, m)
    <2> SUFFICES ASSUME NEW m \in Nat
                 PROVE  Bounded(From(x, enough, 0, << >>), From(x, m, 0, << >>), << >>, m)
      BY <1>4
    <2> HIDE DEF x, enough
    <2>1. \A i \in 0 .. Len(x) : \A b \in Seq(Nat) :
             Len(b) <= i => Bounded(From(x, enough, i, b), From(x, m, i, b), b, m)
      BY <1>1, <1>3, ReadsBounded
    <2>2. Len(<< >>) <= 0
      BY <1>5
    <2> QED
      BY <1>5, <2>1, <2>2, Zenon
  <1>8. all.status \in {"OK", "INVALID_FORMAT"}
    BY <1>1, <1>7, Zenon DEF Bounded
  <1>9. ASSUME NEW n \in DstSizes
        PROVE  LET some == HexToBytes(text, Field, n)
               IN  /\ some.bytes = SubSeq(all.bytes, 1, Least(n, Len(all.bytes)))
                   /\ some = all \/ some.status = "BUFFER_TOO_SMALL"
                   /\ (Len(all.bytes) # n \/ all.status = "OK") =>
                          (some = all) = (Len(all.bytes) <= n)
    <2>1. n \in Nat
      BY SizesAssumption
    <2> DEFINE some == HexToBytes(text, Field, n)
    <2>2. Bounded(all, some, << >>, n)
      BY <1>7, <2>1, Zenon
    <2>3. Len(<< >>) <= n
      BY <2>1
    <2> HIDE DEF all, some
    <2>4. (Len(all.bytes) <= n) \in BOOLEAN
      OBVIOUS
    <2> QED
      BY <2>2, <2>3, <2>4 DEF Bounded, some
  <1>10. ASSUME StrTrim(text, Field).len > 0
         PROVE  HexToBytes(text, StrTrim(text, Field), enough) = all
    <2> DEFINE t == StrTrim(text, Field)
               y == Contents(text, t)
               a == t.start - Field.start
    <2>1. t \in Slices /\ t.len > 0 /\ t.start + t.len <= Len(text) /\ IsTrimmed(x, a, y)
      BY <1>1, <1>10, TrimmedPart
    <2> HIDE DEF t, a, x
    <2>2. Characters(text, t) = y
      BY <1>1, <2>1, CharactersOf
    <2>3. HexToBytes(text, t, enough) = From(y, enough, 0, << >>)
      BY <2>2, HexScan
    <2> HIDE DEF y
    <2>4. From(y, enough, 0, << >>) = From(x, enough, 0, << >>)
      BY <1>1, <1>3, <2>1, TrimmedReads
    <2> QED
      BY <1>4, <2>3, <2>4 DEF t
  <1> HIDE DEF all, x
  <1> QED
    BY <1>6, <1>8, <1>9, <1>10, Zenon DEF DecodesItems, all

-----------------------------------------------------------------------------
(* Bytes that are written are read back.                                    *)

(* A number below r * r and its two digits.                                 *)
LEMMA DivisionExact ==
  ASSUME NEW b \in Int, NEW r \in Int, r > 0
  PROVE  b = r * (b \div r) + (b % r)
  OBVIOUS

LEMMA TwoDigits ==
  ASSUME NEW r \in Nat, r > 1, NEW b \in Nat, b < r * r
  PROVE  /\ b \div r \in 0 .. r - 1 /\ b % r \in 0 .. r - 1
         /\ (b \div r) * r + (b % r) = b
  <1> DEFINE q == b \div r
             m == b % r
  <1>1. q \in Int /\ m \in 0 .. r - 1
    OBVIOUS
  <1>2. b = r * q + m
    BY DivisionExact
  <1> HIDE DEF q, m
  <1>3. r * q = q * r
    BY <1>1
  <1>4. q >= 0
    <2>1. q < 0 => r * q <= -r
      <3>1. q < 0 => q <= -1
        BY <1>1
      <3> QED
        BY <1>1, <3>1
    <2> QED
      BY <1>1, <1>2, <2>1
  <1>5. q < r
    <2>1. q >= r => r * q >= r * r
      BY <1>1
    <2> QED
      BY <1>1, <1>2, <2>1
  <1> QED
    BY <1>1, <1>2, <1>3, <1>4, <1>5 DEF q, m

DigitSets == {LowerDigits, UpperDigits}

LEMMA DigitRead ==
  ASSUME NEW digits \in DigitSets, NEW d \in 0 .. Radix - 1
  PROVE  /\ digits[d + 1] \in Char /\ digits[d + 1] \notin Signs
         /\ DigitValue(digits[d + 1]) = d /\ d # NoDigit
  <1>1. /\ LowerDigits \in Seq(Char) /\ UpperDigits \in Seq(Char)
        /\ Len(LowerDigits) = Radix /\ Len(UpperDigits) = Radix /\ Radix \in Nat
    BY DigitAssumption DEF Radix
  <1>2. d + 1 \in 1 .. Radix /\ d \in Nat /\ d < Radix
    BY <1>1
  <1>3. digits[d + 1] \in Char
    BY <1>1, <1>2 DEF DigitSets
  <1>4. digits[d + 1] \in Digits(d)
    BY DEF DigitSets, Digits
  <1>5. Digits(d) \cap Signs = {}
    BY HexAssumption DEF Radix, Signs
  <1>6. DigitValue(digits[d + 1]) = d
    BY <1>4, DigitsApart
  <1>7. d # NoDigit
    BY <1>1, <1>2 DEF NoDigit
  <1> QED
    BY <1>3, <1>4, <1>5, <1>6, <1>7

LEMMA PairRead ==
  ASSUME NEW digits \in DigitSets, NEW h \in 0 .. Radix - 1, NEW l \in 0 .. Radix - 1,
         NEW x \in Seq(Char), NEW i \in Nat, i + 2 <= Len(x),
         x[i + 1] = digits[h + 1], x[i + 2] = digits[l + 1]
  PROVE  Turn(x, i) = "BYTE" /\ ByteAt(x, i) = h * Radix + l
  <1>1. /\ x[i + 1] \notin Signs /\ DigitValue(x[i + 1]) = h /\ h # NoDigit
        /\ x[i + 2] \notin Signs /\ DigitValue(x[i + 2]) = l /\ l # NoDigit
    BY DigitRead
  <1>2. /\ x[i + 1] # NUL /\ x[i + 2] # NUL /\ ~Skips(x[i + 1]) /\ x[i + 2] \notin X
    BY <1>1 DEF Signs, Skips, IsSpace
  <1>3. i # Len(x) /\ i + 1 # Len(x)
    OBVIOUS
  <1>4. HexToByte(x[i + 1], x[i + 2]) # {}
    BY <1>1 DEF HexToByte
  <1>5. Turn(x, i) = "BYTE"
    BY <1>2, <1>3, <1>4 DEF Turn, PrefixAt, Incomplete
  <1> QED
    BY <1>1, <1>5, ByteFound

(* Every byte takes w places, but for the last one, behind which there is no*)
(* space.                                                                   *)
HexLength(n, w) == n * w - (w - 2)

LEMMA Places ==
  ASSUME NEW n \in Nat \ {0}, NEW w \in {2, 3}
  PROVE  /\ HexLength(n, w) \in Nat \ {0}
         /\ \A i \in 0 .. n - 1 :
               /\ i * w \in Nat /\ i * w + 2 <= HexLength(n, w)
               /\ i + 1 = n => i * w + 2 = HexLength(n, w)
               /\ i + 1 # n => i * w + w = (i + 1) * w /\ i * w + w < HexLength(n, w)
         /\ \A pos \in 1 .. HexLength(n, w) :
               (pos - 1) \div w \in 0 .. n - 1 /\ pos - ((pos - 1) \div w) * w \in 1 .. w
         /\ \A i \in 0 .. n - 1 : \A k \in 1 .. w : ((i * w + k) - 1) \div w = i
  <1>1. CASE w = 2
    BY <1>1 DEF HexLength
  <1>2. CASE w = 3
    BY <1>2 DEF HexLength
  <1> QED
    BY <1>1, <1>2

(* x is the hexadecimal text of bytes, w places a byte.                     *)
IsHex(x, bytes, w, digits) ==
    /\ x \in Seq(Char) /\ Len(x) = HexLength(Len(bytes), w)
    /\ \A i \in 0 .. Len(bytes) - 1 :
          /\ x[i * w + 1] = digits[(bytes[i + 1] \div Radix) + 1]
          /\ x[i * w + 2] = digits[(bytes[i + 1] % Radix) + 1]
          /\ w = 3 /\ i + 1 # Len(bytes) => IsSpace(x[i * w + 3])

AreBytes(bytes) == bytes \in Seq(Nat) /\ \A i \in 1 .. Len(bytes) : bytes[i] < Radix * Radix

LEMMA HexIsRead ==
  ASSUME NEW bytes, AreBytes(bytes), bytes # << >>, NEW w \in {2, 3}, NEW digits \in DigitSets,
         NEW x, IsHex(x, bytes, w, digits)
  PROVE  From(x, Len(bytes), 0, << >>) = Returns("OK", bytes)
  <1> DEFINE n == Len(bytes)
             Place(k) == IF k = n THEN Len(x) ELSE k * w
             Good(k) == From(x, n, Place(k), SubSeq(bytes, 1, k)) = Returns("OK", bytes)
             G == {k \in 0 .. n : Good(k)}
  <1>0. /\ n \in Nat \ {0} /\ bytes \in Seq(Nat) /\ x \in Seq(Char) /\ Len(x) \in Nat
        /\ Len(x) = HexLength(n, w) /\ Radix \in Nat /\ Radix > 1
        /\ \A i \in 1 .. n : bytes[i] \in Nat /\ bytes[i] < Radix * Radix
    BY DigitAssumption DEF IsHex, AreBytes, Radix
  <1>1. ASSUME NEW k \in 0 .. n, \A q \in k + 1 .. n : Good(q)
        PROVE  Good(k)
    <2>1. CASE k = n
      <3>1. SubSeq(bytes, 1, n) = bytes
        BY <1>0, Beginning DEF BeginsWith
      <3>2. Turn(x, Len(x)) = "END"
        BY DEF Turn
      <3>3. Len(x) \in 0 .. Len(x)
        BY <1>0
      <3>4. From(x, n, Len(x), bytes) = Returns("OK", bytes)
        BY <1>0, <3>2, <3>3, FromTurn
      <3>5. Place(k) = Len(x) /\ SubSeq(bytes, 1, k) = bytes
        BY <2>1, <3>1
      <3> QED
        BY <3>4, <3>5, Zenon
    <2>2. CASE k # n
      <3> DEFINE i == k * w
                 b == SubSeq(bytes, 1, k)
                 c == SubSeq(bytes, 1, k + 1)
                 byte == bytes[k + 1]
                 h == byte \div Radix
                 l == byte % Radix
      <3>1. k \in 0 .. n - 1 /\ k + 1 \in 1 .. n /\ k \in Nat /\ k < n
        BY <1>0, <2>2
      <3>2. /\ i \in Nat /\ i + 2 <= Len(x)
            /\ k + 1 = n => i + 2 = Len(x)
            /\ k + 1 # n => i + w = (k + 1) * w /\ i + w < Len(x)
        <4>1. \A j \in 0 .. n - 1 :
                 /\ j * w \in Nat /\ j * w + 2 <= HexLength(n, w)
                 /\ j + 1 = n => j * w + 2 = HexLength(n, w)
                 /\ j + 1 # n => j * w + w = (j + 1) * w /\ j * w + w < HexLength(n, w)
          BY <1>0, Places
        <4> QED
          BY <1>0, <3>1, <4>1, Zenon
      <3>3. /\ x[i + 1] = digits[h + 1] /\ x[i + 2] = digits[l + 1]
            /\ w = 3 /\ k + 1 # n => IsSpace(x[i + 3])
        BY <3>1 DEF IsHex
      <3>4. byte \in Nat /\ byte < Radix * Radix
        BY <1>0, <3>1
      <3>5. h \in 0 .. Radix - 1 /\ l \in 0 .. Radix - 1 /\ h * Radix + l = byte
        <4> HIDE DEF byte
        <4> QED
          BY <1>0, <3>4, TwoDigits
      <3>6. b \in Seq(Nat) /\ Len(b) = k /\ Append(b, byte) = c /\ c \in Seq(Nat)
        <4>1. b \in Seq(Nat) /\ Len(b) = k /\ \A j \in 1 .. k : b[j] = bytes[j]
          BY <1>0, <3>1
        <4>2. c \in Seq(Nat) /\ Len(c) = k + 1 /\ \A j \in 1 .. k + 1 : c[j] = bytes[j]
          BY <1>0, <3>1
        <4> HIDE DEF b, c
        <4>3. Append(b, byte) \in Seq(Nat) /\ Len(Append(b, byte)) = k + 1
          BY <3>4, <4>1
        <4>4. \A j \in 1 .. k + 1 : Append(b, byte)[j] = c[j]
          BY <3>1, <4>1, <4>2
        <4>5. Append(b, byte) = c
          BY <4>2, <4>3, <4>4
        <4> QED
          BY <4>1, <4>2, <4>5
      <3> HIDE DEF i, byte, h, l, b, c
      <3>7. Turn(x, i) = "BYTE" /\ ByteAt(x, i) = byte
        <4>1. Turn(x, i) = "BYTE" /\ ByteAt(x, i) = h * Radix + l
          <5>1. x \in Seq(Char)
            BY <1>0
          <5>2. i \in Nat /\ i + 2 <= Len(x) /\ h \in 0 .. Radix - 1 /\ l \in 0 .. Radix - 1
            BY <3>2, <3>5
          <5>3. x[i + 1] = digits[h + 1] /\ x[i + 2] = digits[l + 1]
            BY <3>3
          <5> QED
            BY <5>1, <5>2, <5>3, PairRead
        <4> QED
          BY <3>5, <4>1, Zenon
      <3>8. From(x, n, i, b) = From(x, n, i + 2, c)
        <4>1. i \in 0 .. Len(x) /\ ~(Len(b) >= n)
          BY <1>0, <3>1, <3>2, <3>6
        <4>2. From(x, n, i, b) = From(x, n, i + 2, Append(b, ByteAt(x, i)))
          BY <1>0, <3>6, <3>7, <4>1, FromTurn
        <4> QED
          BY <3>6, <3>7, <4>2
      <3>9. From(x, n, i + 2, c) = From(x, n, Place(k + 1), c)
        <4>1. CASE k + 1 = n
          BY <3>2, <4>1
        <4>2. CASE k + 1 # n /\ w = 2
          BY <3>2, <4>2
        <4>3. CASE k + 1 # n /\ w = 3
          <5>1. i + 2 \in 0 .. Len(x) /\ i + 2 # Len(x) /\ i + 2 + 1 = i + 3
            BY <1>0, <3>2, <4>3
          <5>2. Turn(x, i + 2) = "SKIP"
            BY <1>0, <3>3, <4>3, <5>1, SpaceSkipped
          <5>3. From(x, n, i + 2, c) = From(x, n, i + 2 + 1, c)
            BY <1>0, <3>6, <5>1, <5>2, FromTurn
          <5>4. Place(k + 1) = i + 3
            BY <3>2, <4>3
          <5> QED
            BY <5>1, <5>3, <5>4
        <4> QED
          BY <4>1, <4>2, <4>3
      <3>10. From(x, n, Place(k + 1), c) = Returns("OK", bytes)
        <4>1. k + 1 \in k + 1 .. n
          BY <3>1, <1>0
        <4> QED
          BY <1>1, <4>1 DEF c
      <3>11. Place(k) = i
        BY <2>2 DEF i
      <3> HIDE DEF Place
      <3> QED
        BY <3>8, <3>9, <3>10, <3>11 DEF b
    <2> QED
      BY <2>1, <2>2
  <1> HIDE DEF Good
  <1>2. \A k \in 0 .. n : k \in G
    <2>1. \A k \in 0 .. n : (\A q \in k + 1 .. n : q \in G) => k \in G
      BY <1>0, <1>1
    <2> HIDE DEF G
    <2> QED
      BY <1>0, <2>1, FromTheEnd
  <1>3. Good(0) /\ 0 # n
    <2>1. 0 \in 0 .. n
      BY <1>0
    <2> QED
      BY <1>0, <1>2, <2>1
  <1>4. Place(0) = 0 /\ SubSeq(bytes, 1, 0) = << >>
    <2>1. 0 * w = 0
      OBVIOUS
    <2>2. SubSeq(bytes, 1, 0) = << >>
      BY <1>0
    <2> QED
      BY <1>3, <2>1, <2>2
  <1> QED
    BY <1>3, <1>4, Zenon DEF Good

LEMMA HexIsWritten ==
  ASSUME NEW bytes, AreBytes(bytes), bytes # << >>, NEW digits \in DigitSets,
         NEW space, space = << >> \/ \E c \in Spaces : space = <<c>>,
         NEW room
  PROVE  LET w == 2 + Len(space)
             len == HexLength(Len(bytes), w)
         IN  /\ w \in {2, 3}
             /\ ~(room >= len + 1) /\ room \in Int => BytesToHex(bytes, room, digits, space) = {}
             /\ room = len + 1 =>
                   \E x : IsHex(x, bytes, w, digits)
                          /\ BytesToHex(bytes, room, digits, space) = {Append(x, NUL)}
  <1> DEFINE w == 2 + Len(space)
             n == Len(bytes)
             len == HexLength(n, w)
             At2(pos, i) == (ByteToHex(bytes[i + 1], digits) \o space)[pos - i * w]
             x == [pos \in 1 .. len |-> LET i == (pos - 1) \div w
                                        IN  (ByteToHex(bytes[i + 1], digits) \o space)[pos - i * w]]
  <1>1. /\ w \in {2, 3}
        /\ w = 2 => space = << >>
        /\ w = 3 => \E c \in Spaces : space = <<c>>
    <2>1. CASE space = << >>
      BY <2>1
    <2>2. CASE \E c \in Spaces : space = <<c>>
      BY <2>2
    <2> QED
      BY <2>1, <2>2
  <1>2. /\ n \in Nat \ {0} /\ Radix \in Nat /\ Radix > 1
        /\ \A i \in 1 .. n : bytes[i] \in Nat /\ bytes[i] < Radix * Radix
    BY DigitAssumption DEF AreBytes, Radix
  <1>3. len = n * w - Len(space)
    <2>1. Len(space) = w - 2 /\ w \in Nat
      BY <1>1
    <2> HIDE DEF w, n
    <2> QED
      BY <2>1 DEF HexLength
  <1>4. BytesToHex(bytes, room, digits, space) =
           IF room < len + 1 THEN {} ELSE {Append(x, NUL)}
    <2>1. len = IF bytes = << >> THEN 0 ELSE Len(bytes) * (2 + Len(space)) - Len(space)
      BY <1>3
    <2> HIDE DEF len
    <2> QED
      BY <2>1, Zenon DEF BytesToHex
  <1> HIDE DEF w, n
  <1>5. /\ len \in Nat \ {0}
        /\ \A i \in 0 .. n - 1 :
               /\ i * w \in Nat /\ i * w + 2 <= len
               /\ i + 1 = n => i * w + 2 = len
               /\ i + 1 # n => i * w + w = (i + 1) * w /\ i * w + w < len
        /\ \A pos \in 1 .. len :
               (pos - 1) \div w \in 0 .. n - 1 /\ pos - ((pos - 1) \div w) * w \in 1 .. w
    BY <1>1, <1>2, Places, Zenon
  <1>6. \A i \in 0 .. n - 1 : \A k \in 1 .. w : ((i * w + k) - 1) \div w = i
    BY <1>1, <1>2, Places, Zenon
  <1> HIDE DEF len
  <1>7. ASSUME NEW i \in 0 .. n - 1
        PROVE  LET h == digits[(bytes[i + 1] \div Radix) + 1]
                   l == digits[(bytes[i + 1] % Radix) + 1]
                   both == ByteToHex(bytes[i + 1], digits) \o space
               IN  /\ h \in Char /\ l \in Char
                   /\ both[1] = h /\ both[2] = l /\ (w = 3 => both[3] \in Spaces)
    <2> DEFINE byte == bytes[i + 1]
               h == digits[(byte \div Radix) + 1]
               l == digits[(byte % Radix) + 1]
    <2>1. byte \in Nat /\ byte < Radix * Radix
      BY <1>2
    <2> HIDE DEF byte
    <2>2. byte \div Radix \in 0 .. Radix - 1 /\ byte % Radix \in 0 .. Radix - 1
      BY <1>2, <2>1, TwoDigits
    <2>3. h \in Char /\ l \in Char
      BY <2>2, DigitRead
    <2>4. ByteToHex(byte, digits) = <<h, l>>
      BY DEF ByteToHex
    <2> HIDE DEF h, l
    <2>5. CASE w = 2
      <3>1. space = << >>
        BY <1>1, <2>5
      <3>2. (<<h, l>> \o space)[1] = h /\ (<<h, l>> \o space)[2] = l
        BY <3>1
      <3> QED
        BY <2>3, <2>4, <2>5, <3>2 DEF h, l, byte
    <2>6. CASE w = 3
      <3>1. PICK c \in Spaces : space = <<c>>
        BY <1>1, <2>6
      <3>2. /\ (<<h, l>> \o space)[1] = h /\ (<<h, l>> \o space)[2] = l
            /\ (<<h, l>> \o space)[3] = c
        BY <3>1
      <3> QED
        BY <2>3, <2>4, <3>1, <3>2 DEF h, l, byte
    <2> QED
      BY <1>1, <2>5, <2>6
  <1>8. ASSUME NEW i \in 0 .. n - 1, NEW k \in 1 .. w, i * w + k \in 1 .. len
        PROVE  x[i * w + k] = (ByteToHex(bytes[i + 1], digits) \o space)[k]
    <2> DEFINE pos == i * w + k
    <2>1. (pos - 1) \div w = i
      BY <1>6, Zenon
    <2>2. pos - i * w = k
      BY <1>1, <1>2, <1>5
    <2>3. pos \in 1 .. len
      BY <1>8
    <2> HIDE DEF pos
    <2>4. x[pos] = (ByteToHex(bytes[((pos - 1) \div w) + 1], digits) \o space)
                      [pos - ((pos - 1) \div w) * w]
      BY <2>3, Zenon
    <2>5. x[pos] = (ByteToHex(bytes[i + 1], digits) \o space)[pos - i * w]
      BY <2>1, <2>4, Zenon
    <2> QED
      BY <2>2, <2>5, Zenon DEF pos
  <1>9. ASSUME NEW pos \in 1 .. len
        PROVE  x[pos] \in Char
    <2> DEFINE i == (pos - 1) \div w
               k == pos - i * w
               both == ByteToHex(bytes[i + 1], digits) \o space
    <2>1. i \in 0 .. n - 1 /\ k \in 1 .. w
      BY <1>5, Zenon
    <2>2. x[pos] = both[k]
      BY Zenon
    <2>3. both[1] \in Char /\ both[2] \in Char /\ (w = 3 => both[3] \in Char)
      BY <1>7, <2>1, CharAssumption
    <2>4. k \in 1 .. 3 /\ (k = 3 => w = 3)
      BY <1>1, <2>1
    <2> HIDE DEF k, both
    <2>5. both[k] \in Char
      BY <2>3, <2>4
    <2> QED
      BY <2>2, <2>5, Zenon
  <1>10. x \in Seq(Char) /\ Len(x) = len
    <2>1. x = [pos \in 1 .. len |-> x[pos]]
      OBVIOUS
    <2>2. len \in Nat
      BY <1>5
    <2> HIDE DEF x
    <2>3. x \in [1 .. len -> Char]
      BY <1>9, <2>1
    <2> QED
      BY <2>2, <2>3
  <1>11. IsHex(x, bytes, w, digits)
    <2>1. ASSUME NEW i \in 0 .. n - 1
          PROVE  /\ x[i * w + 1] = digits[(bytes[i + 1] \div Radix) + 1]
                 /\ x[i * w + 2] = digits[(bytes[i + 1] % Radix) + 1]
                 /\ w = 3 /\ i + 1 # n => IsSpace(x[i * w + 3])
      <3>1. /\ i * w \in Nat /\ i * w + 2 <= len
            /\ i + 1 # n => i * w + w < len
        BY <1>5, Zenon
      <3>2. /\ i * w + 1 \in 1 .. len /\ i * w + 2 \in 1 .. len
            /\ w = 3 /\ i + 1 # n => i * w + 3 \in 1 .. len
            /\ 1 \in 1 .. w /\ 2 \in 1 .. w /\ (w = 3 => 3 \in 1 .. w)
        BY <1>1, <1>5, <3>1
      <3> DEFINE both == ByteToHex(bytes[i + 1], digits) \o space
      <3>3. /\ x[i * w + 1] = both[1] /\ x[i * w + 2] = both[2]
            /\ w = 3 /\ i + 1 # n => x[i * w + 3] = both[3]
        <4> HIDE DEF x
        <4> QED
          BY <1>8, <3>2, Zenon
      <3>4. /\ both[1] = digits[(bytes[i + 1] \div Radix) + 1]
            /\ both[2] = digits[(bytes[i + 1] % Radix) + 1]
            /\ w = 3 => both[3] \in Spaces
        BY <1>7, Zenon
      <3> HIDE DEF x, both
      <3> QED
        BY <3>3, <3>4, Zenon DEF IsSpace
    <2>2. Len(x) = HexLength(n, w) /\ x \in Seq(Char)
      BY <1>10 DEF len
    <2> HIDE DEF x
    <2> QED
      BY <2>1, <2>2, Zenon DEF IsHex, n
  <1> HIDE DEF x
  <1>12. ~(room >= len + 1) /\ room \in Int => BytesToHex(bytes, room, digits, space) = {}
    BY <1>4, <1>5
  <1>13. room = len + 1 => BytesToHex(bytes, room, digits, space) = {Append(x, NUL)}
    BY <1>4, <1>5
  <1> QED
    BY <1>1, <1>11, <1>12, <1>13, Zenon DEF w, n, len

LEMMA BytesBack ==
  ASSUME FieldInv, InText
  PROVE  BytesReadBack
  <1> SUFFICES ASSUME Using PROVE BytesReadBack
    BY DEF BytesReadBack
  <1> DEFINE n == Field.len
             bytes == [i \in 1 .. n |-> Code[text[Field.start + i]] % (Radix * Radix)]
  <1>1. /\ text \in Seq(Char)
        /\ Field \in Slices /\ n > 0 /\ Field.start + n <= Len(text)
    BY SolidFields
  <1>2. n \in Nat \ {0} /\ Field.start \in Nat /\ Radix \in Nat /\ Radix > 1
    BY <1>1, DigitAssumption DEF Slices, Radix
  <1>3. AreBytes(bytes) /\ Len(bytes) = n /\ bytes # << >>
    <2>1. Radix * Radix \in Nat /\ Radix * Radix > 0
      BY <1>2
    <2>2. ASSUME NEW i \in 1 .. n
          PROVE  /\ bytes[i] \in Nat /\ bytes[i] < Radix * Radix
      <3>1. text[Field.start + i] \in Char
        BY <1>1, <1>2
      <3>2. Code[text[Field.start + i]] \in Nat
        BY <3>1, CodeAssumption
      <3>3. \A c, m \in Nat : m > 0 => c % m \in Nat /\ c % m < m
        OBVIOUS
      <3>4. bytes[i] = Code[text[Field.start + i]] % (Radix * Radix)
        OBVIOUS
      <3> HIDE DEF bytes
      <3> QED
        BY <2>1, <3>2, <3>3, <3>4
    <2>3. bytes = [i \in 1 .. n |-> bytes[i]]
      OBVIOUS
    <2> HIDE DEF bytes
    <2>4. bytes \in [1 .. n -> Nat]
      BY <2>2, <2>3
    <2>5. bytes \in Seq(Nat) /\ Len(bytes) = n
      BY <1>2, <2>4
    <2> QED
      BY <1>2, <2>2, <2>5 DEF AreBytes
  <1> HIDE DEF bytes
  <1>4. ASSUME NEW digits \in {LowerDigits, UpperDigits},
               NEW space \in {<< >>} \cup {<<c>> : c \in Spaces}
        PROVE  /\ BytesToHex(bytes, n * (2 + Len(space)) - Len(space), digits, space) = {}
               /\ \E hex \in BytesToHex(bytes, n * (2 + Len(space)) + 1 - Len(space),
                                        digits, space) :
                     HexToBytes(hex, Slice(0, Len(hex) - 1), n) = [status |-> "OK", bytes |-> bytes]
    <2> DEFINE w == 2 + Len(space)
               len == HexLength(n, w)
    <2>1. /\ digits \in DigitSets /\ (space = << >> \/ \E c \in Spaces : space = <<c>>)
          /\ Len(space) \in {0, 1}
      BY DEF DigitSets
    <2>2. w \in {2, 3}
      <3>1. \A z \in {0, 1} : 2 + z \in {2, 3}
        OBVIOUS
      <3> QED
        BY <2>1, <3>1, Zenon
    <2>3. /\ n * w - Len(space) = len /\ n * w + 1 - Len(space) = len + 1
          /\ len \in Nat \ {0} /\ ~(len >= len + 1) /\ len \in Int
      <3>1. len \in Nat \ {0}
        BY <1>2, <2>2, Places
      <3>2. Len(space) = w - 2 /\ n * w \in Nat
        BY <1>2, <2>1, <2>2
      <3> HIDE DEF w
      <3> QED
        BY <3>1, <3>2, <2>2 DEF HexLength
    <2>4. \A room : LET len_ == HexLength(Len(bytes), 2 + Len(space))
                    IN /\ ~(room >= len_ + 1) /\ room \in Int =>
                             BytesToHex(bytes, room, digits, space) = {}
                       /\ room = len_ + 1 =>
                             \E x : IsHex(x, bytes, 2 + Len(space), digits)
                                    /\ BytesToHex(bytes, room, digits, space) = {Append(x, NUL)}
      BY <1>3, <2>1, HexIsWritten, Zenon
    <2> HIDE DEF len
    <2>5. BytesToHex(bytes, len, digits, space) = {}
      BY <1>3, <2>3, <2>4, Zenon DEF len
    <2>6. PICK x : IsHex(x, bytes, w, digits)
                   /\ BytesToHex(bytes, len + 1, digits, space) = {Append(x, NUL)}
      BY <1>3, <2>4, Zenon DEF len
    <2> DEFINE hex == Append(x, NUL)
    <2>7. x \in Seq(Char) /\ Len(x) = len
      BY <1>3, <2>6 DEF IsHex, len
    <2>8. hex \in Seq(Char) /\ Len(hex) = len + 1 /\ \A i \in 1 .. len : hex[i] = x[i]
      BY <2>3, <2>7, CharAssumption
    <2> HIDE DEF hex, w
    <2>9. Characters(hex, Slice(0, len)) = x
      <3> DEFINE f == Slice(0, len)
      <3>1. f \in Slices /\ f.len = len /\ f.start = 0 /\ f.len > 0 /\ f.start + f.len <= Len(hex)
        BY <2>3, <2>8 DEF Slices, Slice
      <3> HIDE DEF f
      <3>2. /\ Characters(hex, f) = Contents(hex, f)
            /\ Contents(hex, f) \in Seq(Char) /\ Len(Contents(hex, f)) = f.len
            /\ \A i \in 1 .. f.len : Contents(hex, f)[i] = hex[f.start + i]
        BY <2>8, <3>1, CharactersOf
      <3> DEFINE y == Contents(hex, f)
      <3>3. y \in Seq(Char) /\ Len(y) = len /\ \A i \in 1 .. len : y[i] = x[i]
        BY <2>3, <2>8, <3>1, <3>2
      <3> HIDE DEF y
      <3>4. y = x
        BY <2>3, <2>7, <3>3
      <3> QED
        BY <3>2, <3>4 DEF f, y
    <2>10. From(x, n, 0, << >>) = Returns("OK", bytes)
      BY <1>3, <2>1, <2>2, <2>6, HexIsRead
    <2>11. HexToBytes(hex, Slice(0, len), n) = [status |-> "OK", bytes |-> bytes]
      BY <2>9, <2>10, HexScan DEF Returns
    <2>12. Len(hex) - 1 = len
      BY <2>3, <2>8
    <2>13. \E h \in BytesToHex(bytes, len + 1, digits, space) :
              HexToBytes(h, Slice(0, Len(h) - 1), n) = [status |-> "OK", bytes |-> bytes]
      BY <2>6, <2>11, <2>12, Zenon DEF hex
    <2> QED
      BY <2>3, <2>5, <2>13 DEF w
  <1> QED
    BY <1>4, Zenon DEF BytesReadBack, bytes

(* Of the fields, in whatever order they are changed in place and read: what*)
(* EDC_HexToBytes accepts is what is made of separators, prefixes and pairs *)
(* of digits; a buffer that is too small gets the beginning of what one that*)
(* is not would get, and it is told; spaces at both ends make no difference;*)
(* and bytes that EDC_BytesToHex writes are read back as they were          *)
(* (edc_string.c:294-433).                                                  *)
THEOREM HexadecimalReadsBack == FieldSpec => []HexReadsBack
  <1>1. FieldInv /\ InText => HexReadsBack
    BY Decodes, BytesBack DEF HexReadsBack
  <1> QED
    BY <1>1, FieldInvariance, TokensInText, PTL
=================================================================================
