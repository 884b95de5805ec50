----------------------------- MODULE KeyValueProofs -----------------------------
(***************************************************************************)
(* Proofs about EDC_KV_Parse, for every text, every choice of delimiters   *)
(* and every array size.                                                   *)
(***************************************************************************)
EXTENDS KeyValue, SequenceTheorems, FiniteSetTheorems, WellFoundedInduction, TLAPS

(* Scans for the first and the last place where something holds: there is   *)
(* one.                                                                     *)
LEMMA LeastExists ==
  ASSUME NEW T, T \subseteq Nat, T # {}
  PROVE  \E x \in T : \A y \in T : x <= y
  <1> DEFINE R == OpToRel(<, Nat)
  <1>1. IsWellFoundedOn(R, Nat)
    BY NatLessThanWellFounded
  <1>2. \A x, y \in Nat : y < x => <<y, x>> \in R
    BY DEF OpToRel
  <1> HIDE DEF R
  <1>3. PICK x \in T : \A y \in T : ~(<<y, x>> \in R)
    BY <1>1, WFMin
  <1>4. ASSUME NEW y \in T PROVE x <= y
    <2>1. x \in Nat /\ y \in Nat
      OBVIOUS
    <2>2. ~(y < x)
      BY <1>2, <1>3, <2>1
    <2> QED
      BY <2>1, <2>2
  <1> QED
    BY <1>4

LEMMA GreatestExists ==
  ASSUME NEW n \in Nat, NEW T, T \subseteq 0 .. n, T # {}
  PROVE  \E x \in T : \A y \in T : y <= x
  <1> DEFINE D == {k \in 0 .. n : n - k \in T}
  <1>1. D \subseteq Nat
    OBVIOUS
  <1>2. D # {}
    <2>1. PICK x \in T : TRUE
      OBVIOUS
    <2>2. x \in 0 .. n /\ n - x \in 0 .. n /\ n - (n - x) = x
      OBVIOUS
    <2> QED
      BY <2>1, <2>2
  <1>3. PICK d \in D : \A e \in D : d <= e
    BY <1>1, <1>2, LeastExists
  <1>4. ASSUME NEW y \in T PROVE y <= n - d
    <2>1. y \in 0 .. n /\ n - y \in 0 .. n /\ n - (n - y) = y
      OBVIOUS
    <2>2. n - (n - y) \in T
      BY <2>1
    <2>3. n - y \in D
      BY <2>1, <2>2
    <2>4. d \in Nat /\ d <= n - y
      BY <1>1, <1>3, <2>3
    <2> QED
      BY <2>1, <2>4
  <1> QED
    BY <1>3, <1>4

-----------------------------------------------------------------------------
(* The text and its length: str[slen] is readable, whoever determined slen. *)
TextOK ==
    /\ text \in Seq(Char)
    /\ slen \in Nat /\ slen < Len(text)
    /\ max_pairs \in Nat \ {0}
    /\ i \in 0 .. slen

LEMMA StrLenInside ==
  ASSUME NEW s \in Seq(Char)
  PROVE  StrLen(Append(s, NUL), 0) \in 0 .. Len(s)
  <1> DEFINE t == Append(s, NUL)
             ends == {n \in 0 .. StrCap : n = StrCap \/ (0 + n < Len(t) /\ t[0 + n + 1] = NUL)}
  <1>1. StrCap \in Nat /\ Len(s) \in Nat /\ Len(t) = Len(s) + 1 /\ t[Len(s) + 1] = NUL
    BY StrCapAssumption
  <1>2. ends \subseteq Nat /\ StrCap \in ends
    BY <1>1
  <1>3. PICK n \in ends : \A m \in ends : n <= m
    BY <1>2, LeastExists
  <1>4. Len(s) < StrCap => Len(s) \in ends
    BY <1>1
  <1>5. /\ StrLen(Append(s, NUL), 0) \in ends
        /\ \A m \in ends : StrLen(Append(s, NUL), 0) <= m
    BY <1>3 DEF StrLen
  <1> QED
    BY <1>1, <1>2, <1>4, <1>5

(* while (p < slen && str[p] is not in stop) p++                            *)
LEMMA UpToStops ==
  ASSUME TextOK, NEW p \in 0 .. slen, NEW stop
  PROVE  /\ UpTo(p, stop) \in p .. slen
         /\ UpTo(p, stop) = slen \/ At(UpTo(p, stop)) \in stop
         /\ \A q \in p .. UpTo(p, stop) - 1 : At(q) \notin stop
  <1> DEFINE ends == {q \in p .. slen : q = slen \/ At(q) \in stop}
  <1>1. slen \in Nat /\ ends \subseteq Nat /\ slen \in ends
    BY DEF TextOK
  <1>2. \E q \in ends : \A r \in ends : q <= r
    BY <1>1, LeastExists
  <1>3. UpTo(p, stop) \in ends /\ \A r \in ends : UpTo(p, stop) <= r
    BY <1>2 DEF UpTo
  <1>4. ASSUME NEW q \in p .. UpTo(p, stop) - 1 PROVE At(q) \notin stop
    BY <1>1, <1>3
  <1> QED
    BY <1>3, <1>4

(* while (last > first && EDC_IsSpace(str[last - 1])) last--                *)
LEMMA BackedStops ==
  ASSUME TextOK, NEW first \in 0 .. slen, NEW last \in first .. slen
  PROVE  /\ Backed(first, last) \in first .. last
         /\ Backed(first, last) = first \/ ~IsSpace(At(Backed(first, last) - 1))
         /\ \A q \in Backed(first, last) .. last - 1 : IsSpace(At(q))
  <1> DEFINE ends == {q \in first .. last : q = first \/ ~IsSpace(At(q - 1))}
  <1>1. slen \in Nat /\ last \in Nat /\ ends \subseteq 0 .. last /\ first \in ends
    BY DEF TextOK
  <1>2. \E q \in ends : \A r \in ends : r <= q
    BY <1>1, GreatestExists
  <1>3. Backed(first, last) \in ends /\ \A r \in ends : r <= Backed(first, last)
    BY <1>2 DEF Backed
  <1>4. ASSUME NEW q \in Backed(first, last) .. last - 1 PROVE IsSpace(At(q))
    <2>1. q + 1 \in first .. last /\ q + 1 > Backed(first, last) /\ (q + 1) - 1 = q
      BY <1>1, <1>3
    <2> QED
      BY <1>1, <1>3, <2>1
  <1> QED
    BY <1>3, <1>4

(* Where the parts of an item at i are.                                     *)
LEMMA KeyPlace ==
  ASSUME TextOK
  PROVE  /\ KeyStart(i) \in i .. slen /\ KeyStart(i) \in 0 .. slen
         /\ KeyStop(KeyStart(i)) \in KeyStart(i) .. slen
         /\ KeyEnd \in KeyStart(i) .. KeyStop(KeyStart(i))
  <1>1. KeyStart(i) \in i .. slen /\ KeyStart(i) \in 0 .. slen
    BY UpToStops DEF KeyStart, TextOK
  <1>2. KeyStop(KeyStart(i)) \in KeyStart(i) .. slen
    BY <1>1, UpToStops DEF KeyStop
  <1> QED
    BY <1>1, <1>2, BackedStops DEF KeyEnd

(* A value lies between the key's delimiter and the position behind it.     *)
LEMMA ValuePlace ==
  ASSUME TextOK, NEW p \in 0 .. slen
  PROVE  /\ ValueAfter(p).next \in p .. slen
         /\ \/ ValueAfter(p).val = NoValue
            \/ \E start \in p + 1 .. slen, len \in Nat :
                  /\ ValueAfter(p).val = {Slice(start, len)}
                  /\ start + len <= ValueAfter(p).next
  <1>0. slen \in Nat
    BY DEF TextOK
  <1>1. CASE p < slen /\ At(p) = kv_delim
    <2> DEFINE v == ValueStart(p + 1)
    <2>1. v \in p + 1 .. slen
      BY <1>0, <1>1, UpToStops DEF ValueStart
    <2>2. CASE v < slen /\ At(v) \in Quotes
      <3> DEFINE last == UpTo(v + 1, {At(v), NUL})
                 next == IF last < slen /\ At(last) = At(v) THEN last + 1 ELSE last
      <3>1. last \in v + 1 .. slen
        BY <1>0, <2>1, <2>2, UpToStops
      <3>2. next \in last .. slen
        BY <1>0, <3>1
      <3>3. ValueAfter(p).next = next /\ ValueAfter(p).val = {Slice(v + 1, last - (v + 1))}
        BY <1>1, <2>2 DEF ValueAfter, Value, QuotedValue
      <3> HIDE DEF last, next, v
      <3>4. v + 1 \in p + 1 .. slen /\ last - (v + 1) \in Nat
            /\ (v + 1) + (last - (v + 1)) <= next /\ next \in p .. slen
        BY <1>0, <2>1, <3>1, <3>2
      <3> QED
        BY <3>3, <3>4
    <2>3. CASE ~(v < slen /\ At(v) \in Quotes)
      <3> DEFINE last == UpTo(v, {item_delim, NUL} \cup LineEnds)
                 back == Backed(v, last)
      <3>1. last \in v .. slen
        BY <1>0, <2>1, UpToStops
      <3>2. back \in v .. last
        BY <1>0, <2>1, <3>1, BackedStops
      <3>3. ValueAfter(p).next = last /\ ValueAfter(p).val = {Slice(v, back - v)}
        BY <1>1, <2>3 DEF ValueAfter, Value, PlainValue
      <3> HIDE DEF last, back, v
      <3>4. v \in p + 1 .. slen /\ back - v \in Nat /\ v + (back - v) <= last /\ last \in p .. slen
        BY <1>0, <2>1, <3>1, <3>2
      <3> QED
        BY <3>3, <3>4
    <2> QED
      BY <2>2, <2>3
  <1>2. CASE ~(p < slen /\ At(p) = kv_delim)
    BY <1>0, <1>2 DEF ValueAfter
  <1> QED
    BY <1>1, <1>2

-----------------------------------------------------------------------------
(* What somebody writes down is a text: by induction on the number of its   *)
(* items.                                                                   *)
WrittenUpTo(items, upto, m) ==
    upto = [n \in 0 .. m |->
               IF n = 0 THEN << >>
               ELSE IF n = 1 THEN WrittenItem(items[1], kv_delim)
               ELSE upto[n - 1] \o <<item_delim>> \o WrittenItem(items[n], kv_delim)]

LEMMA WrittenDefined ==
  ASSUME NEW items, NEW m \in Nat
  PROVE  \E upto : WrittenUpTo(items, upto, m)
  <1> DEFINE T == {k \in Nat : ~\E upto : WrittenUpTo(items, upto, k)}
  <1>1. SUFFICES ASSUME T # {} PROVE FALSE
    OBVIOUS
  <1>2. PICK k \in T : \A j \in T : k <= j
    BY <1>1, LeastExists
  <1>3. CASE k = 0
    <2> DEFINE f == [n \in 0 .. 0 |-> << >>]
    <2>1. WrittenUpTo(items, f, 0)
      BY DEF WrittenUpTo
    <2> QED
      BY <1>3, <2>1
  <1>4. CASE k # 0
    <2>1. k \in Nat /\ k - 1 \in Nat /\ k - 1 \notin T
      BY <1>2, <1>4
    <2>2. PICK g : WrittenUpTo(items, g, k - 1)
      BY <2>1
    <2> DEFINE Last == IF k = 1 THEN WrittenItem(items[1], kv_delim)
                       ELSE g[k - 1] \o <<item_delim>> \o WrittenItem(items[k], kv_delim)
               f == [n \in 0 .. k |-> IF n = k THEN Last ELSE g[n]]
    <2>3. \A n \in 0 .. k - 1 :
              g[n] = (IF n = 0 THEN << >>
                      ELSE IF n = 1 THEN WrittenItem(items[1], kv_delim)
                      ELSE g[n - 1] \o <<item_delim>> \o WrittenItem(items[n], kv_delim))
      BY <2>2 DEF WrittenUpTo
    <2>4. ASSUME NEW n \in 0 .. k
          PROVE  f[n] = (IF n = 0 THEN << >>
                         ELSE IF n = 1 THEN WrittenItem(items[1], kv_delim)
                         ELSE f[n - 1] \o <<item_delim>> \o WrittenItem(items[n], kv_delim))
      <3>1. CASE n = k
        BY <1>4, <2>1, <3>1
      <3>2. CASE n # k
        <4>1. n \in 0 .. k - 1 /\ (n # 0 => n - 1 \in 0 .. k /\ n - 1 # k)
          BY <2>1, <3>2
        <4> QED
          BY <2>3, <3>2, <4>1
      <3> QED
        BY <3>1, <3>2
    <2>5. WrittenUpTo(items, f, k)
      BY <2>4 DEF WrittenUpTo
    <2> QED
      BY <1>2, <2>5
  <1> QED
    BY <1>3, <1>4

LEMMA WrittenParts ==
  ASSUME NEW items \in Items, kv_delim \in Char, item_delim \in Char
  PROVE  /\ Len(items) \in Nat
         /\ \A n \in 1 .. Len(items) :
                /\ items[n] \in [key : Seq(Char), val : Seq(Char), quote : Seq(Char)]
                /\ WrittenItem(items[n], kv_delim) \in Seq(Char)
         /\ \E upto :
                /\ Written(items, item_delim, kv_delim) = upto[Len(items)] /\ upto[0] = << >>
                /\ \A n \in 1 .. Len(items) :
                       upto[n] = IF n = 1 THEN WrittenItem(items[1], kv_delim)
                                 ELSE upto[n - 1] \o <<item_delim>> \o WrittenItem(items[n], kv_delim)
                /\ \A n \in 0 .. Len(items) : upto[n] \in Seq(Char)
  <1> DEFINE N == Len(items)
             upto == CHOOSE f : WrittenUpTo(items, f, N)
  <1>1. /\ N \in Nat
        /\ \A n \in 1 .. N : items[n] \in [key : Seq(Char), val : Seq(Char), quote : Seq(Char)]
    <2> DEFINE R == [key : Seq(Char), val : Seq(Char), quote : Seq(Char)]
    <2>1. items \in Seq(R)
      BY ItemsAssumption
    <2> HIDE DEF R
    <2>2. N \in Nat /\ \A n \in 1 .. N : items[n] \in R
      BY <2>1
    <2> QED
      BY <2>2 DEF R
  <1>2. WrittenUpTo(items, upto, N)
    BY <1>1, WrittenDefined
  <1>3. Written(items, item_delim, kv_delim) = upto[N]
    BY DEF Written, WrittenUpTo
  <1>4. \A n \in 1 .. N : WrittenItem(items[n], kv_delim) \in Seq(Char)
    BY <1>1 DEF WrittenItem
  <1>5. \A n \in 0 .. N :
            upto[n] = (IF n = 0 THEN << >>
                       ELSE IF n = 1 THEN WrittenItem(items[1], kv_delim)
                       ELSE upto[n - 1] \o <<item_delim>> \o WrittenItem(items[n], kv_delim))
    BY <1>2 DEF WrittenUpTo
  <1> HIDE DEF upto, N
  <1> DEFINE T == {n \in 0 .. N : upto[n] \notin Seq(Char)}
  <1>6. SUFFICES ASSUME T # {} PROVE FALSE
    <2>1. \A n \in 0 .. N : upto[n] \in Seq(Char)
      BY <1>6
    <2>2. 0 \in 0 .. N /\ \A n \in 1 .. N : n \in 0 .. N /\ n # 0
      BY <1>1
    <2>3. upto[0] = << >>
      BY <1>5, <2>2
    <2>4. \A n \in 1 .. N :
              upto[n] = (IF n = 1 THEN WrittenItem(items[1], kv_delim)
                         ELSE upto[n - 1] \o <<item_delim>> \o WrittenItem(items[n], kv_delim))
      BY <1>5, <2>2
    <2> QED
      BY <1>1, <1>3, <1>4, <2>1, <2>3, <2>4 DEF N
  <1>7. T \subseteq Nat
    BY <1>1
  <1>8. PICK n \in T : \A k \in T : n <= k
    BY <1>6, <1>7, LeastExists
  <1>9. n \in 0 .. N /\ upto[n] \notin Seq(Char)
    BY <1>8
  <1>10. \A k \in 0 .. N : k < n => upto[k] \in Seq(Char)
    <2> SUFFICES ASSUME NEW k \in 0 .. N, k < n, upto[k] \notin Seq(Char) PROVE FALSE
      OBVIOUS
    <2>1. k \in T
      OBVIOUS
    <2>2. n <= k
      BY <1>8, <2>1
    <2> QED
      BY <1>1, <1>9, <2>2
  <1> HIDE DEF T
  <1>11. n # 0 /\ n # 1
    <2>1. << >> \in Seq(Char)
      OBVIOUS
    <2>2. CASE n = 0
      <3>1. upto[n] = << >>
        BY <1>5, <1>9, <2>2
      <3> QED
        BY <1>9, <2>1, <3>1
    <2>3. CASE n = 1
      <3>1. n \in 1 .. N
        BY <1>1, <1>9, <2>3
      <3>2. upto[n] = WrittenItem(items[n], kv_delim)
        BY <1>5, <1>9, <2>3
      <3> QED
        BY <1>4, <1>9, <3>1, <3>2
    <2> QED
      BY <2>2, <2>3
  <1>12. n - 1 \in 0 .. N /\ n - 1 < n /\ n \in 1 .. N
    BY <1>1, <1>9, <1>11
  <1>13. upto[n - 1] \in Seq(Char)
    BY <1>10, <1>12
  <1>14. upto[n] = upto[n - 1] \o <<item_delim>> \o WrittenItem(items[n], kv_delim)
    BY <1>5, <1>9, <1>11
  <1>15. WrittenItem(items[n], kv_delim) \in Seq(Char) /\ <<item_delim>> \in Seq(Char)
    BY <1>4, <1>12
  <1> QED
    BY <1>9, <1>13, <1>14, <1>15

LEMMA WrittenText ==
  ASSUME NEW items \in Items, kv_delim \in Char, item_delim \in Char
  PROVE  Written(items, item_delim, kv_delim) \in Seq(Char)
  <1>1. Len(items) \in 0 .. Len(items)
    BY WrittenParts
  <1> QED
    BY <1>1, WrittenParts

-----------------------------------------------------------------------------
Slices == [start : Nat, len : Nat]
Pair   == [key : Slices, val : {NoValue} \cup {{s} : s \in Slices}]

IInv == TextOK /\ pairs \in Seq(Pair) /\ SlicesInOrder

LEMMA EndOfPair ==
  ASSUME NEW pair \in Pair
  PROVE  /\ EndOf(pair) \in Nat
         /\ pair.val = NoValue => EndOf(pair) = pair.key.start + pair.key.len
         /\ \A s \in pair.val : EndOf(pair) = s.start + s.len
  <1>1. pair.key.start \in Nat /\ pair.key.len \in Nat
    BY DEF Pair, Slices
  <1>2. CASE pair.val = NoValue
    BY <1>1, <1>2 DEF EndOf, NoValue
  <1>3. CASE pair.val # NoValue
    <2>1. PICK s \in Slices : pair.val = {s}
      BY <1>3 DEF Pair
    <2>2. {r.start + r.len : r \in pair.val} = {s.start + s.len}
      BY <2>1
    <2>3. EndOf(pair) = s.start + s.len
      BY <1>3, <2>2 DEF EndOf
    <2> QED
      BY <1>3, <2>1, <2>3 DEF Slices
  <1> QED
    BY <1>2, <1>3

LEMMA InitInv == Init => IInv
  <1> SUFFICES ASSUME Init PROVE IInv
    OBVIOUS
  <1>1. kv_delim \in Char /\ item_delim \in Char /\ NUL \in Char
    BY KvAssumption, CharAssumption DEF Init
  <1>2. PICK s \in Seq(Char) : text = Append(s, NUL)
    BY <1>1, WrittenText, KvAssumption DEF Init
  <1>3. PICK len \in {0, Len(text) - 1} : slen = Length(text, len)
    BY DEF Init
  <1>4. text \in Seq(Char) /\ Len(text) = Len(s) + 1 /\ Len(s) \in Nat
    BY <1>1, <1>2
  <1>5. slen \in 0 .. Len(s)
    BY <1>2, <1>3, <1>4, StrLenInside DEF Length
  <1>6. TextOK
    BY <1>4, <1>5, KvAssumption DEF Init, TextOK
  <1>7. pairs = << >> /\ i = 0 /\ max_pairs \in Nat \ {0} /\ slen \in Nat
    BY <1>5, KvAssumption DEF Init
  <1> QED
    BY <1>6, <1>7 DEF IInv, SlicesInOrder

LEMMA ItemInv ==
  ASSUME IInv, Item
  PROVE  IInv'
  <1> DEFINE start == KeyStart(i)
             stop  == KeyStop(start)
             value == ValueAfter(stop)
             pair  == [key |-> Slice(start, KeyEnd - start), val |-> value.val]
             N     == Len(pairs)
  <1>1. /\ i \in 0 .. slen /\ slen \in Nat /\ max_pairs \in Nat /\ UNCHANGED input
        /\ KeyEnd # start /\ N < max_pairs
        /\ pairs' = Append(pairs, pair) /\ i' = PastItem(value.next)
    BY DEF IInv, TextOK, Item, MoreToRead
  <1>2. start \in i .. slen /\ start \in 0 .. slen /\ stop \in start .. slen
        /\ KeyEnd \in start .. stop /\ stop \in 0 .. slen
    BY <1>1, KeyPlace DEF IInv
  <1>3. /\ value.next \in stop .. slen
        /\ \/ value.val = NoValue
           \/ \E from \in stop + 1 .. slen, len \in Nat :
                 value.val = {Slice(from, len)} /\ from + len <= value.next
    BY <1>2, ValuePlace DEF IInv
  <1> HIDE DEF start, stop, value
  <1>4. i' \in value.next .. slen
    BY <1>1, <1>2, <1>3 DEF PastItem
  <1>5. /\ pair \in Pair
        /\ pair.key.start = start /\ pair.key.len = KeyEnd - start /\ pair.key.len > 0
        /\ EndOf(pair) <= value.next
        /\ \A s \in pair.val : s.start > pair.key.start + pair.key.len - 1
    <2>1. pair.key = Slice(start, KeyEnd - start) /\ pair.val = value.val
          /\ Slice(start, KeyEnd - start) \in Slices
          /\ pair.key.start = start /\ pair.key.len = KeyEnd - start /\ pair.key.len > 0
      BY <1>1, <1>2 DEF Slices, Slice
    <2>2. CASE value.val = NoValue
      <3>1. pair \in Pair
        BY <2>1, <2>2 DEF Pair
      <3>2. EndOf(pair) = start + (KeyEnd - start)
        BY <2>1, <2>2, <3>1, EndOfPair
      <3> QED
        BY <1>2, <1>3, <2>1, <2>2, <3>1, <3>2 DEF NoValue
    <2>3. CASE value.val # NoValue
      <3>1. PICK from \in stop + 1 .. slen, len \in Nat :
                value.val = {Slice(from, len)} /\ from + len <= value.next
        BY <1>3, <2>3
      <3>2. Slice(from, len) \in Slices /\ Slice(from, len).start = from
            /\ Slice(from, len).len = len
        BY <1>1, <1>2, <3>1 DEF Slices, Slice
      <3>3. pair \in Pair
        BY <2>1, <3>1, <3>2 DEF Pair
      <3>4. EndOf(pair) = from + len
        BY <2>1, <3>1, <3>2, <3>3, EndOfPair
      <3> QED
        BY <1>2, <2>1, <3>1, <3>2, <3>3, <3>4
    <2> QED
      BY <2>2, <2>3
  <1> HIDE DEF pair
  <1>6. /\ pairs \in Seq(Pair) /\ N \in Nat /\ pairs' \in Seq(Pair) /\ Len(pairs') = N + 1
        /\ \A n \in 1 .. N : pairs'[n] = pairs[n]
        /\ pairs'[N + 1] = pair
    BY <1>1, <1>5 DEF IInv
  <1>7. /\ \A n \in 1 .. N :
               /\ pairs[n].key.len > 0
               /\ pairs[n].key.start >= (IF n = 1 THEN 0 ELSE EndOf(pairs[n - 1]))
               /\ \A s \in pairs[n].val : s.start > pairs[n].key.start + pairs[n].key.len - 1
               /\ EndOf(pairs[n]) <= i
    BY DEF IInv, SlicesInOrder
  <1>8. \A n \in 1 .. N : EndOf(pairs[n]) \in Nat
    BY <1>6, EndOfPair
  <1>9. ASSUME NEW n \in 1 .. Len(pairs')
        PROVE  /\ pairs'[n].key.len > 0
               /\ pairs'[n].key.start >= (IF n = 1 THEN 0 ELSE EndOf(pairs'[n - 1]))
               /\ \A s \in pairs'[n].val :
                      s.start > pairs'[n].key.start + pairs'[n].key.len - 1
               /\ EndOf(pairs'[n]) <= i'
    <2>1. CASE n \in 1 .. N
      <3>1. pairs'[n] = pairs[n] /\ (n # 1 => pairs'[n - 1] = pairs[n - 1])
        BY <1>6, <2>1
      <3>2. i <= i'
        BY <1>1, <1>2, <1>3, <1>4
      <3>3. EndOf(pairs[n]) <= i'
        BY <1>1, <1>4, <1>7, <1>8, <2>1, <3>2, <1>3, <1>2
      <3> QED
        BY <1>7, <2>1, <3>1, <3>3
    <2>2. CASE n = N + 1
      <3>1. pairs'[n] = pair /\ (n # 1 => n - 1 \in 1 .. N /\ pairs'[n - 1] = pairs[n - 1])
        BY <1>6, <2>2
      <3>2. n # 1 => start >= EndOf(pairs[n - 1])
        BY <1>1, <1>2, <1>7, <1>8, <3>1
      <3>3. EndOf(pair) <= i'
        BY <1>1, <1>2, <1>3, <1>4, <1>5, EndOfPair
      <3> QED
        BY <1>2, <1>5, <3>1, <3>2, <3>3
    <2> QED
      BY <1>6, <2>1, <2>2
  <1>10. SlicesInOrder'
    <2>1. i' \in 0 .. slen' /\ Len(pairs') <= max_pairs'
      BY <1>1, <1>2, <1>3, <1>4, <1>6 DEF input
    <2> QED
      BY <1>9, <2>1 DEF SlicesInOrder, EndOf, NoValue
  <1>11. TextOK'
    BY <1>1, <1>10 DEF IInv, TextOK, input, SlicesInOrder
  <1> QED
    BY <1>6, <1>10, <1>11 DEF IInv

(* The other steps hand out nothing.                                        *)
LEMMA OtherInv ==
  ASSUME IInv, Return \/ EmptyKey \/ UNCHANGED vars
  PROVE  IInv'
  <1>1. UNCHANGED <<input, pairs>> /\ i \in 0 .. slen /\ slen \in Nat
    BY DEF Return, EmptyKey, vars, IInv, TextOK
  <1>2. i' \in i .. slen
    <2>1. KeyStart(i) \in i .. slen /\ KeyStop(KeyStart(i)) \in i .. slen
      BY <1>1, KeyPlace DEF IInv
    <2>2. CASE Return
      BY <1>1, <2>1, <2>2 DEF Return
    <2>3. CASE EmptyKey
      BY <1>1, <2>1, <2>3 DEF EmptyKey, PastEmptyKey
    <2>4. CASE UNCHANGED vars
      BY <1>1, <2>4 DEF vars
    <2> QED
      BY <2>2, <2>3, <2>4
  <1>3. \A n \in 1 .. Len(pairs) : EndOf(pairs[n]) \in Nat /\ EndOf(pairs[n]) <= i
    BY EndOfPair DEF IInv, SlicesInOrder
  <1>4. \A n \in 1 .. Len(pairs) : EndOf(pairs[n]) <= i'
    BY <1>1, <1>2, <1>3
  <1>5. pairs' = pairs /\ slen' = slen /\ max_pairs' = max_pairs /\ text' = text
    BY <1>1 DEF input
  <1>6. i' \in 0 .. slen
    BY <1>1, <1>2
  <1>7. SlicesInOrder'
    BY <1>4, <1>5, <1>6 DEF IInv, SlicesInOrder, EndOf, NoValue
  <1>8. TextOK'
    BY <1>5, <1>6 DEF IInv, TextOK
  <1> QED
    BY <1>5, <1>7, <1>8 DEF IInv

THEOREM Invariance == Spec => []IInv
  <1>1. IInv /\ [Next]_vars => IInv'
    BY ItemInv, OtherInv DEF Next, Done
  <1> QED
    BY <1>1, InitInv, PTL DEF Spec

(* Whatever the text: the slices EDC_KV_Parse hands out lie within the part *)
(* of it that has been scanned, one behind the other, and are no more than  *)
(* the caller's array takes (edc_parser.c:22-116).                          *)
THEOREM Ordered == Spec => []SlicesInOrder
  <1>1. IInv => SlicesInOrder
    BY DEF IInv
  <1> QED
    BY <1>1, Invariance, PTL
-----------------------------------------------------------------------------
(* The pieces of the text in their order.                                   *)
LEMMA PiecesType ==
  ASSUME slen \in Nat
  PROVE  /\ Cuts \subseteq -1 .. slen
         /\ IsFiniteSet(ItemPieces)
         /\ ItemPieces \subseteq Pieces
         /\ \A p \in Pieces :
               /\ p = <<p[1], p[2]>> /\ p[1] \in Cuts /\ p[2] \in Cuts
               /\ p[1] \in -1 .. slen /\ p[2] \in 0 .. slen /\ p[1] < p[2]
               /\ \A c \in Cuts : c <= p[1] \/ c >= p[2]
  <1>1. Cuts \subseteq -1 .. slen
    BY DEF Cuts
  <1>2. IsFiniteSet(Cuts)
    <2>1. -1 \in Int /\ slen \in Int
      OBVIOUS
    <2>2. IsFiniteSet(-1 .. slen)
      BY <2>1, FS_Interval
    <2> QED
      BY <1>1, <2>2, FS_Subset
  <1>3. IsFiniteSet(Cuts \X Cuts)
    BY <1>2, FS_Product
  <1>4. ItemPieces \in SUBSET (Cuts \X Cuts)
    BY DEF ItemPieces, Pieces
  <1>5. IsFiniteSet(ItemPieces)
    BY <1>3, <1>4, FS_Subset
  <1>6. ASSUME NEW p \in Pieces
        PROVE  /\ p = <<p[1], p[2]>> /\ p[1] \in Cuts /\ p[2] \in Cuts
               /\ p[1] \in -1 .. slen /\ p[2] \in 0 .. slen /\ p[1] < p[2]
               /\ \A c \in Cuts : c <= p[1] \/ c >= p[2]
    <2>1. p \in Cuts \X Cuts /\ p[1] < p[2]
          /\ \A c \in Cuts : c <= p[1] \/ c >= p[2]
      BY DEF Pieces
    <2>2. p = <<p[1], p[2]>> /\ p[1] \in Cuts /\ p[2] \in Cuts
      BY <2>1
    <2>3. p[1] \in -1 .. slen /\ p[2] \in -1 .. slen
      BY <1>1, <2>2
    <2> QED
      BY <2>1, <2>2, <2>3
  <1> QED
    BY <1>1, <1>5, <1>6 DEF ItemPieces

LEMMA PieceOrder ==
  ASSUME slen \in Nat, NEW p \in Pieces, NEW q \in Pieces
  PROVE  p = q \/ p[2] <= q[1] \/ q[2] <= p[1]
  <1>1. /\ p = <<p[1], p[2]>> /\ p[1] \in Cuts /\ p[2] \in Cuts
        /\ p[1] \in Int /\ p[2] \in Int /\ p[1] < p[2]
        /\ q = <<q[1], q[2]>> /\ q[1] \in Cuts /\ q[2] \in Cuts
        /\ q[1] \in Int /\ q[2] \in Int /\ q[1] < q[2]
    BY PiecesType
  <1>2. /\ \A c \in Cuts : c <= p[1] \/ c >= p[2]
        /\ \A c \in Cuts : c <= q[1] \/ c >= q[2]
    BY PiecesType
  <1>3. /\ q[1] <= p[1] \/ q[1] >= p[2]
        /\ q[2] <= p[1] \/ q[2] >= p[2]
        /\ p[1] <= q[1] \/ p[1] >= q[2]
        /\ p[2] <= q[1] \/ p[2] >= q[2]
    BY <1>1, <1>2
  <1>4. p[2] <= q[1] \/ q[2] <= p[1] \/ (p[1] = q[1] /\ p[2] = q[2])
    BY <1>1, <1>3
  <1> QED
    BY <1>1, <1>4

(* Inside a piece there is no item delimiter; it ends with one or with the  *)
(* text.                                                                    *)
LEMMA PieceInside ==
  ASSUME slen \in Nat, NEW p \in Pieces
  PROVE  /\ \A k \in p[1] + 1 .. p[2] - 1 : k \in 0 .. slen - 1 /\ At(k) # item_delim
         /\ p[2] = slen \/ At(p[2]) = item_delim
  <1>1. /\ p[1] \in -1 .. slen /\ p[2] \in 0 .. slen /\ p[1] < p[2] /\ p[2] \in Cuts
        /\ \A c \in Cuts : c <= p[1] \/ c >= p[2]
    BY PiecesType
  <1>2. ASSUME NEW k \in p[1] + 1 .. p[2] - 1
        PROVE  k \in 0 .. slen - 1 /\ At(k) # item_delim
    <2>1. k \in 0 .. slen - 1 /\ ~(k <= p[1] \/ k >= p[2])
      BY <1>1
    <2> QED
      BY <1>1, <2>1 DEF Cuts
  <1>3. p[2] = slen \/ At(p[2]) = item_delim
    BY <1>1 DEF Cuts
  <1> QED
    BY <1>2, <1>3

(* Every other character is inside some piece.                              *)
LEMMA PieceAround ==
  ASSUME slen \in Nat, NEW k \in 0 .. slen - 1, At(k) # item_delim
  PROVE  \E p \in Pieces : p[1] < k /\ k < p[2]
  <1> DEFINE above == {c \in Cuts : c >= k}
             below == {c \in 0 .. k : c - 1 \in Cuts}
  <1>1. -1 \in Cuts /\ slen \in Cuts /\ k \notin Cuts /\ Cuts \subseteq -1 .. slen
    <2>1. k # -1 /\ k # slen /\ k \in Int
      OBVIOUS
    <2>2. k \notin Cuts
      BY <2>1, Zenon DEF Cuts
    <2>3. -1 \in Cuts /\ slen \in Cuts
      BY DEF Cuts
    <2>4. Cuts \subseteq -1 .. slen
      BY PiecesType
    <2> QED
      BY <2>2, <2>3, <2>4
  <1>2. above \subseteq Nat /\ slen \in above
    <2>1. k \in Nat /\ k <= slen
      OBVIOUS
    <2>2. slen \in above
      BY <1>1, <2>1
    <2>3. ASSUME NEW c \in above PROVE c \in Nat
      <3>1. c \in -1 .. slen /\ c >= k
        BY <1>1
      <3> QED
        BY <2>1, <3>1
    <2> QED
      BY <2>2, <2>3
  <1>3. PICK last \in above : \A c \in above : last <= c
    BY <1>2, LeastExists
  <1>4. k \in Nat /\ below \subseteq 0 .. k /\ 0 \in below
    BY <1>1
  <1>5. PICK past \in below : \A c \in below : c <= past
    BY <1>4, GreatestExists
  <1>6. last \in Cuts /\ last \in Int /\ last > k
    BY <1>1, <1>2, <1>3
  <1>7. past - 1 \in Cuts /\ past \in Int /\ past - 1 < k
    BY <1>4, <1>5
  <1>8. ASSUME NEW c \in Cuts PROVE c <= past - 1 \/ c >= last
    <2>1. c \in -1 .. slen /\ c # k
      BY <1>1
    <2>2. CASE c > k
      BY <1>3, <2>1, <2>2
    <2>3. CASE c < k
      <3>1. c + 1 \in 0 .. k /\ (c + 1) - 1 = c
        BY <2>1, <2>3
      <3>2. c + 1 <= past
        BY <1>5, <3>1
      <3> QED
        BY <1>7, <2>1, <3>2
    <2> QED
      BY <2>1, <2>2, <2>3
  <1> DEFINE p == <<past - 1, last>>
  <1>9. p[1] = past - 1 /\ p[2] = last /\ p \in Pieces
    BY <1>6, <1>7, <1>8 DEF Pieces
  <1> QED
    BY <1>6, <1>7, <1>9
-----------------------------------------------------------------------------
(* What one iteration reads of a plain text.                                *)
LEMMA PlainChar ==
  ASSUME TextOK, Plain, NEW k \in 0 .. slen - 1
  PROVE  /\ At(k) \in Char /\ At(k) \notin Quotes /\ At(k) # NUL
         /\ At(k) \in LineEnds => At(k) = item_delim
  <1>1. k + 1 \in 1 .. Len(text)
    BY DEF TextOK
  <1>2. At(k) \in Char
    BY <1>1 DEF TextOK, At
  <1>3. At(k) \notin Quotes \cup {NUL} \cup (LineEnds \ {item_delim})
    BY DEF Plain
  <1> QED
    BY <1>2, <1>3

(* Nothing that belongs to a key is skipped on the way to one.              *)
LEMMA SkipsNoKey ==
  ASSUME TextOK, Plain, NEW k \in i .. KeyStart(i) - 1, NEW p \in Pieces
  PROVE  k \notin KeyChars(p)
  <1>1. i \in 0 .. slen /\ slen \in Nat /\ KeyStart(i) \in i .. slen
    BY KeyPlace DEF TextOK
  <1>2. k \in 0 .. slen - 1
    BY <1>1
  <1>3. At(k) \notin Char \ Skippable
    BY <1>1, UpToStops DEF KeyStart
  <1>4. At(k) \in Skippable
    BY <1>2, <1>3, PlainChar
  <1>5. SUFFICES ASSUME k \in KeyChars(p) PROVE FALSE
    OBVIOUS
  <1>6. At(k) # item_delim /\ At(k) \notin Spaces \cup Markers
    BY <1>1, <1>5, PieceInside DEF KeyChars
  <1> QED
    BY <1>4, <1>6 DEF Skippable

LEMMA KeyBegins ==
  ASSUME TextOK, Plain, ~NothingLeft
  PROVE  /\ KeyStart(i) \in 0 .. slen - 1
         /\ At(KeyStart(i)) \notin Spaces \cup Markers \cup {item_delim} \cup LineEnds \cup {NUL}
         /\ KeyEnd = KeyStart(i) <=> At(KeyStart(i)) = kv_delim
         /\ At(KeyStart(i)) = kv_delim => KeyStop(KeyStart(i)) = KeyStart(i)
         /\ At(KeyStart(i)) # kv_delim => KeyStop(KeyStart(i)) > KeyStart(i)
  <1> DEFINE s == KeyStart(i)
             stops == {kv_delim, item_delim, NUL} \cup LineEnds
             e == KeyStop(s)
  <1>1. s \in 0 .. slen - 1 /\ slen \in Nat
    BY KeyPlace DEF NothingLeft, TextOK
  <1>2. At(s) \in Char \ Skippable
    BY <1>1, UpToStops DEF KeyStart, TextOK
  <1>3. At(s) \notin Spaces \cup Markers \cup {item_delim} \cup LineEnds \cup {NUL}
    BY <1>1, <1>2, PlainChar, KvAssumption DEF Skippable
  <1>4. /\ e \in s .. slen
        /\ e = slen \/ At(e) \in stops
        /\ \A q \in s .. e - 1 : At(q) \notin stops
    BY <1>1, UpToStops DEF KeyStop
  <1>5. KeyEnd = Backed(s, e)
    BY DEF KeyEnd
  <1>6. /\ KeyEnd \in s .. e
        /\ \A q \in KeyEnd .. e - 1 : IsSpace(At(q))
    BY <1>1, <1>4, <1>5, BackedStops
  <1> HIDE DEF s, e
  <1>7. CASE At(s) = kv_delim
    <2>1. e = s
      <3> SUFFICES ASSUME e # s PROVE FALSE
        OBVIOUS
      <3>1. s \in s .. e - 1
        BY <1>1, <1>4
      <3> QED
        BY <1>4, <1>7, <3>1
    <2> QED
      BY <1>1, <1>3, <1>6, <1>7, <2>1 DEF s, e
  <1>8. CASE At(s) # kv_delim
    <2>1. e > s
      <3> SUFFICES ASSUME e = s PROVE FALSE
        BY <1>1, <1>4
      <3>1. At(s) \in stops
        BY <1>1, <1>4
      <3> QED
        BY <1>3, <1>8, <3>1
    <2>2. KeyEnd # s
      <3> SUFFICES ASSUME KeyEnd = s PROVE FALSE
        OBVIOUS
      <3>1. s \in KeyEnd .. e - 1
        BY <1>1, <1>4, <2>1
      <3>2. IsSpace(At(s))
        BY <1>6, <3>1
      <3> QED
        BY <1>3, <3>2 DEF IsSpace
    <2> QED
      BY <1>1, <1>3, <1>8, <2>1, <2>2 DEF s, e
  <1> QED
    BY <1>7, <1>8

(* Skipping spaces in front and taking them back at the end is trimming.    *)
LEMMA BackedTrims ==
  ASSUME TextOK, NEW first \in 0 .. slen, NEW last \in first .. slen,
         NEW v \in first .. last, \A q \in first .. v - 1 : IsSpace(At(q)),
         v = last \/ ~IsSpace(At(v))
  PROVE  Trimmed(text, first, last) = Slice(v, Backed(v, last) - v)
  <1> DEFINE solid == {k \in first .. last - 1 : ~IsSpace(text[k + 1])}
             start == CHOOSE k \in solid : \A j \in solid : k <= j
             end   == CHOOSE k \in solid : \A j \in solid : j <= k
             b     == Backed(v, last)
  <1>1. slen \in Nat /\ first \in Nat /\ last \in Nat /\ v \in Nat
        /\ v \in 0 .. slen /\ last \in v .. slen /\ first <= v /\ v <= last
    BY DEF TextOK
  <1>2. /\ b \in v .. last
        /\ b = v \/ ~IsSpace(At(b - 1))
        /\ \A q \in b .. last - 1 : IsSpace(At(q))
    BY <1>1, BackedStops
  <1>3. \A k \in first .. last - 1 : k \in solid <=> ~IsSpace(At(k))
    BY DEF At
  <1>4. Trimmed(text, first, last)
            = IF solid = {} THEN Slice(last, 0) ELSE Slice(start, end - start + 1)
    BY Zenon DEF Trimmed
  <1>5. solid \subseteq first .. last - 1
    OBVIOUS
  <1> HIDE DEF solid, b
  <1>6. CASE v = last
    <2>1. solid = {}
      BY <1>1, <1>3, <1>5, <1>6
    <2>2. b - v = 0
      BY <1>1, <1>2, <1>6
    <2> QED
      BY <1>4, <1>6, <2>1, <2>2 DEF b
  <1>7. CASE v # last
    <2>1. v \in solid /\ v \in first .. last - 1
      BY <1>1, <1>3, <1>7
    <2>2. \A k \in solid : v <= k
      BY <1>1, <1>3, <1>5
    <2>3. b > v
      <3> SUFFICES ASSUME b = v PROVE FALSE
        BY <1>1, <1>2
      <3>1. v \in b .. last - 1
        BY <1>1, <1>7
      <3> QED
        BY <1>2, <1>7, <3>1
    <2>4. b - 1 \in solid /\ b \in Nat
      BY <1>1, <1>2, <1>3, <2>3
    <2>5. \A k \in solid : k <= b - 1
      BY <1>1, <1>2, <1>3, <1>5
    <2>6. start = v
      <3>1. start \in solid /\ \A k \in solid : start <= k
        BY <2>1, <2>2
      <3> HIDE DEF start
      <3>2. start <= v /\ v <= start /\ start \in Int
        BY <1>1, <1>5, <2>1, <2>2, <3>1
      <3> QED
        BY <1>1, <3>2
    <2>7. end = b - 1
      <3>1. end \in solid /\ \A k \in solid : k <= end
        BY <2>4, <2>5
      <3> HIDE DEF end
      <3>2. end <= b - 1 /\ b - 1 <= end /\ end \in Int
        BY <1>1, <1>5, <2>4, <2>5, <3>1
      <3> QED
        BY <2>4, <3>2
    <2> HIDE DEF start, end
    <2>8. end - start + 1 = b - v
      BY <1>1, <2>4, <2>6, <2>7
    <2> QED
      BY <1>4, <2>1, <2>6, <2>8 DEF b
  <1> QED
    BY <1>6, <1>7

(* The value behind the delimiter at k, up to the end of the piece.         *)
LEMMA ValueRead ==
  ASSUME TextOK, Plain, NEW p \in Pieces, NEW k \in p[1] + 1 .. p[2] - 1,
         At(k) = kv_delim
  PROVE  /\ ValueAfter(k).val = {Trimmed(text, k + 1, p[2])}
         /\ ValueAfter(k).next = p[2]
  <1> DEFINE e == p[2]
             v == ValueStart(k + 1)
             last == UpTo(v, {item_delim, NUL} \cup LineEnds)
  <1>1. slen \in Nat /\ k \in 0 .. slen - 1 /\ e \in 0 .. slen /\ k < e
        /\ (e = slen \/ At(e) = item_delim)
        /\ \A q \in k .. e - 1 : q \in 0 .. slen - 1 /\ At(q) # item_delim
    <2>1. slen \in Nat
      BY DEF TextOK
    <2>2. p[1] \in -1 .. slen /\ p[2] \in 0 .. slen
      BY <2>1, PiecesType
    <2>3. \A q \in p[1] + 1 .. p[2] - 1 : q \in 0 .. slen - 1 /\ At(q) # item_delim
      BY <2>1, PieceInside
    <2>4. p[2] = slen \/ At(p[2]) = item_delim
      BY <2>1, PieceInside
    <2> QED
      BY <2>1, <2>2, <2>3, <2>4
  <1> HIDE DEF e
  <1>2. /\ v \in k + 1 .. slen
        /\ v = slen \/ At(v) \in Char \ (Spaces \ {item_delim})
        /\ \A q \in k + 1 .. v - 1 : At(q) \notin Char \ (Spaces \ {item_delim})
    <2>1. k + 1 \in 0 .. slen
      BY <1>1
    <2> QED
      BY <2>1, UpToStops DEF ValueStart
  <1> HIDE DEF v
  <1>3. v <= e
    <2> SUFFICES ASSUME v > e PROVE FALSE
      BY <1>1, <1>2
    <2>1. e \in k + 1 .. v - 1 /\ e \in 0 .. slen - 1
      BY <1>1, <1>2
    <2>2. At(e) = item_delim /\ At(e) \in Char
      BY <1>1, <2>1, PlainChar
    <2> QED
      BY <1>2, <2>1, <2>2
  <1>4. \A q \in k + 1 .. v - 1 : IsSpace(At(q))
    <2> SUFFICES ASSUME NEW q \in k + 1 .. v - 1 PROVE IsSpace(At(q))
      OBVIOUS
    <2>1. q \in 0 .. slen - 1
      BY <1>1, <1>2
    <2> QED
      BY <1>2, <2>1, PlainChar DEF IsSpace
  <1>5. v = e \/ ~IsSpace(At(v))
    <2> SUFFICES ASSUME v # e PROVE ~IsSpace(At(v))
      OBVIOUS
    <2>1. v \in k .. e - 1
      BY <1>1, <1>2, <1>3
    <2>2. At(v) # item_delim /\ v # slen
      BY <1>1, <2>1
    <2> QED
      BY <1>2, <2>2 DEF IsSpace
  <1>6. /\ last \in v .. slen
        /\ last = slen \/ At(last) \in {item_delim, NUL} \cup LineEnds
        /\ \A q \in v .. last - 1 : At(q) \notin {item_delim, NUL} \cup LineEnds
    BY <1>1, <1>2, UpToStops
  <1> HIDE DEF last
  <1>7. last = e
    <2>1. ~(last < e)
      <3> SUFFICES ASSUME last < e PROVE FALSE
        OBVIOUS
      <3>1. last \in k .. e - 1
        BY <1>1, <1>2, <1>6
      <3>2. last \in 0 .. slen - 1 /\ At(last) # item_delim
        BY <1>1, <3>1
      <3>3. At(last) \in {item_delim, NUL} \cup LineEnds
        BY <1>1, <1>6, <3>2
      <3> QED
        BY <3>2, <3>3, PlainChar
    <2>2. ~(last > e)
      <3> SUFFICES ASSUME last > e PROVE FALSE
        OBVIOUS
      <3>1. e \in v .. last - 1 /\ e # slen
        BY <1>1, <1>2, <1>3, <1>6
      <3> QED
        BY <1>1, <1>6, <3>1
    <2> QED
      BY <1>1, <1>2, <1>6, <2>1, <2>2
  <1>8. ~(v < slen /\ At(v) \in Quotes)
    BY <1>1, <1>2, PlainChar
  <1>9. Value(v) = [val |-> {Slice(v, Backed(v, e) - v)}, next |-> e]
    BY <1>7, <1>8 DEF Value, PlainValue, last
  <1>10. ValueAfter(k) = Value(v)
    BY <1>1 DEF ValueAfter, v
  <1>11. Trimmed(text, k + 1, e) = Slice(v, Backed(v, e) - v)
    <2>1. k + 1 \in 0 .. slen /\ e \in k + 1 .. slen /\ v \in k + 1 .. e
      BY <1>1, <1>2, <1>3
    <2> QED
      BY <1>4, <1>5, <2>1, BackedTrims
  <1> QED
    BY <1>9, <1>10, <1>11 DEF e

(* One iteration reads the item of the piece it is in.                      *)
LEMMA ItemRead ==
  ASSUME TextOK, Plain, ~NothingLeft, NEW p \in Pieces,
         KeyStart(i) \in KeyChars(p), \A k \in KeyChars(p) : KeyStart(i) <= k
  PROVE  LET value == ValueAfter(KeyStop(KeyStart(i)))
         IN  /\ [key |-> Slice(KeyStart(i), KeyEnd - KeyStart(i)), val |-> value.val] = ItemOf(p)
             /\ value.next = p[2]
  <1> DEFINE s == KeyStart(i)
             e == p[2]
             stop == KeyStop(s)
             stops == {kv_delim, item_delim, NUL} \cup LineEnds
             delims == {q \in s .. e - 1 : At(q) = kv_delim}
             first == CHOOSE q \in delims : \A r \in delims : q <= r
  <1>1. slen \in Nat /\ p[1] \in -1 .. slen /\ e \in 0 .. slen
        /\ s \in p[1] + 1 .. e - 1
        /\ At(s) \notin Spaces \cup Markers \cup {kv_delim}
    BY PiecesType DEF KeyChars, TextOK
  <1>2. /\ \A q \in p[1] + 1 .. e - 1 : q \in 0 .. slen - 1 /\ At(q) # item_delim
        /\ e = slen \/ At(e) = item_delim
    BY <1>1, PieceInside
  <1>3. s \in 0 .. slen - 1 /\ s < e
    BY <1>1, <1>2
  <1>4. stop > s
    BY <1>1, KeyBegins
  <1>5. /\ stop \in s .. slen
        /\ stop = slen \/ At(stop) \in stops
        /\ \A q \in s .. stop - 1 : At(q) \notin stops
    BY <1>1, <1>3, UpToStops DEF KeyStop
  <1>6. stop <= e
    <2> SUFFICES ASSUME stop > e PROVE FALSE
      BY <1>1, <1>5
    <2>1. e \in s .. stop - 1 /\ e # slen
      BY <1>1, <1>3, <1>5
    <2> QED
      BY <1>2, <1>5, <2>1
  <1>7. (CHOOSE q \in KeyChars(p) : \A r \in KeyChars(p) : q <= r) = s
    <2> DEFINE c == CHOOSE q \in KeyChars(p) : \A r \in KeyChars(p) : q <= r
    <2>1. c \in KeyChars(p) /\ \A r \in KeyChars(p) : c <= r
      <3>1. s \in KeyChars(p) /\ \A r \in KeyChars(p) : s <= r
        OBVIOUS
      <3> HIDE DEF s
      <3> QED
        BY <3>1
    <2> HIDE DEF c
    <2>2. c \in Int /\ c <= s /\ s <= c
      BY <1>1, <2>1 DEF KeyChars
    <2> QED
      BY <1>1, <2>2 DEF c
  <1>8. KeyEnd = Backed(s, stop)
    BY DEF KeyEnd
  <1>9. Trimmed(text, s, stop) = Slice(s, KeyEnd - s)
    <2>1. s \in 0 .. slen /\ stop \in s .. slen /\ s \in s .. stop /\ slen \in Nat
      BY <1>1, <1>3, <1>5
    <2>2. \A q \in s .. s - 1 : IsSpace(At(q))
      BY <2>1
    <2>3. ~IsSpace(At(s))
      BY <1>1 DEF IsSpace
    <2> QED
      BY <1>8, <2>1, <2>2, <2>3, BackedTrims
  <1>10. ItemOf(p) = IF delims = {}
                     THEN [key |-> Trimmed(text, s, e), val |-> NoValue]
                     ELSE [key |-> Trimmed(text, s, first),
                           val |-> {Trimmed(text, first + 1, e)}]
    BY <1>7, Zenon DEF ItemOf
  <1>11. CASE stop = e
    <2>1. delims = {}
      BY <1>1, <1>5, <1>11
    <2>2. ~(stop < slen /\ At(stop) = kv_delim)
      <3>1. item_delim # kv_delim
        BY DEF Plain
      <3>2. stop = slen \/ At(stop) = item_delim
        BY <1>2, <1>11
      <3> HIDE DEF stop
      <3> QED
        BY <1>1, <3>1, <3>2
    <2>3. ValueAfter(stop) = [val |-> NoValue, next |-> stop]
      BY <2>2 DEF ValueAfter
    <2> QED
      BY <1>9, <1>10, <1>11, <2>1, <2>3
  <1>12. CASE stop # e
    <2>1. stop \in p[1] + 1 .. e - 1 /\ stop \in s .. e - 1
      BY <1>1, <1>4, <1>5, <1>6, <1>12
    <2>2. stop \in 0 .. slen - 1 /\ At(stop) # item_delim /\ At(stop) \in stops
      BY <1>1, <1>2, <1>5, <2>1
    <2>3. At(stop) = kv_delim
      BY <2>2, PlainChar
    <2>4. stop \in delims /\ \A r \in delims : stop <= r
      BY <1>1, <1>5, <2>1, <2>3
    <2>5. first = stop
      <3>1. first \in delims /\ \A r \in delims : first <= r
        <4> HIDE DEF delims, stop
        <4> QED
          BY <2>4
      <3>2. first \in Int
        BY <1>1, <3>1
      <3> HIDE DEF first
      <3>3. first <= stop /\ stop <= first
        BY <2>4, <3>1
      <3> QED
        BY <1>1, <1>5, <3>2, <3>3
    <2>6. /\ ValueAfter(stop).val = {Trimmed(text, stop + 1, e)}
          /\ ValueAfter(stop).next = e
      BY <2>1, <2>3, ValueRead
    <2>7. delims # {}
      BY <2>4
    <2> HIDE DEF delims, first, stop, s, e
    <2> QED
      BY <1>9, <1>10, <2>5, <2>6, <2>7 DEF s, stop, e
  <1> QED
    BY <1>11, <1>12

-----------------------------------------------------------------------------
(* The items that end before b, and what has been read of a plain text: the *)
(* items behind the scan position, each in its place, and of no other the   *)
(* first character of its key.                                              *)
Behind(b) == {p \in ItemPieces : p[2] <= b}

NoneCut == \A p \in ItemPieces : p[2] <= i \/ \A k \in KeyChars(p) : k >= i

AllRead ==
    /\ Len(pairs) = Cardinality(Behind(i))
    /\ \A p \in Behind(i) : pairs[Rank(p)] = ItemOf(p)

PiecesRead ==
    /\ NoneCut
    /\ AllRead
    /\ returned => i = slen \/ Len(pairs) = max_pairs

LEMMA BehindFinite ==
  ASSUME slen \in Nat, NEW b
  PROVE  /\ Behind(b) \subseteq ItemPieces
         /\ IsFiniteSet(Behind(b)) /\ Cardinality(Behind(b)) \in Nat
  <1>1. Behind(b) \in SUBSET ItemPieces
    BY DEF Behind
  <1> QED
    BY <1>1, PiecesType, FS_Subset, FS_CardinalityType

LEMMA RankIsNumber ==
  ASSUME slen \in Nat, NEW p \in ItemPieces
  PROVE  Rank(p) = Cardinality(Behind(p[2])) /\ Rank(p) \in Nat
  <1>1. ASSUME NEW q \in ItemPieces PROVE q[1] <= p[1] <=> q[2] <= p[2]
    <2>1. p \in Pieces /\ q \in Pieces
      BY PiecesType
    <2>2. p[1] \in Int /\ p[2] \in Int /\ p[1] < p[2] /\ q[1] \in Int /\ q[2] \in Int /\ q[1] < q[2]
      BY <2>1, PiecesType
    <2>3. p = q \/ p[2] <= q[1] \/ q[2] <= p[1]
      BY <2>1, PieceOrder
    <2> QED
      BY <2>2, <2>3
  <1>2. {q \in ItemPieces : q[1] <= p[1]} = Behind(p[2])
    BY <1>1 DEF Behind
  <1> QED
    BY <1>2, BehindFinite DEF Rank

(* An item has been read if and only if its rank is within the count.       *)
LEMMA RankCounts ==
  ASSUME slen \in Nat, NEW b \in Int, NEW p \in ItemPieces
  PROVE  /\ p \in Behind(b) => Rank(p) \in 1 .. Cardinality(Behind(b))
         /\ p \notin Behind(b) => Rank(p) > Cardinality(Behind(b))
  <1> DEFINE H == Behind(b)
             R == Behind(p[2])
  <1>1. p[2] \in Int /\ \A q \in ItemPieces : q[2] \in Int
    BY PiecesType
  <1>2. p \in R
    BY <1>1 DEF Behind
  <1>3. /\ IsFiniteSet(H) /\ Cardinality(H) \in Nat
        /\ IsFiniteSet(R) /\ Cardinality(R) \in Nat /\ Rank(p) = Cardinality(R)
    BY RankIsNumber, BehindFinite
  <1>4. CASE p \in H
    <2>1. R \in SUBSET H
      BY <1>1, <1>4 DEF Behind
    <2>2. R # {}
      BY <1>2
    <2> HIDE DEF H, R
    <2>3. Cardinality(R) <= Cardinality(H) /\ Cardinality(R) # 0
      BY <1>3, <2>1, <2>2, FS_Subset, FS_EmptySet
    <2> QED
      BY <1>3, <1>4, <2>3 DEF H
  <1>5. CASE p \notin H
    <2>1. H \cup {p} \in SUBSET R
      <3>1. b < p[2]
        BY <1>1, <1>5 DEF Behind
      <3> QED
        BY <1>1, <1>2, <3>1 DEF Behind
    <2> HIDE DEF H, R
    <2>2. Cardinality(H \cup {p}) = Cardinality(H) + 1
      BY <1>3, <1>5, FS_AddElement
    <2>3. Cardinality(H \cup {p}) <= Cardinality(R)
      BY <1>3, <2>1, FS_Subset
    <2> QED
      BY <1>3, <1>5, <2>2, <2>3 DEF H
  <1> QED
    BY <1>4, <1>5

LEMMA ReadImplies ==
  ASSUME IInv, Plain, PiecesRead
  PROVE  /\ \A p \in ItemPieces : Rank(p) <= Len(pairs) => pairs[Rank(p)] = ItemOf(p)
         /\ returned => Len(pairs) = AtMost(Cardinality(ItemPieces), max_pairs)
  <1> DEFINE H == Behind(i)
  <1>1. /\ slen \in Nat /\ i \in 0 .. slen /\ i \in Int /\ max_pairs \in Nat
        /\ Len(pairs) <= max_pairs
    BY DEF IInv, TextOK, SlicesInOrder
  <1>2. Len(pairs) = Cardinality(H) /\ \A p \in H : pairs[Rank(p)] = ItemOf(p)
    BY DEF PiecesRead, AllRead
  <1>3. Cardinality(H) <= Cardinality(ItemPieces) /\ Cardinality(H) \in Nat
        /\ Cardinality(ItemPieces) \in Nat
    <2>1. H \in SUBSET ItemPieces /\ IsFiniteSet(ItemPieces) /\ Cardinality(H) \in Nat
      BY <1>1, BehindFinite, PiecesType
    <2> HIDE DEF H
    <2> QED
      BY <2>1, FS_Subset, FS_CardinalityType
  <1>4. ASSUME NEW p \in ItemPieces, Rank(p) <= Len(pairs)
        PROVE  pairs[Rank(p)] = ItemOf(p)
    <2>1. ~(Rank(p) > Cardinality(H))
      BY <1>1, <1>2, <1>3, <1>4, RankIsNumber
    <2>2. p \in H
      BY <1>1, <2>1, RankCounts
    <2> QED
      BY <1>2, <2>2
  <1>5. ASSUME returned PROVE Len(pairs) = AtMost(Cardinality(ItemPieces), max_pairs)
    <2>1. CASE i = slen
      <3>1. H = ItemPieces
        BY <1>1, <2>1, PiecesType DEF Behind
      <3> QED
        BY <1>1, <1>2, <1>3, <3>1 DEF AtMost
    <2>2. CASE Len(pairs) = max_pairs
      BY <1>1, <1>2, <1>3, <2>2 DEF AtMost
    <2> QED
      BY <1>5, <2>1, <2>2 DEF PiecesRead
  <1> QED
    BY <1>4, <1>5

(* The item that comes next, and what has been read once it is.             *)
LEMMA NextItem ==
  ASSUME TextOK, Plain, NoneCut, ~NothingLeft, At(KeyStart(i)) # kv_delim
  PROVE  \E p \in ItemPieces :
            /\ p \notin Behind(i)
            /\ KeyStart(i) \in KeyChars(p) /\ \A k \in KeyChars(p) : KeyStart(i) <= k
            /\ \A b \in {p[2], p[2] + 1} :
                  /\ Behind(b) = Behind(i) \cup {p}
                  /\ \A q \in ItemPieces : q[2] <= b \/ \A k \in KeyChars(q) : k >= b
  <1> DEFINE s == KeyStart(i)
  <1>1. /\ slen \in Nat /\ i \in Nat /\ s \in 0 .. slen - 1 /\ s \in i .. slen
        /\ At(s) \notin Spaces \cup Markers \cup {kv_delim} /\ At(s) # item_delim
    BY KeyPlace, KeyBegins DEF TextOK
  <1>2. PICK p \in Pieces : p[1] < s /\ s < p[2]
    BY <1>1, PieceAround
  <1>3. p[1] \in Int /\ p[2] \in Int
    BY <1>1, PiecesType
  <1>4. s \in KeyChars(p) /\ p \in ItemPieces
    BY <1>1, <1>2, <1>3 DEF KeyChars, ItemPieces
  <1>5. p \notin Behind(i)
    BY <1>1, <1>2, <1>3 DEF Behind
  <1>6. ASSUME NEW k \in KeyChars(p) PROVE s <= k
    <2>1. k \in Int /\ k >= i
      BY <1>2, <1>3, <1>4, <1>5 DEF NoneCut, Behind, KeyChars
    <2>2. ~(k \in i .. s - 1)
      BY <1>2, SkipsNoKey
    <2> QED
      BY <1>1, <2>1, <2>2
  <1>7. ASSUME NEW q \in ItemPieces, NEW b \in {p[2], p[2] + 1}
        PROVE  /\ q \in Behind(b) <=> q \in Behind(i) \/ q = p
               /\ q[2] <= b \/ \A k \in KeyChars(q) : k >= b
    <2>1. q \in Pieces /\ q[1] \in Int /\ q[2] \in Int /\ b \in Int
          /\ p[2] <= b /\ b <= p[2] + 1
      BY <1>1, <1>3, PiecesType
    <2>2. PICK k \in KeyChars(q) : TRUE
      BY DEF ItemPieces
    <2>3. k \in Int /\ q[1] < k /\ k < q[2]
      BY <2>1 DEF KeyChars
    <2>4. CASE q = p
      BY <2>1, <2>4 DEF Behind
    <2>5. CASE q[2] <= p[1]
      <3>1. q \in Behind(i)
        <4> SUFFICES ASSUME q \notin Behind(i) PROVE FALSE
          OBVIOUS
        <4>1. k >= i
          BY DEF NoneCut, Behind
        <4>2. k \in i .. s - 1
          BY <1>1, <1>2, <1>3, <2>1, <2>3, <2>5, <4>1
        <4> QED
          BY <2>1, <4>2, SkipsNoKey
      <3>2. q[2] <= b
        BY <1>1, <1>2, <1>3, <2>1, <2>5
      <3> QED
        BY <3>1, <3>2 DEF Behind
    <2>6. CASE p[2] <= q[1]
      <3>1. q[2] > b /\ q[2] > i
        BY <1>1, <1>2, <1>3, <2>1, <2>3, <2>6
      <3>2. q # p
        BY <1>3, <2>1, <2>3, <2>6
      <3>3. \A j \in KeyChars(q) : j >= b
        BY <1>3, <2>1, <2>6 DEF KeyChars
      <3>4. q \notin Behind(b) /\ q \notin Behind(i)
        BY <1>1, <2>1, <3>1 DEF Behind
      <3> QED
        BY <3>2, <3>3, <3>4
    <2> QED
      BY <1>1, <2>1, <2>4, <2>5, <2>6, PieceOrder
  <1>8. ASSUME NEW b \in {p[2], p[2] + 1} PROVE Behind(b) = Behind(i) \cup {p}
    <2>1. Behind(b) \subseteq ItemPieces /\ Behind(i) \cup {p} \subseteq ItemPieces
      BY <1>4 DEF Behind
    <2> QED
      BY <1>7, <2>1
  <1> QED
    BY <1>4, <1>5, <1>6, <1>7, <1>8

(* Moving on over characters of no key reads nothing and misses nothing.    *)
LEMMA SkippedItems ==
  ASSUME TextOK, NoneCut, NEW b \in i .. slen,
         \A k \in i .. b - 1 : \A p \in Pieces : k \notin KeyChars(p)
  PROVE  /\ Behind(b) = Behind(i)
         /\ \A q \in ItemPieces : q[2] <= b \/ \A k \in KeyChars(q) : k >= b
  <1>1. slen \in Nat /\ i \in Nat /\ b \in Nat /\ i <= b
    BY DEF TextOK
  <1>2. ASSUME NEW q \in ItemPieces, q \notin Behind(i)
        PROVE  q \notin Behind(b) /\ \A k \in KeyChars(q) : k >= b
    <2>1. q \in Pieces /\ q[1] \in Int /\ q[2] \in Int
      BY <1>1, PiecesType
    <2>2. ASSUME NEW k \in KeyChars(q) PROVE k >= b /\ k < q[2]
      <3>1. k \in Int /\ k < q[2] /\ k >= i
        BY <1>2, <2>1 DEF NoneCut, Behind, KeyChars
      <3>2. ~(k \in i .. b - 1)
        BY <2>1
      <3> QED
        BY <1>1, <3>1, <3>2
    <2>3. PICK k \in KeyChars(q) : TRUE
      BY DEF ItemPieces
    <2>4. k \in Int
      BY <2>1 DEF KeyChars
    <2>5. q[2] > b
      BY <1>1, <2>1, <2>2, <2>4
    <2> QED
      BY <1>1, <2>1, <2>2, <2>5 DEF Behind
  <1>3. ASSUME NEW q \in ItemPieces, q \in Behind(i)
        PROVE  q \in Behind(b)
    <2>1. q[2] \in Int
      BY <1>1, PiecesType
    <2> QED
      BY <1>1, <1>3, <2>1 DEF Behind
  <1>4. Behind(b) \subseteq ItemPieces /\ Behind(i) \subseteq ItemPieces
    BY DEF Behind
  <1>5. Behind(b) = Behind(i)
    BY <1>2, <1>3, <1>4
  <1>6. ASSUME NEW q \in ItemPieces PROVE q[2] <= b \/ \A k \in KeyChars(q) : k >= b
    BY <1>2, <1>3 DEF Behind
  <1> QED
    BY <1>5, <1>6

(* The pieces are those of the text, which Parse does not change.           *)
LEMMA SamePieces ==
  ASSUME UNCHANGED input
  PROVE  /\ Plain' <=> Plain
         /\ ItemPieces' = ItemPieces
         /\ \A p : /\ KeyChars(p)' = KeyChars(p)
                   /\ ItemOf(p)' = ItemOf(p)
                   /\ Rank(p)' = Rank(p)
         /\ \A b : Behind(b)' = Behind(b)
  <1>1. /\ text' = text /\ slen' = slen /\ item_delim' = item_delim
        /\ kv_delim' = kv_delim /\ max_pairs' = max_pairs
    BY DEF input
  <1>2. Plain' <=> Plain
    BY <1>1 DEF Plain, At
  <1>3. \A p : KeyChars(p)' = KeyChars(p)
    BY <1>1 DEF KeyChars, At
  <1>4. ItemPieces' = ItemPieces
    <2>1. Cuts' = Cuts
      BY <1>1 DEF Cuts, At
    <2>2. Pieces' = Pieces
      BY <2>1 DEF Pieces
    <2> QED
      BY <1>3, <2>2 DEF ItemPieces
  <1>5. \A p : ItemOf(p)' = ItemOf(p)
    BY <1>1, <1>3 DEF ItemOf, At
  <1>6. \A p : Rank(p)' = Rank(p)
    BY <1>4 DEF Rank
  <1>7. \A b : Behind(b)' = Behind(b)
    BY <1>4 DEF Behind
  <1> QED
    BY <1>2, <1>3, <1>4, <1>5, <1>6, <1>7

LEMMA ItemReads ==
  ASSUME IInv, Plain, PiecesRead, Item
  PROVE  PiecesRead'
  <1> DEFINE value == ValueAfter(KeyStop(KeyStart(i)))
             pair == [key |-> Slice(KeyStart(i), KeyEnd - KeyStart(i)), val |-> value.val]
  <1>1. /\ TextOK /\ NoneCut /\ ~NothingLeft /\ KeyEnd # KeyStart(i)
        /\ pairs' = Append(pairs, pair) /\ i' = PastItem(value.next)
        /\ UNCHANGED <<input, returned>> /\ ~returned
    BY DEF IInv, PiecesRead, Item
  <1>2. At(KeyStart(i)) # kv_delim
    BY <1>1, KeyBegins
  <1>3. PICK p \in ItemPieces :
            /\ p \notin Behind(i)
            /\ KeyStart(i) \in KeyChars(p) /\ \A k \in KeyChars(p) : KeyStart(i) <= k
            /\ \A b \in {p[2], p[2] + 1} :
                  /\ Behind(b) = Behind(i) \cup {p}
                  /\ \A q \in ItemPieces : q[2] <= b \/ \A k \in KeyChars(q) : k >= b
    BY <1>1, <1>2, NextItem
  <1>4. slen \in Nat /\ i \in Int /\ p \in Pieces
    BY <1>1, PiecesType DEF TextOK
  <1>5. pair = ItemOf(p) /\ value.next = p[2]
    BY <1>1, <1>3, <1>4, ItemRead
  <1> HIDE DEF pair, value
  <1>6. PICK b \in {p[2], p[2] + 1} : i' = b
    BY <1>1, <1>5 DEF PastItem
  <1> DEFINE N == Cardinality(Behind(i))
  <1>7. /\ N = Len(pairs) /\ N \in Nat /\ IsFiniteSet(Behind(i))
        /\ \A q \in Behind(i) : pairs[Rank(q)] = ItemOf(q)
        /\ pairs \in Seq(Pair)
    BY <1>4, BehindFinite DEF PiecesRead, AllRead, IInv
  <1>8. Behind(b) = Behind(i) \cup {p} /\ Cardinality(Behind(b)) = N + 1
    BY <1>3, <1>7, FS_AddElement
  <1>9. Rank(p) = N + 1
    <2>1. b \in Int /\ p \in Behind(b)
      BY <1>4, <1>8, PiecesType
    <2>2. Rank(p) \in 1 .. N + 1 /\ Rank(p) > N
      BY <1>3, <1>4, <1>8, <2>1, RankCounts
    <2> QED
      BY <1>7, <2>2
  <1>10. ASSUME NEW q \in Behind(b) PROVE pairs'[Rank(q)] = ItemOf(q)
    <2>1. CASE q = p
      BY <1>1, <1>5, <1>7, <1>9, <2>1
    <2>2. CASE q # p
      <3>1. q \in Behind(i) /\ q \in ItemPieces
        BY <1>8, <2>2 DEF Behind
      <3>2. Rank(q) \in 1 .. N
        BY <1>4, <3>1, RankCounts
      <3> QED
        BY <1>1, <1>7, <3>1, <3>2
    <2> QED
      BY <2>1, <2>2
  <1>11. Len(pairs') = N + 1
    BY <1>1, <1>7
  <1>12. AllRead'
    <2>1. Behind(i)' = Behind(b)
      BY <1>1, <1>6, SamePieces DEF Behind
    <2> QED
      BY <1>1, <1>8, <1>10, <1>11, <2>1, SamePieces DEF AllRead
  <1>13. NoneCut'
    BY <1>1, <1>3, <1>6, SamePieces DEF NoneCut
  <1> QED
    BY <1>1, <1>12, <1>13 DEF PiecesRead

LEMMA EmptyKeyReads ==
  ASSUME IInv, Plain, PiecesRead, EmptyKey
  PROVE  PiecesRead'
  <1> DEFINE s == KeyStart(i)
  <1>1. /\ TextOK /\ NoneCut /\ ~NothingLeft /\ KeyEnd = s
        /\ i' = PastEmptyKey(KeyStop(s))
        /\ UNCHANGED <<input, pairs, returned>> /\ ~returned
    BY DEF IInv, PiecesRead, EmptyKey
  <1>2. At(s) = kv_delim /\ KeyStop(s) = s /\ s \in 0 .. slen - 1 /\ s \in i .. slen
        /\ slen \in Nat /\ i \in Nat
    BY <1>1, KeyBegins, KeyPlace DEF TextOK
  <1>3. i' = s + 1 /\ s + 1 \in i .. slen
    BY <1>1, <1>2 DEF PastEmptyKey
  <1>4. ASSUME NEW k \in i .. (s + 1) - 1, NEW p \in Pieces PROVE k \notin KeyChars(p)
    <2>1. CASE k = s
      BY <1>2, <2>1 DEF KeyChars
    <2>2. CASE k # s
      <3>1. k \in i .. s - 1
        BY <1>2, <2>2
      <3> QED
        BY <1>1, <3>1, SkipsNoKey
    <2> QED
      BY <2>1, <2>2
  <1>5. /\ Behind(s + 1) = Behind(i)
        /\ \A q \in ItemPieces : q[2] <= s + 1 \/ \A k \in KeyChars(q) : k >= s + 1
    BY <1>1, <1>3, <1>4, SkippedItems
  <1> HIDE DEF s
  <1>6. PICK b \in Int : b = s + 1 /\ i' = b
    BY <1>2, <1>3
  <1>7. AllRead'
    <2>1. Behind(i)' = Behind(b)
      BY <1>1, <1>6, SamePieces DEF Behind
    <2> QED
      BY <1>1, <1>5, <1>6, <2>1, SamePieces DEF AllRead, PiecesRead
  <1>8. NoneCut'
    BY <1>1, <1>5, <1>6, SamePieces DEF NoneCut
  <1> QED
    BY <1>1, <1>7, <1>8 DEF PiecesRead

LEMMA ReturnReads ==
  ASSUME IInv, Plain, PiecesRead, Return
  PROVE  PiecesRead'
  <1>1. /\ TextOK /\ NoneCut /\ AllRead /\ UNCHANGED <<input, pairs>>
        /\ slen \in Nat /\ i \in 0 .. slen /\ Len(pairs) <= max_pairs
        /\ max_pairs \in Nat /\ Len(pairs) \in Nat
    BY DEF IInv, TextOK, SlicesInOrder, PiecesRead, Return
  <1>2. CASE ~MoreToRead
    <2>1. i' = i
      BY <1>2 DEF Return
    <2>2. i = slen \/ Len(pairs) = max_pairs
      <3>1. i < slen => At(i) # NUL
        BY <1>1, PlainChar
      <3> QED
        BY <1>1, <1>2, <3>1 DEF MoreToRead
    <2>3. Behind(i)' = Behind(i)
      BY <1>1, <2>1, SamePieces DEF Behind
    <2>4. AllRead'
      BY <1>1, <2>3, SamePieces DEF AllRead
    <2>5. NoneCut'
      BY <1>1, <2>1, SamePieces DEF NoneCut
    <2> QED
      BY <1>1, <2>1, <2>2, <2>4, <2>5 DEF PiecesRead, input
  <1>3. CASE MoreToRead
    <2>1. NothingLeft /\ i' = KeyStart(i) /\ KeyStart(i) \in i .. slen
      BY <1>1, <1>3, KeyPlace DEF Return
    <2>2. KeyStart(i) = slen
      <3>1. KeyStart(i) < slen => At(KeyStart(i)) # NUL
        BY <1>1, <2>1, PlainChar
      <3> QED
        BY <2>1, <3>1, <1>1 DEF NothingLeft
    <2>3. \A k \in i .. slen - 1 : \A p \in Pieces : k \notin KeyChars(p)
      BY <1>1, <2>2, SkipsNoKey
    <2>4. slen \in i .. slen
      BY <1>1
    <2>5. /\ Behind(slen) = Behind(i)
          /\ \A q \in ItemPieces : q[2] <= slen \/ \A k \in KeyChars(q) : k >= slen
      BY <1>1, <2>3, <2>4, SkippedItems
    <2>6. PICK b \in Nat : b = slen /\ i' = b /\ slen' = b
      BY <1>1, <2>1, <2>2 DEF input
    <2>7. Behind(i)' = Behind(b)
      BY <1>1, <2>6, SamePieces DEF Behind
    <2>8. AllRead'
      BY <1>1, <2>5, <2>6, <2>7, SamePieces DEF AllRead
    <2>9. NoneCut'
      BY <1>1, <2>5, <2>6, SamePieces DEF NoneCut
    <2> QED
      BY <2>6, <2>8, <2>9 DEF PiecesRead
  <1> QED
    BY <1>2, <1>3

LEMMA InitReads ==
  ASSUME Init
  PROVE  PiecesRead
  <1>1. i = 0 /\ pairs = << >> /\ ~returned /\ slen \in Nat
    BY InitInv DEF Init, IInv, TextOK
  <1>2. ASSUME NEW p \in ItemPieces PROVE p[2] > 0 /\ \A k \in KeyChars(p) : k >= 0
    <2>1. p[1] \in -1 .. slen /\ p[2] \in Int /\ KeyChars(p) # {}
      BY <1>1, PiecesType DEF ItemPieces
    <2> QED
      BY <2>1 DEF KeyChars
  <1>3. Behind(0) = {}
    <2> SUFFICES ASSUME NEW p \in Behind(0) PROVE FALSE
      OBVIOUS
    <2>1. p \in ItemPieces /\ p[2] <= 0
      BY DEF Behind
    <2>2. p[2] \in Int
      BY <1>1, <2>1, PiecesType
    <2> QED
      BY <1>2, <2>1, <2>2
  <1>4. AllRead
    BY <1>1, <1>3, FS_EmptySet DEF AllRead
  <1>5. NoneCut
    BY <1>1, <1>2 DEF NoneCut
  <1> QED
    BY <1>1, <1>4, <1>5 DEF PiecesRead

(* Whatever the text, if it is plain: EDC_KV_Parse gives the items between  *)
(* the delimiters, each once, in order and trimmed, as many as the array    *)
(* takes; what one iteration leaves at i never spoils the next              *)
(* (edc_parser.c:37-112).                                                   *)
THEOREM PiecesInOrder == Spec => []ReadsPieces
  <1>1. Init => (Plain => PiecesRead)
    BY InitReads
  <1>2. ASSUME IInv, [Next]_vars, Plain => PiecesRead
        PROVE  (Plain => PiecesRead)'
    <2>1. UNCHANGED input
      BY <1>2 DEF Next, Return, EmptyKey, Item, Done, vars
    <2>2. SUFFICES ASSUME Plain PROVE PiecesRead'
      BY <2>1, SamePieces
    <2>3. CASE UNCHANGED vars
      <3>1. Behind(i)' = Behind(i) /\ i' = i /\ pairs' = pairs /\ returned' = returned
            /\ slen' = slen /\ max_pairs' = max_pairs
        BY <2>1, <2>3, SamePieces DEF vars, input, Behind
      <3>2. AllRead'
        BY <1>2, <2>1, <2>2, <3>1, SamePieces DEF AllRead, PiecesRead
      <3>3. NoneCut'
        BY <1>2, <2>1, <2>2, <3>1, SamePieces DEF NoneCut, PiecesRead
      <3> QED
        BY <1>2, <2>2, <3>1, <3>2, <3>3 DEF PiecesRead
    <2>4. CASE Next
      BY <1>2, <2>2, <2>3, <2>4, ItemReads, EmptyKeyReads, ReturnReads DEF Next, Done
    <2> QED
      BY <1>2, <2>3, <2>4
  <1>3. ASSUME IInv, Plain => PiecesRead
        PROVE  ReadsPieces
    BY <1>3, ReadImplies DEF ReadsPieces
  <1> QED
    BY <1>1, <1>2, <1>3, Invariance, PTL DEF Spec

-----------------------------------------------------------------------------
(* Where the items of a written list lie in the text.                       *)
IsWritten(items) ==
    /\ text = Append(Written(items, item_delim, kv_delim), NUL)
    /\ slen = Len(text) - 1

LaidOut(items, at) ==
    /\ at[1] = 0 /\ at[Len(items) + 1] = slen
    /\ \A n \in 1 .. Len(items) :
           LET w == WrittenItem(items[n], kv_delim)
           IN  /\ at[n] \in Nat /\ at[n] + Len(w) <= slen
               /\ \A j \in 1 .. Len(w) : text[at[n] + j] = w[j]
               /\ IF n = Len(items) THEN at[n] + Len(w) = slen
                  ELSE /\ at[n + 1] = at[n] + Len(w) + 1 /\ at[n + 1] <= slen
                       /\ At(at[n] + Len(w)) = item_delim

LEMMA Joined ==
  ASSUME NEW u \in Seq(Char), NEW d \in Char, NEW r \in Seq(Char), NEW t,
         t = u \o <<d>> \o r
  PROVE  /\ Len(t) = Len(u) + 1 + Len(r)
         /\ \A j \in 1 .. Len(u) : t[j] = u[j]
         /\ t[Len(u) + 1] = d
         /\ \A j \in 1 .. Len(r) : t[Len(u) + 1 + j] = r[j]
  <1> DEFINE v == u \o <<d>>
  <1>1. /\ v \in Seq(Char) /\ Len(v) = Len(u) + 1 /\ v[Len(u) + 1] = d
        /\ \A j \in 1 .. Len(u) : v[j] = u[j]
    OBVIOUS
  <1>2. t = v \o r
    OBVIOUS
  <1> HIDE DEF v
  <1>3. /\ Len(t) = Len(v) + Len(r)
        /\ \A j \in 1 .. Len(v) : t[j] = v[j]
        /\ \A j \in 1 .. Len(r) : t[Len(v) + j] = r[j]
    BY <1>1, <1>2
  <1>4. Len(u) \in Nat /\ Len(u) + 1 \in 1 .. Len(v) /\ \A j \in 1 .. Len(u) : j \in 1 .. Len(v)
    BY <1>1
  <1> QED
    BY <1>1, <1>3, <1>4

LEMMA Layout ==
  ASSUME NEW items \in Items, kv_delim \in Char, item_delim \in Char, IsWritten(items)
  PROVE  \E at : LaidOut(items, at)
  <1> DEFINE N == Len(items)
  <1>1. /\ N \in Nat /\ NUL \in Char
        /\ \A n \in 1 .. N : WrittenItem(items[n], kv_delim) \in Seq(Char)
    BY WrittenParts, CharAssumption
  <1>2. PICK upto :
            /\ Written(items, item_delim, kv_delim) = upto[N] /\ upto[0] = << >>
            /\ \A n \in 1 .. N :
                   upto[n] = IF n = 1 THEN WrittenItem(items[1], kv_delim)
                             ELSE upto[n - 1] \o <<item_delim>> \o WrittenItem(items[n], kv_delim)
            /\ \A n \in 0 .. N : upto[n] \in Seq(Char)
    BY WrittenParts
  <1> DEFINE at == [n \in 1 .. N + 1 |->
                       IF n = 1 THEN 0
                       ELSE IF n = N + 1 THEN Len(upto[N]) ELSE Len(upto[n - 1]) + 1]
             From(n) == IF n = 1 THEN 0 ELSE Len(upto[n - 1]) + 1
             w(n) == WrittenItem(items[n], kv_delim)
             Starts(n, m) ==
                 /\ Len(upto[n]) <= Len(upto[m])
                 /\ \A j \in 1 .. Len(upto[n]) : upto[m][j] = upto[n][j]
                 /\ n < m => /\ Len(upto[n]) + 1 <= Len(upto[m])
                             /\ upto[m][Len(upto[n]) + 1] = item_delim
  (* Each text of n items ends with the n-th.                               *)
  <1>3. ASSUME NEW n \in 1 .. N
        PROVE  /\ Len(upto[n]) \in Nat /\ From(n) \in Nat /\ Len(w(n)) \in Nat
               /\ Len(upto[n]) = From(n) + Len(w(n))
               /\ \A j \in 1 .. Len(w(n)) : upto[n][From(n) + j] = w(n)[j]
    <2>1. n \in 0 .. N /\ n - 1 \in 0 .. N
      BY <1>1
    <2>2. upto[n] \in Seq(Char) /\ upto[n - 1] \in Seq(Char) /\ w(n) \in Seq(Char)
      BY <1>1, <1>2, <2>1
    <2>3. CASE n = 1
      BY <1>2, <2>2, <2>3
    <2>4. CASE n # 1
      <3>1. upto[n] = upto[n - 1] \o <<item_delim>> \o w(n)
        BY <1>2, <2>4
      <3>2. From(n) = Len(upto[n - 1]) + 1
        BY <2>4
      <3> DEFINE u == upto[n - 1]
                 t == upto[n]
                 r == w(n)
                 f == From(n)
      <3>3. u \in Seq(Char) /\ r \in Seq(Char) /\ t = u \o <<item_delim>> \o r /\ f = Len(u) + 1
        BY <2>2, <3>1, <3>2
      <3> HIDE DEF u, t, r, f
      <3>4. /\ Len(t) = Len(u) + 1 + Len(r)
            /\ \A j \in 1 .. Len(r) : t[Len(u) + 1 + j] = r[j]
        BY ONLY <3>3, item_delim \in Char, Joined
      <3>5. Len(u) \in Nat /\ Len(r) \in Nat
        BY ONLY <3>3
      <3>6. /\ Len(t) \in Nat /\ f \in Nat /\ Len(r) \in Nat /\ Len(t) = f + Len(r)
            /\ \A j \in 1 .. Len(r) : t[f + j] = r[j]
        BY ONLY <3>3, <3>4, <3>5
      <3> QED
        BY <3>6 DEF t, r, f
    <2> QED
      BY <2>3, <2>4
  (* And each is the beginning of the next.                                 *)
  <1>4. ASSUME NEW m \in 1 .. N, m + 1 <= N, NEW n \in 1 .. m, Starts(n, m)
        PROVE  Starts(n, m + 1)
    <2>1. m + 1 \in 1 .. N /\ m \in 0 .. N /\ n \in 0 .. N
      BY <1>1, <1>4
    <2>2. upto[m] \in Seq(Char) /\ upto[n] \in Seq(Char) /\ w(m + 1) \in Seq(Char)
      BY <1>1, <1>2, <2>1
    <2>3. upto[m + 1] = upto[m] \o <<item_delim>> \o w(m + 1)
      <3>1. m + 1 # 1 /\ (m + 1) - 1 = m
        BY <2>1
      <3> QED
        BY <1>2, <2>1, <3>1
    <2> HIDE DEF w
    <2>4. /\ Len(upto[m]) + 1 <= Len(upto[m + 1])
          /\ \A j \in 1 .. Len(upto[m]) : upto[m + 1][j] = upto[m][j]
          /\ upto[m + 1][Len(upto[m]) + 1] = item_delim
          /\ Len(upto[m]) \in Nat /\ Len(upto[n]) \in Nat /\ Len(upto[m + 1]) \in Nat
      <3> DEFINE u == upto[m]
                 t == upto[m + 1]
                 r == w(m + 1)
      <3>1. u \in Seq(Char) /\ r \in Seq(Char) /\ t = u \o <<item_delim>> \o r
        BY <2>2, <2>3
      <3>2. Len(upto[n]) \in Nat
        BY <2>2
      <3> HIDE DEF u, t, r
      <3>3. /\ Len(t) = Len(u) + 1 + Len(r)
            /\ \A j \in 1 .. Len(u) : t[j] = u[j]
            /\ t[Len(u) + 1] = item_delim
        BY ONLY <3>1, item_delim \in Char, Joined
      <3>4. Len(u) \in Nat /\ Len(r) \in Nat
        BY ONLY <3>1
      <3>5. Len(u) + 1 <= Len(t) /\ Len(t) \in Nat
        BY ONLY <3>3, <3>4
      <3> QED
        BY <3>2, <3>3, <3>4, <3>5 DEF u, t
    <2>5. /\ Len(upto[n]) <= Len(upto[m])
          /\ \A j \in 1 .. Len(upto[n]) : upto[m][j] = upto[n][j]
          /\ n < m => /\ Len(upto[n]) + 1 <= Len(upto[m])
                      /\ upto[m][Len(upto[n]) + 1] = item_delim
      BY <1>4
    <2>6. ASSUME NEW j \in 1 .. Len(upto[n]) PROVE upto[m + 1][j] = upto[n][j]
      <3>1. j \in 1 .. Len(upto[m])
        BY <2>4, <2>5
      <3> QED
        BY <2>4, <2>5, <3>1
    <2>7. upto[m + 1][Len(upto[n]) + 1] = item_delim
      <3>1. CASE n = m
        BY <2>4, <3>1
      <3>2. CASE n # m
        <4>1. n < m /\ Len(upto[n]) + 1 \in 1 .. Len(upto[m])
          BY <2>1, <2>4, <2>5, <3>2
        <4> QED
          BY <2>4, <2>5, <4>1
      <3> QED
        BY <3>1, <3>2
    <2>8. Len(upto[n]) + 1 <= Len(upto[m + 1])
      BY <2>4, <2>5
    <2> QED
      BY <2>4, <2>6, <2>7, <2>8
  <1> HIDE DEF Starts
  <1>5. ASSUME NEW n \in 1 .. N
        PROVE  Starts(n, N)
    <2> DEFINE T == {m \in 1 .. N : n <= m /\ ~Starts(n, m)}
    <2>1. SUFFICES ASSUME T # {} PROVE FALSE
      <3>1. N \in 1 .. N /\ n <= N
        BY <1>1
      <3> QED
        BY <2>1, <3>1
    <2>2. PICK m \in T : \A k \in T : m <= k
      <3>1. T \subseteq Nat
        BY <1>1
      <3> QED
        BY <2>1, <3>1, LeastExists
    <2>3. CASE m = n
      <3>1. n \in 0 .. N
        BY <1>1
      <3>2. Len(upto[n]) \in Nat
        BY <1>3
      <3>3. Starts(n, n)
        BY <3>2 DEF Starts
      <3> QED
        BY <2>2, <2>3, <3>3
    <2>4. CASE m # n
      <3>1. m - 1 \in 1 .. N /\ n \in 1 .. m - 1 /\ (m - 1) + 1 <= N /\ (m - 1) + 1 = m
            /\ n <= m - 1 /\ ~(m <= m - 1)
        BY <1>1, <2>2, <2>4
      <3>2. Starts(n, m - 1)
        BY <2>2, <3>1
      <3>3. Starts(n, (m - 1) + 1)
        BY <1>4, <3>1, <3>2
      <3> QED
        BY <2>2, <3>1, <3>3
    <2> QED
      BY <2>3, <2>4
  <1>6. /\ upto[N] \in Seq(Char) /\ Len(upto[N]) \in Nat /\ slen = Len(upto[N])
        /\ \A j \in 1 .. Len(upto[N]) : text[j] = upto[N][j]
    <2>1. upto[N] \in Seq(Char)
      BY <1>1, <1>2
    <2>2. text = Append(upto[N], NUL) /\ slen = Len(text) - 1
      BY <1>2 DEF IsWritten
    <2> QED
      BY <1>1, <2>1, <2>2
  <1>7. at[1] = 0 /\ at[N + 1] = slen
    <2>1. 1 \in 1 .. N + 1 /\ N + 1 \in 1 .. N + 1
      BY <1>1
    <2>2. N = 0 => Len(upto[N]) = 0
      BY <1>2
    <2> QED
      BY <1>1, <1>6, <2>1, <2>2
  <1>8. ASSUME NEW n \in 1 .. N
        PROVE  /\ at[n] = From(n)
               /\ n # N => at[n + 1] = Len(upto[n]) + 1
    <2>1. n \in 1 .. N + 1 /\ n # N + 1 /\ n + 1 \in 1 .. N + 1 /\ n + 1 # 1 /\ (n + 1) - 1 = n
          /\ (n # N => n + 1 # N + 1)
      BY <1>1
    <2> QED
      BY <2>1
  <1> HIDE DEF at, From, w
  <1>9. ASSUME NEW n \in 1 .. N
        PROVE  /\ at[n] \in Nat /\ at[n] + Len(w(n)) <= slen
               /\ \A j \in 1 .. Len(w(n)) : text[at[n] + j] = w(n)[j]
               /\ IF n = N THEN at[n] + Len(w(n)) = slen
                  ELSE /\ at[n + 1] = at[n] + Len(w(n)) + 1 /\ at[n + 1] <= slen
                       /\ At(at[n] + Len(w(n))) = item_delim
    <2>1. /\ Len(upto[n]) \in Nat /\ From(n) \in Nat /\ Len(w(n)) \in Nat
          /\ Len(upto[n]) = From(n) + Len(w(n))
          /\ \A j \in 1 .. Len(w(n)) : upto[n][From(n) + j] = w(n)[j]
      BY <1>3
    <2>2. /\ Len(upto[n]) <= slen
          /\ \A j \in 1 .. Len(upto[n]) : upto[N][j] = upto[n][j]
          /\ n < N => /\ Len(upto[n]) + 1 <= slen
                      /\ upto[N][Len(upto[n]) + 1] = item_delim
      BY <1>5, <1>6 DEF Starts
    <2>3. ASSUME NEW j \in 1 .. Len(w(n)) PROVE text[at[n] + j] = w(n)[j]
      <3>1. From(n) + j \in 1 .. Len(upto[n]) /\ From(n) + j \in 1 .. Len(upto[N])
        BY <1>6, <2>1, <2>2
      <3> QED
        BY <1>6, <1>8, <2>1, <2>2, <3>1
    <2>4. CASE n = N
      <3>1. at[n] + Len(w(n)) = slen
        BY <1>6, <1>8, <2>1, <2>4
      <3>2. at[n] \in Nat /\ at[n] + Len(w(n)) <= slen
        BY <1>6, <1>8, <2>1, <3>1
      <3> QED
        BY <2>3, <2>4, <3>1, <3>2
    <2>5. CASE n # N
      <3>1. n < N
        BY <1>1, <2>5
      <3>2. at[n + 1] = at[n] + Len(w(n)) + 1 /\ at[n + 1] <= slen
            /\ at[n] + Len(w(n)) = Len(upto[n])
        BY <1>8, <2>1, <2>2, <2>5, <3>1
      <3>3. Len(upto[n]) + 1 \in 1 .. Len(upto[N])
        BY <1>6, <2>1, <2>2, <3>1
      <3>4. At(at[n] + Len(w(n))) = item_delim
        BY <1>6, <2>2, <3>1, <3>2, <3>3 DEF At
      <3> QED
        BY <1>6, <1>8, <2>1, <2>2, <2>3, <2>5, <3>2, <3>4
    <2> QED
      BY <2>4, <2>5
  <1>10. LaidOut(items, at)
    BY <1>7, <1>9 DEF LaidOut, N, w
  <1> QED
    BY <1>10

(* A scan ends at the first place where it may.                             *)
LEMMA UpToIs ==
  ASSUME TextOK, NEW p \in 0 .. slen, NEW stop, NEW e \in p .. slen,
         e = slen \/ At(e) \in stop, \A q \in p .. e - 1 : At(q) \notin stop
  PROVE  UpTo(p, stop) = e
  <1> DEFINE u == UpTo(p, stop)
  <1>1. /\ u \in p .. slen /\ (u = slen \/ At(u) \in stop)
        /\ \A q \in p .. u - 1 : At(q) \notin stop
    BY UpToStops
  <1>2. slen \in Nat
    BY DEF TextOK
  <1> HIDE DEF u
  <1>3. ~(u < e)
    <2> SUFFICES ASSUME u < e PROVE FALSE
      OBVIOUS
    <2>1. u \in p .. e - 1 /\ u # slen
      BY <1>1, <1>2
    <2> QED
      BY <1>1, <2>1
  <1>4. ~(e < u)
    <2> SUFFICES ASSUME e < u PROVE FALSE
      OBVIOUS
    <2>1. e \in p .. u - 1 /\ e # slen
      BY <1>1, <1>2
    <2> QED
      BY <1>1, <2>1
  <1> QED
    BY <1>1, <1>2, <1>3, <1>4 DEF u

LEMMA BackedIs ==
  ASSUME TextOK, NEW first \in 0 .. slen, NEW last \in first .. slen,
         last = first \/ ~IsSpace(At(last - 1))
  PROVE  Backed(first, last) = last
  <1>1. /\ Backed(first, last) \in first .. last
        /\ \A q \in Backed(first, last) .. last - 1 : IsSpace(At(q))
    BY BackedStops
  <1>2. slen \in Nat
    BY DEF TextOK
  <1>3. CASE last = first
    BY <1>1, <1>2, <1>3
  <1>4. CASE ~IsSpace(At(last - 1))
    <2>1. last - 1 \notin Backed(first, last) .. last - 1
      BY <1>1, <1>4
    <2> QED
      BY <1>1, <1>2, <2>1
  <1> QED
    BY <1>3, <1>4

LEMMA Concatenated ==
  ASSUME NEW u \in Seq(Char), NEW v \in Seq(Char)
  PROVE  /\ u \o v \in Seq(Char) /\ Len(u \o v) = Len(u) + Len(v)
         /\ \A j \in 1 .. Len(u) : (u \o v)[j] = u[j]
         /\ \A j \in 1 .. Len(v) : (u \o v)[Len(u) + j] = v[j]
  OBVIOUS

(* The characters of an item that begins at p.                              *)
LEMMA ItemChars ==
  ASSUME NEW item \in [key : Seq(Char), val : Seq(Char), quote : Seq(Char)],
         kv_delim \in Char, NEW p \in Nat, Len(item.quote) \in {0, 1},
         \A j \in 1 .. Len(WrittenItem(item, kv_delim)) : text[p + j] = WrittenItem(item, kv_delim)[j]
  PROVE  LET K == Len(item.key)
             V == Len(item.val)
             Q == Len(item.quote)
         IN  /\ K \in Nat /\ V \in Nat
             /\ Len(WrittenItem(item, kv_delim)) = K + 1 + V + 2 * Q
             /\ \A j \in 1 .. K : text[p + j] = item.key[j]
             /\ At(p + K) = kv_delim
             /\ \A j \in 1 .. V : text[p + K + 1 + Q + j] = item.val[j]
             /\ Q = 1 => /\ At(p + K + 1) = item.quote[1]
                         /\ At(p + K + 2 + V) = item.quote[1]
  <1> DEFINE K == Len(item.key)
             V == Len(item.val)
             Q == Len(item.quote)
             u == item.key \o <<kv_delim>>
             x == u \o item.quote
             y == x \o item.val
             w == y \o item.quote
  <1>1. /\ item.key \in Seq(Char) /\ item.val \in Seq(Char) /\ item.quote \in Seq(Char)
        /\ K \in Nat /\ V \in Nat /\ Q \in {0, 1}
    OBVIOUS
  <1>2. WrittenItem(item, kv_delim) = w
    BY DEF WrittenItem
  <1>3. /\ u \in Seq(Char) /\ Len(u) = K + 1 /\ u[K + 1] = kv_delim
        /\ \A j \in 1 .. K : u[j] = item.key[j]
    BY <1>1
  <1> HIDE DEF u
  <1>4. /\ x \in Seq(Char) /\ Len(x) = Len(u) + Q
        /\ \A j \in 1 .. Len(u) : x[j] = u[j]
        /\ \A j \in 1 .. Q : x[Len(u) + j] = item.quote[j]
    BY <1>1, <1>3, Concatenated
  <1> HIDE DEF x
  <1>5. /\ y \in Seq(Char) /\ Len(y) = Len(x) + V
        /\ \A j \in 1 .. Len(x) : y[j] = x[j]
        /\ \A j \in 1 .. V : y[Len(x) + j] = item.val[j]
    BY <1>1, <1>4, Concatenated
  <1> HIDE DEF y
  <1>6. /\ Len(w) = Len(y) + Q
        /\ \A j \in 1 .. Len(y) : w[j] = y[j]
        /\ \A j \in 1 .. Q : w[Len(y) + j] = item.quote[j]
    BY <1>1, <1>5, Concatenated
  <1>7. \A j \in 1 .. Len(w) : text[p + j] = w[j]
    BY <1>2
  <1> HIDE DEF w, K, V, Q
  <1>8. Len(x) = K + 1 + Q /\ Len(y) = K + 1 + Q + V /\ Len(w) = K + 1 + V + 2 * Q
    BY <1>1, <1>3, <1>4, <1>5, <1>6
  <1>9. ASSUME NEW j \in 1 .. K PROVE text[p + j] = item.key[j]
    <2>1. j \in 1 .. Len(u) /\ j \in 1 .. Len(x) /\ j \in 1 .. Len(y) /\ j \in 1 .. Len(w)
      BY <1>1, <1>3, <1>8
    <2> QED
      BY <1>3, <1>4, <1>5, <1>6, <1>7, <2>1
  <1>10. At(p + K) = kv_delim
    <2>1. /\ K + 1 \in 1 .. Len(u) /\ K + 1 \in 1 .. Len(x) /\ K + 1 \in 1 .. Len(y)
          /\ K + 1 \in 1 .. Len(w) /\ (p + K) + 1 = p + (K + 1)
      BY <1>1, <1>3, <1>8
    <2> QED
      BY <1>3, <1>4, <1>5, <1>6, <1>7, <2>1 DEF At
  <1>11. ASSUME NEW j \in 1 .. V PROVE text[p + K + 1 + Q + j] = item.val[j]
    <2>1. /\ Len(x) + j \in 1 .. Len(y) /\ Len(x) + j \in 1 .. Len(w)
          /\ p + (Len(x) + j) = p + K + 1 + Q + j
      BY <1>1, <1>8
    <2> QED
      BY <1>5, <1>6, <1>7, <2>1
  <1>12. ASSUME Q = 1 PROVE At(p + K + 1) = item.quote[1] /\ At(p + K + 2 + V) = item.quote[1]
    <2>1. /\ 1 \in 1 .. Q /\ Len(u) + 1 \in 1 .. Len(x) /\ Len(u) + 1 \in 1 .. Len(y)
          /\ Len(u) + 1 \in 1 .. Len(w) /\ (p + K + 1) + 1 = p + (Len(u) + 1)
      BY <1>1, <1>3, <1>8, <1>12
    <2>2. Len(y) + 1 \in 1 .. Len(w) /\ (p + K + 2 + V) + 1 = p + (Len(y) + 1)
      BY <1>1, <1>8, <1>12
    <2> QED
      BY <1>4, <1>5, <1>6, <1>7, <2>1, <2>2 DEF At
  <1> QED
    BY <1>1, <1>2, <1>8, <1>9, <1>10, <1>11, <1>12 DEF K, V, Q

LEMMA ContentsAre ==
  ASSUME NEW t \in Seq(Char), NEW a \in Nat, NEW s \in Seq(Char), a + Len(s) <= Len(t),
         \A j \in 1 .. Len(s) : t[a + j] = s[j]
  PROVE  Contents(t, Slice(a, Len(s))) = s
  <1>1. Contents(t, Slice(a, Len(s))) = SubSeq(t, a + 1, a + Len(s))
    BY DEF Contents, Slice
  <1> DEFINE c == SubSeq(t, a + 1, a + Len(s))
             n == Len(s)
  <1>2. n \in Nat /\ \A j \in 1 .. n : a + j \in 1 .. Len(t)
    OBVIOUS
  <1>3. c \in Seq(Char) /\ Len(c) = n /\ \A j \in 1 .. n : c[j] = t[a + j]
    BY <1>2
  <1> HIDE DEF c
  <1>4. \A j \in 1 .. Len(c) : c[j] = s[j]
    BY <1>3
  <1> QED
    BY <1>1, <1>3, <1>4, SeqEqual DEF c

(* An item that begins at i is what one iteration of the loop hands out.    *)
LEMMA ItemFound ==
  ASSUME TextOK, item_delim \in Delimiters, kv_delim \in KvDelimiters,
         NEW item \in [key : Seq(Char), val : Seq(Char), quote : Seq(Char)],
         Writable(item, item_delim, kv_delim),
         NEW end, end = i + Len(WrittenItem(item, kv_delim)), end <= slen,
         \A j \in 1 .. Len(WrittenItem(item, kv_delim)) : text[i + j] = WrittenItem(item, kv_delim)[j],
         end = slen \/ At(end) = item_delim
  PROVE  LET K == Len(item.key)
         IN  /\ K \in Nat \ {0} /\ i < slen /\ At(i) # NUL
             /\ KeyStart(i) = i /\ KeyStop(i) = i + K /\ KeyEnd = i + K
             /\ Contents(text, Slice(i, K)) = item.key
             /\ \E s : /\ ValueAfter(i + K).val = {s}
                       /\ Contents(text, s) = item.val
             /\ ValueAfter(i + K).next = end
  <1> DEFINE K == Len(item.key)
             V == Len(item.val)
             Q == Len(item.quote)
             v == i + K + 1
  <1>1. /\ text \in Seq(Char) /\ slen \in Nat /\ slen < Len(text) /\ i \in Nat
        /\ kv_delim \in Char /\ item_delim \in Char /\ NUL \in Char
        /\ item.key \in Seq(Char) /\ item.val \in Seq(Char) /\ item.quote \in Seq(Char)
    BY KvAssumption, CharAssumption DEF TextOK
  <1>2. \A q \in 0 .. slen : At(q) \in Char
    BY <1>1 DEF At
  <1>3. /\ item.key # << >>
        /\ \A n \in 1 .. K : item.key[n] \notin {item_delim, kv_delim, NUL} \cup LineEnds
        /\ item.key[1] \notin Spaces \cup Markers /\ item.key[K] \notin Spaces
    BY DEF Writable
  <1>4. \/ \E q \in Quotes : /\ item.quote = <<q>>
                             /\ \A n \in 1 .. V : item.val[n] \notin {q, NUL}
        \/ /\ item.quote = << >>
           /\ \A n \in 1 .. V : item.val[n] \notin {item_delim, NUL} \cup LineEnds
           /\ item.val # << >> =>
                  item.val[1] \notin Spaces \cup Quotes /\ item.val[V] \notin Spaces
    BY DEF Writable
  <1>5. Q \in {0, 1}
    <2>1. Q \in Nat
      BY <1>1
    <2>2. ASSUME item.quote = << >> PROVE Q = 0
      BY ONLY <2>2
    <2>3. ASSUME NEW q \in Quotes, item.quote = <<q>> PROVE Q = 1
      BY ONLY <2>3
    <2> QED
      BY ONLY <1>4, <2>2, <2>3
  <1>6. /\ K \in Nat /\ V \in Nat /\ end = i + K + 1 + V + 2 * Q
        /\ \A j \in 1 .. K : text[i + j] = item.key[j]
        /\ At(i + K) = kv_delim
        /\ \A j \in 1 .. V : text[i + K + 1 + Q + j] = item.val[j]
        /\ Q = 1 => At(i + K + 1) = item.quote[1] /\ At(i + K + 2 + V) = item.quote[1]
    <2>1. /\ K \in Nat /\ V \in Nat
          /\ Len(WrittenItem(item, kv_delim)) = K + 1 + V + 2 * Q
          /\ \A j \in 1 .. K : text[i + j] = item.key[j]
          /\ At(i + K) = kv_delim
          /\ \A j \in 1 .. V : text[i + K + 1 + Q + j] = item.val[j]
          /\ Q = 1 => At(i + K + 1) = item.quote[1] /\ At(i + K + 2 + V) = item.quote[1]
      BY <1>1, <1>5, ItemChars
    <2>2. end = i + K + 1 + V + 2 * Q
      <3> DEFINE l == Len(WrittenItem(item, kv_delim))
      <3>1. end = i + l /\ l = K + 1 + V + 2 * Q
        BY <2>1
      <3> HIDE DEF l, K, V, Q
      <3> QED
        BY <1>1, <1>5, <2>1, <3>1
    <2> QED
      BY <2>1, <2>2
  <1>7. K # 0
    BY <1>1, <1>3
  <1>8. /\ 1 \in 1 .. K /\ K \in 1 .. K /\ i + K < slen /\ v \in 0 .. slen
        /\ i \in 0 .. slen /\ i + K \in i .. slen /\ i < slen
    BY <1>1, <1>5, <1>6, <1>7
  <1>9. ASSUME NEW q \in i .. (i + K) - 1
        PROVE  At(q) \notin {item_delim, kv_delim, NUL} \cup LineEnds
    <2>1. q - i + 1 \in 1 .. K /\ i + (q - i + 1) = q + 1
      BY <1>1, <1>6, <1>9
    <2> QED
      BY <1>3, <1>6, <2>1 DEF At
  <1>10. /\ At(i) = item.key[1] /\ At((i + K) - 1) = item.key[K]
         /\ At(i) \notin {item_delim, NUL}
    <2>1. i \in i .. (i + K) - 1 /\ ((i + K) - 1) + 1 = i + K
      BY <1>1, <1>6, <1>7
    <2> QED
      BY <1>6, <1>8, <1>9, <2>1 DEF At
  <1>11. KeyStart(i) = i
    <2>1. At(i) \in Char \ Skippable
      BY <1>2, <1>3, <1>8, <1>10 DEF Skippable
    <2>2. i \in i .. slen /\ \A q \in i .. i - 1 : FALSE
      BY <1>1, <1>8
    <2> QED
      BY <1>8, <2>1, <2>2, UpToIs DEF KeyStart
  <1>12. KeyStop(i) = i + K
    <2> DEFINE stop == {kv_delim, item_delim, NUL} \cup LineEnds
    <2>1. At(i + K) \in stop
      BY <1>6
    <2>2. \A q \in i .. (i + K) - 1 : At(q) \notin stop
      BY <1>9
    <2> HIDE DEF stop
    <2>3. UpTo(i, stop) = i + K
      BY <1>8, <2>1, <2>2, UpToIs
    <2> QED
      BY <2>3 DEF KeyStop, stop
  <1>13. KeyEnd = i + K
    <2>1. ~IsSpace(At((i + K) - 1))
      BY <1>3, <1>10 DEF IsSpace
    <2>2. Backed(i, i + K) = i + K
      BY <1>8, <2>1, BackedIs
    <2> QED
      BY <1>11, <1>12, <2>2 DEF KeyEnd
  <1>14. Contents(text, Slice(i, K)) = item.key
    <2>1. i + K <= Len(text)
      BY <1>1, <1>8
    <2> QED
      BY <1>1, <1>6, <2>1, ContentsAre
  <1>15. ValueAfter(i + K) = Value(ValueStart(v))
    BY <1>6, <1>8 DEF ValueAfter
  <1>16. CASE \E q \in Quotes : /\ item.quote = <<q>>
                                /\ \A n \in 1 .. V : item.val[n] \notin {q, NUL}
    <2>1. PICK q \in Quotes : /\ item.quote = <<q>>
                              /\ \A n \in 1 .. V : item.val[n] \notin {q, NUL}
      BY <1>16
    <2>2. Q = 1 /\ item.quote[1] = q /\ q \notin Spaces
      BY <2>1, WritableAssumption
    <2>3. At(v) = q /\ At(v + 1 + V) = q /\ end = v + 1 + V + 1
      <3>1. v + 1 + V = i + K + 2 + V
        BY <1>1, <1>6
      <3> QED
        BY <1>1, <1>6, <2>2, <3>1
    <2> DEFINE last == v + 1 + V
    <2>4. /\ v \in v .. slen /\ v < slen
          /\ \A r \in v .. v - 1 : FALSE
          /\ v + 1 \in 0 .. slen /\ last \in v + 1 .. slen /\ last < slen
      BY <1>1, <1>6, <1>8, <2>3
    <2>5. ValueStart(v) = v
      <3>1. At(v) \in Char \ (Spaces \ {item_delim})
        BY <1>2, <1>8, <2>2, <2>3
      <3> DEFINE stop == Char \ (Spaces \ {item_delim})
      <3>2. At(v) \in stop
        BY <3>1
      <3> HIDE DEF v, last, stop
      <3>3. UpTo(v, stop) = v
        BY <1>8, <2>4, <3>2, UpToIs
      <3> QED
        BY <3>3 DEF ValueStart, stop
    <2>6. \A r \in v + 1 .. last - 1 : At(r) \notin {q, NUL}
      <3> SUFFICES ASSUME NEW r \in v + 1 .. last - 1 PROVE At(r) \notin {q, NUL}
        OBVIOUS
      <3>1. r - v \in 1 .. V /\ i + K + 1 + Q + (r - v) = r + 1
        BY <1>1, <1>6, <2>2
      <3> QED
        BY <1>6, <2>1, <3>1 DEF At
    <2>7. UpTo(v + 1, {q, NUL}) = last
      <3>1. At(last) \in {q, NUL}
        BY <2>3
      <3> HIDE DEF last
      <3> QED
        BY <2>4, <2>6, <3>1, UpToIs
    <2>8. \A j \in 1 .. V : text[(v + 1) + j] = item.val[j]
      <3>1. i + K + 1 + Q = v + 1
        BY <1>1, <1>6, <2>2
      <3> QED
        BY <1>6, <3>1
    <2>9. Contents(text, Slice(v + 1, V)) = item.val
      <3>1. (v + 1) + V <= Len(text) /\ v + 1 \in Nat
        BY <1>1, <2>4
      <3> HIDE DEF v
      <3> QED
        BY <1>1, <2>8, <3>1, ContentsAre
    <2>10. last - (v + 1) = V /\ last + 1 = end
      BY <1>1, <1>6, <2>3
    <2> HIDE DEF last, v
    <2>11. Value(v) = [val |-> {Slice(v + 1, V)}, next |-> end]
      <3>0. v < slen /\ At(v) \in Quotes
        BY ONLY <2>1, <2>3, <2>4
      <3>1. Value(v) = QuotedValue(v)
        BY ONLY <3>0 DEF Value
      <3>2. UpTo(v + 1, {At(v), NUL}) = last
        BY <2>3, <2>7
      <3>3. last < slen /\ At(last) = At(v)
        BY <2>3, <2>4 DEF last
      <3> QED
        BY <2>10, <3>1, <3>2, <3>3 DEF QuotedValue
    <2>12. \E s : ValueAfter(i + K).val = {s} /\ Contents(text, s) = item.val
      BY <1>15, <2>5, <2>9, <2>11
    <2>13. ValueAfter(i + K).next = end
      BY <1>15, <2>5, <2>11
    <2> QED
      BY <1>6, <1>7, <1>8, <1>10, <1>11, <1>12, <1>13, <1>14, <2>12, <2>13
  <1>17. CASE /\ item.quote = << >>
              /\ \A n \in 1 .. V : item.val[n] \notin {item_delim, NUL} \cup LineEnds
              /\ item.val # << >> =>
                     item.val[1] \notin Spaces \cup Quotes /\ item.val[V] \notin Spaces
    <2>1. Q = 0 /\ end = v + V
      BY <1>1, <1>6, <1>17
    <2>2. v + V \in v .. slen /\ v \in v .. slen /\ \A r \in v .. v - 1 : FALSE
      BY <1>1, <1>6, <1>8, <2>1
    <2>3. ASSUME NEW j \in 1 .. V PROVE At((v + j) - 1) = item.val[j]
      <3>1. ((v + j) - 1) + 1 = i + K + 1 + Q + j
        BY <1>1, <1>6, <2>1
      <3> QED
        BY <1>6, <3>1 DEF At
    <2>4. /\ v = slen \/ At(v) \in Char \ (Spaces \ {item_delim})
          /\ ~(v < slen /\ At(v) \in Quotes)
          /\ v + V = v \/ ~IsSpace(At((v + V) - 1))
      <3>1. CASE V = 0
        <4>1. v = end /\ v + V = v
          BY <1>1, <1>6, <2>1, <3>1
        <4>2. item_delim \notin Quotes
          BY WritableAssumption
        <4> HIDE DEF v
        <4> QED
          BY <1>1, <4>1, <4>2
      <3>2. CASE V # 0
        <4>1. 1 \in 1 .. V /\ V \in 1 .. V /\ (v + 1) - 1 = v /\ item.val # << >>
          BY <1>1, <1>6, <3>2
        <4>2. At(v) = item.val[1] /\ At((v + V) - 1) = item.val[V]
          BY <2>3, <4>1
        <4> QED
          BY <1>2, <1>8, <1>17, <4>1, <4>2 DEF IsSpace
      <3> QED
        BY <3>1, <3>2
    <2>5. ValueStart(v) = v
      <3> DEFINE stop == Char \ (Spaces \ {item_delim})
      <3>1. v = slen \/ At(v) \in stop
        BY <2>4
      <3> HIDE DEF v, V, stop
      <3>2. UpTo(v, stop) = v
        BY <1>8, <2>2, <3>1, UpToIs
      <3> QED
        BY <3>2 DEF ValueStart, stop
    <2>6. \A r \in v .. (v + V) - 1 : At(r) \notin {item_delim, NUL} \cup LineEnds
      <3> SUFFICES ASSUME NEW r \in v .. (v + V) - 1
                   PROVE  At(r) \notin {item_delim, NUL} \cup LineEnds
        OBVIOUS
      <3>1. r - v + 1 \in 1 .. V /\ (v + (r - v + 1)) - 1 = r
        BY <1>1, <1>6
      <3> QED
        BY <1>17, <2>3, <3>1
    <2>7. UpTo(v, {item_delim, NUL} \cup LineEnds) = v + V
      <3> DEFINE stop == {item_delim, NUL} \cup LineEnds
      <3>1. v + V = slen \/ At(v + V) \in stop
        BY <2>1
      <3> HIDE DEF stop, v, V
      <3> QED
        BY <1>8, <2>2, <2>6, <3>1, UpToIs DEF stop
    <2>8. Backed(v, v + V) = v + V
      <3> HIDE DEF v, V
      <3> QED
        BY <1>8, <2>2, <2>4, BackedIs
    <2>9. Contents(text, Slice(v, V)) = item.val
      <3>1. v \in Nat /\ v + V <= Len(text)
        BY <1>1, <1>8, <2>2
      <3>2. \A j \in 1 .. V : text[v + j] = item.val[j]
        <4>1. i + K + 1 + Q = v
          BY <1>1, <1>6, <2>1
        <4> QED
          BY <1>6, <4>1
      <3> HIDE DEF v
      <3> QED
        BY <1>1, <3>1, <3>2, ContentsAre
    <2>10. (v + V) - v = V
      BY <1>1, <1>6
    <2> HIDE DEF v, V
    <2>11. Value(v) = [val |-> {Slice(v, V)}, next |-> end]
      BY <2>1, <2>4, <2>7, <2>8, <2>10 DEF Value, PlainValue
    <2>12. \E s : ValueAfter(i + K).val = {s} /\ Contents(text, s) = item.val
      BY <1>15, <2>5, <2>9, <2>11
    <2>13. ValueAfter(i + K).next = end
      BY <1>15, <2>5, <2>11
    <2> QED
      BY <1>6, <1>7, <1>8, <1>10, <1>11, <1>12, <1>13, <1>14, <2>12, <2>13
  <1> QED
    BY <1>4, <1>16, <1>17

-----------------------------------------------------------------------------
(* The invariant: the items read so far are the first ones of the list, and *)
(* the scan stands at the beginning of the next.                            *)
ReadSoFar(items, at) ==
    /\ Len(pairs) <= Len(items) /\ i = at[Len(pairs) + 1]
    /\ \A n \in 1 .. Len(pairs) :
           /\ Contents(text, pairs[n].key) = items[n].key
           /\ \E s \in pairs[n].val : Contents(text, s) = items[n].val
    /\ returned => Len(pairs) = AtMost(Len(items), max_pairs)

ListRead ==
    /\ item_delim \in Delimiters /\ kv_delim \in KvDelimiters
    /\ \A items \in Items :
           IsWritten(items) => \E at : LaidOut(items, at) /\ ReadSoFar(items, at)

(* The next item begins at i, or the list has been read.                    *)
LEMMA NextWritten ==
  ASSUME TextOK, item_delim \in Delimiters, kv_delim \in KvDelimiters,
         pairs \in Seq(Pair), NEW items \in Items, NEW at, LaidOut(items, at),
         ReadSoFar(items, at)
  PROVE  /\ Len(pairs) = Len(items) => i = slen
         /\ Len(pairs) < Len(items) =>
                LET n == Len(pairs) + 1
                    K == Len(items[n].key)
                IN  /\ K \in Nat \ {0} /\ i < slen /\ At(i) # NUL
                    /\ KeyStart(i) = i /\ KeyStop(i) = i + K /\ KeyEnd = i + K
                    /\ Contents(text, Slice(i, K)) = items[n].key
                    /\ \E s : /\ ValueAfter(i + K).val = {s}
                              /\ Contents(text, s) = items[n].val
                    /\ PastItem(ValueAfter(i + K).next) = at[n + 1]
  <1>1. Len(pairs) = Len(items) => i = slen
    BY DEF LaidOut, ReadSoFar
  <1>2. ASSUME Len(pairs) < Len(items)
        PROVE  LET n == Len(pairs) + 1
                   K == Len(items[n].key)
               IN  /\ K \in Nat \ {0} /\ i < slen /\ At(i) # NUL
                   /\ KeyStart(i) = i /\ KeyStop(i) = i + K /\ KeyEnd = i + K
                   /\ Contents(text, Slice(i, K)) = items[n].key
                   /\ \E s : /\ ValueAfter(i + K).val = {s}
                             /\ Contents(text, s) = items[n].val
                   /\ PastItem(ValueAfter(i + K).next) = at[n + 1]
    <2> DEFINE n == Len(pairs) + 1
               item == items[n]
               w == WrittenItem(item, kv_delim)
               end == i + Len(w)
               K == Len(item.key)
    <2>1. /\ kv_delim \in Char /\ item_delim \in Char /\ slen \in Nat
      BY KvAssumption DEF TextOK
    <2>2. Len(items) \in Nat /\ Len(pairs) \in Nat /\ n \in 1 .. Len(items)
      <3>1. Len(items) \in Nat /\ Len(pairs) \in Nat
        BY <2>1, WrittenParts
      <3> QED
        BY <1>2, <3>1
    <2>3. /\ item \in [key : Seq(Char), val : Seq(Char), quote : Seq(Char)]
          /\ w \in Seq(Char)
      BY <2>1, <2>2, WrittenParts
    <2>4. Writable(item, item_delim, kv_delim)
      BY <2>2, WritableAssumption
    <2>5. /\ i = at[n] /\ end <= slen /\ \A j \in 1 .. Len(w) : text[i + j] = w[j]
          /\ IF n = Len(items) THEN end = slen
             ELSE at[n + 1] = end + 1 /\ at[n + 1] <= slen /\ At(end) = item_delim
      BY <2>2 DEF LaidOut, ReadSoFar
    <2>6. end = slen \/ At(end) = item_delim
      BY <2>5
    <2> HIDE DEF n
    <2>7. /\ K \in Nat \ {0} /\ i < slen /\ At(i) # NUL
          /\ KeyStart(i) = i /\ KeyStop(i) = i + K /\ KeyEnd = i + K
          /\ Contents(text, Slice(i, K)) = item.key
          /\ \E s : /\ ValueAfter(i + K).val = {s}
                    /\ Contents(text, s) = item.val
          /\ ValueAfter(i + K).next = end
      <3> HIDE DEF item
      <3> QED
        BY <2>3, <2>4, <2>5, <2>6, ItemFound
    <2>8. PastItem(end) = at[n + 1]
      <3>1. end \in Nat
        BY <2>1, <2>3 DEF TextOK
      <3>2. CASE n = Len(items)
        <4>1. end = slen /\ at[n + 1] = slen
          BY <2>5, <3>2 DEF LaidOut
        <4> HIDE DEF end
        <4> QED
          BY <2>1, <4>1 DEF PastItem
      <3>3. CASE n # Len(items)
        <4>1. at[n + 1] = end + 1 /\ at[n + 1] <= slen /\ At(end) = item_delim
          BY <2>5, <3>3
        <4> HIDE DEF end
        <4> QED
          BY <2>1, <3>1, <4>1 DEF PastItem
      <3> QED
        BY <3>2, <3>3
    <2> QED
      BY <2>7, <2>8 DEF n
  <1> QED
    BY <1>1, <1>2

LEMMA ListInit == Init => ListRead
  <1> SUFFICES ASSUME Init PROVE ListRead
    OBVIOUS
  <1>1. /\ item_delim \in Delimiters /\ kv_delim \in KvDelimiters
        /\ kv_delim \in Char /\ item_delim \in Char
        /\ pairs = << >> /\ i = 0 /\ ~returned
    BY KvAssumption DEF Init
  <1>2. ASSUME NEW items \in Items, IsWritten(items)
        PROVE  \E at : LaidOut(items, at) /\ ReadSoFar(items, at)
    <2>1. PICK at : LaidOut(items, at)
      BY <1>1, <1>2, Layout
    <2>2. Len(items) \in Nat /\ Len(pairs) = 0
      BY <1>1, WrittenParts
    <2>3. ReadSoFar(items, at)
      BY <1>1, <2>1, <2>2 DEF ReadSoFar, LaidOut
    <2> QED
      BY <2>1, <2>3
  <1> QED
    BY <1>1, <1>2 DEF ListRead

LEMMA ListNext ==
  ASSUME IInv, ListRead, [Next]_vars
  PROVE  ListRead'
  <1>1. UNCHANGED input
    BY DEF Next, Return, EmptyKey, Item, Done, vars
  <1>2. /\ item_delim \in Delimiters /\ kv_delim \in KvDelimiters
        /\ item_delim' = item_delim /\ kv_delim' = kv_delim /\ text' = text
        /\ slen' = slen /\ max_pairs' = max_pairs
        /\ TextOK /\ pairs \in Seq(Pair) /\ Len(pairs) <= max_pairs /\ max_pairs \in Nat
        /\ slen \in Nat /\ kv_delim \in Char /\ item_delim \in Char
    BY <1>1, KvAssumption DEF ListRead, input, IInv, TextOK, SlicesInOrder
  <1>3. ASSUME NEW items \in Items, IsWritten(items)'
        PROVE  \E at : LaidOut(items, at)' /\ ReadSoFar(items, at)'
    <2>1. IsWritten(items)
      BY <1>2, <1>3 DEF IsWritten
    <2>2. PICK at : LaidOut(items, at) /\ ReadSoFar(items, at)
      BY <2>1 DEF ListRead
    <2>3. LaidOut(items, at)'
      BY <1>2, <2>2 DEF LaidOut, At
    <2> DEFINE N == Len(pairs)
               L == Len(items)
    <2>4. /\ N \in Nat /\ L \in Nat /\ N <= L /\ i = at[N + 1]
          /\ \A n \in 1 .. N :
                 /\ Contents(text, pairs[n].key) = items[n].key
                 /\ \E s \in pairs[n].val : Contents(text, s) = items[n].val
          /\ returned => N = AtMost(L, max_pairs)
      <3>1. N \in Nat /\ L \in Nat
        BY <1>2, WrittenParts
      <3> QED
        BY <2>2, <3>1 DEF ReadSoFar
    <2>5. /\ N = L => i = slen
          /\ N < L =>
                LET n == N + 1
                    K == Len(items[n].key)
                IN  /\ K \in Nat \ {0} /\ i < slen /\ At(i) # NUL
                    /\ KeyStart(i) = i /\ KeyStop(i) = i + K /\ KeyEnd = i + K
                    /\ Contents(text, Slice(i, K)) = items[n].key
                    /\ \E s : /\ ValueAfter(i + K).val = {s}
                              /\ Contents(text, s) = items[n].val
                    /\ PastItem(ValueAfter(i + K).next) = at[n + 1]
      BY <1>2, <2>2, NextWritten
    <2>6. i \in Nat
      BY <1>2 DEF TextOK
    <2>7. N < L => ~NothingLeft /\ KeyEnd # KeyStart(i)
      <3> SUFFICES ASSUME N < L PROVE ~NothingLeft /\ KeyEnd # KeyStart(i)
        OBVIOUS
      <3> DEFINE K == Len(items[N + 1].key)
      <3>1. K \in Nat \ {0} /\ i < slen /\ At(i) # NUL /\ KeyStart(i) = i /\ KeyEnd = i + K
        BY <2>5
      <3> HIDE DEF K
      <3>2. i + K # i
        BY <2>6, <3>1
      <3> QED
        BY <1>2, <2>6, <3>1, <3>2 DEF NothingLeft
    <2>8. N = L => ~MoreToRead
      BY <1>2, <2>5 DEF MoreToRead
    <2>9. CASE UNCHANGED vars
      BY <1>2, <2>2, <2>3, <2>9 DEF ReadSoFar, vars
    <2>10. CASE Return
      <3>1. ~MoreToRead /\ i' = i /\ pairs' = pairs /\ returned'
        BY <2>4, <2>7, <2>8, <2>10 DEF Return
      <3>2. N = AtMost(L, max_pairs)
        <4>1. CASE N = L
          BY <1>2, <2>4, <4>1 DEF AtMost
        <4>2. CASE N < L
          <5>1. i < slen /\ At(i) # NUL
            BY <2>5, <4>2
          <5>2. ~(N < max_pairs)
            BY <3>1, <5>1 DEF MoreToRead
          <5> HIDE DEF N, L
          <5> QED
            BY <1>2, <2>4, <4>2, <5>2 DEF AtMost, N
        <4> QED
          BY <2>4, <4>1, <4>2
      <3>3. ReadSoFar(items, at)'
        BY <1>2, <2>4, <3>1, <3>2 DEF ReadSoFar
      <3> QED
        BY <2>3, <3>3
    <2>11. CASE EmptyKey
      BY <2>4, <2>7, <2>8, <2>11 DEF EmptyKey
    <2>12. CASE Item
      <3> DEFINE K == Len(items[N + 1].key)
                 value == ValueAfter(KeyStop(KeyStart(i)))
                 pair == [key |-> Slice(KeyStart(i), KeyEnd - KeyStart(i)), val |-> value.val]
      <3>1. N < L
        BY <2>4, <2>8, <2>12 DEF Item
      <3>2. pairs' = Append(pairs, pair) /\ i' = PastItem(value.next) /\ ~returned /\ ~returned'
        BY <2>12 DEF Item
      <3>3. /\ K \in Nat \ {0} /\ KeyStart(i) = i /\ KeyStop(i) = i + K /\ KeyEnd = i + K
            /\ Contents(text, Slice(i, K)) = items[N + 1].key
            /\ \E s : /\ ValueAfter(i + K).val = {s}
                      /\ Contents(text, s) = items[N + 1].val
            /\ PastItem(ValueAfter(i + K).next) = at[(N + 1) + 1]
        BY <2>5, <3>1
      <3>4. (i + K) - i = K
        BY <2>6, <3>3
      <3>5. /\ value = ValueAfter(i + K) /\ pair.key = Slice(i, K)
            /\ pair.val = ValueAfter(i + K).val
        BY <3>3, <3>4
      <3>6. /\ Len(pairs') = N + 1 /\ pairs'[N + 1] = pair
            /\ \A n \in 1 .. N : pairs'[n] = pairs[n]
        <4> HIDE DEF pair
        <4> QED
          BY <1>2, <3>2
      <3>7. i' = at[Len(pairs') + 1]
        BY <3>2, <3>3, <3>5, <3>6
      <3>8. ASSUME NEW n \in 1 .. Len(pairs')
            PROVE  /\ Contents(text, pairs'[n].key) = items[n].key
                   /\ \E s \in pairs'[n].val : Contents(text, s) = items[n].val
        <4>1. CASE n = N + 1
          BY <3>3, <3>5, <3>6, <4>1
        <4>2. CASE n # N + 1
          <5>1. n \in 1 .. N
            BY <2>4, <3>6, <4>2
          <5> QED
            BY <2>4, <3>6, <5>1
        <4> QED
          BY <4>1, <4>2
      <3>9. Len(pairs') <= L
        BY <2>4, <3>1, <3>6
      <3>10. ReadSoFar(items, at)'
        BY <1>2, <3>2, <3>7, <3>8, <3>9 DEF ReadSoFar
      <3> QED
        BY <2>3, <3>10
    <2> QED
      BY <2>9, <2>10, <2>11, <2>12 DEF Next, Done
  <1> QED
    BY <1>2, <1>3 DEF ListRead

(* EDC_KV_Find gives the value of the first item with a key.                *)
LEMMA ListReadsBack ==
  ASSUME IInv, ListRead
  PROVE  ReadsBack
  <1> SUFFICES ASSUME NEW items \in Items, returned, IsWritten(items)
               PROVE  /\ Len(pairs) = AtMost(Len(items), max_pairs)
                      /\ \A n \in 1 .. Len(pairs) :
                             (\A m \in 1 .. n - 1 : items[m].key # items[n].key)
                             => \E val \in Find(items[n].key) :
                                    \E s \in val : Contents(text, s) = items[n].val
    BY DEF ReadsBack, IsWritten
  <1>1. PICK at : ReadSoFar(items, at)
    BY DEF ListRead
  <1>2. Len(pairs) \in Nat
    BY DEF IInv
  <1>3. ASSUME NEW n \in 1 .. Len(pairs), \A m \in 1 .. n - 1 : items[m].key # items[n].key
        PROVE  \E val \in Find(items[n].key) : \E s \in val : Contents(text, s) = items[n].val
    <2> DEFINE hits == {m \in 1 .. Len(pairs) : Contents(text, pairs[m].key) = items[n].key}
    <2>1. n \in hits
      BY <1>1 DEF ReadSoFar
    <2>2. ASSUME NEW h \in hits PROVE n <= h
      <3>1. h \in 1 .. Len(pairs) /\ items[h].key = items[n].key
        BY <1>1 DEF ReadSoFar
      <3>2. h \notin 1 .. n - 1
        BY <1>3, <3>1
      <3> QED
        BY <1>2, <3>1, <3>2
    <2>3. Find(items[n].key) = {pairs[k].val : k \in {m \in hits : \A h \in hits : m <= h}}
      BY DEF Find
    <2>4. n \in {m \in hits : \A h \in hits : m <= h}
      BY <2>1, <2>2
    <2> HIDE DEF hits
    <2>5. pairs[n].val \in Find(items[n].key)
      BY <2>3, <2>4
    <2> QED
      BY <1>1, <2>5 DEF ReadSoFar
  <1> QED
    BY <1>1, <1>3 DEF ReadSoFar

(* What was written is read back: every list of keys and values, quoted or  *)
(* not, gives its first items, as many as the array takes, and EDC_KV_Find  *)
(* finds the value of each key (edc_parser.c:22-157).                       *)
THEOREM WrittenReadsBack == Spec => []ReadsBack
  <1>1. IInv /\ ListRead /\ [Next]_vars => ListRead'
    BY ListNext
  <1>2. IInv /\ ListRead => ReadsBack
    BY ListReadsBack
  <1> QED
    BY <1>1, <1>2, ListInit, Invariance, PTL DEF Spec
=================================================================================
