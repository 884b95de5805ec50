-------------------------------- MODULE KeyValue --------------------------------
(***************************************************************************)
(* EDC_KV_Parse and EDC_KV_Find (src/edc_parser.c:18-157).  Parse is       *)
(* one call; a step of this module is one iteration of its outer loop, so  *)
(* that what it relies on between iterations can be stated.                *)
(***************************************************************************)
EXTENDS Text, FiniteSets

CONSTANTS
    Quotes,       \* the characters that may enclose a value
    LineEnds,     \* '\r' and '\n'
    Markers,      \* '$', '#' and '!'
    Delimiters,   \* the item delimiters callers choose
    KvDelimiters, \* the key-value delimiters callers choose
    Texts,        \* texts of any kind to be parsed
    Items,        \* lists of items that somebody writes down, to be parsed
    MaxPairs      \* the array sizes callers pass

ASSUME KvAssumption ==
    /\ Quotes \cup LineEnds \cup Markers \cup Delimiters \cup KvDelimiters \subseteq Char
    /\ LineEnds \subseteq Spaces
    /\ NUL \notin Quotes \cup Markers \cup Delimiters \cup KvDelimiters
    /\ \A s \in Texts : s \in Seq(Char)
    /\ MaxPairs \subseteq Nat \ {0}

ASSUME ItemsAssumption ==
    \A items \in Items :
        items \in Seq([key : Seq(Char), val : Seq(Char), quote : Seq(Char)])

(* What a writer may put down between delimiters d and k: a key that starts  *)
(* and ends as one, and a value that is quoted if it has to be.             *)
Writable(item, d, k) ==
    LET Within(s, never) == \A n \in 1 .. Len(s) : s[n] \notin never
    IN  /\ item.key # << >> /\ Within(item.key, {d, k, NUL} \cup LineEnds)
        /\ item.key[1] \notin Spaces \cup Markers /\ item.key[Len(item.key)] \notin Spaces
        /\ \/ \E q \in Quotes : item.quote = <<q>> /\ Within(item.val, {q, NUL})
           \/ /\ item.quote = << >> /\ Within(item.val, {d, NUL} \cup LineEnds)
              /\ item.val # << >> =>
                     /\ item.val[1] \notin Spaces \cup Quotes
                     /\ item.val[Len(item.val)] \notin Spaces

ASSUME WritableAssumption ==
    /\ Quotes \cap (Spaces \cup Delimiters) = {}
    /\ \A items \in Items, d \in Delimiters, k \in KvDelimiters :
           \A n \in 1 .. Len(items) : Writable(items[n], d, k)

VARIABLES
    text,        \* the caller's memory, NUL-terminated
    slen,
    item_delim,
    kv_delim,
    max_pairs,
    i,           \* the scan position
    pairs,       \* pairs[0 .. pair_idx), as a sequence
    returned     \* has Parse returned?

input == <<text, slen, item_delim, kv_delim, max_pairs>>
vars  == <<input, i, pairs, returned>>

(* A list of items as its writer puts it, with delimiters d and k: key,      *)
(* delimiter and value, the value between quotes if item.quote says so.     *)
WrittenItem(item, k) ==
    item.key \o <<k>> \o item.quote \o item.val \o item.quote

Written(items, d, k) ==
    LET upto[n \in 0 .. Len(items)] ==
            IF n = 0 THEN << >>
            ELSE IF n = 1 THEN WrittenItem(items[1], k)
            ELSE upto[n - 1] \o <<d>> \o WrittenItem(items[n], k)
    IN  upto[Len(items)]

Init ==
    /\ item_delim \in Delimiters
    /\ kv_delim \in KvDelimiters
    /\ text \in {Append(s, NUL) :
                    s \in Texts \cup {Written(items, item_delim, kv_delim) : items \in Items}}
    /\ \E len \in {0, Len(text) - 1} : slen = Length(text, len)
    /\ max_pairs \in MaxPairs
    /\ i = 0
    /\ pairs = << >>
    /\ returned = FALSE

-----------------------------------------------------------------------------
(* str[p]                                                                   *)
At(p) == text[p + 1]

(* while (p < slen && str[p] is not in stop) p++                            *)
UpTo(p, stop) ==
    LET ends == {q \in p .. slen : q = slen \/ At(q) \in stop}
    IN  CHOOSE q \in ends : \A r \in ends : q <= r

Skippable == Spaces \cup Markers \cup {item_delim}

KeyStart(p) == UpTo(p, Char \ Skippable)

KeyStop_IgnoresItems(p) == UpTo(p, {kv_delim, NUL} \cup LineEnds)

KeyStop(p) == UpTo(p, {kv_delim, item_delim, NUL} \cup LineEnds)

(* while (last > first && EDC_IsSpace(str[last - 1])) last--                *)
Backed(first, last) ==
    LET ends == {q \in first .. last : q = first \/ ~IsSpace(At(q - 1))}
    IN  CHOOSE q \in ends : \A r \in ends : r <= q

(* A value: its slice and the position behind it.  NULL is the absence of a *)
(* slice.                                                                   *)
NoValue == {}

ValueStart(p) == UpTo(p, Char \ (Spaces \ {item_delim}))

QuotedValue_SkipsBlindly(p) ==
    LET first == p + 1
        last  == UpTo(first, {At(p), NUL})
    IN  [val |-> {Slice(first, last - first)}, next |-> last + 1]

QuotedValue(p) ==
    LET first == p + 1
        last  == UpTo(first, {At(p), NUL})
    IN  [val |-> {Slice(first, last - first)},
         next |-> IF last < slen /\ At(last) = At(p) THEN last + 1 ELSE last]

PlainValue(p) ==
    LET last == UpTo(p, {item_delim, NUL} \cup LineEnds)
    IN  [val |-> {Slice(p, Backed(p, last) - p)}, next |-> last]

Value(p) ==
    IF p < slen /\ At(p) \in Quotes THEN QuotedValue(p) ELSE PlainValue(p)

ValueAfter(p) ==
    IF p < slen /\ At(p) = kv_delim THEN Value(ValueStart(p + 1))
    ELSE [val |-> NoValue, next |-> p]

(* One item delimiter is used up with the item.                             *)
PastItem(p) == IF p < slen /\ At(p) = item_delim THEN p + 1 ELSE p

-----------------------------------------------------------------------------
MoreToRead == i < slen /\ At(i) # NUL /\ Len(pairs) < max_pairs

NothingLeft == KeyStart(i) = slen \/ At(KeyStart(i)) = NUL

Return ==
    /\ ~returned
    /\ ~MoreToRead \/ NothingLeft
    /\ i' = IF MoreToRead THEN KeyStart(i) ELSE i
    /\ returned' = TRUE
    /\ UNCHANGED <<input, pairs>>

KeyEnd == Backed(KeyStart(i), KeyStop(KeyStart(i)))

(* The loop goes on behind the character that follows an empty key.         *)
PastEmptyKey_Stays(p) == p

PastEmptyKey(p) == IF p < slen THEN p + 1 ELSE p

EmptyKey ==
    /\ ~returned /\ MoreToRead /\ ~NothingLeft
    /\ KeyEnd = KeyStart(i)
    /\ i' = PastEmptyKey(KeyStop(KeyStart(i)))
    /\ UNCHANGED <<input, pairs, returned>>

Item ==
    /\ ~returned /\ MoreToRead /\ ~NothingLeft
    /\ KeyEnd # KeyStart(i)
    /\ LET value == ValueAfter(KeyStop(KeyStart(i)))
       IN  /\ pairs' = Append(pairs, [key |-> Slice(KeyStart(i), KeyEnd - KeyStart(i)),
                                      val |-> value.val])
           /\ i' = PastItem(value.next)
    /\ UNCHANGED <<input, returned>>

Done == returned /\ UNCHANGED vars

Next == Return \/ EmptyKey \/ Item \/ Done

Spec == Init /\ [][Next]_vars /\ WF_vars(Return \/ EmptyKey \/ Item)

-----------------------------------------------------------------------------
(* EDC_KV_Find for a key given by its characters: the first pair that has   *)
(* it; {} is NOT_FOUND.                                                     *)
Find_Prefix(key) ==
    LET hits == {n \in 1 .. Len(pairs) :
                    /\ pairs[n].key.len >= Len(key)
                    /\ SubSeq(Contents(text, pairs[n].key), 1, Len(key)) = key}
    IN  {pairs[n].val : n \in {m \in hits : \A h \in hits : m <= h}}

Find(key) ==
    LET hits == {n \in 1 .. Len(pairs) : Contents(text, pairs[n].key) = key}
    IN  {pairs[n].val : n \in {m \in hits : \A h \in hits : m <= h}}

-----------------------------------------------------------------------------
(* The characters taken for items, when the text is plain: no quotes, no    *)
(* NUL and no line ends but the delimiter; and the delimiters differ.       *)
Plain ==
    /\ item_delim # kv_delim
    /\ \A p \in 0 .. slen - 1 :
           At(p) \notin Quotes \cup {NUL} \cup (LineEnds \ {item_delim})

(* The pieces between the item delimiters, as pairs of cuts.                *)
Cuts == {-1, slen} \cup {p \in 0 .. slen - 1 : At(p) = item_delim}

Pieces == {p \in Cuts \X Cuts : p[1] < p[2] /\ \A c \in Cuts : c <= p[1] \/ c >= p[2]}

KeyChars(p) ==
    {q \in p[1] + 1 .. p[2] - 1 : At(q) \notin Spaces \cup Markers \cup {kv_delim}}

(* A piece with a key, read by itself: the key starts at its first character*)
(* that is no space, marker or delimiter, and ends at the next delimiter.   *)
ItemOf(p) ==
    LET start == CHOOSE q \in KeyChars(p) : \A r \in KeyChars(p) : q <= r
        delims == {q \in start .. p[2] - 1 : At(q) = kv_delim}
        stop   == CHOOSE q \in delims : \A r \in delims : q <= r
    IN  IF delims = {}
        THEN [key |-> Trimmed(text, start, p[2]), val |-> NoValue]
        ELSE [key |-> Trimmed(text, start, stop),
              val |-> {Trimmed(text, stop + 1, p[2])}]

ItemPieces == {p \in Pieces : KeyChars(p) # {}}

Rank(p) == Cardinality({q \in ItemPieces : q[1] <= p[1]})

AtMost(n, m) == IF n <= m THEN n ELSE m

(* Parsing a plain text gives the items of its pieces, each once, in order, *)
(* as many as the array takes: what one iteration leaves at i never spoils  *)
(* the next (edc_parser.c:37-112).                                          *)
ReadsPieces ==
    Plain =>
        /\ \A p \in ItemPieces : Rank(p) <= Len(pairs) => pairs[Rank(p)] = ItemOf(p)
        /\ returned => Len(pairs) = AtMost(Cardinality(ItemPieces), max_pairs)

(* What was written is read back, quoted values with delimiters, spaces and *)
(* line ends in them included, and EDC_KV_Find finds it under its key.      *)
ReadsBack ==
    \A items \in Items :
        /\ returned
        /\ text = Append(Written(items, item_delim, kv_delim), NUL)
        /\ slen = Len(text) - 1
        => /\ Len(pairs) = AtMost(Len(items), max_pairs)
           /\ \A n \in 1 .. Len(pairs) :
                  (\A m \in 1 .. n - 1 : items[m].key # items[n].key)
                  => \E val \in Find(items[n].key) :
                         \E s \in val : Contents(text, s) = items[n].val

(* One pair behind the other: no two slices overlap, a value follows its    *)
(* key, and all of them lie in the part of the text that has been scanned;  *)
(* there are no more than the array takes.                                  *)
EndOf(pair) ==
    IF pair.val = NoValue THEN pair.key.start + pair.key.len
    ELSE CHOOSE e \in {s.start + s.len : s \in pair.val} : TRUE

SlicesInOrder ==
    /\ i \in 0 .. slen /\ Len(pairs) <= max_pairs
    /\ \A n \in 1 .. Len(pairs) :
           /\ pairs[n].key.len > 0
           /\ pairs[n].key.start >= (IF n = 1 THEN 0 ELSE EndOf(pairs[n - 1]))
           /\ \A s \in pairs[n].val : s.start > pairs[n].key.start + pairs[n].key.len - 1
           /\ EndOf(pairs[n]) <= i

(* Parse returns, whatever the text: every iteration gets further.          *)
Returns == <>returned
=============================================================================
