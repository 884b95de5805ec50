------------------------------ MODULE CsvTokenizer ------------------------------
(***************************************************************************)
(* EDC_CSV_Tokenizer (src/edc_parser.c:159-234): a cursor that hands       *)
(* out one field of a delimiter-separated text per call of Next.  The state*)
(* is the tokenizer struct, what the last call returned and, as a history  *)
(* variable, the slices handed out so far.                                 *)
(***************************************************************************)
EXTENDS Text, FiniteSets

CONSTANTS
    Quote,       \* '"'
    Delimiters,  \* the delimiters callers choose
    Texts        \* the texts they tokenize

ASSUME CsvAssumption ==
    Quote \in Char /\ Delimiters \subseteq Char /\ \A t \in Texts : t \in Seq(Char)

VARIABLES
    text,           \* the caller's memory, NUL-terminated
    size,           \* the length of the text, as Init determined it
    source,         \* position of the cursor in text
    remaining_len,
    delimiter,
    trim_spaces,
    status,         \* what the last call of Next returned
    tokens          \* the slices handed out

input == <<text, size, delimiter, trim_spaces>>
vars  == <<input, source, remaining_len, status, tokens>>

(* EDC_CSV_Init, with an explicit length or 0.                              *)
Init ==
    /\ text \in {Append(s, NUL) : s \in Texts}
    /\ \E length \in {0, Len(text) - 1} :
          remaining_len = Length(text, length)
    /\ size = remaining_len
    /\ delimiter \in Delimiters
    /\ trim_spaces \in BOOLEAN
    /\ source = 0
    /\ status = "NONE"
    /\ tokens = << >>

-----------------------------------------------------------------------------
(* start[i]                                                                 *)
At(i) == text[source + i + 1]

(* The quotes at the positions first .. last - 1, each counted from 1.       *)
QuotesIn(first, last) == {i \in first + 1 .. last : text[i] = Quote}

(* Is start[idx] inside quotes?  Quotes are only counted from the cursor on.*)
InsideQuotes_Never(idx) == FALSE

InsideQuotes(idx) == Cardinality(QuotesIn(source, source + idx)) % 2 = 1

(* Where the field at the cursor ends: at a delimiter outside quotes or at  *)
(* the end of the text.  A quote is never taken for a delimiter.            *)
FieldEnd ==
    LET ends == {idx \in 0 .. remaining_len :
                    \/ idx = remaining_len
                    \/ /\ At(idx) = delimiter
                       /\ At(idx) # Quote
                       /\ ~InsideQuotes(idx)}
    IN  CHOOSE idx \in ends : \A other \in ends : idx <= other

Token(idx) ==
    IF trim_spaces THEN Trimmed(text, source, source + idx) ELSE Slice(source, idx)

(* The delimiter is used up with the field.                                 *)
Consumed(idx) == IF idx < remaining_len THEN idx + 1 ELSE remaining_len

NextToken ==
    /\ remaining_len > 0
    /\ tokens' = Append(tokens, Token(FieldEnd))
    /\ source' = source + Consumed(FieldEnd)
    /\ remaining_len' = remaining_len - Consumed(FieldEnd)
    /\ status' = "OK"
    /\ UNCHANGED input

NoToken ==
    /\ remaining_len = 0
    /\ status' = "NOT_FOUND"
    /\ UNCHANGED <<input, source, remaining_len, tokens>>

Next == NextToken \/ NoToken

(* The caller's loop calls Next until it is told NOT_FOUND.                 *)
Spec == Init /\ [][Next]_vars

-----------------------------------------------------------------------------
(* The fields of the text, said of the whole of it: they lie between the    *)
(* delimiters that an even number of quotes precedes.  Cuts are positions   *)
(* counted from 0; the ends of the text count as cuts as well.              *)
Cuts ==
    {-1, size} \cup
    {i \in 0 .. size - 1 :
        /\ text[i + 1] = delimiter
        /\ delimiter # Quote
        /\ Cardinality(QuotesIn(0, i)) % 2 = 0}

Between(a, b) ==
    IF trim_spaces THEN Trimmed(text, a + 1, b) ELSE Slice(a + 1, b - a - 1)

(* Neighbouring cuts, in order.                                             *)
CutPairs == {p \in Cuts \X Cuts : p[1] < p[2] /\ \A c \in Cuts : c <= p[1] \/ c >= p[2]}

(* An empty field behind the last delimiter, and an empty text, are no      *)
(* fields.                                                                  *)
Fields == {p \in CutPairs : ~(p[1] = size - 1 /\ p[2] = size)}

Rank(p) == Cardinality({q \in Fields : q[1] <= p[1]})

(* The calls of Next hand out the fields of the text, each once, in order   *)
(* and without the spaces around it, although every call starts counting    *)
(* quotes anew; and NOT_FOUND means that all of them have been handed out.  *)
(* What has been read and what is left are the whole text.                  *)
HandsOutFields ==
    /\ source + remaining_len = size
    /\ Len(tokens) <= Cardinality(Fields)
    /\ \A p \in Fields : Rank(p) <= Len(tokens) => tokens[Rank(p)] = Between(p[1], p[2])
    /\ status = "NOT_FOUND" => Len(tokens) = Cardinality(Fields)
=============================================================================
