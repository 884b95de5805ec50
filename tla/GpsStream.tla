-------------------------------- MODULE GpsStream --------------------------------
(***************************************************************************)
(* The streaming NMEA-0183 receiver of src/edc_gps.c:                      *)
(* EDC_GPS_StreamFeed collects a sentence byte by byte, EDC_GPS_ParseNMEA  *)
(* checks it and writes what it says into the caller's EDC_GPS_Sentence,   *)
(* which lives on from one sentence to the next.                           *)
(*                                                                         *)
(* A symbol is one character.  Those that the receiver itself looks for    *)
(* are the marks '$', ',', '*' and the line end; the two checksum digits   *)
(* are symbols of their own, which name the text they were computed from.  *)
(***************************************************************************)
EXTENDS Integers, Sequences

CONSTANTS
    BufferSize,   \* sizeof(ctx->buffer)
    Shortest,     \* a sentence this short is dropped unread
    TimeLength,   \* a time or a date shorter than this is not read
    Symbol,       \* the symbols that can arrive
    Digit(_, _),  \* the i-th checksum digit of a text
    Number(_),    \* what EDC_StringToDouble makes of a field, in thousandths
    Count(_)      \* what EDC_StringToU32 makes of a field

(* index is a uint8_t: it must be able to count up to the buffer's size.    *)
ASSUME BufferAssumption == BufferSize \in 2 .. 255
(* A '$' and two checksum digits alone are too short.                       *)
ASSUME ShortestAssumption == Shortest \in Nat /\ Shortest >= 3
ASSUME TimeAssumption == TimeLength \in Nat \ {0}
ASSUME SymbolAssumption == \A c \in Symbol : "k" \in DOMAIN c /\ "v" \in DOMAIN c

VARIABLES
    buffer, index, in_sentence,   \* EDC_GPS_StreamContext
    gps,                          \* the caller's EDC_GPS_Sentence
    status                        \* what the last call of Feed returned

ctx  == <<buffer, index, in_sentence>>
vars == <<ctx, gps, status>>

(* A symbol and the character it is.                                        *)
Mark(c) == [k |-> c, v |-> c]
Char(c) == [k |-> "char", v |-> c]

Dollar  == Mark("$")
LineEnd == Mark("eol")
Star    == Mark("*")
Comma   == Mark(",")
NUL     == Mark("nul")

(* The i-th digit behind '*'.  The XOR over the text between '$' and '*' is *)
(* taken to tell any two texts apart that one fault on the line separates,  *)
(* and two characters of a field never to be the checksum of what stands    *)
(* before them.                                                             *)
Sum(text, i) == [k |-> "sum", v |-> Digit(text, i), of |-> text, nth |-> i]

(* What a caller starts from: a struct of zeros.                            *)
NoFix ==
    [latitude |-> 0, longitude |-> 0, altitude_m |-> 0, speed_knots |-> 0,
     speed_kmh |-> 0, course_deg |-> 0, hdop |-> 0, satellites |-> 0,
     fix_quality |-> 0, is_valid |-> FALSE, sentence_type |-> << >>,
     time |-> << >>, date |-> << >>]

-----------------------------------------------------------------------------
(* EDC_GPS_ParseNMEA.  GetNMEAField and SkipNMEAField cut the body of a     *)
(* sentence at its commas: first the identifier, then the fields.  One that *)
(* is missing reads like one that is empty.                                 *)
Pieces(b) ==
    LET upto[n \in 0 .. Len(b)] ==
            IF n = 0 THEN << << >> >>
            ELSE LET f == upto[n - 1]
                 IN  IF b[n].k = "," THEN Append(f, << >>)
                     ELSE [f EXCEPT ![Len(f)] = Append(@, b[n])]
    IN  upto[Len(b)]

At(f, i) == IF i < Len(f) THEN f[i + 1] ELSE << >>

Letter(f, missing) == IF f = << >> THEN missing ELSE Head(f).v

(* A coordinate of 0 and one with a bad hemisphere letter leave the old     *)
(* value; a missing letter counts as N or E.                                *)
Degrees(old, f, hemisphere) ==
    IF Number(f) > 0 /\ hemisphere \in {"S", "s", "W", "w"} THEN -Number(f)
    ELSE IF Number(f) > 0 /\ hemisphere \in {"N", "n", "E", "e"} THEN Number(f)
    ELSE old

(* Times and dates are kept as they are written.                            *)
Kept(old, f) == IF Len(f) < TimeLength THEN old ELSE f

UInt8(n) == n % 256

(* A knot is 1.852 km/h.                                                    *)
KnotsToKmh(knots) == (1852 * knots) \div 1000

ReadGGA(g, f) ==
    [g EXCEPT !.time        = Kept(@, At(f, 1)),
              !.latitude    = Degrees(@, At(f, 2), Letter(At(f, 3), "N")),
              !.longitude   = Degrees(@, At(f, 4), Letter(At(f, 5), "E")),
              !.fix_quality = UInt8(Count(At(f, 6))),
              !.is_valid    = Count(At(f, 6)) > 0,
              !.satellites  = UInt8(Count(At(f, 7))),
              !.hdop        = Number(At(f, 8)),
              !.altitude_m  = Number(At(f, 9))]

(* An empty status leaves the old one.                                      *)
Valid(old, f) == IF f = << >> THEN old ELSE Head(f).v = "A"

ReadRMC(g, f) ==
    [g EXCEPT !.time        = Kept(@, At(f, 1)),
              !.is_valid    = Valid(@, At(f, 2)),
              !.latitude    = Degrees(@, At(f, 3), Letter(At(f, 4), "N")),
              !.longitude   = Degrees(@, At(f, 5), Letter(At(f, 6), "E")),
              !.speed_knots = Number(At(f, 7)),
              !.speed_kmh   = KnotsToKmh(Number(At(f, 7))),
              !.course_deg  = Number(At(f, 8)),
              !.date        = Kept(@, At(f, 9))]

ReadVTG(g, f) ==
    [g EXCEPT !.course_deg  = Number(At(f, 1)),
              !.speed_knots = Number(At(f, 5)),
              !.speed_kmh   = Number(At(f, 7)),
              !.is_valid    = TRUE]

ReadGLL(g, f) ==
    [g EXCEPT !.latitude    = Degrees(@, At(f, 1), Letter(At(f, 2), "N")),
              !.longitude   = Degrees(@, At(f, 3), Letter(At(f, 4), "E")),
              !.time        = Kept(@, At(f, 5)),
              !.is_valid    = Valid(@, At(f, 6))]

(* An identifier: a talker of up to two characters and a type of three.     *)
Types == {<<"G", "G", "A">>, <<"R", "M", "C">>, <<"V", "T", "G">>, <<"G", "L", "L">>}

Identified(b) == Len(Pieces(b)[1]) \in 3 .. 5

Type(b) ==
    LET id == Pieces(b)[1]
    IN  [i \in 1 .. 3 |-> id[Len(id) - 3 + i].v]

Supported(b) == Type(b) \in Types

(* What the body of a sentence does to the caller's struct.  The identifier *)
(* is stored even if nothing else can be read.                              *)
Read(g, b) ==
    LET f == Pieces(b)
        h == [g EXCEPT !.sentence_type = f[1]]
    IN  IF ~Identified(b) THEN g
        ELSE IF Type(b) = <<"G", "G", "A">> THEN ReadGGA(h, f)
        ELSE IF Type(b) = <<"R", "M", "C">> THEN ReadRMC(h, f)
        ELSE IF Type(b) = <<"V", "T", "G">> THEN ReadVTG(h, f)
        ELSE IF Type(b) = <<"G", "L", "L">> THEN ReadGLL(h, f)
        ELSE h

(* The text up to and without the first '*'.                                *)
HasStar(text) == \E i \in 1 .. Len(text) : text[i].k = "*"

Body(text) ==
    LET stars == {i \in 1 .. Len(text) : text[i].k = "*"}
    IN  IF stars = {} THEN Tail(text)
        ELSE SubSeq(text, 2, (CHOOSE i \in stars : \A j \in stars : i <= j) - 1)

(* EDC_GPS_ValidateChecksum, asked only if there is a '*' at all.           *)
ChecksumHolds_Present(text) ==
    \E n \in 1 .. Len(text) : text[n].k = "sum"

ChecksumHolds_OffByOne(text) ==
    LET star == Len(Body(text)) + 2
    IN  /\ star + 1 <= Len(text)
        /\ text[star] = Sum(Body(text), 1) /\ text[star + 1] = Sum(Body(text), 2)

ChecksumHolds(text) ==
    LET star == Len(Body(text)) + 2
    IN  /\ star + 2 <= Len(text)
        /\ text[star + 1] = Sum(Body(text), 1) /\ text[star + 2] = Sum(Body(text), 2)

ParseNMEA_ReadsFirst(text, g) ==
    IF ~Identified(Body(text)) THEN [status |-> "INVALID_FORMAT", gps |-> g]
    ELSE [status |-> IF HasStar(text) /\ ~ChecksumHolds(text) THEN "CHECKSUM_MISMATCH"
                     ELSE IF Supported(Body(text)) THEN "OK" ELSE "UNSUPPORTED",
          gps    |-> Read(g, Body(text))]

ParseNMEA(text, g) ==
    IF HasStar(text) /\ ~ChecksumHolds(text)
    THEN [status |-> "CHECKSUM_MISMATCH", gps |-> g]
    ELSE IF ~Identified(Body(text)) THEN [status |-> "INVALID_FORMAT", gps |-> g]
    ELSE [status |-> IF Supported(Body(text)) THEN "OK" ELSE "UNSUPPORTED",
          gps    |-> Read(g, Body(text))]

-----------------------------------------------------------------------------
(* EDC_GPS_StreamInit, with the struct the caller has cleared.              *)
Init ==
    /\ buffer = [i \in 0 .. BufferSize - 1 |-> NUL]
    /\ index = 0
    /\ in_sentence = FALSE
    /\ gps = NoFix
    /\ status = "NONE"

(* ctx->buffer[i] = c, growing the domain if i is outside.                  *)
Store(i, c) ==
    buffer' = [j \in DOMAIN buffer \cup {i} |-> IF j = i THEN c ELSE buffer[j]]

Collected == [i \in 1 .. index |-> buffer[i - 1]]

(* The branches of EDC_GPS_StreamFeed, in order.                            *)
(* A '$' starts a sentence whatever came before it.                         *)
Restarts_OnlyWhenIdle(c) == c = Dollar /\ ~in_sentence

Restarts(c) == c = Dollar

Open(c) ==
    /\ Restarts(c)
    /\ Store(0, c)
    /\ index' = 1
    /\ in_sentence' = TRUE
    /\ status' = "INCOMPLETE"
    /\ UNCHANGED gps

Ignore(c) ==
    /\ ~Restarts(c)
    /\ ~in_sentence
    /\ status' = "INCOMPLETE"
    /\ UNCHANGED <<ctx, gps>>

Complete(c) ==
    /\ c = LineEnd
    /\ in_sentence
    /\ index > Shortest
    /\ Store(index, NUL)
    /\ index' = 0
    /\ in_sentence' = FALSE
    /\ LET result == ParseNMEA(Collected, gps)
       IN  status' = result.status /\ gps' = result.gps

Drop(c) ==
    /\ c = LineEnd
    /\ in_sentence
    /\ index <= Shortest
    /\ index' = 0
    /\ in_sentence' = FALSE
    /\ status' = "INCOMPLETE"
    /\ UNCHANGED <<buffer, gps>>

HasRoom_OffByOne == index < BufferSize

HasRoom == index < BufferSize - 1

Collect(c) ==
    /\ ~Restarts(c)
    /\ c # LineEnd
    /\ in_sentence
    /\ HasRoom
    /\ Store(index, c)
    /\ index' = index + 1
    /\ status' = "INCOMPLETE"
    /\ UNCHANGED <<in_sentence, gps>>

Overflow(c) ==
    /\ ~Restarts(c)
    /\ c # LineEnd
    /\ in_sentence
    /\ ~HasRoom
    /\ index' = 0
    /\ in_sentence' = FALSE
    /\ status' = "BUFFER_TOO_SMALL"
    /\ UNCHANGED <<buffer, gps>>

StreamFeed(c) ==
    \/ Open(c)
    \/ Ignore(c)
    \/ Complete(c)
    \/ Drop(c)
    \/ Collect(c)
    \/ Overflow(c)

Next == \E c \in Symbol : StreamFeed(c)

Spec == Init /\ [][Next]_vars

-----------------------------------------------------------------------------
Status == {"NONE", "OK", "INCOMPLETE", "BUFFER_TOO_SMALL", "CHECKSUM_MISMATCH",
           "INVALID_FORMAT", "UNSUPPORTED"}

(* Type correctness, and that no write of EDC_GPS_StreamFeed leaves the     *)
(* buffer: a byte or the terminator of edc_gps.c:547 behind the last cell   *)
(* would make its domain larger.                                            *)
TypeOK ==
    /\ buffer \in [0 .. BufferSize - 1 -> Symbol \cup {NUL}]
    /\ index \in 0 .. BufferSize - 1
    /\ in_sentence \in BOOLEAN
    /\ DOMAIN gps = DOMAIN NoFix
    /\ status \in Status

(* What is collected is the beginning of one sentence: '$', and no other    *)
(* '$' or line end behind it.                                               *)
OneSentence ==
    in_sentence => /\ index > 0
                   /\ buffer[0] = Dollar
                   /\ \A i \in 1 .. index - 1 : buffer[i] \notin {Dollar, LineEnd}

(* A call that does not report a sentence leaves the fix as it was; an      *)
(* unsupported sentence changes the identifier and nothing else.            *)
RejectedLeavesFix ==
    [][/\ status' \notin {"OK", "UNSUPPORTED"} => gps' = gps
       /\ status' = "UNSUPPORTED" =>
              gps' = [gps EXCEPT !.sentence_type = gps'.sentence_type]]_<<gps, status>>
=============================================================================
