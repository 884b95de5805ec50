--------------------------------- MODULE GpsLine ---------------------------------
(***************************************************************************)
(* The NMEA receiver at the end of a serial line: a GPS module sends       *)
(* sentences, the line loses, corrupts and inserts bytes, and every byte   *)
(* that arrives is fed to EDC_GPS_StreamFeed with one and the same         *)
(* EDC_GPS_Sentence.  The GPS module and the line are the environment.     *)
(***************************************************************************)
EXTENDS GpsStream

CONSTANTS
    Sentences,   \* what the GPS module sends between '$' and '*'
    Noise,       \* what a character can turn into, or what comes from nowhere
    MaxFaults    \* how often the line misbehaves

ASSUME MaxFaultsAssumption == MaxFaults \in Nat

(* Noise can be any of the marks and any letter or digit.                   *)
ASSUME NoiseAssumption ==
    /\ {Dollar, LineEnd, Star} \cup Noise \subseteq Symbol
    /\ \A c \in Noise : c \in {Dollar, LineEnd, Star, Comma} \/ c.k = "char"

VARIABLES
    body,      \* the body of the sentence being sent
    pending,   \* what of it is still to be sent
    hurt,      \* did a fault hit the line since it was started?
    faults     \* faults so far

lvars == <<vars, body, pending, hurt, faults>>

Digits(b) == <<Sum(b, 1), Sum(b, 2)>>

OnTheWire(b) == <<Dollar>> \o b \o <<Star, Sum(b, 1), Sum(b, 2), LineEnd, LineEnd>>

(* The GPS module's sentences: an identifier and its fields, not too short  *)
(* to be looked at, and with '$' and checksum not too long for the buffer.  *)
ASSUME SentencesAssumption ==
    \A b \in Sentences :
        /\ b \in Seq(Symbol) /\ Len(b) > 0
        /\ Identified(b)
        /\ \A i \in 1 .. Len(b) : b[i].k \in {"char", ","}
        /\ Shortest < Len(b) + 4 /\ Len(b) + 4 < BufferSize
        /\ Sum(b, 1) \in Symbol /\ Sum(b, 2) \in Symbol

(* VTG gives the same speed twice.                                          *)
ASSUME SpeedAssumption ==
    \A b \in Sentences :
        Type(b) = <<"V", "T", "G">> =>
            Number(At(Pieces(b), 7)) = KnotsToKmh(Number(At(Pieces(b), 5)))

(* Does a sentence speak of validity, and what does it say?  An empty status *)
(* says nothing.                                                            *)
Stated(f) == IF f = << >> THEN {} ELSE {Head(f).v = "A"}

Validity(b) ==
    IF Type(b) = <<"G", "G", "A">> THEN {Count(At(Pieces(b), 6)) > 0}
    ELSE IF Type(b) = <<"R", "M", "C">> THEN Stated(At(Pieces(b), 2))
    ELSE IF Type(b) = <<"G", "L", "L">> THEN Stated(At(Pieces(b), 6))
    ELSE {}

LInit ==
    /\ Init
    /\ body = << >>
    /\ pending = << >>
    /\ hurt = FALSE
    /\ faults = 0

Send ==
    /\ pending = << >>
    /\ \E b \in Sentences :
          /\ body' = b
          /\ pending' = OnTheWire(b)
    /\ hurt' = FALSE
    /\ UNCHANGED <<vars, faults>>

(* The line end of the current sentence is on its way.                      *)
AtItsEnd == Len(pending) = 2

Transmit ==
    /\ pending # << >>
    /\ StreamFeed(Head(pending))
    /\ pending' = Tail(pending)
    /\ UNCHANGED <<body, hurt, faults>>

(* At most one fault between the start of one sentence and the next.        *)
Fault ==
    /\ faults < MaxFaults
    /\ ~hurt
    /\ faults' = faults + 1
    /\ hurt' = TRUE
    /\ UNCHANGED body

Lose ==
    /\ pending # << >>
    /\ Fault
    /\ pending' = Tail(pending)
    /\ UNCHANGED vars

Corrupt ==
    /\ pending # << >>
    /\ Fault
    /\ \E c \in Noise \ {Head(pending)} : StreamFeed(c)
    /\ pending' = Tail(pending)

Insert ==
    /\ Fault
    /\ \E c \in Noise : StreamFeed(c)
    /\ UNCHANGED pending

LNext == Send \/ Transmit \/ Lose \/ Corrupt \/ Insert

(* A symbol leaves the GPS module, whatever becomes of it.                  *)
Moves == pending # << >> /\ pending' = Tail(pending)

(* The GPS module keeps sending and the line keeps moving.                  *)
LSpec == LInit /\ [][LNext]_lvars /\ WF_lvars(Send) /\ WF_pending(Moves)

-----------------------------------------------------------------------------
(* A sentence during which the line is quiet is read, whatever noise and    *)
(* broken sentences came before it: every '$' starts afresh                 *)
(* (edc_gps.c:535-540).                                                     *)
QuietSentenceRead ==
    [][AtItsEnd /\ ~hurt /\ Transmit
           => /\ gps' = Read(gps, body)
              /\ status' = IF Supported(body) THEN "OK" ELSE "UNSUPPORTED"]_lvars

(* The two speeds always come from one sentence: as long as the sentences   *)
(* agree with themselves and none was damaged, speed_kmh is speed_knots in  *)
(* other units, in whatever order RMC and VTG write them.                   *)
SpeedsAgree == faults = 0 => gps.speed_kmh = KnotsToKmh(gps.speed_knots)

(* On a quiet line a fix becomes invalid only by a sentence that says so,   *)
(* and valid only by one that says so or by a VTG, which says nothing of it *)
(* (edc_gps.c:467).                                                         *)
ValidityOnWord ==
    ~hurt' =>
        /\ gps.is_valid /\ ~gps'.is_valid => Validity(body) = {FALSE}
        /\ ~gps.is_valid /\ gps'.is_valid =>
               Validity(body) = {TRUE} \/ Type(body) = <<"V", "T", "G">>

(* What a sentence that has lost its '*' can say, since nobody asks for its *)
(* checksum then (edc_gps.c:273): its beginning, if a line end fell into it,*)
(* the last field cut short; or the whole of it, with the checksum digits   *)
(* glued to the last field (edc_gps.c:215-226), and what the '*' was turned *)
(* into before them.                                                        *)
Unchecked(b) ==
    {SubSeq(b, 1, n) : n \in 1 .. Len(b)}
        \cup {b \o Digits(b)}
        \cup {b \o <<c>> \o Digits(b) : c \in Noise}

(* Whatever one fault a sentence does to a sentence: what the receiver      *)
(* accepts with a '*' is what was sent, to the character; without one, the  *)
(* fix takes on the beginning of what was sent or all of it with something  *)
(* behind it, and never a character altered, lost or inserted within.  And  *)
(* what it says of speed and validity stays consistent from one kind of     *)
(* sentence to the next.                                                    *)
OnlyWhatWasSent ==
    [][gps' # gps =>
           /\ IF HasStar(Collected) THEN gps' = Read(gps, body)
              ELSE \E text \in Unchecked(body) : gps' = Read(gps, text)
           /\ SpeedsAgree'
           /\ ValidityOnWord]_vars

(* The claim of edc_gps.h:173, "EDC_OK when a complete valid sentence was   *)
(* received and parsed": the sentence read is the one that was sent.        *)
DocCompleteSentence ==
    [][status' = "OK" => gps' = Read(gps, body)]_<<gps, status>>

(* Reception goes on: sentences are read for ever.                          *)
KeepsReading == []<>(status \in {"OK", "UNSUPPORTED"})
=============================================================================
