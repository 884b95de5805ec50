------------------------------- MODULE Coordinates -------------------------------
(***************************************************************************)
(* The coordinate conversions of src/edc_gps.c: decimal degrees to NMEA    *)
(* form (degrees and minutes in one number) and back, to degrees, minutes  *)
(* and seconds and back, and to text.  A caller converts a position one way*)
(* and what he has got the other way; or an NMEA coordinate arrives.       *)
(***************************************************************************)
EXTENDS DecimalFormat

CONSTANTS
    Positions,    \* decimal degrees, in units
    Arriving,     \* coordinates in NMEA form, in units
    MaxDegrees,   \* 180: no position is further from zero
    TextSizes     \* of the buffers for text

ASSUME TextSizesAssumption == TextSizes \subseteq Nat \ {0}

(* Whole degrees fit int16_t, and their hundredfold, with minutes, the      *)
(* precision; the range is far beyond all of it, and 1.0 is not subnormal.  *)
ASSUME DegreesAssumption ==
    /\ MaxDegrees \in 0 .. 32767
    /\ 100 * (MaxDegrees + 1) < DoubleSignificant
    /\ 100 * (MaxDegrees + 1) * One < Infinity /\ 3600 * One < Infinity
    /\ DoubleSignificant <= 2 * One

(* Positions and coordinates are doubles.                                   *)
ASSUME PositionsAssumption ==
    /\ \A x \in Positions : x \in Int /\ Abs(x) <= MaxDegrees * One /\ Double(Abs(x), 1) = Abs(x)
    /\ \A x \in Arriving : x \in Int /\ (x >= 0 => x <= 100 * MaxDegrees * One /\ Double(x, 1) = x)

VARIABLES
    deg,          \* the position
    is_lat,       \* is it a latitude?
    hemisphere,
    nmea,         \* the coordinate in NMEA form
    minutes,      \* FromNMEA's local variable
    d, m, s,      \* degrees, minutes and seconds
    back,         \* the position that has been got back: {} or one number
    buf, buf_size,
    stage

position == <<deg, is_lat>>
dms      == <<d, m, s>>
written  == <<buf, buf_size>>
position_vars     == <<position, hemisphere, nmea, minutes, dms, back, written, stage>>

Hemispheres == {"N", "S", "E", "W"}
Negatives   == {"S", "W"}

(* A position in hand, or a coordinate that the receiver has read.          *)
PositionInit ==
    /\ \/ deg \in Positions /\ nmea = 0 /\ hemisphere = "NONE" /\ stage = "DECIMAL"
       \/ deg = 0 /\ nmea \in Arriving /\ hemisphere \in Hemispheres \cup {"X"} /\ stage = "NMEA"
    /\ is_lat \in BOOLEAN
    /\ minutes = 0
    /\ d = 0 /\ m = 0 /\ s = 0
    /\ back = {}
    /\ buf = << >> /\ buf_size = 0

Hemisphere ==
    IF is_lat THEN IF deg < 0 THEN "S" ELSE "N" ELSE IF deg < 0 THEN "W" ELSE "E"

(* (int32_t)x and its kind: x in units, the whole number in units.          *)
Truncated(x) == (x \div One) * One

Rest(x) == Difference(x, Truncated(x))

(* The minutes of what exceeds the whole degrees.                           *)
MinutesOf(x) == Times(Rest(x), 60 * One)

(* a + b, of which b may be negative.                                       *)
Added(a, b) == IF b < 0 THEN Difference(a, -b) ELSE Sum(a, b)

DecimalDegrees_ToNMEA ==
    /\ stage = "DECIMAL"
    /\ hemisphere' = Hemisphere
    /\ nmea' = Sum(Times(Truncated(Abs(deg)), 100 * One), MinutesOf(Abs(deg)))
    /\ stage' = "NMEA"
    /\ UNCHANGED <<position, minutes, dms, back, written>>

WholeDegrees_Nearest == Truncated(Sum(Over(nmea, 100 * One), One \div 2))

WholeDegrees == Truncated(Over(nmea, 100 * One))

PerDegree == 60 * One

(* The difference of two numbers so near is exact.                          *)
NmeaMinutes == nmea - Times(WholeDegrees, 100 * One)

MinutesOver(x) == IF x < 0 THEN -Over(-x, PerDegree) ELSE Over(x, PerDegree)

NMEA_ToDecimalDegrees ==
    /\ stage = "NMEA"
    /\ nmea >= 0 /\ hemisphere \in Hemispheres
    /\ minutes' = NmeaMinutes
    /\ LET angle == Added(WholeDegrees, MinutesOver(NmeaMinutes))
       IN  back' = {IF hemisphere \in Negatives THEN -angle ELSE angle}
    /\ stage' = "DONE"
    /\ UNCHANGED <<position, hemisphere, nmea, dms, written>>

Refused ==
    /\ stage = "NMEA"
    /\ nmea < 0 \/ hemisphere \notin Hemispheres
    /\ stage' = "REFUSED"
    /\ UNCHANGED <<position, hemisphere, nmea, minutes, dms, back, written>>

-----------------------------------------------------------------------------
DecimalToDMS ==
    /\ stage = "DECIMAL"
    /\ hemisphere' = Hemisphere
    /\ d' = Abs(deg) \div One
    /\ LET rem_min == MinutesOf(Abs(deg))
       IN  m' = rem_min \div One /\ s' = Times(Rest(rem_min), 60 * One)
    /\ stage' = "DMS"
    /\ UNCHANGED <<position, nmea, minutes, back, written>>

InRange == m < 60 /\ s >= 0 /\ s < 60 * One

PerMinute_Sixty == 60 * One

PerMinute == 3600 * One

DMSToDecimal ==
    /\ stage = "DMS" /\ InRange
    /\ LET angle == Sum(Sum(d * One, Over(m * One, 60 * One)), Over(s, PerMinute))
       IN  back' = {IF hemisphere \in Negatives THEN -angle ELSE angle}
    /\ stage' = "DONE"
    /\ UNCHANGED <<position, hemisphere, nmea, minutes, dms, written>>

-----------------------------------------------------------------------------
(* EDC_GPS_FormatCoordinate: characters as long as there is room for one    *)
(* and the NUL; the degree sign, two bytes, if there is room for both.      *)
DegreeSign == <<-7, -8>>
Prime == -9
DoublePrime == -10
Letter(h) == CHOOSE c \in 10 .. 35 : <<h, c>> \in {<<"N", 23>>, <<"S", 28>>, <<"E", 14>>, <<"W", 32>>}

Single(text) == [i \in 1 .. Len(text) |-> <<text[i]>>]

PiecesFor(seconds) ==
    Single(Digits(d, 10)) \o <<DegreeSign>>
        \o Single(<<Space>> \o Padded(Digits(m, 10), 2) \o <<Prime, Space>> \o seconds
                  \o <<DoublePrime, Space, Letter(hemisphere)>>)

HasRoom_ForFirst(pos, piece, size) == pos + 1 < size

HasRoom(pos, piece, size) == pos + Len(piece) < size

Assembled(pieces, size) ==
    LET put[n \in 0 .. Len(pieces)] ==
            IF n = 0 THEN << >>
            ELSE LET before == put[n - 1]
                 IN  IF HasRoom(Len(before), pieces[n], size) THEN before \o pieces[n]
                     ELSE before
    IN  Append(put[Len(pieces)], NUL)

(* The seconds, without the NUL.                                            *)
Seconds == {SubSeq(t, 1, Len(t) - 1) : t \in Double_ToString(s, 2, 16)}

FormatCoordinate ==
    /\ stage = "DMS"
    /\ \E size \in TextSizes, seconds \in Seconds :
          /\ buf' = Assembled(PiecesFor(seconds), size)
          /\ buf_size' = size
    /\ stage' = "WRITTEN"
    /\ UNCHANGED <<position, hemisphere, nmea, minutes, dms, back>>

Finished == stage \in {"DONE", "WRITTEN", "REFUSED"} /\ UNCHANGED position_vars

PositionNext ==
    \/ DecimalDegrees_ToNMEA \/ NMEA_ToDecimalDegrees \/ Refused
    \/ DecimalToDMS \/ DMSToDecimal \/ FormatCoordinate
    \/ Finished

PositionSpec == PositionInit /\ [][PositionNext]_position_vars

-----------------------------------------------------------------------------
(* Minutes and seconds stay below sixty, whatever is rounded on the way, so*)
(* that EDC_GPS_DMSToDecimal takes what EDC_GPS_DecimalToDMS returns; and  *)
(* the minutes of an NMEA coordinate are not negative, the quotient by a   *)
(* hundred never being rounded up to the next whole degree.                *)
PositionTypeOK ==
    /\ hemisphere \in Hemispheres \cup {"X", "NONE"}
    /\ InRange /\ d \in Nat /\ m \in Nat /\ minutes >= 0
    /\ stage \in {"DECIMAL", "NMEA", "DMS", "DONE", "WRITTEN", "REFUSED"}
    /\ stage \in {"DMS", "WRITTEN"} =>
           hemisphere \in (IF is_lat THEN {"N", "S"} ELSE {"E", "W"})

Step(x) == Spacing(Abs(x), DoubleSignificant)
Within(x, y, slack) == Abs(x - y) <= slack

Lost == 3 * Step(deg) + Step(nmea) \div 60

(* A position made an NMEA coordinate, or degrees, minutes and seconds, is *)
(* got back up to three of the numbers next to it (five roundings), and a  *)
(* sixtieth of an NMEA coordinate's last bit, in the right hemisphere.      *)
PositionKept ==
    (stage = "DONE" /\ (deg # 0 \/ nmea = 0)) => \A x \in back : Within(x, deg, Lost)

(* A coordinate that arrives says so many hundredths: its degrees, and its *)
(* minutes, sixty to a degree, up to the number next to it.                *)
CoordinateRead ==
    (stage = "DONE" /\ deg = 0) => \A x \in back :
        LET whole   == (nmea \div (100 * One)) * One
            minutes60 == nmea - 100 * whole
        IN  /\ Within(60 * (Abs(x) - whole), minutes60, 60 * Step(x))
            /\ x < 0 => hemisphere \in Negatives

(* Both, in whichever form a position came.                                *)
PositionReadsBack == PositionKept /\ CoordinateRead

(* The text fits its buffer; cut short it is the beginning of the whole,   *)
(* never half a degree sign, but the sign alone may be left out and what   *)
(* follows it be the last character.                                       *)
Full == {Append(t, NUL) : t \in {Assembled(PiecesFor(seconds), 64) : seconds \in Seconds}}

CutAtCharacter ==
    stage = "WRITTEN" =>
        LET length == Len(buf) - 1
            degree == Len(Digits(d, 10))
            Begins(t, n) == n <= Len(t) /\ SubSeq(buf, 1, n) = SubSeq(t, 1, n)
        IN  /\ buf[length + 1] = NUL /\ length < buf_size
            /\ \E t \in Full :
                 \/ Begins(t, length) /\ length # degree + 1
                        /\ (length = buf_size - 1 \/ length = Len(t) - 2)
                 \/ Begins(t, degree) /\ length = degree + 1 /\ buf[length] = Space
                        /\ buf_size = degree + 2
=============================================================================
