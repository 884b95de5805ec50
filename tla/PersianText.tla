------------------------------- MODULE PersianText -------------------------------
(***************************************************************************)
(* What src/edc_persian.c makes of one character: normal forms, digits and *)
(* Latin letters, as operators on the bytes that can still be read.        *)
(***************************************************************************)
EXTENDS Utf8

(* The outcome for the beginning of a text: how much of it is used up, and  *)
(* the units (bytes, or words of 16 or 32 bits) it turns into.              *)
Failed(error) == [status |-> error, used |-> 0, units |-> << >>]
Done(n, s) == [status |-> "OK", used |-> n, units |-> s]

-----------------------------------------------------------------------------
(* Normalisation.                                                           *)

Stripped(cp, flags) ==
    \/ "REMOVE_TATWEEL" \in flags /\ cp = 1600                      \* U+0640
    \/ "REMOVE_HARAKAT" \in flags /\ cp \in (1611 .. 1621) \cup {1648}
                                                         \* U+064B .. 0655, 0670
    \/ "REMOVE_ZWNJ" \in flags /\ cp = 8204                         \* U+200C

(* Persian letters for Arabic ones; none of the results is replaced again.  *)
Letter_HehWithYeh(cp, flags) ==
    IF "TEH_MARBUTA_TO_HEH" \in flags /\ cp = 1577 THEN 1728
    ELSE IF "TEH_MARBUTA_TO_HEH" \in flags /\ cp = 1728 THEN 1607
    ELSE cp

Letter(cp, flags) ==
    IF "YEH_TO_PERSIAN" \in flags /\ cp \in {1609, 1610} THEN 1740
    ELSE IF "KAF_TO_PERSIAN" \in flags /\ cp = 1603 THEN 1705
    ELSE IF "TEH_MARBUTA_TO_HEH" \in flags /\ cp \in {1577, 1728} THEN 1607
    ELSE IF "HAMZA_TO_BARE_ALEF" \in flags /\ cp \in {1571, 1573} THEN 1575
    ELSE cp

English(cp) ==
    IF cp \in 1776 .. 1785 THEN 48 + (cp - 1776)          \* U+06F0 .. 06F9
    ELSE IF cp \in 1632 .. 1641 THEN 48 + (cp - 1632)     \* U+0660 .. 0669
    ELSE IF cp = 1643 THEN 46                             \* U+066B, '.'
    ELSE IF cp = 1644 THEN 44                             \* U+066C, ','
    ELSE cp

Persian(cp) ==
    IF cp \in 48 .. 57 THEN 1776 + (cp - 48)
    ELSE IF cp \in 1632 .. 1641 THEN 1776 + (cp - 1632)
    ELSE cp

(* Digits do not become longer in place.                                    *)
Digit_AlsoInPlace(cp, flags, in_place) ==
    IF "DIGITS_TO_ENGLISH" \in flags THEN English(cp)
    ELSE IF "DIGITS_TO_PERSIAN" \in flags THEN Persian(cp)
    ELSE cp

Digit_OnlyOutOfPlace(cp, flags, in_place) ==
    IF in_place THEN cp
    ELSE IF "DIGITS_TO_ENGLISH" \in flags THEN English(cp)
    ELSE IF "DIGITS_TO_PERSIAN" \in flags THEN Persian(cp)
    ELSE cp

Digit(cp, flags, in_place) ==
    IF "DIGITS_TO_ENGLISH" \in flags THEN English(cp)
    ELSE IF "DIGITS_TO_PERSIAN" \in flags /\ ~in_place THEN Persian(cp)
    ELSE cp

(* The encoder does not fail: what was decoded is a valid code point, and so*)
(* are all replacements.                                                    *)
Normalized(s, flags, in_place) ==
    LET char == DecodeChar(s)
    IN  IF char.status # "OK" THEN Failed(char.status)
        ELSE IF Stripped(char.cp, flags) THEN Done(char.used, << >>)
        ELSE Done(char.used, EncodeChar(Digit(Letter(char.cp, flags), flags, in_place)))

-----------------------------------------------------------------------------
(* Digits, matched byte by byte.                                            *)

(* Two bytes that are a digit or a separator; {} if they are not.           *)
AsciiOf_OneTooMany(b1, b2) ==
    IF b1 = 219 /\ b2 \in 176 .. 186 THEN {48 + (b2 - 176)} ELSE {}

AsciiOf(b1, b2) ==
    IF b1 = 219 /\ b2 \in 176 .. 185 THEN {48 + (b2 - 176)}
    ELSE IF b1 = 217 /\ b2 \in 160 .. 169 THEN {48 + (b2 - 160)}
    ELSE IF b1 = 217 /\ b2 = 171 THEN {46}
    ELSE IF b1 = 217 /\ b2 = 172 THEN {44}
    ELSE {}

DigitToEnglish(s) ==
    IF Len(s) > 1 /\ AsciiOf(s[1], s[2]) # {}
    THEN Done(2, <<CHOOSE c \in AsciiOf(s[1], s[2]) : TRUE>>)
    ELSE Done(1, <<s[1]>>)

DigitToPersian(s) ==
    IF s[1] \in 48 .. 57 THEN Done(1, <<219, 176 + (s[1] - 48)>>)
    ELSE IF s[1] = 46 THEN Done(1, <<217, 171>>)
    ELSE Done(1, <<s[1]>>)

DigitToArabic(s) ==
    IF s[1] \in 48 .. 57 THEN Done(1, <<217, 160 + (s[1] - 48)>>) ELSE Done(1, <<s[1]>>)

-----------------------------------------------------------------------------
(* Transliteration: rows of Persian letters and the Latin ones they become. *)

Romanization(opts) == {
    <<{1570, 1575, 1593}, <<97>>>>,                            \* a
    <<{1576}, <<98>>>>, <<{1662}, <<112>>>>,                   \* b, p
    <<{1578, 1591}, <<116>>>>, <<{1579, 1587, 1589}, <<115>>>>, \* t, s
    <<{1580}, <<106>>>>, <<{1670}, <<99, 104>>>>,              \* j, ch
    <<{1581, 1607, 1577}, <<104>>>>,                           \* h
    <<{1582}, IF "KHE_TO_KH" \in opts THEN <<107, 104>> ELSE <<120>>>>,
    <<{1583}, <<100>>>>, <<{1584, 1586, 1590, 1592}, <<122>>>>, \* d, z
    <<{1585}, <<114>>>>, <<{1688}, <<122, 104>>>>,             \* r, zh
    <<{1588}, <<115, 104>>>>, <<{1594}, <<103, 104>>>>,        \* sh, gh
    <<{1601}, <<102>>>>,                                       \* f
    <<{1602}, IF "GHAF_TO_GH" \in opts THEN <<103, 104>> ELSE <<113>>>>,
    <<{1705, 1603}, <<107>>>>, <<{1711}, <<103>>>>,            \* k, g
    <<{1604}, <<108>>>>, <<{1605}, <<109>>>>, <<{1606}, <<110>>>>,  \* l, m, n
    <<{1608}, IF "VAV_TO_V" \in opts THEN <<118>> ELSE <<117>>>>,
    <<{1740, 1610, 1609}, IF "YEH_TO_Y" \in opts THEN <<121>> ELSE <<105>>>> }

(* Digits and ASCII stay what they are, everything else disappears.         *)
Latin(cp, opts) ==
    LET rows == {row \in Romanization(opts) : cp \in row[1]}
    IN  IF cp \in (1776 .. 1785) \cup (1632 .. 1641) THEN <<English(cp)>>
        ELSE IF rows # {} THEN (CHOOSE row \in rows : TRUE)[2]
        ELSE IF cp <= 127 THEN <<cp>>
        ELSE << >>

ToUpper(c) == IF c \in 97 .. 122 THEN c - 32 ELSE c

(* The first letter of a word may have to be a capital.                     *)
Transliterated(s, opts, at_word_start) ==
    LET char  == DecodeChar(s)
        latin == Latin(char.cp, opts)
    IN  IF char.status # "OK" THEN Failed(char.status)
        ELSE IF latin # << >> /\ at_word_start /\ "UPPERCASE_FIRST" \in opts
        THEN Done(char.used, <<ToUpper(latin[1])>> \o Tail(latin))
        ELSE Done(char.used, latin)

(* Does a word begin behind these letters?  Nothing written changes nothing.*)
WordStarts(at_word_start, letters) ==
    IF letters = << >> THEN at_word_start ELSE letters[1] \in {32, 9, 10}
=============================================================================
