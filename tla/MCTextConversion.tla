---------------------------- MODULE MCTextConversion ----------------------------
(* TLC instance of TextConversion: texts of up to three units, each a        *)
(* character that some conversion treats in its own way, a plain one, or a   *)
(* broken one; the search for the NUL gives up after as few bytes as makes   *)
(* it matter.                                                                *)
EXTENDS TextConversion

Units == {
    <<65>>, <<53>>, <<46>>, <<32>>,             \* A 5 . space
    <<219, 181>>, <<217, 165>>,                 \* the digit 5, twice
    <<217, 171>>, <<217, 172>>,                 \* separators
    <<217, 138>>, <<217, 131>>, <<216, 169>>, <<216, 163>>,   \* letters
    <<216, 174>>, <<217, 136>>,                 \* letters with a choice of Latin ones
    <<219, 186>>,                               \* a letter next to the digits
    <<217, 128>>, <<217, 142>>,                 \* tatweel, fatha
    <<226, 128, 140>>, <<240, 159, 152, 128>>,  \* ZWNJ, an emoji
    <<217>>, <<128>>, <<0>> }                   \* broken, NUL

Few == {<<53>>, <<32>>, <<219, 181>>, <<217, 138>>, <<226, 128, 140>>, <<217>>}

MCTexts ==
    {<< >>} \cup Units \cup {a \o b : a, b \in Units}
            \cup {a \o b \o c : a \in Units, b, c \in Few}

(* Surrogates of both kinds and the words that are one with the bytes       *)
(* swapped, and what is next to them.                                       *)
MCWords == {0, 65, 16640, 1740, 55295, 55296, 216, 56319, 56320, 220, 57343, 57344, 65535}
MCWordTexts == UNION {[1 .. n -> MCWords] : n \in 0 .. 3}

MCCodes == {0, 65, 128, 2047, 2048, 55295, 55296, 57344, 65535, 65536, 1114111, 1114112}
MCCodeTexts == UNION {[1 .. n -> MCCodes] : n \in 0 .. 2}

Default == {"YEH_TO_PERSIAN", "KAF_TO_PERSIAN", "TEH_MARBUTA_TO_HEH",
            "REMOVE_TATWEEL", "REMOVE_HARAKAT"}

MCFlagSets == {
    {}, Default,
    Default \cup {"HAMZA_TO_BARE_ALEF", "REMOVE_ZWNJ", "DIGITS_TO_ENGLISH"},
    Default \cup {"DIGITS_TO_PERSIAN"} }

DefaultLatin == {"VAV_TO_V", "YEH_TO_Y", "KHE_TO_KH", "GHAF_TO_GH"}
MCLatinOptions == {{}, DefaultLatin, DefaultLatin \cup {"UPPERCASE_FIRST"}}

MCCapacities == {0, 1, 2, 3, 4, 5, 7, 13}
=============================================================================
