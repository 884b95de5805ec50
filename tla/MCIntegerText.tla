----------------------------- MODULE MCIntegerText -----------------------------
(* TLC instance of IntegerText: six-bit integers in place of 64-bit ones,    *)
(* with narrower types of three bits; texts of up to four characters, and    *)
(* every number of the type written in every base, with and without padding. *)
(* As in the code, a text without a length is read up to as many characters  *)
(* as an integer has bits.                                                   *)
EXTENDS IntegerText

MCUTargets == {63, 7}
MCITargets == {31, 3}
MCBases == {0, 1, 2, 10, 16, 32}
MCTexts == UNION {[1 .. n -> {0, 1, 2, 7, LetterB, LetterX, Minus, Plus, Space, Other}] : n \in 0 .. 4}
MCPads == {0, 3, 9}
MCBufSizes == {2, 7, 9}
=============================================================================
