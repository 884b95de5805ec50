----------------------------- MODULE MCStreamParser -----------------------------
(* TLC instance of StreamParserHistory: NUL and three other bytes, each of   *)
(* which may be configured as start and as end marker (also as both at once) *)
(* and every buffer size from the degenerate 1 up.                          *)
EXTENDS StreamParserHistory

CONSTANTS x, y, z

MCByte == {NUL, x, y, z}
MCCapacities == 1 .. 4
=============================================================================
