------------------------------ MODULE MCUartLink ------------------------------
(* TLC instance of UartLink: three bytes, any two of which may be the        *)
(* markers, two buffer sizes.  Two faults are enough to lose an end marker   *)
(* and to break the message behind it as well.                               *)
EXTENDS UartLink

CONSTANTS x, y

MCByte == {NUL, x, y}
MCCapacities == {2, 4}
=============================================================================
