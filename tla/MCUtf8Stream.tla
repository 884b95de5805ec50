------------------------------ MODULE MCUtf8Stream ------------------------------
(* TLC instance of Utf8Stream: the bytes on either side of every limit the   *)
(* decoders test (lead bytes, second bytes, continuation bytes).             *)
EXTENDS Utf8Stream

MCByte == {0, 127, 128, 143, 144, 159, 160, 191, 192, 193, 194, 223, 224, 225,
           236, 237, 238, 239, 240, 241, 243, 244, 245, 255}
=============================================================================
