-------------------------- MODULE StreamParserHistory --------------------------
(***************************************************************************)
(* EDC_StreamParser driven by an arbitrary line, with a history variable:  *)
(* the bytes fed since the parser was initialized or reset.  The properties*)
(* relate what the parser hands out to that history.                       *)
(***************************************************************************)
EXTENDS StreamParser

CONSTANT MaxStream   \* bound on the bytes fed between two resets

ASSUME MaxStreamAssumption == MaxStream \in Nat

VARIABLE stream

hvars == <<vars, stream>>

HInit == Init /\ stream = << >>

HFeed(c) ==
    /\ Len(stream) < MaxStream
    /\ Feed(c)
    /\ stream' = Append(stream, c)

HReset == Reset /\ stream' = << >>

HNext == HReset \/ \E c \in Byte : HFeed(c)

HSpec == HInit /\ [][HNext]_hvars

-----------------------------------------------------------------------------
(* The abstract framer this parser implements: the frame it hands out and   *)
(* the overflow it reports are the ones the whole stream determines.        *)
Framer == INSTANCE FrameSpec WITH
              frames <- IF status = "OK" THEN {Delivered} ELSE {},
              lost   <- status = "BUFFER_TOO_SMALL"

(* Feed hands out exactly the frames of the abstract framer: none missed,   *)
(* none invented, none with a byte of an earlier frame, and BUFFER_TOO_SMALL *)
(* exactly when bytes were dropped for want of room (edc_parser.c:264-317). *)
ImplementsFramer == Framer!Spec

(* A frame handed out is NUL-terminated (edc_parser.h:141) as long as the   *)
(* buffer has room for more than the start marker.                          *)
Terminated ==
    status = "OK" /\ (capacity > 1 \/ ~Marked) =>
        out_frame_len < capacity /\ buffer[out_frame_len] = NUL

(* The bytes of a frame handed out are the bytes of the stream just before  *)
(* the end marker, in order: nothing stale, uninitialized or reordered.     *)
DeliveredIsSuffix ==
    status = "OK" =>
        /\ out_frame_len < Len(stream)
        /\ stream[Len(stream)] = end_byte
        /\ \A k \in 0 .. out_frame_len - 1 :
               buffer[k] = stream[Len(stream) - out_frame_len + k]

(* A frame handed out is whole: its own bytes, and the terminator behind.   *)
FrameIntact == Terminated /\ DeliveredIsSuffix
=============================================================================
