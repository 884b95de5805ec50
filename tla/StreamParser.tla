------------------------------ MODULE StreamParser ------------------------------
(***************************************************************************)
(* EDC_StreamParser (src/edc_parser.c): the framer that turns the bytes    *)
(* of a serial line, one call of Feed per byte, into frames held in a      *)
(* buffer the caller owns.  The state is the EDC_StreamParser struct, the  *)
(* caller's buffer, and what the last call of Feed gave back.              *)
(*                                                                         *)
(* Definitions with an underscore in their name are deliberate mistakes in *)
(* the definition the name begins with; the mutation runs listed in        *)
(* PROJECT.json put them in its place.                                     *)
(*                                                                         *)
(* A byte is an abstract value: the code only ever compares it with the    *)
(* start marker, with the end marker and with 0.                           *)
(***************************************************************************)
EXTENDS Integers, Sequences

CONSTANTS
    Byte,        \* the values a byte on the line can have
    NUL,         \* the byte 0: as a start marker, "no start marker"
    Unset,       \* what a cell of the caller's buffer holds before any write
    Capacities   \* the buffer sizes callers pass to Init

ASSUME NULAssumption == NUL \in Byte
ASSUME UnsetAssumption == Unset \notin Byte
(* Init refuses a capacity of 0 (strict checks are on by default).         *)
ASSUME CapacityAssumption == Capacities \subseteq Nat \ {0}

VARIABLES
    buffer,         \* the caller's buffer, a function on 0 .. capacity - 1
    capacity,       \* its size
    length,         \* bytes accumulated so far
    start_byte,     \* start marker, NUL if none is required
    end_byte,       \* end marker
    in_frame,       \* inside a frame?
    status,         \* what the last call of Feed returned
    out_frame_len   \* *out_frame_len (*out_frame is always the buffer)

config == <<capacity, start_byte, end_byte>>
parser == <<buffer, capacity, length, start_byte, end_byte, in_frame>>
vars   == <<parser, status, out_frame_len>>

(* "NONE" stands for: no call of Feed since Init or Reset.                  *)
Status == {"NONE", "OK", "INCOMPLETE", "BUFFER_TOO_SMALL"}

(* Needed only when a frame has to be introduced by a marker.               *)
Marked == start_byte # NUL

(* buffer[i] = c.  A write outside the buffer grows the function's domain,  *)
(* so that TypeOK notices it.                                               *)
Store(i, c) ==
    buffer' = [k \in DOMAIN buffer \cup {i} |-> IF k = i THEN c ELSE buffer[k]]

(* EDC_StreamParser_Init: the caller's buffer holds anything but for [0].   *)
Init ==
    /\ capacity \in Capacities
    /\ start_byte \in Byte
    /\ end_byte \in Byte
    /\ buffer = [k \in 0 .. capacity - 1 |-> IF k = 0 THEN NUL ELSE Unset]
    /\ length = 0
    /\ in_frame = (start_byte = NUL)
    /\ status = "NONE"
    /\ out_frame_len = 0

-----------------------------------------------------------------------------
(* The branches of EDC_StreamParser_Feed, in the order the code tries them. *)

IsStart(c) == Marked /\ c = start_byte

(* The start marker is stored before anything asks whether it fits.         *)
Restart(c) ==
    /\ length' = 1
    /\ Store(0, c)
    /\ status' = "INCOMPLETE"

(* Outside a frame every byte but the start marker is noise.                *)
Discard_Stores(c) ==
    /\ ~in_frame
    /\ ~IsStart(c)
    /\ Store(length, c)
    /\ status' = "INCOMPLETE"
    /\ UNCHANGED <<config, length, in_frame, out_frame_len>>

Discard(c) ==
    /\ ~in_frame
    /\ ~IsStart(c)
    /\ status' = "INCOMPLETE"
    /\ UNCHANGED <<parser, out_frame_len>>

Open(c) ==
    /\ ~in_frame
    /\ IsStart(c)
    /\ in_frame' = TRUE
    /\ Restart(c)
    /\ UNCHANGED <<config, out_frame_len>>

(* A second start marker drops the frame in progress.  It is tested before  *)
(* the end marker.                                                          *)
Resyncs_Never(c) == FALSE

Resyncs(c) == IsStart(c) /\ length > 0

Resync(c) ==
    /\ in_frame
    /\ Resyncs(c)
    /\ Restart(c)
    /\ UNCHANGED <<config, in_frame, out_frame_len>>

(* What both Deliver and Overflow leave for the next frame.                 *)
Rearm_KeepsLength == UNCHANGED length /\ in_frame' = ~Marked

Rearm_Closed == length' = 0 /\ in_frame' = FALSE

Rearm ==
    /\ length' = 0
    /\ in_frame' = ~Marked

TerminatorFits_Dropped == TRUE

TerminatorFits == length < capacity

Deliver(c) ==
    /\ in_frame
    /\ ~Resyncs(c)
    /\ c = end_byte
    /\ IF TerminatorFits THEN Store(length, NUL) ELSE UNCHANGED buffer
    /\ out_frame_len' = length
    /\ Rearm
    /\ status' = "OK"
    /\ UNCHANGED config

(* Room for this byte and for the terminator behind it.                     *)
HasRoom == length + 1 < capacity

Accumulate(c) ==
    /\ in_frame
    /\ ~Resyncs(c)
    /\ c # end_byte
    /\ HasRoom
    /\ Store(length, c)
    /\ length' = length + 1
    /\ status' = "INCOMPLETE"
    /\ UNCHANGED <<config, in_frame, out_frame_len>>

Overflow(c) ==
    /\ in_frame
    /\ ~Resyncs(c)
    /\ c # end_byte
    /\ ~HasRoom
    /\ Rearm
    /\ status' = "BUFFER_TOO_SMALL"
    /\ UNCHANGED <<config, buffer, out_frame_len>>

Feed(c) ==
    \/ Discard(c)
    \/ Open(c)
    \/ Resync(c)
    \/ Deliver(c)
    \/ Accumulate(c)
    \/ Overflow(c)

(* EDC_StreamParser_Reset.                                                  *)
Reset ==
    /\ Rearm
    /\ Store(0, NUL)
    /\ status' = "NONE"
    /\ UNCHANGED <<config, out_frame_len>>

-----------------------------------------------------------------------------
(* The frame Feed just handed to the caller: out_frame[0 .. out_frame_len). *)
Delivered == [i \in 1 .. out_frame_len |-> buffer[i - 1]]

(* Type correctness.  buffer \in [0 .. capacity - 1 -> ...] is the memory   *)
(* safety of every write of edc_parser.c:240-327: none goes outside the     *)
(* buffer, whatever the line sends.                                         *)
TypeOK ==
    /\ capacity \in Capacities
    /\ start_byte \in Byte
    /\ end_byte \in Byte
    /\ buffer \in [0 .. capacity - 1 -> Byte \cup {Unset}]
    /\ length \in 0 .. capacity
    /\ in_frame \in BOOLEAN
    /\ status \in Status
    /\ out_frame_len \in 0 .. capacity
=============================================================================
