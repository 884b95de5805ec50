------------------------------- MODULE FrameSpec -------------------------------
(***************************************************************************)
(* What the streaming framer promises, said of the whole stream of bytes   *)
(* and not of a buffer: after each byte, the frame that byte completes, if *)
(* any, and whether the byte made the framer drop what it had collected.   *)
(* Both are functions of the bytes received since initialization or reset. *)
(***************************************************************************)
EXTENDS Integers, Sequences

CONSTANTS
    Byte,        \* the values a byte on the line can have
    NUL,         \* as a start marker, "no start marker"
    Capacities,  \* the buffer sizes callers use
    MaxStream    \* bound on the length of the stream

VARIABLES
    capacity, start_byte, end_byte,  \* the configuration, constant
    stream,      \* the bytes received so far
    frames,      \* the set of frames the last byte completed (at most one)
    lost         \* did the last byte overflow the frame in progress?

vars == <<capacity, start_byte, end_byte, stream, frames, lost>>

(* With a start marker, the frame in progress after the bytes s starts at   *)
(* the last marker, unless an end marker followed.  Set of 0 or 1 positions.*)
OpenAt(s) ==
    {j \in 1 .. Len(s) :
        /\ s[j] = start_byte
        /\ \A k \in j + 1 .. Len(s) : s[k] # start_byte /\ s[k] # end_byte}

(* The start marker itself always fits; further bytes leave room for a NUL. *)
Longest == IF capacity = 1 THEN 1 ELSE capacity - 1

(* Without a start marker, the bytes since the last end marker, kept modulo *)
(* the capacity: each overflow drops what was collected and collecting      *)
(* starts again in the middle of the line.                                  *)
RunLength(s) ==
    CHOOSE r \in 0 .. Len(s) :
        /\ \A k \in Len(s) - r + 1 .. Len(s) : s[k] # end_byte
        /\ r < Len(s) => s[Len(s) - r] = end_byte

(* The frames that byte c completes when it follows the bytes s.            *)
Completed(s, c) ==
    IF c # end_byte \/ (c = start_byte /\ start_byte # NUL) THEN {}
    ELSE IF start_byte # NUL
         THEN {SubSeq(s, j, Len(s)) :
                  j \in {i \in OpenAt(s) : Len(s) - i + 1 <= Longest}}
         ELSE {SubSeq(s, Len(s) - (RunLength(s) % capacity) + 1, Len(s))}

(* Does byte c, following the bytes s, overflow the frame in progress?      *)
Overflows(s, c) ==
    /\ c # end_byte
    /\ IF start_byte # NUL
       THEN c # start_byte /\ \E j \in OpenAt(s) : Len(s) - j + 1 = Longest
       ELSE (RunLength(s) + 1) % capacity = 0

Init ==
    /\ capacity \in Capacities
    /\ start_byte \in Byte
    /\ end_byte \in Byte
    /\ stream = << >>
    /\ frames = {}
    /\ lost = FALSE

Receive(c) ==
    /\ Len(stream) < MaxStream
    /\ stream' = Append(stream, c)
    /\ frames' = Completed(stream, c)
    /\ lost' = Overflows(stream, c)
    /\ UNCHANGED <<capacity, start_byte, end_byte>>

Forget ==
    /\ stream' = << >>
    /\ frames' = {}
    /\ lost' = FALSE
    /\ UNCHANGED <<capacity, start_byte, end_byte>>

Next == Forget \/ \E c \in Byte : Receive(c)

Spec == Init /\ [][Next]_vars
=============================================================================
