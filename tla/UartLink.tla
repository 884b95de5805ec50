-------------------------------- MODULE UartLink --------------------------------
(***************************************************************************)
(* The framer at work, as examples/uart_streaming uses it: a sender puts   *)
(* framed messages on a serial line that may lose, corrupt and insert      *)
(* bytes, each byte that arrives is fed to EDC_StreamParser_Feed, and the  *)
(* application reads a completed frame in place, through the pointer into  *)
(* the parser's buffer.                                                    *)
(*                                                                         *)
(* Only the receiver is code of the library and its example; the sender and*)
(* the line are the environment.                                           *)
(***************************************************************************)
EXTENDS StreamParser

CONSTANT MaxFaults   \* how often the line misbehaves before it is quiet

ASSUME MaxFaultsAssumption == MaxFaults \in Nat

VARIABLES
    message,   \* the frame being sent, markers included
    pending,   \* its bytes that are still to be sent
    hurt,      \* did a fault hit the line since this message was started?
    synced,    \* the last end marker got through, and nothing but the current
               \* message has been on the line since
    faults,    \* faults so far
    shown,     \* the frame handed out last, as it was then
    arrived    \* bytes since, counted from where the next frame can begin: its
               \* start marker, or at once (no further than capacity)

link  == <<message, pending, hurt, synced, faults>>
lvars == <<vars, link, shown, arrived>>

(* Frames the buffer can take whole, with a payload free of markers.        *)
Payload == Byte \ (IF Marked THEN {start_byte, end_byte} ELSE {end_byte})

Frame(m) == (IF Marked THEN <<start_byte>> ELSE << >>) \o m

Messages ==
    LET longest == capacity - (IF Marked THEN 2 ELSE 1)
    IN  UNION {[1 .. n -> Payload] : n \in 0 .. longest}

LInit ==
    /\ Init
    /\ start_byte # end_byte
    /\ capacity > 1
    /\ message = << >>
    /\ pending = << >>
    /\ hurt = FALSE
    /\ synced = TRUE
    /\ faults = 0
    /\ shown = << >>
    /\ arrived = 0

-----------------------------------------------------------------------------
(* The byte c arrives.  The application holds a pointer into the buffer: it  *)
(* may read the frame handed out last at once, as the example does in the   *)
(* same iteration (main_uart_streaming.c:47-57), or at any later moment,    *)
(* while further bytes are fed (from an interrupt, say).                    *)
Receive(c) ==
    /\ Feed(c)
    /\ IF status' = "OK"
       THEN shown' = Delivered' /\ arrived' = 0
       ELSE /\ shown' = shown
            /\ arrived' = CASE arrived = 0 /\ Marked /\ c # start_byte -> 0
                            [] arrived = capacity -> capacity
                            [] OTHER -> arrived + 1

(* The sender starts the next message.                                      *)
Send ==
    /\ pending = << >>
    /\ \E m \in Messages : /\ message' = Frame(m)
                           /\ pending' = Frame(m) \o <<end_byte>>
    /\ hurt' = FALSE
    /\ UNCHANGED <<vars, synced, faults, shown, arrived>>

Transmit ==
    /\ pending # << >>
    /\ Receive(Head(pending))
    /\ pending' = Tail(pending)
    /\ synced' = IF Len(pending) = 1 THEN TRUE ELSE synced
    /\ UNCHANGED <<message, hurt, faults>>

(* A fault on the line: the next byte is lost, arrives as another one, or a *)
(* byte nobody sent arrives.                                                *)
Fault ==
    /\ faults < MaxFaults
    /\ faults' = faults + 1
    /\ hurt' = TRUE
    /\ UNCHANGED message

Lose ==
    /\ pending # << >>
    /\ Fault
    /\ pending' = Tail(pending)
    /\ synced' = IF Len(pending) = 1 THEN FALSE ELSE synced
    /\ UNCHANGED <<vars, shown, arrived>>

Corrupt ==
    /\ pending # << >>
    /\ Fault
    /\ \E c \in Byte \ {Head(pending)} : Receive(c)
    /\ pending' = Tail(pending)
    /\ synced' = IF Len(pending) = 1 THEN FALSE ELSE synced

Insert ==
    /\ Fault
    /\ \E c \in Byte : Receive(c)
    /\ synced' = IF pending = << >> THEN FALSE ELSE synced
    /\ UNCHANGED pending

LNext == Send \/ Transmit \/ Lose \/ Corrupt \/ Insert

(* The sender keeps sending, the line keeps moving and every byte that      *)
(* arrives is fed; nothing is assumed of the faults but their number.       *)
Fairness == WF_lvars(Send) /\ WF_lvars(Transmit)

LSpec == LInit /\ [][LNext]_lvars /\ Fairness

-----------------------------------------------------------------------------
(* A frame handed out lasts in the buffer until the next one is written     *)
(* over it, byte by byte: noise leaves it alone, and after n bytes of what  *)
(* may be the next frame all but its first n bytes are still there, the     *)
(* terminator included (edc_parser.c:240-329 writes behind what it has      *)
(* collected since, and nowhere else).                                      *)
LastsUntilOverwritten ==
    /\ out_frame_len = Len(shown)
    /\ \A k \in arrived .. out_frame_len :
           buffer[k] = (shown \o <<NUL>>)[k + 1]

(* A message sent while the line is quiet is received, whatever noise and   *)
(* broken messages came before it: at once if frames have a start marker,   *)
(* else provided the end marker of the message before it got through and no *)
(* noise followed it.                                                       *)
QuietMessageReceived ==
    [][Transmit /\ Len(pending) = 1 /\ ~hurt /\ (Marked \/ synced)
           => status' = "OK" /\ Delivered' = message]_lvars

(* The receiver always recovers: once the line is quiet, messages arrive    *)
(* for ever.                                                                *)
Recovers == []<>(status = "OK" /\ Delivered = message)
=============================================================================
