------------------------------- MODULE Utf8Stream -------------------------------
(***************************************************************************)
(* EDC_UTF8_StreamDecoder (src/edc_unicode.c): the decoder that takes      *)
(* one byte per call and gives back a code point when one is complete.  The*)
(* state is the decoder struct and what the last call gave back; taken is a*)
(* history variable, the bytes of the character being tried.               *)
(***************************************************************************)
EXTENDS Utf8

CONSTANT Byte   \* the bytes that arrive

ASSUME ByteAssumption == Byte \subseteq AnyByte

VARIABLES
    codepoint,      \* the bits collected so far
    bytes_needed,   \* continuation bytes still expected, 0 when idle
    bytes_seen,     \* bytes consumed for the current character
    min_codepoint,  \* least code point that needs this many bytes
    returned,       \* what the last call of Feed returned
    written,        \* what that call wrote to *out_codepoint: {} or one value
    taken           \* the bytes of the attempt the last byte belongs to

decoder      == <<codepoint, bytes_needed, bytes_seen, min_codepoint>>
decoder_vars == <<decoder, returned, written, taken>>

Idle == bytes_needed = 0

(* EDC_UTF8_StreamDecoder_Init, which Feed also calls at the end of a       *)
(* character and on an error.                                               *)
Clear_KeepsNeeded ==
    /\ codepoint' = 0
    /\ UNCHANGED bytes_needed
    /\ bytes_seen' = 0
    /\ min_codepoint' = 0

Clear ==
    /\ codepoint' = 0
    /\ bytes_needed' = 0
    /\ bytes_seen' = 0
    /\ min_codepoint' = 0

DecoderInit ==
    /\ codepoint = 0
    /\ bytes_needed = 0
    /\ bytes_seen = 0
    /\ min_codepoint = 0
    /\ returned = "NONE"
    /\ written = {}
    /\ taken = << >>

-----------------------------------------------------------------------------
(* The branches of EDC_UTF8_StreamDecoder_Feed.                             *)

LeastNeeding(w) == IF w = 2 THEN 128 ELSE IF w = 3 THEN 2048 ELSE 65536

FeedAscii(b) ==
    /\ Idle
    /\ Width(b) = 1
    /\ returned' = "OK"
    /\ written' = {b}
    /\ taken' = <<b>>
    /\ UNCHANGED decoder

Lead(b) ==
    /\ Idle
    /\ Width(b) > 1
    /\ codepoint' = LeadBits(b)
    /\ bytes_needed' = Width(b) - 1
    /\ bytes_seen' = 1
    /\ min_codepoint' = LeastNeeding(Width(b))
    /\ returned' = "INCOMPLETE"
    /\ written' = {}
    /\ taken' = <<b>>

BadLead(b) ==
    /\ Idle
    /\ Width(b) = 0
    /\ returned' = "INVALID_ENCODING"
    /\ written' = {}
    /\ taken' = <<b>>
    /\ UNCHANGED decoder

(* A byte that does not continue the character is used up with it, even if  *)
(* it could begin the next one.                                             *)
Breaks(b) ==
    /\ ~Idle
    /\ ~IsContinuation(b)
    /\ Clear
    /\ returned' = "INVALID_ENCODING"
    /\ written' = {}
    /\ taken' = Append(taken, b)

(* (codepoint << 6) | (byte & 0x3F)                                         *)
Extended(b) == codepoint * 64 + (b % 64)

Continue(b) ==
    /\ bytes_needed > 1
    /\ IsContinuation(b)
    /\ codepoint' = Extended(b)
    /\ bytes_needed' = bytes_needed - 1
    /\ bytes_seen' = bytes_seen + 1
    /\ returned' = "INCOMPLETE"
    /\ written' = {}
    /\ taken' = Append(taken, b)
    /\ UNCHANGED min_codepoint

(* Only the complete code point is tested.                                  *)
Acceptable_Strictly(cp) ==
    /\ cp > min_codepoint
    /\ ~IsSurrogate(cp)
    /\ cp <= MaxCodePoint

Acceptable_NoOverlongTest(cp) == ~IsSurrogate(cp) /\ cp <= MaxCodePoint

Acceptable(cp) ==
    /\ cp >= min_codepoint
    /\ ~IsSurrogate(cp)
    /\ cp <= MaxCodePoint

Complete(b) ==
    /\ bytes_needed = 1
    /\ IsContinuation(b)
    /\ Clear
    /\ IF Acceptable(Extended(b))
       THEN returned' = "OK" /\ written' = {Extended(b)}
       ELSE returned' = "INVALID_ENCODING" /\ written' = {}
    /\ taken' = Append(taken, b)

Feed(b) ==
    \/ FeedAscii(b)
    \/ Lead(b)
    \/ BadLead(b)
    \/ Breaks(b)
    \/ Continue(b)
    \/ Complete(b)

DecoderNext == \E b \in Byte : Feed(b)

DecoderSpec == DecoderInit /\ [][DecoderNext]_decoder_vars

-----------------------------------------------------------------------------
MaxPartial == 32767    \* three bytes of a four-byte character

(* Type correctness; the bound on codepoint says that no shift loses a bit  *)
(* of the 32-bit register.                                                  *)
DecoderTypeOK ==
    /\ codepoint \in 0 .. MaxPartial
    /\ bytes_needed \in 0 .. 3
    /\ bytes_seen \in 0 .. 3
    /\ min_codepoint \in {0, 128, 2048, 65536}
    /\ returned \in {"NONE", "OK", "INCOMPLETE", "INVALID_ENCODING"}
    /\ written \subseteq 0 .. MaxCodePoint
    /\ taken \in Seq(Byte) /\ Len(taken) <= 4

(* The streaming decoder and EDC_UTF8_DecodeChar (edc_unicode.c:22-101),    *)
(* which test for bad characters in different places and ways, accept the   *)
(* same byte strings with the same code points.                             *)
AgreesWithDecodeChar ==
    /\ DecodeChar(taken).status = "OK" <=> returned = "OK"
    /\ returned = "OK" => /\ written = {DecodeChar(taken).cp}
                        /\ DecodeChar(taken).used = Len(taken)

(* A code point handed out is a Unicode scalar value and the bytes it was   *)
(* read from are the ones EDC_UTF8_EncodeChar writes for it: no overlong    *)
(* form, no surrogate, nothing above U+10FFFF gets through.                 *)
OnlyShortestForms ==
    \A cp \in written : IsValidCodePoint(cp) /\ EncodeChar(cp) = taken

(* An error is never reported early: no continuation of the rejected bytes  *)
(* would have been a character.                                             *)
RejectsOnlyHopeless ==
    returned = "INVALID_ENCODING" =>
        \A n \in 0 .. 3 : \A rest \in [1 .. n -> {b \in Byte : IsContinuation(b)}] :
            DecodeChar(taken \o rest).status # "OK"
=============================================================================
