--------------------------- MODULE StreamParserProofs ---------------------------
(***************************************************************************)
(* Proofs about the streaming parser, for every byte alphabet, every set   *)
(* of buffer sizes and every bound on the history; then about the UART     *)
(* link that feeds it, for every message that fits and any number of       *)
(* faults.                                                                 *)
(***************************************************************************)
EXTENDS StreamParserHistory, UartLink, SequenceTheorems, TLAPS

(* The longest frame a buffer can hold.                                     *)
MaxFrame == IF Marked /\ capacity = 1 THEN 1 ELSE capacity - 1

(* length and in_frame agree: a marked frame in progress holds its start    *)
(* marker, and without a marker the parser is always in a frame.            *)
LengthOK ==
    /\ ~Marked => in_frame
    /\ ~in_frame => length = 0
    /\ Marked /\ in_frame => length >= 1
    /\ length <= MaxFrame
    /\ out_frame_len <= MaxFrame

(* The bytes collected are the last bytes of the stream.                    *)
Mirror ==
    /\ length <= Len(stream)
    /\ \A k \in 0 .. length - 1 :
           buffer[k] = stream[Len(stream) - length + k + 1]

IInv ==
    /\ TypeOK
    /\ stream \in Seq(Byte)
    /\ LengthOK
    /\ Mirror
    /\ Terminated
    /\ DeliveredIsSuffix

-----------------------------------------------------------------------------
LEMMA InitIInv == HInit => IInv
  <1> SUFFICES ASSUME HInit PROVE IInv
    OBVIOUS
  <1> USE DEF HInit, Init, Marked, MaxFrame
  <1>1. TypeOK
    BY NULAssumption, CapacityAssumption DEF TypeOK, Status
  <1>2. stream \in Seq(Byte) /\ Len(stream) = 0
    OBVIOUS
  <1>3. LengthOK
    <2>1. capacity \in Nat \ {0}
      BY CapacityAssumption
    <2>2. in_frame <=> ~Marked
      OBVIOUS
    <2> QED
      BY <2>1, <2>2 DEF LengthOK
  <1>4. Mirror
    BY <1>2 DEF Mirror
  <1>5. Terminated /\ DeliveredIsSuffix
    BY DEF Terminated, DeliveredIsSuffix
  <1> QED
    BY <1>1, <1>2, <1>3, <1>4, <1>5 DEF IInv

LEMMA FeedTypeOK ==
  ASSUME IInv, NEW c \in Byte, Feed(c)
  PROVE  TypeOK' /\ LengthOK'
  <1>0. capacity \in Nat \ {0} /\ UNCHANGED config
    BY CapacityAssumption
       DEF IInv, TypeOK, Feed, Discard, Open, Resync, Deliver, Accumulate,
           Overflow, parser, config
  <1> USE <1>0 DEF IInv, TypeOK, LengthOK, MaxFrame, Marked, config, parser, Status
  <1>1. CASE Discard(c)
    BY <1>1 DEF Discard
  <1>2. CASE Open(c)
    BY <1>2 DEF Open, Restart, Store, IsStart
  <1>3. CASE Resync(c)
    BY <1>3 DEF Resync, Resyncs, Restart, Store, IsStart
  <1>4. CASE Deliver(c)
    BY <1>4, NULAssumption DEF Deliver, TerminatorFits, Store, Rearm
  <1>5. CASE Accumulate(c)
    BY <1>5 DEF Accumulate, HasRoom, Store
  <1>6. CASE Overflow(c)
    BY <1>6 DEF Overflow, Rearm
  <1> QED
    BY <1>1, <1>2, <1>3, <1>4, <1>5, <1>6 DEF Feed

LEMMA FeedHistory ==
  ASSUME IInv, NEW c \in Byte, HFeed(c)
  PROVE  stream' \in Seq(Byte) /\ Mirror' /\ Terminated' /\ DeliveredIsSuffix'
  <1>0. /\ capacity \in Nat \ {0} /\ UNCHANGED config
        /\ length \in Nat /\ length <= Len(stream) /\ Len(stream) \in Nat
    BY CapacityAssumption
       DEF IInv, TypeOK, Mirror, HFeed, Feed, Discard, Open, Resync, Deliver,
           Accumulate, Overflow, parser, config
  <1>1. /\ stream' = Append(stream, c)
        /\ stream' \in Seq(Byte)
        /\ Len(stream') = Len(stream) + 1
        /\ \A i \in 1 .. Len(stream) : stream'[i] = stream[i]
        /\ stream'[Len(stream) + 1] = c
    BY DEF HFeed, IInv
  <1>2. CASE Deliver(c)
    <2>1. /\ status' = "OK" /\ out_frame_len' = length /\ length' = 0
          /\ c = end_byte /\ end_byte' = end_byte
          /\ \A k \in 0 .. length - 1 : buffer'[k] = buffer[k]
      BY <1>0, <1>2 DEF Deliver, Rearm, Store, IInv, TypeOK, config
    <2>2. Mirror'
      BY <1>0, <1>1, <2>1 DEF Mirror
    <2>3. Terminated'
      <3> SUFFICES ASSUME capacity > 1 \/ ~Marked
                   PROVE  length < capacity /\ buffer'[length] = NUL
        BY <1>0, <2>1 DEF Terminated, Marked, config
      <3>1. length < capacity
        BY <1>0 DEF IInv, LengthOK, MaxFrame
      <3> QED
        BY <1>0, <1>2, <3>1 DEF Deliver, TerminatorFits, Store, IInv, TypeOK
    <2>4. DeliveredIsSuffix'
      <3>1. out_frame_len' < Len(stream') /\ stream'[Len(stream')] = end_byte'
        BY <1>0, <1>1, <2>1
      <3>2. ASSUME NEW k \in 0 .. length - 1
            PROVE  buffer'[k] = stream'[Len(stream') - length + k]
        <4>1. buffer'[k] = stream[Len(stream) - length + k + 1]
          BY <2>1 DEF IInv, Mirror
        <4>2. Len(stream) - length + k + 1 \in 1 .. Len(stream)
          BY <1>0
        <4>3. Len(stream') - length + k = Len(stream) - length + k + 1
          BY <1>0, <1>1
        <4> QED
          BY <1>1, <4>1, <4>2, <4>3
      <3> QED
        BY <2>1, <3>1, <3>2 DEF DeliveredIsSuffix
    <2> QED
      BY <1>1, <2>2, <2>3, <2>4
  <1>3. CASE Open(c) \/ Resync(c)
    <2>1. length' = 1 /\ buffer'[0] = c /\ status' # "OK"
      BY <1>0, <1>3 DEF Open, Resync, Restart, Store, IInv, TypeOK
    <2> QED
      BY <1>0, <1>1, <2>1 DEF Mirror, Terminated, DeliveredIsSuffix
  <1>4. CASE Accumulate(c)
    <2>1. /\ length' = length + 1 /\ buffer'[length] = c /\ status' # "OK"
          /\ \A k \in 0 .. length - 1 : buffer'[k] = buffer[k]
      BY <1>0, <1>4 DEF Accumulate, HasRoom, Store, IInv, TypeOK
    <2>2. \A k \in 0 .. length' - 1 :
              buffer'[k] = stream'[Len(stream') - length' + k + 1]
      <3> SUFFICES ASSUME NEW k \in 0 .. length' - 1
                   PROVE  buffer'[k] = stream'[Len(stream') - length' + k + 1]
        OBVIOUS
      <3>0. /\ k \in 0 .. length
            /\ Len(stream') - length' + k + 1 = Len(stream) - length + k + 1
        BY <1>0, <1>1, <2>1
      <3>1. CASE k = length
        <4>1. Len(stream) - length + k + 1 = Len(stream) + 1
          BY <1>0, <3>1
        <4> QED
          BY <1>1, <2>1, <3>0, <3>1, <4>1
      <3>2. CASE k # length
        <4>1. k \in 0 .. length - 1 /\ Len(stream) - length + k + 1 \in 1 .. Len(stream)
          BY <1>0, <3>0, <3>2
        <4> QED
          BY <1>1, <2>1, <3>0, <4>1 DEF IInv, Mirror
      <3> QED
        BY <3>1, <3>2
    <2>3. length' <= Len(stream')
      BY <1>0, <1>1, <2>1
    <2>4. Terminated' /\ DeliveredIsSuffix'
      BY <2>1 DEF Terminated, DeliveredIsSuffix
    <2> QED
      BY <1>1, <2>2, <2>3, <2>4 DEF Mirror
  <1>5. CASE Discard(c) \/ Overflow(c)
    <2>1. length' = 0 /\ status' # "OK"
      BY <1>5 DEF Discard, Overflow, Rearm, parser, IInv, LengthOK
    <2> QED
      BY <1>0, <1>1, <2>1 DEF Mirror, Terminated, DeliveredIsSuffix
  <1> QED
    BY <1>2, <1>3, <1>4, <1>5 DEF HFeed, Feed

LEMMA ResetIInv == IInv /\ HReset => IInv'
  <1> SUFFICES ASSUME IInv, HReset PROVE IInv'
    OBVIOUS
  <1> USE DEF IInv, HReset, Reset, Rearm, config
  <1>1. capacity \in Nat \ {0} /\ UNCHANGED config
    BY CapacityAssumption DEF TypeOK
  <1>2. TypeOK'
    BY <1>1, NULAssumption DEF TypeOK, Store, Status, Marked
  <1>3. stream' \in Seq(Byte) /\ Len(stream') = 0
    OBVIOUS
  <1>4. LengthOK'
    <2>1. (in_frame <=> ~Marked)' /\ (Marked <=> Marked')
      BY DEF Marked
    <2>2. out_frame_len' = out_frame_len /\ length' = 0
      OBVIOUS
    <2>3. (length <= MaxFrame)' /\ (out_frame_len <= MaxFrame)'
      BY <1>1, <2>1, <2>2 DEF LengthOK, MaxFrame
    <2> QED
      BY <2>1, <2>2, <2>3 DEF LengthOK
  <1>5. Mirror' /\ Terminated' /\ DeliveredIsSuffix'
    BY <1>3 DEF Mirror, Terminated, DeliveredIsSuffix
  <1> QED
    BY <1>2, <1>3, <1>4, <1>5

LEMMA NextIInv == IInv /\ [HNext]_hvars => IInv'
  <1> SUFFICES ASSUME IInv, [HNext]_hvars PROVE IInv'
    OBVIOUS
  <1>1. CASE HReset
    BY <1>1, ResetIInv
  <1>2. ASSUME NEW c \in Byte, HFeed(c) PROVE IInv'
    BY <1>2, FeedTypeOK, FeedHistory DEF IInv, HFeed
  <1>3. CASE UNCHANGED hvars
    BY <1>3 DEF hvars, vars, parser, IInv, TypeOK, LengthOK, MaxFrame, Marked,
                Mirror, Terminated, DeliveredIsSuffix
  <1> QED
    BY <1>1, <1>2, <1>3 DEF HNext

THEOREM Invariance == HSpec => []IInv
  BY InitIInv, NextIInv, PTL DEF HSpec
(* Every write of the parser stays inside the caller's buffer.              *)
THEOREM TypeCorrect == HSpec => []TypeOK
  BY Invariance, PTL DEF IInv

(* A frame handed out is the bytes received just before the end marker, and *)
(* NUL-terminated, but for the one-byte buffer.                             *)
THEOREM FramesIntact == HSpec => []FrameIntact
  <1>1. IInv => FrameIntact
    BY DEF IInv, FrameIntact
  <1> QED
    BY <1>1, Invariance, PTL

-----------------------------------------------------------------------------
(* Arithmetic of the remainder: collecting modulo the capacity.             *)
LEMMA DivMod ==
  ASSUME NEW n \in Nat, NEW m \in Nat \ {0}
  PROVE  n = (m * (n \div m)) + (n % m)
  OBVIOUS

LEMMA RemainderUnique ==
  ASSUME NEW m \in Nat \ {0}, NEW q \in Int, NEW p \in Int,
         NEW r \in 0 .. m - 1, NEW t \in 0 .. m - 1,
         m * q + r = m * p + t
  PROVE  r = t
  <1>1. m * (q - p) = t - r
    OBVIOUS
  <1>2. CASE q - p >= 1
    <2>1. m * (q - p) >= m
      BY <1>2
    <2> QED
      BY <1>1, <2>1
  <1>3. CASE q - p <= -1
    <2>1. m * (q - p) <= -m
      BY <1>3
    <2> QED
      BY <1>1, <2>1
  <1>4. q = p
    BY <1>2, <1>3
  <1> QED
    BY <1>1, <1>4

LEMMA RemainderSucc ==
  ASSUME NEW n \in Nat, NEW m \in Nat \ {0}
  PROVE  /\ n % m \in 0 .. m - 1
         /\ (n + 1) % m = IF (n % m) + 1 = m THEN 0 ELSE (n % m) + 1
  <1> DEFINE q == n \div m
             r == n % m
             p == (n + 1) \div m
             t == (n + 1) % m
  <1>1. q \in Int /\ p \in Int /\ r \in 0 .. m - 1 /\ t \in 0 .. m - 1
    OBVIOUS
  <1>2. n = m * q + r /\ n + 1 = m * p + t
    BY n + 1 \in Nat, DivMod
  <1> HIDE DEF q, r, p, t
  <1>3. CASE r + 1 = m
    <2>1. m * (q + 1) + 0 = m * p + t
      BY <1>1, <1>2, <1>3
    <2> QED
      BY <1>1, <1>3, <2>1, RemainderUnique DEF t, r
  <1>4. CASE r + 1 # m
    <2>1. m * q + (r + 1) = m * p + t /\ r + 1 \in 0 .. m - 1
      BY <1>1, <1>2, <1>4
    <2>2. t = r + 1
      BY <1>1, <2>1, RemainderUnique
    <2> QED
      BY <1>1, <1>4, <2>2 DEF t, r
  <1> QED
    BY <1>3, <1>4

-----------------------------------------------------------------------------
(* How one more byte changes what the abstract framer sees of a stream.     *)
LEMMA OpenUnique ==
  ASSUME NEW s \in Seq(Byte),
         NEW j \in Framer!OpenAt(s), NEW k \in Framer!OpenAt(s)
  PROVE  j = k
  BY DEF Framer!OpenAt

LEMMA OpenAppend ==
  ASSUME NEW s \in Seq(Byte), NEW c \in Byte
  PROVE  Framer!OpenAt(Append(s, c)) =
             IF c = start_byte THEN {Len(s) + 1}
             ELSE IF c = end_byte THEN {} ELSE Framer!OpenAt(s)
  <1> DEFINE t == Append(s, c)
  <1>1. /\ Len(t) = Len(s) + 1
        /\ t[Len(s) + 1] = c
        /\ \A i \in 1 .. Len(s) : t[i] = s[i]
        /\ Len(s) \in Nat
    OBVIOUS
  <1> HIDE DEF t
  <1>2. CASE c = start_byte
    BY <1>1, <1>2 DEF Framer!OpenAt, t
  <1>3. CASE c # start_byte /\ c = end_byte
    BY <1>1, <1>3 DEF Framer!OpenAt, t
  <1>4. CASE c # start_byte /\ c # end_byte
    BY <1>1, <1>4 DEF Framer!OpenAt, t
  <1> QED
    BY <1>2, <1>3, <1>4 DEF t

(* r bytes have come since the last end marker.                             *)
IsRun(s, r) ==
    /\ r \in 0 .. Len(s)
    /\ \A k \in Len(s) - r + 1 .. Len(s) : s[k] # end_byte
    /\ r < Len(s) => s[Len(s) - r] = end_byte

LEMMA RunLengthIs ==
  ASSUME NEW s \in Seq(Byte), NEW r, IsRun(s, r)
  PROVE  Framer!RunLength(s) = r
  <1>1. \A t : IsRun(s, t) => t = r
    <2> SUFFICES ASSUME NEW t, IsRun(s, t), t # r PROVE FALSE
      OBVIOUS
    <2>1. Len(s) \in Nat /\ r \in 0 .. Len(s) /\ t \in 0 .. Len(s)
      BY DEF IsRun
    <2>2. CASE t < r
      <3>1. s[Len(s) - t] = end_byte /\ Len(s) - t \in Len(s) - r + 1 .. Len(s)
        BY <2>1, <2>2 DEF IsRun
      <3> QED
        BY <3>1 DEF IsRun
    <2>3. CASE r < t
      <3>1. s[Len(s) - r] = end_byte /\ Len(s) - r \in Len(s) - t + 1 .. Len(s)
        BY <2>1, <2>3 DEF IsRun
      <3> QED
        BY <3>1 DEF IsRun
    <2> QED
      BY <2>1, <2>2, <2>3
  <1>2. Framer!RunLength(s) = CHOOSE t \in 0 .. Len(s) : IsRun(s, t)
    BY DEF Framer!RunLength, IsRun
  <1>3. r \in 0 .. Len(s)
    BY DEF IsRun
  <1> QED
    BY <1>1, <1>2, <1>3

LEMMA RunEmpty ==
  ASSUME NEW s \in Seq(Byte), Len(s) = 0
  PROVE  IsRun(s, 0)
  BY DEF IsRun

LEMMA RunAppend ==
  ASSUME NEW s \in Seq(Byte), NEW c \in Byte, NEW r, IsRun(s, r)
  PROVE  IsRun(Append(s, c), IF c = end_byte THEN 0 ELSE r + 1)
  <1> DEFINE t == Append(s, c)
  <1>1. /\ Len(t) = Len(s) + 1
        /\ t[Len(s) + 1] = c
        /\ \A i \in 1 .. Len(s) : t[i] = s[i]
        /\ Len(s) \in Nat
        /\ r \in 0 .. Len(s)
    BY DEF IsRun
  <1> HIDE DEF t
  <1>2. CASE c = end_byte
    BY <1>1, <1>2 DEF IsRun, t
  <1>3. CASE c # end_byte
    <2>1. \A k \in Len(t) - (r + 1) + 1 .. Len(t) : t[k] # end_byte
      BY <1>1, <1>3 DEF IsRun
    <2>2. r + 1 < Len(t) => t[Len(t) - (r + 1)] = end_byte
      <3>1. Len(t) - (r + 1) = Len(s) - r
        BY <1>1
      <3> QED
        BY <1>1, <3>1 DEF IsRun
    <2> QED
      BY <1>1, <1>3, <2>1, <2>2 DEF IsRun, t
  <1> QED
    BY <1>2, <1>3
-----------------------------------------------------------------------------
(* The parser's state against the abstract framer's view of the stream.     *)
FrameInv ==
    /\ Marked /\ in_frame =>
           Len(stream) - length + 1 \in Framer!OpenAt(stream)
    /\ Marked /\ ~in_frame =>
           \A j \in Framer!OpenAt(stream) :
               Len(stream) - j + 1 > Framer!Longest
    /\ IsRun(stream, Framer!RunLength(stream))
    /\ ~Marked => length = Framer!RunLength(stream) % capacity

LEMMA ConfigFacts ==
  ASSUME IInv
  PROVE  /\ capacity \in Nat \ {0}
         /\ length \in Nat /\ Len(stream) \in Nat /\ length <= Len(stream)
         /\ length <= Framer!Longest \/ ~Marked
         /\ length < capacity \/ Marked
         /\ stream \in Seq(Byte)
         /\ start_byte \in Byte /\ end_byte \in Byte
  BY CapacityAssumption
     DEF IInv, TypeOK, LengthOK, MaxFrame, Mirror, Framer!Longest

(* The frame in the buffer is the matching piece of the stream.             *)
LEMMA DeliveredIsSubSeq ==
  ASSUME IInv, NEW c \in Byte, HFeed(c), Deliver(c)
  PROVE  Delivered' = SubSeq(stream, Len(stream) - length + 1, Len(stream))
  <1> DEFINE s == SubSeq(stream, Len(stream) - length + 1, Len(stream))
  <1>0. /\ length \in Nat /\ Len(stream) \in Nat /\ length <= Len(stream)
        /\ stream \in Seq(Byte) /\ capacity \in Nat \ {0}
    BY ConfigFacts
  <1>1. /\ out_frame_len' = length
        /\ \A k \in 0 .. length - 1 : buffer'[k] = buffer[k]
    BY <1>0 DEF Deliver, Store, IInv, TypeOK
  <1>2. \A k \in 0 .. length - 1 :
            buffer[k] = stream[Len(stream) - length + k + 1]
    BY DEF IInv, Mirror
  <1>3. s = [i \in 1 .. length |-> stream[Len(stream) - length + i]]
    <2> DEFINE m == Len(stream) - length + 1
    <2>1. m \in Int /\ Len(stream) - m + 1 = length
      BY <1>0
    <2>2. \A i \in m .. Len(stream) : stream[i] \in Byte
      BY <1>0
    <2>3. /\ s \in Seq(Byte) /\ Len(s) = length
          /\ \A i \in 1 .. length : s[i] = stream[m + i - 1]
      <3> HIDE DEF m
      <3>1. /\ SubSeq(stream, m, Len(stream)) \in Seq(Byte)
            /\ Len(SubSeq(stream, m, Len(stream))) = length
            /\ \A i \in 1 .. length :
                   SubSeq(stream, m, Len(stream))[i] = stream[m + i - 1]
        BY <1>0, <2>1, <2>2, SubSeqProperties
      <3> QED
        BY <3>1 DEF m
    <2>4. \A i \in 1 .. length : m + i - 1 = Len(stream) - length + i
      BY <1>0
    <2> HIDE DEF s, m
    <2> QED
      BY <2>3, <2>4
  <1>4. \A i \in 1 .. length : buffer'[i - 1] = stream[Len(stream) - length + i]
    <2> SUFFICES ASSUME NEW i \in 1 .. length
                 PROVE  buffer'[i - 1] = stream[Len(stream) - length + i]
      OBVIOUS
    <2>1. i - 1 \in 0 .. length - 1
      BY <1>0
    <2>2. Len(stream) - length + (i - 1) + 1 = Len(stream) - length + i
      BY <1>0
    <2>3. buffer'[i - 1] = stream[Len(stream) - length + (i - 1) + 1]
      BY <1>1, <1>2, <2>1
    <2> QED
      BY <2>2, <2>3
  <1> QED
    BY <1>1, <1>3, <1>4 DEF Delivered
LEMMA InitFrameInv == HInit => FrameInv /\ Framer!Init
  <1> SUFFICES ASSUME HInit PROVE FrameInv /\ Framer!Init
    OBVIOUS
  <1>1. /\ stream = << >> /\ stream \in Seq(Byte) /\ Len(stream) = 0
        /\ length = 0 /\ capacity \in Nat \ {0} /\ status = "NONE"
    BY CapacityAssumption DEF HInit, Init
  <1>. in_frame <=> ~Marked
    BY DEF HInit, Init, Marked
  <1>2. Framer!OpenAt(stream) = {}
    BY <1>1 DEF Framer!OpenAt
  <1>3. IsRun(stream, 0)
    BY <1>1 DEF IsRun
  <1>4. Framer!RunLength(stream) = 0
    BY <1>1, <1>3, RunLengthIs
  <1>5. 0 % capacity = 0
    BY <1>1
  <1>6. FrameInv
    BY <1>1, <1>2, <1>3, <1>4, <1>5 DEF FrameInv
  <1>7. Framer!Init
    BY <1>1 DEF HInit, Init, Framer!Init
  <1> QED
    BY <1>6, <1>7

LEMMA ResetStep ==
  ASSUME IInv, HReset
  PROVE  FrameInv' /\ Framer!Forget
  <1>1. /\ stream' = << >> /\ stream' \in Seq(Byte) /\ Len(stream') = 0
        /\ length' = 0 /\ capacity \in Nat \ {0} /\ status' = "NONE"
        /\ UNCHANGED <<capacity, start_byte, end_byte>>
    BY ConfigFacts DEF HReset, Reset, Rearm, config
  <1>. (in_frame <=> ~Marked)'
    BY DEF HReset, Reset, Rearm, Marked, config
  <1>2. Framer!OpenAt(stream)' = {}
    BY <1>1 DEF Framer!OpenAt
  <1>3. IsRun(stream', 0)
    BY <1>1, RunEmpty
  <1>4. Framer!RunLength(stream)' = 0 /\ IsRun(stream, 0)'
    <2>1. Framer!RunLength(stream') = 0
      BY <1>1, <1>3, RunLengthIs
    <2> QED
      BY <1>1, <1>3, <2>1 DEF Framer!RunLength, IsRun
  <1>5. 0 % capacity = 0
    BY <1>1
  <1>6. FrameInv'
    BY <1>1, <1>2, <1>4, <1>5 DEF FrameInv
  <1>7. Framer!Forget
    BY <1>1 DEF Framer!Forget
  <1> QED
    BY <1>6, <1>7
LEMMA FeedStep ==
  ASSUME IInv, FrameInv, NEW c \in Byte, HFeed(c)
  PROVE  FrameInv' /\ Framer!Receive(c)
  <1> DEFINE r == Framer!RunLength(stream)
  <1>0. /\ capacity \in Nat \ {0} /\ UNCHANGED <<capacity, start_byte, end_byte>>
        /\ length \in Nat /\ Len(stream) \in Nat /\ length <= Len(stream)
        /\ length <= Framer!Longest \/ ~Marked
        /\ length < capacity \/ Marked
        /\ stream \in Seq(Byte) /\ start_byte \in Byte /\ end_byte \in Byte
    BY ConfigFacts
       DEF HFeed, Feed, Discard, Open, Resync, Deliver, Accumulate, Overflow,
           parser, config
  <1>1. /\ stream' = Append(stream, c) /\ Len(stream') = Len(stream) + 1
        /\ Len(stream) < MaxStream
        /\ Marked <=> Marked'
    BY <1>0 DEF HFeed, Marked
  <1>2. Framer!OpenAt(stream)' = IF c = start_byte THEN {Len(stream) + 1}
                                 ELSE IF c = end_byte THEN {}
                                 ELSE Framer!OpenAt(stream)
    <2>1. Framer!OpenAt(stream)' = Framer!OpenAt(stream')
      BY <1>0 DEF Framer!OpenAt
    <2> QED
      BY <1>0, <1>1, <2>1, OpenAppend
  <1>3. /\ IsRun(stream, Framer!RunLength(stream))'
        /\ Framer!RunLength(stream)' = IF c = end_byte THEN 0 ELSE r + 1
    <2> DEFINE q == IF c = end_byte THEN 0 ELSE r + 1
    <2>1. IsRun(stream', q)
      BY <1>0, <1>1, RunAppend DEF FrameInv
    <2>2. stream' \in Seq(Byte)
      BY <1>0, <1>1
    <2> HIDE DEF q
    <2>3. Framer!RunLength(stream') = q
      BY <2>1, <2>2, RunLengthIs
    <2>4. Framer!RunLength(stream)' = q
      BY <1>0, <2>3 DEF Framer!RunLength
    <2> QED
      BY <2>4, <2>1, <1>0 DEF q, IsRun
  <1>4. Framer!Longest' = Framer!Longest /\ Framer!Longest \in Nat
    BY <1>0 DEF Framer!Longest
  <1> DEFINE O == Framer!OpenAt(stream)
             L == Framer!Longest
             F == (IF status = "OK" THEN {Delivered} ELSE {})'
             B == status' = "BUFFER_TOO_SMALL"
  <1>5. SUFFICES FrameInv' /\ F = Framer!Completed(stream, c)
                           /\ B = Framer!Overflows(stream, c)
    BY <1>0, <1>1 DEF Framer!Receive
  <1>6. B \in BOOLEAN /\ Framer!Overflows(stream, c) \in BOOLEAN
    BY DEF Framer!Overflows
  <1>7. \A i, j \in O : i = j
    BY <1>0, OpenUnique
  <1>8. O \subseteq 1 .. Len(stream)
    BY DEF Framer!OpenAt
  <1> HIDE DEF O, L, F, B, r
  <1>9. CASE Marked
    <2>0. /\ start_byte # NUL
          /\ (Marked /\ in_frame) => Len(stream) - length + 1 \in O /\ length >= 1
          /\ ~in_frame => \A j \in O : Len(stream) - j + 1 > L
          /\ L \in Nat
          /\ L = IF capacity = 1 THEN 1 ELSE capacity - 1
      BY <1>4, <1>9 DEF FrameInv, IInv, LengthOK, Marked, O, L, Framer!Longest
    <2>1. CASE Discard(c)
      <3>1. /\ c # start_byte /\ ~in_frame /\ ~in_frame' /\ status' = "INCOMPLETE"
        BY <1>9, <2>1 DEF Discard, IsStart, parser
      <3>2. Framer!Completed(stream, c) = {}
        BY <2>0, <3>1, <1>8, <1>0 DEF Framer!Completed, O, L
      <3>3. ~Framer!Overflows(stream, c)
        BY <2>0, <3>1, <1>8, <1>0 DEF Framer!Overflows, O, L
      <3>4. \A j \in Framer!OpenAt(stream)' : Len(stream') - j + 1 > L
        BY <2>0, <3>1, <1>0, <1>1, <1>2, <1>8 DEF O
      <3>5. FrameInv'
        BY <1>9, <1>1, <1>3, <1>4, <3>1, <3>4 DEF FrameInv, L
      <3> QED
        BY <3>1, <3>2, <3>3, <3>5, <1>6 DEF F, B
    <2>2. CASE Open(c) \/ Resync(c)
      <3>1. /\ c = start_byte /\ in_frame' /\ length' = 1 /\ status' = "INCOMPLETE"
        BY <2>2 DEF Open, Resync, Resyncs, IsStart, Restart
      <3>2. Framer!Completed(stream, c) = {} /\ ~Framer!Overflows(stream, c)
        BY <2>0, <3>1 DEF Framer!Completed, Framer!Overflows
      <3>3. FrameInv'
        BY <1>9, <1>0, <1>1, <1>2, <1>3, <3>1 DEF FrameInv
      <3> QED
        BY <3>1, <3>2, <3>3, <1>6 DEF F, B
    <2>3. CASE Deliver(c)
      <3>1. /\ c = end_byte /\ c # start_byte /\ in_frame
            /\ ~in_frame' /\ status' = "OK" /\ Len(stream) - length + 1 \in O
        <4>1. ~in_frame'
          BY <1>9, <2>3 DEF Deliver, Rearm
        <4> QED
          BY <1>9, <2>0, <2>3, <1>0, <4>1 DEF Deliver, Resyncs, IsStart
      <3>2. length <= L
        BY <1>0, <1>9 DEF L
      <3>3. Framer!Completed(stream, c) =
                {SubSeq(stream, Len(stream) - length + 1, Len(stream))}
        <4>1. {i \in O : Len(stream) - i + 1 <= L} = {Len(stream) - length + 1}
          BY <1>0, <1>7, <3>1, <3>2
        <4>2. Framer!Completed(stream, c) =
                {SubSeq(stream, j, Len(stream)) :
                    j \in {i \in O : Len(stream) - i + 1 <= L}}
          BY <2>0, <3>1 DEF Framer!Completed, O, L
        <4> QED
          BY <4>1, <4>2
      <3>4. ~Framer!Overflows(stream, c)
        BY <3>1 DEF Framer!Overflows
      <3>5. FrameInv'
        BY <1>9, <1>1, <1>2, <1>3, <3>1 DEF FrameInv
      <3> QED
        BY <2>3, <3>1, <3>3, <3>4, <3>5, <1>6, DeliveredIsSubSeq DEF F, B
    <2>4. CASE Accumulate(c)
      <3>1. /\ c # end_byte /\ c # start_byte /\ in_frame /\ in_frame'
            /\ status' = "INCOMPLETE" /\ length' = length + 1
            /\ length + 1 < capacity /\ Len(stream) - length + 1 \in O
        BY <1>9, <2>0, <2>4, <1>0 DEF Accumulate, HasRoom, Resyncs, IsStart, config
      <3>2. Framer!Completed(stream, c) = {}
        BY <3>1 DEF Framer!Completed
      <3>3. ~Framer!Overflows(stream, c)
        <4>1. \A j \in O : Len(stream) - j + 1 = length
          BY <1>0, <1>7, <3>1
        <4>2. length < L
          BY <1>0, <2>0, <3>1
        <4> QED
          BY <2>0, <4>1, <4>2 DEF Framer!Overflows, O, L
      <3>4. Len(stream') - length' + 1 \in Framer!OpenAt(stream)'
        BY <1>0, <1>1, <1>2, <3>1 DEF O
      <3>5. FrameInv'
        BY <1>9, <1>1, <1>3, <3>1, <3>4 DEF FrameInv
      <3> QED
        BY <3>1, <3>2, <3>3, <3>5, <1>6 DEF F, B
    <2>5. CASE Overflow(c)
      <3>1. /\ c # end_byte /\ c # start_byte /\ in_frame /\ ~in_frame'
            /\ status' = "BUFFER_TOO_SMALL"
            /\ ~(length + 1 < capacity) /\ Len(stream) - length + 1 \in O
        <4>1. ~in_frame'
          BY <1>9, <2>5 DEF Overflow, Rearm
        <4> QED
          BY <1>9, <2>0, <2>5, <1>0, <4>1 DEF Overflow, HasRoom, Resyncs, IsStart
      <3>2. length = L
        BY <1>0, <1>9, <2>0, <3>1 DEF L
      <3>3. Framer!Completed(stream, c) = {}
        BY <3>1 DEF Framer!Completed
      <3>4. Framer!Overflows(stream, c)
        <4>1. Len(stream) - (Len(stream) - length + 1) + 1 = L
          BY <1>0, <3>2
        <4> QED
          BY <2>0, <3>1, <4>1 DEF Framer!Overflows, O, L
      <3>5. \A j \in Framer!OpenAt(stream)' : Len(stream') - j + 1 > L
        BY <1>0, <1>1, <1>2, <1>7, <1>8, <3>1, <3>2 DEF O
      <3>6. FrameInv'
        BY <1>9, <1>1, <1>3, <1>4, <3>1, <3>5 DEF FrameInv, L
      <3> QED
        BY <3>1, <3>3, <3>4, <3>6, <1>6 DEF F, B
    <2> QED
      BY <2>1, <2>2, <2>3, <2>4, <2>5 DEF HFeed, Feed
  <1>10. CASE ~Marked
    <2>0. /\ start_byte = NUL /\ in_frame /\ length = r % capacity
          /\ r \in Nat /\ length < capacity
          /\ (r + 1) % capacity = IF length + 1 = capacity THEN 0 ELSE length + 1
          /\ 0 % capacity = 0
      <3>1. /\ start_byte = NUL /\ in_frame /\ length = r % capacity
            /\ r \in Nat /\ length < capacity
        BY <1>0, <1>10 DEF FrameInv, IInv, LengthOK, Marked, IsRun, r
      <3>2. (r + 1) % capacity = IF (r % capacity) + 1 = capacity
                                 THEN 0 ELSE (r % capacity) + 1
        BY <1>0, <3>1, RemainderSucc
      <3>3. 0 % capacity = 0
        BY <1>0
      <3> QED
        BY <3>1, <3>2, <3>3
    <2>1. ~Discard(c) /\ ~Open(c) /\ ~Resync(c)
      BY <1>10, <2>0 DEF Discard, Open, Resync, Resyncs, IsStart
    <2>2. CASE Deliver(c)
      <3>1. c = end_byte /\ length' = 0 /\ status' = "OK"
        BY <2>2 DEF Deliver, Rearm
      <3>2. Framer!Completed(stream, c) =
                {SubSeq(stream, Len(stream) - length + 1, Len(stream))}
        BY <2>0, <3>1 DEF Framer!Completed, r
      <3>3. ~Framer!Overflows(stream, c)
        BY <3>1 DEF Framer!Overflows
      <3>4. FrameInv'
        BY <1>0, <1>1, <1>3, <1>10, <2>0, <3>1 DEF FrameInv
      <3> QED
        BY <2>2, <3>1, <3>2, <3>3, <3>4, <1>6, DeliveredIsSubSeq DEF F, B
    <2>3. CASE Accumulate(c)
      <3>1. /\ c # end_byte /\ status' = "INCOMPLETE" /\ length' = length + 1
            /\ length + 1 < capacity
        BY <2>3 DEF Accumulate, HasRoom
      <3>2. Framer!Completed(stream, c) = {}
        BY <3>1 DEF Framer!Completed
      <3>3. ~Framer!Overflows(stream, c)
        BY <1>0, <2>0, <3>1 DEF Framer!Overflows, r
      <3>4. FrameInv'
        BY <1>0, <1>1, <1>3, <1>10, <2>0, <3>1 DEF FrameInv
      <3> QED
        BY <3>1, <3>2, <3>3, <3>4, <1>6 DEF F, B
    <2>4. CASE Overflow(c)
      <3>1. /\ c # end_byte /\ status' = "BUFFER_TOO_SMALL" /\ length' = 0
            /\ length + 1 = capacity
        BY <1>0, <2>0, <2>4 DEF Overflow, HasRoom, Rearm
      <3>2. Framer!Completed(stream, c) = {}
        BY <3>1 DEF Framer!Completed
      <3>3. Framer!Overflows(stream, c)
        BY <2>0, <3>1 DEF Framer!Overflows, r
      <3>4. FrameInv'
        BY <1>0, <1>1, <1>3, <1>10, <2>0, <3>1 DEF FrameInv
      <3> QED
        BY <3>1, <3>2, <3>3, <3>4, <1>6 DEF F, B
    <2> QED
      BY <2>1, <2>2, <2>3, <2>4 DEF HFeed, Feed
  <1> QED
    BY <1>9, <1>10

(* The parser implements the abstract framer, for every alphabet, buffer    *)
(* size and stream: it misses no frame and invents none.                    *)
THEOREM Refinement == HSpec => ImplementsFramer
  <1>1. HInit => IInv /\ FrameInv /\ Framer!Init
    BY InitIInv, InitFrameInv
  <1>2. IInv /\ FrameInv /\ [HNext]_hvars =>
            IInv' /\ FrameInv' /\ [Framer!Next]_Framer!vars
    <2> SUFFICES ASSUME IInv, FrameInv, [HNext]_hvars
                 PROVE  IInv' /\ FrameInv' /\ [Framer!Next]_Framer!vars
      OBVIOUS
    <2>1. CASE HReset
      BY <2>1, NextIInv, ResetStep DEF Framer!Next
    <2>2. ASSUME NEW c \in Byte, HFeed(c)
          PROVE  IInv' /\ FrameInv' /\ [Framer!Next]_Framer!vars
      BY <2>2, NextIInv, FeedStep DEF Framer!Next
    <2>3. CASE UNCHANGED hvars
      BY <2>3, NextIInv
         DEF hvars, vars, parser, FrameInv, Framer!vars, Delivered, Marked, IsRun,
             Framer!OpenAt, Framer!Longest, Framer!RunLength
    <2> QED
      BY <2>1, <2>2, <2>3 DEF HNext
  <1> QED
    BY <1>1, <1>2, PTL DEF HSpec, ImplementsFramer, Framer!Spec

-----------------------------------------------------------------------------
(* The UART link.                                                          *)

(* The parser, with two different markers and room for a frame.             *)
ParserOK ==
    /\ TypeOK
    /\ capacity > 1 /\ start_byte # end_byte
    /\ ~Marked => in_frame
    /\ ~in_frame => length = 0
    /\ Marked /\ in_frame => length >= 1
    /\ length < capacity /\ out_frame_len < capacity

(* What is sent is a frame that fits the buffer, with its markers at the    *)
(* ends and nowhere else.                                                   *)
WellFramed ==
    /\ Len(message) < capacity
    /\ \A i \in 1 .. Len(message) : message[i] # end_byte
    /\ Marked => /\ Len(message) >= 1
                 /\ message[1] = start_byte
                 /\ \A i \in 2 .. Len(message) : message[i] # start_byte

Sent == Len(message) + 1 - Len(pending)

Wire(i) == IF i <= Len(message) THEN message[i] ELSE end_byte

(* What is still to be sent is the rest of the message and its end marker.  *)
MessageOK ==
    /\ message \in Seq(Byte) /\ pending \in Seq(Byte)
    /\ pending # << >> =>
           /\ WellFramed
           /\ Len(pending) <= Len(message) + 1
           /\ \A k \in 1 .. Len(pending) : pending[k] = Wire(Sent + k)

(* As long as nothing has hit the line, the parser has collected what was   *)
(* sent.  If frames have a start marker it does not matter what it had      *)
(* before; if not, it must have begun at the beginning.                     *)
Collected ==
    pending # << >> /\ ~hurt /\ (Marked \/ synced) =>
        /\ Sent = 0 /\ ~Marked => length = 0
        /\ Sent > 0 =>
               /\ in_frame
               /\ length = Sent
               /\ \A k \in 0 .. Sent - 1 : buffer[k] = message[k + 1]

(* Between messages, an end marker that got through has cleared the parser. *)
Cleared == pending = << >> /\ synced /\ ~Marked => length = 0

(* Counted from where the next frame can begin, no fewer bytes have arrived *)
(* than the parser has collected, so what it writes next lies within them.  *)
Kept ==
    /\ shown \in Seq(Byte \cup {Unset})
    /\ arrived \in 0 .. capacity
    /\ arrived < capacity => length <= arrived
    /\ Marked /\ arrived = 0 => ~in_frame
    /\ LastsUntilOverwritten

LInv ==
    /\ ParserOK
    /\ MessageOK
    /\ hurt \in BOOLEAN /\ synced \in BOOLEAN
    /\ Collected
    /\ Cleared
    /\ Kept

-----------------------------------------------------------------------------
LEMMA LInitInv == LInit => LInv
  <1> SUFFICES ASSUME LInit PROVE LInv
    OBVIOUS
  <1>1. TypeOK
    BY NULAssumption, CapacityAssumption DEF LInit, Init, TypeOK, Status
  <1>2. capacity \in Nat /\ in_frame = (start_byte = NUL)
    BY CapacityAssumption DEF LInit, Init
  <1>4. ~Marked => in_frame
    BY <1>2 DEF Marked
  <1>5. ParserOK
    <2>1. Marked => ~in_frame
      BY <1>2 DEF Marked
    <2> QED
      BY <1>1, <1>2, <1>4, <2>1 DEF LInit, Init, ParserOK
  <1>3. MessageOK
    BY DEF LInit, MessageOK
  <1>6. Kept
    <2>1. /\ shown = << >> /\ arrived = 0 /\ length = 0 /\ out_frame_len = 0
          /\ buffer[0] = NUL /\ (Marked => ~in_frame)
      BY <1>2 DEF LInit, Init, Marked
    <2>2. (shown \o <<NUL>>)[0 + 1] = NUL /\ Len(shown) = 0
      BY <2>1
    <2> QED
      BY <1>2, <2>1, <2>2 DEF Kept, LastsUntilOverwritten
  <1> QED
    BY <1>3, <1>5, <1>6 DEF LInit, Init, LInv, Collected, Cleared

LEMMA RearmOpens ==
  ASSUME Rearm
  PROVE  length' = 0 /\ (Marked => ~in_frame') /\ (~Marked => in_frame')
  BY DEF Rearm

LEMMA FeedParserOK ==
  ASSUME ParserOK, NEW c \in Byte, Feed(c)
  PROVE  ParserOK' /\ UNCHANGED config
  <1>0. capacity \in Nat \ {0} /\ UNCHANGED config
    BY CapacityAssumption
       DEF ParserOK, TypeOK, Feed, Discard, Open, Resync, Deliver, Accumulate,
           Overflow, parser, config
  <1> USE <1>0 DEF ParserOK, TypeOK, Marked, config, parser, Status
  <1>1. CASE Discard(c)
    BY <1>1 DEF Discard
  <1>2. CASE Open(c)
    BY <1>2 DEF Open, Restart, Store, IsStart
  <1>3. CASE Resync(c)
    BY <1>3 DEF Resync, Resyncs, Restart, Store, IsStart
  <1>4. CASE Deliver(c)
    <2>1. TypeOK'
      BY <1>4, NULAssumption DEF Deliver, TerminatorFits, Store, Rearm
    <2> QED
      BY <1>4, <2>1, RearmOpens DEF Deliver
  <1>5. CASE Accumulate(c)
    BY <1>5 DEF Accumulate, HasRoom, Store
  <1>6. CASE Overflow(c)
    <2>1. TypeOK'
      BY <1>6 DEF Overflow, Rearm
    <2> QED
      BY <1>6, <2>1, RearmOpens DEF Overflow
  <1> QED
    BY <1>1, <1>2, <1>3, <1>4, <1>5, <1>6 DEF Feed

(* Feed writes one cell at most, and that one lies within what has arrived  *)
(* since the frame at hand was handed out.                                  *)
LEMMA ReceiveKept ==
  ASSUME ParserOK, Kept, NEW c \in Byte, Receive(c)
  PROVE  Kept'
  <1>0. /\ Feed(c) /\ ParserOK' /\ UNCHANGED config
        /\ capacity \in Nat \ {0} /\ length \in 0 .. capacity - 1
        /\ DOMAIN buffer = 0 .. capacity - 1
        /\ out_frame_len \in 0 .. capacity - 1
    BY FeedParserOK, CapacityAssumption DEF Receive, ParserOK, TypeOK
  <1>1. CASE Deliver(c)
    <2>1. /\ status' = "OK" /\ out_frame_len' = length /\ length' = 0
          /\ Marked' => ~in_frame'
          /\ buffer'[length] = NUL /\ shown' = Delivered' /\ arrived' = 0
      <3>1. status' = "OK" /\ out_frame_len' = length
            /\ length' = 0 /\ (Marked => ~in_frame')
        BY <1>1, RearmOpens DEF Deliver
      <3>2. buffer'[length] = NUL
        BY <1>0, <1>1 DEF Deliver, TerminatorFits, Store
      <3> QED
        BY <1>0, <3>1, <3>2 DEF Receive, Marked, config
    <2>2. /\ shown' \in Seq(Byte \cup {Unset}) /\ Len(shown') = length
          /\ \A k \in 0 .. length - 1 : shown'[k + 1] = buffer'[k]
      <3>1. \A i \in 1 .. length : buffer'[i - 1] \in Byte \cup {Unset}
        BY <1>0 DEF ParserOK, TypeOK, config
      <3>2. shown' = [i \in 1 .. length |-> buffer'[i - 1]]
        BY <2>1 DEF Delivered
      <3> QED
        BY <1>0, <3>1, <3>2
    <2>3. ASSUME NEW k \in 0 .. length
          PROVE  buffer'[k] = (shown' \o <<NUL>>)[k + 1]
      BY <1>0, <2>1, <2>2
    <2> QED
      BY <1>0, <2>1, <2>2, <2>3 DEF Kept, LastsUntilOverwritten, config
  <1>2. ASSUME status' # "OK"
        PROVE  /\ shown' = shown /\ arrived' \in 0 .. capacity
               /\ arrived' \in {arrived, arrived + 1}
               /\ arrived = capacity => arrived' = capacity
               /\ arrived' = arrived =>
                      arrived = capacity \/ (arrived = 0 /\ Marked /\ c # start_byte)
    BY <1>0, <1>2 DEF Receive, Kept
  <1>3. CASE Discard(c) \/ Overflow(c)
    <2>1. /\ status' # "OK" /\ buffer' = buffer /\ out_frame_len' = out_frame_len
          /\ length' \in {0, length} /\ (Marked => ~in_frame')
      BY <1>3, RearmOpens DEF Discard, Overflow, parser
    <2>2. arrived' < capacity => length' <= arrived'
      BY <1>0, <1>2, <2>1 DEF Kept
    <2>3. LastsUntilOverwritten'
      BY <1>0, <1>2, <2>1 DEF Kept, LastsUntilOverwritten
    <2> QED
      BY <1>0, <1>2, <2>1, <2>2, <2>3 DEF Kept, Marked, config
  <1>4. ASSUME NEW i \in {0, length},
               status' # "OK", out_frame_len' = out_frame_len, Store(i, c),
               length' = i + 1, ~(arrived = 0 /\ Marked /\ c # start_byte)
        PROVE  Kept'
    <2>1. arrived' > arrived \/ (arrived = capacity /\ arrived' = capacity)
      BY <1>0, <1>2, <1>4 DEF Kept
    <2>2. arrived' < capacity => i < arrived'
      BY <1>0, <1>2, <1>4, <2>1 DEF Kept
    <2>3. ASSUME NEW k \in arrived' .. out_frame_len'
          PROVE  (buffer[k] = (shown \o <<NUL>>)[k + 1])'
      <3>1. k \in arrived .. out_frame_len /\ k \in 0 .. capacity - 1 /\ k # i
        BY <1>0, <1>2, <1>4, <2>1, <2>2 DEF Kept
      <3>2. buffer'[k] = buffer[k]
        BY <1>0, <1>4, <3>1 DEF Store
      <3> QED
        BY <1>2, <1>4, <3>1, <3>2 DEF Kept, LastsUntilOverwritten
    <2>4. arrived' # 0
      BY <1>0, <1>2, <2>1 DEF Kept
    <2>5. LastsUntilOverwritten'
      BY <1>2, <1>4, <2>3 DEF Kept, LastsUntilOverwritten
    <2> QED
      BY <1>0, <1>2, <1>4, <2>2, <2>4, <2>5 DEF Kept, config
  <1>5. CASE Open(c) \/ Resync(c)
    BY <1>4, <1>5 DEF Open, Resync, Resyncs, IsStart, Restart
  <1>6. CASE Accumulate(c)
    BY <1>4, <1>6 DEF Accumulate, Kept
  <1> QED
    BY <1>0, <1>1, <1>3, <1>5, <1>6 DEF Feed

(* An end marker leaves a parser without start marker empty, wherever it    *)
(* was.                                                                     *)
LEMMA EndClears ==
  ASSUME ParserOK, ~Marked, Feed(end_byte)
  PROVE  length' = 0
  BY DEF ParserOK, Feed, Discard, Open, Resync, Resyncs, IsStart, Deliver, Rearm,
         Accumulate, Overflow, Marked

(* The next byte of a message that is being collected is collected.         *)
LEMMA CollectsNext ==
  ASSUME ParserOK, MessageOK, pending # << >>, ~hurt, Marked \/ synced, Collected,
         Len(pending) > 1, Feed(Head(pending))
  PROVE  /\ in_frame'
         /\ length' = Sent + 1
         /\ \A k \in 0 .. Sent : buffer'[k] = message[k + 1]
  <1> DEFINE n == Sent
             c == Head(pending)
  <1>1. /\ message \in Seq(Byte) /\ pending \in Seq(Byte) /\ WellFramed
        /\ Len(message) \in Nat /\ Len(pending) \in Nat
        /\ n \in Nat /\ n < Len(message) /\ c = message[n + 1] /\ n + 1 \in 1 .. Len(message)
    BY DEF MessageOK, Sent, Wire
  <1>2. /\ capacity \in Nat /\ length \in Nat /\ n + 1 < capacity
        /\ Len(message) < capacity /\ c # end_byte
    BY <1>1, CapacityAssumption DEF WellFramed, ParserOK, TypeOK
  <1>5. Feed(c) /\ c \in Byte
    BY <1>1
  <1> HIDE DEF n, c
  <1>3. CASE n = 0 /\ Marked
    <2>1. IsStart(c)
      BY <1>1, <1>3 DEF WellFramed, IsStart
    <2>2. Open(c) \/ Resync(c)
      <3>1. in_frame => Resyncs(c)
        BY <1>2, <1>3, <2>1 DEF Resyncs, ParserOK
      <3>2. ~Discard(c)
        BY <2>1 DEF Discard
      <3>3. ~Deliver(c) /\ ~Accumulate(c) /\ ~Overflow(c)
        BY <3>1 DEF Deliver, Accumulate, Overflow
      <3> QED
        BY <1>5, <3>2, <3>3 DEF Feed
    <2>3. in_frame' /\ length' = 1 /\ buffer'[0] = c
      BY <2>2 DEF Open, Resync, Restart, Store, ParserOK, TypeOK
    <2> QED
      BY <2>3, <1>1, <1>3 DEF n
  <1>4. CASE n > 0 \/ ~Marked
    <2>1. in_frame /\ length = n /\ \A k \in 0 .. n - 1 : buffer[k] = message[k + 1]
      BY <1>1, <1>4 DEF Collected, ParserOK, n
    <2>2. ~Resyncs(c)
      BY <1>1, <1>4, <2>1 DEF Resyncs, IsStart, WellFramed
    <2>3. Accumulate(c) \/ Overflow(c)
      BY <2>1, <2>2, <1>2, <1>5 DEF Feed, Discard, Open, Resync, Deliver, Accumulate, Overflow
    <2>4. HasRoom
      BY <1>1, <1>2, <2>1 DEF HasRoom
    <2>5. Accumulate(c)
      BY <2>3, <2>4 DEF Overflow
    <2>6. in_frame' /\ length' = n + 1 /\ DOMAIN buffer = 0 .. capacity - 1
          /\ buffer' = [k \in DOMAIN buffer \cup {n} |-> IF k = n THEN c ELSE buffer[k]]
      BY <2>5, <2>1 DEF Accumulate, Store, ParserOK, TypeOK
    <2>7. \A k \in 0 .. n : buffer'[k] = message[k + 1]
      BY <2>1, <2>6, <1>1, <1>2, CapacityAssumption DEF ParserOK, TypeOK
    <2> QED
      BY <2>6, <2>7 DEF n
  <1> QED
    BY <1>1, <1>3, <1>4

(* The end marker of a message that has been collected hands it out.        *)
LEMMA HandsOutLast ==
  ASSUME ParserOK, MessageOK, ~hurt, Marked \/ synced, Collected,
         Len(pending) = 1, Feed(Head(pending))
  PROVE  status' = "OK" /\ Delivered' = message
  <1> DEFINE n == Len(message)
  <1>1. /\ message \in Seq(Byte) /\ pending # << >> /\ WellFramed
        /\ n \in Nat /\ Sent = n /\ Head(pending) = end_byte
    <2>0. message \in Seq(Byte) /\ n \in Nat /\ pending \in Seq(Byte) /\ 1 \in 1 .. Len(pending)
      BY DEF MessageOK
    <2>1. pending # << >> /\ Head(pending) = pending[1]
      BY <2>0
    <2>2. Sent = n
      BY <2>0 DEF Sent
    <2>3. WellFramed /\ pending[1] = Wire(n + 1)
      BY <2>0, <2>1, <2>2 DEF MessageOK
    <2> QED
      BY <2>0, <2>1, <2>2, <2>3 DEF Wire
  <1>2. in_frame /\ length = n /\ \A k \in 0 .. n - 1 : buffer[k] = message[k + 1]
    BY <1>1 DEF Collected, ParserOK, WellFramed
  <1>3. Deliver(end_byte)
    BY <1>1, <1>2 DEF ParserOK, Feed, Discard, Open, Resync, Resyncs, IsStart,
                      Accumulate, Overflow
  <1>4. /\ status' = "OK" /\ out_frame_len' = n
        /\ \A k \in 0 .. n - 1 : buffer'[k] = buffer[k]
    <2>1. DOMAIN buffer = 0 .. capacity - 1 /\ length < capacity /\ capacity \in Nat
      BY CapacityAssumption DEF ParserOK, TypeOK
    <2>2. buffer' = [k \in DOMAIN buffer \cup {n} |-> IF k = n THEN NUL ELSE buffer[k]]
      BY <1>2, <1>3, <2>1 DEF Deliver, TerminatorFits, Store
    <2> QED
      BY <1>1, <1>2, <1>3, <2>1, <2>2 DEF Deliver
  <1>5. Delivered' = [i \in 1 .. n |-> buffer'[i - 1]]
    BY <1>4 DEF Delivered
  <1>6. \A i \in 1 .. n : buffer'[i - 1] = message[i]
    BY <1>1, <1>2, <1>4
  <1>7. message = [i \in 1 .. n |-> message[i]]
    BY <1>1
  <1> QED
    BY <1>4, <1>5, <1>6, <1>7

-----------------------------------------------------------------------------
(* The steps of the link.                                                   *)
LEMMA TailEmpty ==
  ASSUME NEW s \in Seq(Byte), s # << >>
  PROVE  Len(s) \in Nat \ {0} /\ (Tail(s) = << >> <=> Len(s) = 1)
  <1>1. Len(s) \in Nat \ {0} /\ Tail(s) \in Seq(Byte) /\ Len(Tail(s)) = Len(s) - 1
    OBVIOUS
  <1>2. Tail(s) = << >> <=> Len(Tail(s)) = 0
    BY <1>1, EmptySeq
  <1> QED
    BY <1>1, <1>2

LEMMA TailMessageOK ==
  ASSUME MessageOK, pending # << >>, pending' = Tail(pending),
         UNCHANGED <<message, config>>
  PROVE  MessageOK'
  <1>1. /\ message \in Seq(Byte) /\ pending \in Seq(Byte) /\ WellFramed
        /\ Len(message) \in Nat /\ Len(pending) \in Nat \ {0}
        /\ Len(pending) <= Len(message) + 1
        /\ \A k \in 1 .. Len(pending) : pending[k] = Wire(Sent + k)
    BY DEF MessageOK
  <1>2. /\ pending' \in Seq(Byte) /\ Len(pending') = Len(pending) - 1
        /\ \A k \in 1 .. Len(pending') : pending'[k] = pending[k + 1]
    BY <1>1
  <1>3. WellFramed' /\ message' = message
    BY <1>1 DEF WellFramed, config, Marked
  <1>4. Sent \in Int /\ Sent' = Sent + 1
    BY <1>1, <1>2 DEF Sent
  <1>5. ASSUME NEW k \in 1 .. Len(pending') PROVE (pending[k] = Wire(Sent + k))'
    <2>1. k + 1 \in 1 .. Len(pending) /\ k \in Int
      BY <1>1, <1>2
    <2>2. pending'[k] = Wire(Sent + (k + 1))
      BY <1>1, <1>2, <2>1
    <2>3. Sent + (k + 1) = Sent' + k
      BY <1>4, <2>1
    <2> QED
      BY <2>2, <2>3, <1>3 DEF Wire, config
  <1> QED
    BY <1>1, <1>2, <1>3, <1>5 DEF MessageOK

LEMMA SendInv ==
  ASSUME LInv, Send
  PROVE  LInv'
  <1>0. /\ pending = << >> /\ UNCHANGED vars /\ hurt' = FALSE /\ synced' = synced
        /\ UNCHANGED config
    BY DEF Send, vars, parser, config
  <1>1. ParserOK'
    BY <1>0 DEF LInv, ParserOK, TypeOK, vars, parser, Marked
  <1>2. PICK m \in Messages : message' = Frame(m) /\ pending' = Frame(m) \o <<end_byte>>
    BY DEF Send
  <1>3. capacity \in Nat /\ start_byte \in Byte /\ end_byte \in Byte /\ start_byte # end_byte
    BY CapacityAssumption DEF LInv, ParserOK, TypeOK
  <1> DEFINE longest == capacity - (IF Marked THEN 2 ELSE 1)
  <1>4. PICK n \in 0 .. longest : m \in [1 .. n -> Payload]
    BY DEF Messages
  <1>5. n \in Nat /\ m \in Seq(Byte) /\ Len(m) = n /\ \A i \in 1 .. n : m[i] \in Payload
    <2>1. longest \in Int /\ Payload \subseteq Byte
      BY <1>3 DEF Payload
    <2>2. n \in Nat /\ m \in [1 .. n -> Byte]
      BY <1>4, <2>1
    <2> QED
      BY <1>4, <2>2
  <1>6. /\ message' \in Seq(Byte) /\ Len(message') = (IF Marked THEN n + 1 ELSE n)
        /\ \A i \in 1 .. Len(message') :
               message'[i] = (IF Marked THEN IF i = 1 THEN start_byte ELSE m[i - 1] ELSE m[i])
    BY <1>2, <1>3, <1>5 DEF Frame
  <1>7. WellFramed'
    <2>1. CASE Marked
      <3>1. Len(message') = n + 1 /\ n <= capacity - 2
        BY <1>4, <1>6, <2>1
      <3>2. \A i \in 1 .. n : m[i] # start_byte /\ m[i] # end_byte
        BY <1>5, <2>1 DEF Payload
      <3>3. \A i \in 1 .. Len(message') : message'[i] # end_byte
        BY <1>3, <1>5, <1>6, <2>1, <3>1, <3>2
      <3>4. message'[1] = start_byte /\ \A i \in 2 .. Len(message') : message'[i] # start_byte
        BY <1>5, <1>6, <2>1, <3>1, <3>2
      <3> QED
        BY <1>0, <1>3, <1>5, <3>1, <3>3, <3>4 DEF WellFramed, config
    <2>2. CASE ~Marked
      <3>1. Len(message') = n /\ n <= capacity - 1
        BY <1>4, <1>6, <2>2
      <3>2. \A i \in 1 .. Len(message') : message'[i] # end_byte
        BY <1>5, <1>6, <2>2, <3>1 DEF Payload
      <3>3. ~Marked'
        BY <1>0, <2>2 DEF Marked, config
      <3> QED
        BY <1>0, <1>3, <1>5, <3>1, <3>2, <3>3 DEF WellFramed, config
    <2> QED
      BY <2>1, <2>2
  <1>8. /\ pending' = message' \o <<end_byte>> /\ pending' \in Seq(Byte)
        /\ Len(pending') = Len(message') + 1
        /\ \A k \in 1 .. Len(pending') :
               pending'[k] = (IF k <= Len(message') THEN message'[k] ELSE end_byte)
    BY <1>2, <1>3, <1>6
  <1>9. Sent' = 0 /\ pending' # << >>
    BY <1>6, <1>8 DEF Sent
  <1>10. MessageOK'
    <2>1. ASSUME NEW k \in 1 .. Len(pending') PROVE (pending[k] = Wire(Sent + k))'
      <3>1. Sent' + k = k
        BY <1>6, <1>8, <1>9
      <3> QED
        BY <1>0, <1>8, <3>1 DEF Wire, config
    <2> QED
      BY <1>6, <1>7, <1>8, <2>1 DEF MessageOK
  <1>11. Collected'
    <2>1. ~Marked' /\ synced' => length' = 0
      BY <1>0 DEF LInv, Cleared, vars, parser, Marked
    <2> QED
      BY <1>9, <2>1 DEF Collected
  <1>12. Cleared'
    BY <1>9 DEF Cleared
  <1>13. Kept'
    BY <1>0 DEF Send, LInv, Kept, LastsUntilOverwritten, Marked, vars, parser
  <1> QED
    BY <1>0, <1>1, <1>10, <1>11, <1>12, <1>13 DEF LInv

LEMMA TransmitInv ==
  ASSUME LInv, Transmit
  PROVE  LInv'
  <1>0. /\ pending # << >> /\ Receive(Head(pending)) /\ Feed(Head(pending))
        /\ pending' = Tail(pending)
        /\ synced' = (IF Len(pending) = 1 THEN TRUE ELSE synced)
        /\ UNCHANGED <<message, hurt>>
    BY DEF Transmit, Receive
  <1>1. /\ pending \in Seq(Byte) /\ Head(pending) \in Byte /\ Len(pending) \in Nat \ {0}
        /\ Len(pending') = Len(pending) - 1 /\ message \in Seq(Byte)
    BY <1>0 DEF LInv, MessageOK
  <1>2. ParserOK' /\ UNCHANGED config
    BY <1>0, <1>1, FeedParserOK DEF LInv
  <1>3. MessageOK'
    BY <1>0, <1>2, TailMessageOK DEF LInv
  <1>4. Sent \in Int /\ Sent' = Sent + 1 /\ Sent >= 0
    BY <1>0, <1>1 DEF Sent, LInv, MessageOK
  <1>5. Collected'
    <2> SUFFICES ASSUME pending' # << >>, ~hurt, (Marked \/ synced)'
                 PROVE  Collected'
      BY <1>0 DEF Collected
    <2>1. Len(pending) > 1 /\ synced' = synced
      <3>1. Len(pending) # 1
        BY <1>0, <1>1, TailEmpty
      <3>2. synced' = synced
        BY <1>0, <3>1
      <3> QED
        BY <1>1, <3>1, <3>2
    <2>2. Marked \/ synced
      BY <1>2, <2>1 DEF Marked, config
    <2>3. /\ in_frame' /\ length' = Sent + 1
          /\ \A k \in 0 .. Sent : buffer'[k] = message[k + 1]
      BY <1>0, <2>1, <2>2, CollectsNext DEF LInv
    <2>4. Sent' > 0
      BY <1>4
    <2>5. \A k \in 0 .. Sent' - 1 : buffer'[k] = message'[k + 1]
      BY <1>0, <1>4, <2>3
    <2> QED
      BY <1>4, <2>3, <2>4, <2>5 DEF Collected
  <1>6. Cleared'
    <2> SUFFICES ASSUME pending' = << >>, ~Marked'
                 PROVE  length' = 0
      BY DEF Cleared
    <2>1. Len(pending) = 1 /\ ~Marked
      BY <1>1, <1>2 DEF Marked, config
    <2>2. Head(pending) = end_byte
      <3>1. 1 \in 1 .. Len(pending) /\ Head(pending) = pending[1] /\ Sent = Len(message)
        BY <1>1, <2>1 DEF Sent
      <3>2. pending[1] = Wire(Sent + 1)
        BY <1>0, <3>1 DEF LInv, MessageOK
      <3> QED
        BY <1>1, <3>1, <3>2 DEF Wire
    <2> QED
      BY <1>0, <2>1, <2>2, EndClears DEF LInv
  <1>7. Kept'
    BY <1>0, <1>1, ReceiveKept DEF LInv
  <1> QED
    BY <1>0, <1>2, <1>3, <1>5, <1>6, <1>7 DEF LInv

(* A fault spoils the current message, and unless a later end marker gets   *)
(* through, the next.                                                       *)
LEMMA LoseInv ==
  ASSUME LInv, Lose
  PROVE  LInv'
  <1>0. /\ pending # << >> /\ pending' = Tail(pending) /\ hurt' = TRUE
        /\ synced' = (IF Len(pending) = 1 THEN FALSE ELSE synced)
        /\ UNCHANGED <<message, vars, config, shown, arrived>>
    BY DEF Lose, Fault, vars, parser, config
  <1>1. pending \in Seq(Byte) /\ (pending' = << >> => Len(pending) = 1)
    BY <1>0, TailEmpty DEF LInv, MessageOK
  <1>2. ParserOK'
    BY <1>0 DEF LInv, ParserOK, TypeOK, vars, parser, Marked
  <1>3. MessageOK'
    BY <1>0, TailMessageOK DEF LInv
  <1>4. Kept'
    BY <1>0 DEF LInv, Kept, LastsUntilOverwritten, Marked, vars, parser
  <1> QED
    BY <1>0, <1>1, <1>2, <1>3, <1>4 DEF LInv, Collected, Cleared

LEMMA CorruptInv ==
  ASSUME LInv, Corrupt
  PROVE  LInv'
  <1>0. /\ pending # << >> /\ pending' = Tail(pending) /\ hurt' = TRUE
        /\ synced' = (IF Len(pending) = 1 THEN FALSE ELSE synced)
        /\ UNCHANGED message
    BY DEF Corrupt, Fault
  <1>1. pending \in Seq(Byte) /\ (pending' = << >> => Len(pending) = 1)
    BY <1>0, TailEmpty DEF LInv, MessageOK
  <1>2. PICK c \in Byte : Receive(c)
    BY DEF Corrupt
  <1>3. ParserOK' /\ UNCHANGED config /\ Kept'
    BY <1>2, FeedParserOK, ReceiveKept DEF LInv, Receive
  <1>4. MessageOK'
    BY <1>0, <1>3, TailMessageOK DEF LInv
  <1> QED
    BY <1>0, <1>1, <1>3, <1>4 DEF LInv, Collected, Cleared

LEMMA InsertInv ==
  ASSUME LInv, Insert
  PROVE  LInv'
  <1>0. /\ hurt' = TRUE /\ synced' = (IF pending = << >> THEN FALSE ELSE synced)
        /\ UNCHANGED <<message, pending>>
    BY DEF Insert, Fault
  <1>1. PICK c \in Byte : Receive(c)
    BY DEF Insert
  <1>2. ParserOK' /\ UNCHANGED config /\ Kept'
    BY <1>1, FeedParserOK, ReceiveKept DEF LInv, Receive
  <1>3. MessageOK'
    BY <1>0, <1>2 DEF LInv, MessageOK, WellFramed, Wire, Sent, config, Marked
  <1> QED
    BY <1>0, <1>2, <1>3 DEF LInv, Collected, Cleared

LEMMA LNextInv == LInv /\ [LNext]_lvars => LInv'
  <1>1. CASE UNCHANGED lvars
    BY <1>1 DEF LInv, ParserOK, TypeOK, MessageOK, WellFramed, Wire, Sent, Collected,
                Cleared, Kept, LastsUntilOverwritten, Marked, vars, parser, link, lvars
  <1> QED
    BY <1>1, SendInv, TransmitInv, LoseInv, CorruptInv, InsertInv DEF LNext

THEOREM LinkInvariance == LSpec => []LInv
  BY LInitInv, LNextInv, PTL DEF LSpec

-----------------------------------------------------------------------------
(* A message sent while the line is quiet is received, for every buffer,    *)
(* every pair of markers and whatever was on the line before.               *)
THEOREM QuietReceived == LSpec => QuietMessageReceived
  <1>1. LInv /\ [LNext]_lvars =>
          [Transmit /\ Len(pending) = 1 /\ ~hurt /\ (Marked \/ synced)
               => status' = "OK" /\ Delivered' = message]_lvars
    <2> SUFFICES ASSUME LInv, Transmit, Len(pending) = 1, ~hurt, Marked \/ synced
                 PROVE  status' = "OK" /\ Delivered' = message
      OBVIOUS
    <2>1. Feed(Head(pending))
      BY DEF Transmit, Receive
    <2> QED
      BY <2>1, HandsOutLast DEF LInv
  <1> QED
    BY <1>1, LinkInvariance, PTL DEF LSpec, QuietMessageReceived

(* A frame handed out stays in the buffer until the next one is written     *)
(* over it, and as far as that has not come it stays even then.             *)
THEOREM FrameLasts == LSpec => []LastsUntilOverwritten
  <1>1. LInv => LastsUntilOverwritten
    BY DEF LInv, Kept
  <1> QED
    BY <1>1, LinkInvariance, PTL
=================================================================================
