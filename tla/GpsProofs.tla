-------------------------------- MODULE GpsProofs --------------------------------
(***************************************************************************)
(* Proofs about the NMEA receiver, for every buffer size, every alphabet   *)
(* and every sequence of symbols fed to it; then about the receiver at the *)
(* end of a faulty line, for every set of sentences that fit the buffer    *)
(* and any number of faults.                                               *)
(***************************************************************************)
EXTENDS GpsLine, SequenceTheorems, WellFoundedInduction, TLAPS

LEMMA MarksDiffer ==
    /\ Dollar # LineEnd /\ Dollar # NUL /\ LineEnd # NUL
  BY DEF Dollar, LineEnd, NUL, Mark

(* A sentence that is read keeps the fields of the struct.                  *)
LEMMA ReadKeepsFields ==
  ASSUME NEW g, NEW b, DOMAIN g = DOMAIN NoFix
  PROVE  DOMAIN Read(g, b) = DOMAIN NoFix
  <1> DEFINE h == [g EXCEPT !.sentence_type = Pieces(b)[1]]
  <1>1. DOMAIN h = DOMAIN NoFix
    OBVIOUS
  <1> HIDE DEF h
  <1>2. \A f : DOMAIN ReadGGA(h, f) = DOMAIN NoFix
    BY <1>1 DEF ReadGGA
  <1>3. \A f : DOMAIN ReadRMC(h, f) = DOMAIN NoFix
    BY <1>1 DEF ReadRMC
  <1>4. \A f : DOMAIN ReadVTG(h, f) = DOMAIN NoFix
    BY <1>1 DEF ReadVTG
  <1>5. \A f : DOMAIN ReadGLL(h, f) = DOMAIN NoFix
    BY <1>1 DEF ReadGLL
  <1> QED
    BY <1>1, <1>2, <1>3, <1>4, <1>5 DEF Read, h

LEMMA ParseKeepsFields ==
  ASSUME NEW g, NEW text, DOMAIN g = DOMAIN NoFix
  PROVE  /\ DOMAIN ParseNMEA(text, g).gps = DOMAIN NoFix
         /\ ParseNMEA(text, g).status \in Status
  BY ReadKeepsFields DEF ParseNMEA, Status

(* A write inside the buffer keeps its shape.                               *)
LEMMA StoreInside ==
  ASSUME NEW i \in 0 .. BufferSize - 1, NEW c \in Symbol \cup {NUL}, Store(i, c),
         buffer \in [0 .. BufferSize - 1 -> Symbol \cup {NUL}]
  PROVE  /\ buffer' \in [0 .. BufferSize - 1 -> Symbol \cup {NUL}]
         /\ buffer'[i] = c
         /\ \A j \in 0 .. BufferSize - 1 : j # i => buffer'[j] = buffer[j]
  <1>1. DOMAIN buffer \cup {i} = 0 .. BufferSize - 1
    OBVIOUS
  <1> QED
    BY <1>1 DEF Store

IInv == TypeOK /\ OneSentence

LEMMA InitInv == Init => IInv
  <1> SUFFICES ASSUME Init PROVE IInv
    OBVIOUS
  <1>1. buffer \in [0 .. BufferSize - 1 -> Symbol \cup {NUL}]
    BY DEF Init
  <1>2. index \in 0 .. BufferSize - 1 /\ in_sentence = FALSE
    BY BufferAssumption DEF Init
  <1>3. gps = NoFix /\ status \in Status
    BY DEF Init, Status
  <1> QED
    BY <1>1, <1>2, <1>3 DEF IInv, TypeOK, OneSentence

LEMMA OpenInv ==
  ASSUME IInv, NEW c \in Symbol, Open(c)
  PROVE  IInv'
  <1>1. 0 \in 0 .. BufferSize - 1 /\ 1 \in 0 .. BufferSize - 1
    BY BufferAssumption
  <1>2. c = Dollar /\ Store(0, c) /\ index' = 1 /\ in_sentence' = TRUE
        /\ status' = "INCOMPLETE" /\ gps' = gps
    BY DEF Open, Restarts
  <1>3. /\ buffer' \in [0 .. BufferSize - 1 -> Symbol \cup {NUL}]
        /\ buffer'[0] = Dollar
    BY <1>1, <1>2, StoreInside DEF IInv, TypeOK
  <1> QED
    BY <1>1, <1>2, <1>3 DEF IInv, TypeOK, OneSentence, Status

LEMMA CompleteInv ==
  ASSUME IInv, NEW c \in Symbol, Complete(c)
  PROVE  IInv'
  <1>1. index \in 0 .. BufferSize - 1 /\ Store(index, NUL)
    BY DEF IInv, TypeOK, Complete
  <1>2. buffer' \in [0 .. BufferSize - 1 -> Symbol \cup {NUL}]
    BY <1>1, StoreInside DEF IInv, TypeOK
  <1>3. DOMAIN gps' = DOMAIN NoFix /\ status' \in Status
    BY ParseKeepsFields DEF IInv, TypeOK, Complete
  <1>4. index' = 0 /\ in_sentence' = FALSE /\ 0 \in 0 .. BufferSize - 1
    BY BufferAssumption DEF Complete
  <1> QED
    BY <1>2, <1>3, <1>4 DEF IInv, TypeOK, OneSentence

LEMMA CollectInv ==
  ASSUME IInv, NEW c \in Symbol, Collect(c)
  PROVE  IInv'
  <1>1. /\ index \in 0 .. BufferSize - 1 /\ index + 1 \in 0 .. BufferSize - 1
        /\ in_sentence /\ c \notin {Dollar, LineEnd}
        /\ Store(index, c) /\ index' = index + 1 /\ in_sentence' = in_sentence
        /\ status' = "INCOMPLETE" /\ gps' = gps
    BY BufferAssumption DEF IInv, TypeOK, Collect, HasRoom, Restarts
  <1>2. /\ buffer' \in [0 .. BufferSize - 1 -> Symbol \cup {NUL}]
        /\ buffer'[index] = c
        /\ \A j \in 0 .. BufferSize - 1 : j # index => buffer'[j] = buffer[j]
    BY <1>1, StoreInside DEF IInv, TypeOK
  <1>3. TypeOK'
    BY <1>1, <1>2 DEF IInv, TypeOK, Status
  <1>4. OneSentence'
    <2>0. /\ index > 0 /\ buffer[0] = Dollar
          /\ \A i \in 1 .. index - 1 : buffer[i] \notin {Dollar, LineEnd}
      BY <1>1 DEF IInv, OneSentence
    <2>1. index > 0 /\ buffer'[0] = Dollar
      BY <1>1, <1>2, <2>0, BufferAssumption
    <2>2. ASSUME NEW i \in 1 .. index
          PROVE  buffer'[i] \notin {Dollar, LineEnd}
      <3>1. CASE i = index
        BY <1>1, <1>2, <3>1
      <3>2. CASE i # index
        <4>1. i \in 1 .. index - 1 /\ i \in 0 .. BufferSize - 1
          BY <1>1, <3>2, BufferAssumption
        <4> QED
          BY <1>2, <2>0, <3>2, <4>1
      <3> QED
        BY <3>1, <3>2
    <2> QED
      BY <1>1, <2>1, <2>2 DEF OneSentence
  <1> QED
    BY <1>3, <1>4 DEF IInv

(* The branches that write nothing into the buffer.                         *)
LEMMA OtherInv ==
  ASSUME IInv, NEW c \in Symbol, Ignore(c) \/ Drop(c) \/ Overflow(c)
  PROVE  IInv'
  <1>1. buffer' = buffer /\ gps' = gps /\ status' \in Status
    BY DEF Ignore, Drop, Overflow, ctx, Status
  <1>2. 0 \in 0 .. BufferSize - 1
    BY BufferAssumption
  <1>3. in_sentence' = FALSE /\ index' \in 0 .. BufferSize - 1
    BY <1>2 DEF Ignore, Drop, Overflow, ctx, IInv, TypeOK
  <1> QED
    BY <1>1, <1>3 DEF IInv, TypeOK, OneSentence

(* Whatever arrives, the receiver writes inside its buffer only, its uint8  *)
(* index never wraps, and what it collects is the beginning of one sentence.*)
THEOREM Invariance == Spec => []IInv
  <1>1. ASSUME IInv, [Next]_vars
        PROVE  IInv'
    <2>1. CASE UNCHANGED vars
      BY <1>1, <2>1 DEF IInv, TypeOK, OneSentence, vars, ctx
    <2>2. CASE Next
      <3>1. PICK c \in Symbol : StreamFeed(c)
        BY <2>2 DEF Next
      <3> QED
        BY <1>1, <3>1, OpenInv, CompleteInv, CollectInv, OtherInv DEF StreamFeed
    <2> QED
      BY <1>1, <2>1, <2>2
  <1> QED
    BY <1>1, InitInv, PTL DEF Spec

(* Memory safety of EDC_GPS_StreamFeed for every buffer size.               *)
THEOREM TypeCorrect == Spec => []TypeOK
  <1>1. IInv => TypeOK
    BY DEF IInv
  <1> QED
    BY <1>1, Invariance, PTL

(* The text handed to ParseNMEA starts with the last '$' received and holds *)
(* no line end.                                                             *)
THEOREM CollectsOneSentence == Spec => []OneSentence
  <1>1. IInv => OneSentence
    BY DEF IInv
  <1> QED
    BY <1>1, Invariance, PTL

-----------------------------------------------------------------------------
(* What is not read does not touch the fix, in any run: a line that fails   *)
(* its checksum or makes no sense leaves no trace in the caller's struct.   *)
THEOREM NoTrace == Spec => RejectedLeavesFix
  <1>1. ASSUME IInv, [Next]_vars
        PROVE  [/\ status' \notin {"OK", "UNSUPPORTED"} => gps' = gps
                /\ status' = "UNSUPPORTED" =>
                       gps' = [gps EXCEPT !.sentence_type = gps'.sentence_type]
               ]_<<gps, status>>
    <2>1. CASE UNCHANGED vars
      BY <2>1 DEF vars
    <2>2. CASE Next
      <3>1. PICK c \in Symbol : StreamFeed(c)
        BY <2>2 DEF Next
      <3>2. CASE Complete(c)
        <4> DEFINE text == Collected
        <4>1. gps' = ParseNMEA(text, gps).gps /\ status' = ParseNMEA(text, gps).status
          BY <3>2 DEF Complete
        <4>2. DOMAIN gps = DOMAIN NoFix
          BY <1>1 DEF IInv, TypeOK
        <4> HIDE DEF text
        <4>3. CASE HasStar(text) /\ ~ChecksumHolds(text)
          BY <4>1, <4>3 DEF ParseNMEA
        <4>4. CASE ~(HasStar(text) /\ ~ChecksumHolds(text)) /\ ~Identified(Body(text))
          BY <4>1, <4>4 DEF ParseNMEA
        <4>5. CASE ~(HasStar(text) /\ ~ChecksumHolds(text)) /\ Identified(Body(text))
          <5>1. gps' = Read(gps, Body(text))
                /\ status' = IF Supported(Body(text)) THEN "OK" ELSE "UNSUPPORTED"
            BY <4>1, <4>5 DEF ParseNMEA
          <5>2. CASE Supported(Body(text))
            BY <5>1, <5>2
          <5>3. CASE ~Supported(Body(text))
            <6>1. gps' = [gps EXCEPT !.sentence_type = Pieces(Body(text))[1]]
              BY <4>5, <5>1, <5>3 DEF Read, Types, Supported
            <6>2. gps'.sentence_type = Pieces(Body(text))[1]
              BY <4>2, <6>1 DEF NoFix
            <6> QED
              BY <5>1, <5>3, <6>1, <6>2
          <5> QED
            BY <5>2, <5>3
        <4> QED
          BY <4>3, <4>4, <4>5
      <3>3. CASE Open(c) \/ Ignore(c) \/ Drop(c) \/ Collect(c) \/ Overflow(c)
        BY <3>3 DEF Open, Ignore, Drop, Collect, Overflow
      <3> QED
        BY <3>1, <3>2, <3>3 DEF StreamFeed
    <2> QED
      BY <1>1, <2>1, <2>2
  <1> QED
    BY <1>1, Invariance, PTL DEF Spec, RejectedLeavesFix

-----------------------------------------------------------------------------
(* The faulty line.                                                        *)

Sent == Len(body) + 6 - Len(pending)

(* What is still to be sent is the rest of a sentence.                      *)
SentenceOK ==
    /\ pending \in Seq(Symbol)
    /\ pending # << >> =>
           /\ body \in Sentences
           /\ Len(pending) <= Len(body) + 6
           /\ \A k \in 1 .. Len(pending) : pending[k] = OnTheWire(body)[Sent + k]

(* As long as nothing has hit the line since the '$', the receiver has      *)
(* collected what was sent of the text up to the checksum.                  *)
CollectedSoFar ==
    pending # << >> /\ ~hurt /\ Sent \in 1 .. Len(body) + 4 =>
        /\ in_sentence
        /\ index = Sent
        /\ \A k \in 0 .. Sent - 1 : buffer[k] = OnTheWire(body)[k + 1]

LInv == IInv /\ SentenceOK /\ hurt \in BOOLEAN /\ CollectedSoFar

-----------------------------------------------------------------------------
(* What is known of the sentences.                                          *)
LEMMA SentenceFits ==
  ASSUME NEW b \in Sentences
  PROVE  /\ b \in Seq(Symbol) /\ Len(b) \in Nat \ {0}
         /\ Shortest < Len(b) + 4 /\ Len(b) + 4 < BufferSize
  <1>1. /\ b \in Seq(Symbol) /\ Len(b) > 0
        /\ Shortest < Len(b) + 4 /\ Len(b) + 4 < BufferSize
    BY SentencesAssumption, Zenon
  <1> QED
    BY <1>1

LEMMA OneBehindTheOther ==
  ASSUME NEW s \in Seq(Symbol), NEW t \in Seq(Symbol)
  PROVE  /\ s \o t \in Seq(Symbol) /\ Len(s \o t) = Len(s) + Len(t)
         /\ \A i \in 1 .. Len(s) : (s \o t)[i] = s[i]
         /\ \A i \in 1 .. Len(t) : (s \o t)[Len(s) + i] = t[i]
  <1>1. s \o t \in Seq(Symbol) /\ Len(s \o t) = Len(s) + Len(t)
    BY ConcatProperties
  <1>2. ASSUME NEW i \in 1 .. Len(t) PROVE (s \o t)[Len(s) + i] = t[i]
    <2> DEFINE j == Len(s) + i
    <2>1. j \in 1 .. Len(s) + Len(t) /\ ~(j <= Len(s)) /\ j - Len(s) = i
      OBVIOUS
    <2> HIDE DEF j
    <2>2. (s \o t)[j] = t[i]
      BY <2>1, ConcatProperties
    <2> QED
      BY <2>2 DEF j
  <1> QED
    BY <1>1, <1>2

(* The symbols of a sentence on the wire, one by one.                       *)
LEMMA WireSymbols ==
  ASSUME NEW b \in Sentences
  PROVE  /\ b \in Seq(Symbol) /\ Len(b) \in Nat \ {0}
         /\ OnTheWire(b) \in Seq(Symbol) /\ Len(OnTheWire(b)) = Len(b) + 6
         /\ OnTheWire(b)[1] = Dollar
         /\ \A i \in 1 .. Len(b) : OnTheWire(b)[i + 1] = b[i]
         /\ OnTheWire(b)[Len(b) + 2] = Star
         /\ OnTheWire(b)[Len(b) + 3] = Sum(b, 1) /\ OnTheWire(b)[Len(b) + 4] = Sum(b, 2)
         /\ OnTheWire(b)[Len(b) + 5] = LineEnd /\ OnTheWire(b)[Len(b) + 6] = LineEnd
  <1>1. b \in Seq(Symbol) /\ Len(b) \in Nat \ {0}
    BY SentenceFits
  <1>0. Sum(b, 1) \in Symbol /\ Sum(b, 2) \in Symbol
    BY SentencesAssumption, Zenon
  <1>2. Dollar \in Symbol /\ LineEnd \in Symbol /\ Star \in Symbol
    BY NoiseAssumption
  <1> DEFINE front == <<Dollar>> \o b
             back  == <<Star, Sum(b, 1), Sum(b, 2), LineEnd, LineEnd>>
  <1>3. /\ front \in Seq(Symbol) /\ Len(front) = Len(b) + 1 /\ front[1] = Dollar
        /\ \A i \in 1 .. Len(b) : front[i + 1] = b[i]
    BY <1>1, <1>2
  <1>4. /\ back \in Seq(Symbol) /\ Len(back) = 5 /\ back[1] = Star
        /\ back[2] = Sum(b, 1) /\ back[3] = Sum(b, 2)
        /\ back[4] = LineEnd /\ back[5] = LineEnd
    BY <1>0, <1>2
  <1>5. OnTheWire(b) = front \o back
    BY DEF OnTheWire
  <1> HIDE DEF front, back
  <1>6. /\ front \o back \in Seq(Symbol) /\ Len(front \o back) = Len(b) + 6
        /\ \A i \in 1 .. Len(b) + 1 : (front \o back)[i] = front[i]
        /\ \A i \in 1 .. 5 : (front \o back)[Len(b) + 1 + i] = back[i]
    <2>1. /\ front \o back \in Seq(Symbol) /\ Len(front \o back) = Len(front) + Len(back)
          /\ \A i \in 1 .. Len(front) : (front \o back)[i] = front[i]
          /\ \A i \in 1 .. Len(back) : (front \o back)[Len(front) + i] = back[i]
      BY <1>3, <1>4, OneBehindTheOther, Zenon
    <2> QED
      BY <1>1, <1>3, <1>4, <2>1
  <1>7. /\ (front \o back)[Len(b) + 2] = back[1] /\ (front \o back)[Len(b) + 3] = back[2]
        /\ (front \o back)[Len(b) + 4] = back[3] /\ (front \o back)[Len(b) + 5] = back[4]
        /\ (front \o back)[Len(b) + 6] = back[5]
    <2>1. /\ Len(b) + 1 + 1 = Len(b) + 2 /\ Len(b) + 1 + 2 = Len(b) + 3
          /\ Len(b) + 1 + 3 = Len(b) + 4 /\ Len(b) + 1 + 4 = Len(b) + 5
          /\ Len(b) + 1 + 5 = Len(b) + 6
      BY <1>1
    <2>2. 1 \in 1 .. 5 /\ 2 \in 1 .. 5 /\ 3 \in 1 .. 5 /\ 4 \in 1 .. 5 /\ 5 \in 1 .. 5
      OBVIOUS
    <2>3. \A i \in 1 .. 5 : (front \o back)[Len(b) + 1 + i] = back[i]
      BY <1>6
    <2> QED
      BY <2>1, <2>2, <2>3
  <1>8. /\ (front \o back)[1] = front[1]
        /\ \A i \in 1 .. Len(b) : (front \o back)[i + 1] = front[i + 1]
    <2>1. 1 \in 1 .. Len(b) + 1 /\ \A i \in 1 .. Len(b) : i + 1 \in 1 .. Len(b) + 1
      BY <1>1
    <2> QED
      BY <1>6, <2>1
  <1> QED
    BY <1>1, <1>3, <1>4, <1>5, <1>6, <1>7, <1>8

(* Inside a sentence there is no '$', and no line end before its own.       *)
LEMMA InsideSentence ==
  ASSUME NEW b \in Sentences, NEW i \in 2 .. Len(b) + 4
  PROVE  OnTheWire(b)[i] \notin {Dollar, LineEnd}
  <1>1. CASE i \in 2 .. Len(b) + 1
    <2>1. i - 1 \in 1 .. Len(b) /\ OnTheWire(b)[i] = b[i - 1]
      BY <1>1, WireSymbols
    <2>2. b[i - 1].k \notin {"$", "eol"}
      BY <2>1, SentencesAssumption
    <2> QED
      BY <2>1, <2>2 DEF Dollar, LineEnd, Mark
  <1>2. CASE i = Len(b) + 2
    BY <1>2, WireSymbols DEF Star, Dollar, LineEnd, Mark
  <1>3. CASE i \in {Len(b) + 3, Len(b) + 4}
    <2>1. OnTheWire(b)[i] \in {Sum(b, 1), Sum(b, 2)}
      BY <1>3, WireSymbols
    <2>2. OnTheWire(b)[i].k = "sum"
      BY <2>1 DEF Sum
    <2> QED
      BY <2>2 DEF Dollar, LineEnd, Mark
  <1> QED
    BY <1>1, <1>2, <1>3, WireSymbols

(* ParseNMEA finds the body of a whole sentence and accepts its checksum.   *)
LEMMA ReadsWholeSentence ==
  ASSUME NEW b \in Sentences, NEW g, NEW text \in Seq(Symbol), Len(text) = Len(b) + 4,
         \A i \in 1 .. Len(text) : text[i] = OnTheWire(b)[i]
  PROVE  ParseNMEA(text, g) =
             [status |-> IF Supported(b) THEN "OK" ELSE "UNSUPPORTED",
              gps    |-> Read(g, b)]
  <1> DEFINE stars == {i \in 1 .. Len(text) : text[i].k = "*"}
             n == Len(b)
  <1>1. /\ b \in Seq(Symbol) /\ n \in Nat \ {0} /\ Identified(b)
        /\ \A i \in 1 .. n : text[i + 1] = b[i] /\ b[i].k # "*"
        /\ text[1] = Dollar /\ text[n + 2] = Star 
        /\ text[n + 3] = Sum(b, 1) /\ text[n + 4] = Sum(b, 2)
    <2>1. b \in Seq(Symbol) /\ n \in Nat \ {0}
      BY WireSymbols
    <2>2. Identified(b) /\ \A i \in 1 .. n : b[i].k # "*"
      BY SentencesAssumption
    <2>3. \A i \in 1 .. n : text[i + 1] = b[i]
      <3>1. \A i \in 1 .. n : i + 1 \in 1 .. Len(text)
        BY <2>1
      <3> QED
        BY <3>1, WireSymbols
    <2>4. /\ text[1] = Dollar /\ text[n + 2] = Star
          /\ text[n + 3] = Sum(b, 1) /\ text[n + 4] = Sum(b, 2)
      <3>1. /\ 1 \in 1 .. Len(text) /\ n + 2 \in 1 .. Len(text)
            /\ n + 3 \in 1 .. Len(text) /\ n + 4 \in 1 .. Len(text)
        BY <2>1
      <3> QED
        BY <3>1, WireSymbols
    <2> QED
      BY <2>1, <2>2, <2>3, <2>4
  <1>2. n + 2 \in stars
    BY <1>1 DEF Star, Mark
  <1>3. \A i \in stars : i >= n + 2
    <2> SUFFICES ASSUME NEW i \in 1 .. n + 1 PROVE text[i].k # "*"
      BY <1>1
    <2>1. CASE i = 1
      BY <1>1, <2>1 DEF Dollar, Mark
    <2>2. CASE i # 1
      <3>1. i - 1 \in 1 .. n /\ text[i] = b[i - 1]
        BY <1>1, <2>2
      <3> QED
        BY <1>1, <3>1
    <2> QED
      BY <2>1, <2>2
  <1>4. (CHOOSE i \in stars : \A j \in stars : i <= j) = n + 2
    <2> DEFINE Least(i) == i \in stars /\ \A j \in stars : i <= j
    <2>1. Least(n + 2)
      BY <1>2, <1>3, <1>1
    <2>2. \A i : Least(i) => i = n + 2
      BY <1>2, <1>3, <1>1
    <2>3. Least(CHOOSE i : Least(i))
      BY <2>1
    <2> QED
      BY <2>2, <2>3
  <1>5. Body(text) = b
    <2>1. Body(text) = SubSeq(text, 2, n + 1)
      <3>1. stars # {}
        BY <1>2
      <3>2. Body(text) = SubSeq(text, 2, (n + 2) - 1)
        BY <1>4, <3>1 DEF Body
      <3> QED
        BY <1>1, <3>2
    <2>2. /\ SubSeq(text, 2, n + 1) \in Seq(Symbol) /\ Len(SubSeq(text, 2, n + 1)) = n
          /\ \A i \in 1 .. n : SubSeq(text, 2, n + 1)[i] = text[i + 1]
      BY <1>1
    <2> QED
      BY <1>1, <2>1, <2>2, SeqEqual
  <1>6. ChecksumHolds(text)
    BY <1>1, <1>5 DEF ChecksumHolds
  <1> QED
    BY <1>1, <1>5, <1>6 DEF ParseNMEA

-----------------------------------------------------------------------------
LEMMA FeedInv ==
  ASSUME IInv, NEW c \in Symbol, StreamFeed(c)
  PROVE  IInv'
  BY OpenInv, CompleteInv, CollectInv, OtherInv DEF StreamFeed

(* The next symbol of a sentence up to its checksum is collected.           *)
LEMMA CollectsNext ==
  ASSUME IInv, SentenceOK, CollectedSoFar, pending # << >>, ~hurt,
         Sent \in 0 .. Len(body) + 3, StreamFeed(Head(pending))
  PROVE  /\ in_sentence'
         /\ index' = Sent + 1
         /\ \A k \in 0 .. Sent : buffer'[k] = OnTheWire(body)[k + 1]
  <1> DEFINE c == Head(pending)
             n == Sent
  <1>1. /\ body \in Sentences /\ Len(body) \in Nat /\ n \in 0 .. Len(body) + 3
        /\ c = OnTheWire(body)[n + 1] /\ c \in Symbol
    <2>1. pending \in Seq(Symbol) /\ 1 \in 1 .. Len(pending) /\ c = pending[1]
      BY DEF SentenceOK
    <2>2. c = OnTheWire(body)[Sent + 1]
      BY <2>1 DEF SentenceOK
    <2> QED
      BY <2>1, <2>2, WireSymbols DEF SentenceOK
  <1>2. Len(body) + 4 < BufferSize /\ BufferSize \in Nat
    BY <1>1, SentenceFits, BufferAssumption
  <1>3. StreamFeed(c) /\ buffer \in [0 .. BufferSize - 1 -> Symbol \cup {NUL}]
    BY DEF IInv, TypeOK
  <1>4. n > 0 => /\ in_sentence /\ index = n
                 /\ \A k \in 0 .. n - 1 : buffer[k] = OnTheWire(body)[k + 1]
    BY <1>1 DEF CollectedSoFar
  <1> HIDE DEF c, n
  <1>5. CASE n = 0
    <2>1. c = Dollar
      BY <1>1, <1>5, WireSymbols
    <2>2. Open(c)
      BY <1>3, <2>1, MarksDiffer DEF StreamFeed, Ignore, Complete, Drop, Collect, Overflow,
                                     Restarts
    <2>3. index' = 1 /\ in_sentence' /\ buffer'[0] = Dollar
      <3>1. 0 \in 0 .. BufferSize - 1 /\ Dollar \in Symbol /\ Store(0, Dollar)
        BY <1>1, <1>2, <2>1, <2>2, BufferAssumption DEF Open
      <3>2. buffer'[0] = Dollar
        BY <1>3, <3>1, StoreInside
      <3> QED
        BY <2>2, <3>2 DEF Open
    <2> QED
      BY <1>1, <1>5, <2>1, <2>3 DEF n
  <1>6. CASE n > 0
    <2>1. c \notin {Dollar, LineEnd}
      <3>1. n + 1 \in 2 .. Len(body) + 4
        BY <1>1, <1>6
      <3> QED
        BY <1>1, <3>1, InsideSentence
    <2>2. HasRoom
      BY <1>1, <1>2, <1>4, <1>6 DEF HasRoom
    <2>3. Collect(c)
      BY <1>3, <1>4, <1>6, <2>1, <2>2 DEF StreamFeed, Open, Ignore, Complete, Drop, Overflow,
                                         Restarts
    <2>4. n \in 0 .. BufferSize - 1 /\ Store(n, c) /\ index' = n + 1 /\ in_sentence'
      BY <1>1, <1>2, <1>4, <1>6, <2>3 DEF Collect
    <2>5. /\ buffer'[n] = c
          /\ \A j \in 0 .. BufferSize - 1 : j # n => buffer'[j] = buffer[j]
      BY <1>1, <1>3, <2>4, StoreInside
    <2>6. ASSUME NEW k \in 0 .. n PROVE buffer'[k] = OnTheWire(body)[k + 1]
      <3>1. CASE k = n
        BY <1>1, <2>5, <3>1
      <3>2. CASE k # n
        <4>1. k \in 0 .. n - 1 /\ k \in 0 .. BufferSize - 1
          BY <1>1, <1>2, <3>2
        <4> QED
          BY <1>4, <1>6, <2>5, <3>2, <4>1
      <3> QED
        BY <3>1, <3>2
    <2> QED
      BY <2>4, <2>6 DEF n
  <1> QED
    BY <1>1, <1>5, <1>6

(* The first line end behind a collected sentence has it read.              *)
LEMMA ReadsAtItsEnd ==
  ASSUME IInv, SentenceOK, CollectedSoFar, ~hurt, AtItsEnd, StreamFeed(Head(pending))
  PROVE  /\ gps' = Read(gps, body)
         /\ status' = IF Supported(body) THEN "OK" ELSE "UNSUPPORTED"
  <1> DEFINE n == Len(body)
             text == [i \in 1 .. index |-> buffer[i - 1]]
  <1>1. /\ body \in Sentences /\ n \in Nat \ {0} /\ Sent = n + 4
        /\ Head(pending) = LineEnd /\ pending # << >>
    <2>1. pending \in Seq(Symbol) /\ Len(pending) = 2 /\ 1 \in 1 .. 2
          /\ pending # << >> /\ Head(pending) = pending[1]
      BY DEF SentenceOK, AtItsEnd
    <2>2. body \in Sentences /\ n \in Nat \ {0}
      BY <2>1, WireSymbols DEF SentenceOK
    <2>3. Sent = n + 4 /\ pending[1] = OnTheWire(body)[Sent + 1]
      BY <2>1, <2>2 DEF SentenceOK, Sent
    <2> QED
      BY <2>1, <2>2, <2>3, WireSymbols
  <1>2. in_sentence /\ index = n + 4 /\ \A k \in 0 .. n + 3 : buffer[k] = OnTheWire(body)[k + 1]
    BY <1>1 DEF CollectedSoFar
  <1>3. ~(index <= Shortest)
    BY <1>1, <1>2, SentenceFits, ShortestAssumption
  <1>4. Complete(LineEnd)
    BY <1>1, <1>2, <1>3, MarksDiffer
       DEF StreamFeed, Open, Ignore, Drop, Collect, Overflow, Restarts
  <1>5. gps' = ParseNMEA(text, gps).gps /\ status' = ParseNMEA(text, gps).status
    BY <1>4 DEF Complete, Collected
  <1>6. /\ text \in Seq(Symbol) /\ Len(text) = n + 4
        /\ \A i \in 1 .. n + 4 : text[i] = OnTheWire(body)[i]
    <2>1. \A i \in 1 .. n + 4 : text[i] = OnTheWire(body)[i] /\ text[i] \in Symbol
      BY <1>1, <1>2, WireSymbols
    <2> QED
      BY <1>1, <1>2, <2>1
  <1> HIDE DEF text
  <1>7. ParseNMEA(text, gps) = [status |-> IF Supported(body) THEN "OK" ELSE "UNSUPPORTED",
                                gps    |-> Read(gps, body)]
    BY <1>1, <1>6, ReadsWholeSentence
  <1> QED
    BY <1>5, <1>7

-----------------------------------------------------------------------------
(* The steps of the line.                                                   *)
LEMMA LInitInv == LInit => LInv
  <1> SUFFICES ASSUME LInit PROVE LInv
    OBVIOUS
  <1>1. pending = << >> /\ hurt = FALSE /\ << >> \in Seq(Symbol)
    BY DEF LInit
  <1> QED
    BY <1>1, InitInv DEF LInit, LInv, SentenceOK, CollectedSoFar

LEMMA TailSentenceOK ==
  ASSUME SentenceOK, pending # << >>, pending' = Tail(pending), body' = body
  PROVE  /\ SentenceOK'
         /\ Sent \in Int /\ Sent >= 0 /\ Sent' = Sent + 1
         /\ body \in Sentences /\ Len(body) \in Nat
  <1>1. /\ pending \in Seq(Symbol) /\ Len(pending) \in Nat \ {0} /\ body \in Sentences
        /\ Len(body) \in Nat /\ Len(pending) <= Len(body) + 6
        /\ \A k \in 1 .. Len(pending) : pending[k] = OnTheWire(body)[Sent + k]
    BY WireSymbols DEF SentenceOK
  <1>2. /\ pending' \in Seq(Symbol) /\ Len(pending') = Len(pending) - 1
        /\ \A k \in 1 .. Len(pending') : pending'[k] = pending[k + 1]
    BY <1>1
  <1>3. Sent \in Int /\ Sent >= 0 /\ Sent' = Sent + 1
    BY <1>1, <1>2 DEF Sent
  <1>4. ASSUME NEW k \in 1 .. Len(pending') PROVE pending'[k] = OnTheWire(body)[Sent' + k]
    <2>1. k + 1 \in 1 .. Len(pending) /\ k \in Int
      BY <1>1, <1>2
    <2>2. pending'[k] = OnTheWire(body)[Sent + (k + 1)]
      BY <1>1, <1>2, <2>1
    <2>3. Sent + (k + 1) = Sent' + k
      BY <1>3, <2>1
    <2> QED
      BY <2>2, <2>3
  <1> QED
    BY <1>1, <1>2, <1>3, <1>4 DEF SentenceOK

LEMMA SendInv ==
  ASSUME LInv, Send
  PROVE  LInv'
  <1>1. PICK b \in Sentences : body' = b /\ pending' = OnTheWire(b)
    BY DEF Send
  <1>2. /\ Len(b) \in Nat /\ pending' \in Seq(Symbol) /\ Len(pending') = Len(body') + 6
    BY <1>1, WireSymbols
  <1>3. Sent' = 0
    BY <1>1, <1>2 DEF Sent
  <1>4. SentenceOK'
    <2>1. \A k \in 1 .. Len(pending') : pending'[k] = OnTheWire(body')[Sent' + k]
      BY <1>1, <1>2, <1>3
    <2> QED
      BY <1>1, <1>2, <2>1 DEF SentenceOK
  <1>5. CollectedSoFar'
    BY <1>3 DEF CollectedSoFar
  <1>6. IInv'
    BY DEF LInv, Send, IInv, TypeOK, OneSentence, vars, ctx
  <1> QED
    BY <1>4, <1>5, <1>6 DEF LInv, Send

LEMMA TransmitInv ==
  ASSUME LInv, Transmit
  PROVE  LInv'
  <1>0. /\ pending # << >> /\ StreamFeed(Head(pending)) /\ pending' = Tail(pending)
        /\ UNCHANGED <<body, hurt>>
    BY DEF Transmit
  <1>1. /\ SentenceOK' /\ Sent \in Int /\ Sent >= 0 /\ Sent' = Sent + 1
        /\ body \in Sentences /\ Len(body) \in Nat
    BY <1>0, TailSentenceOK DEF LInv
  <1>2. Head(pending) \in Symbol
    BY <1>0 DEF LInv, SentenceOK
  <1>3. IInv'
    BY <1>0, <1>2, FeedInv DEF LInv
  <1>4. CollectedSoFar'
    <2> SUFFICES ASSUME ~hurt, Sent' \in 1 .. Len(body) + 4
                 PROVE  CollectedSoFar'
      BY <1>0 DEF CollectedSoFar
    <2>1. Sent \in 0 .. Len(body) + 3
      BY <1>1
    <2>2. /\ in_sentence' /\ index' = Sent + 1
          /\ \A k \in 0 .. Sent : buffer'[k] = OnTheWire(body)[k + 1]
      BY <1>0, <2>1, CollectsNext DEF LInv
    <2>3. \A k \in 0 .. Sent' - 1 : buffer'[k] = OnTheWire(body')[k + 1]
      BY <1>0, <1>1, <2>2
    <2> QED
      BY <1>1, <2>2, <2>3 DEF CollectedSoFar
  <1> QED
    BY <1>0, <1>1, <1>3, <1>4 DEF LInv

(* A fault spoils the sentence it hits, and no other.                       *)
LEMMA FaultInv ==
  ASSUME LInv, Lose \/ Corrupt \/ Insert
  PROVE  LInv'
  <1>1. hurt' = TRUE /\ body' = body
    BY DEF Lose, Corrupt, Insert, Fault
  <1>2. SentenceOK'
    <2>1. CASE Lose \/ Corrupt
      BY <1>1, <2>1, TailSentenceOK DEF LInv, Lose, Corrupt
    <2>2. CASE Insert
      BY <1>1, <2>2 DEF LInv, Insert, SentenceOK, Sent
    <2> QED
      BY <2>1, <2>2
  <1>3. IInv'
    <2>1. ASSUME NEW c \in Noise, StreamFeed(c) PROVE IInv'
      BY <2>1, FeedInv, NoiseAssumption DEF LInv
    <2>2. CASE Lose
      BY <2>2 DEF LInv, Lose, IInv, TypeOK, OneSentence, vars, ctx
    <2> QED
      BY <2>1, <2>2 DEF Corrupt, Insert
  <1> QED
    BY <1>1, <1>2, <1>3 DEF LInv, CollectedSoFar

LEMMA LNextInv == LInv /\ [LNext]_lvars => LInv'
  <1> SUFFICES ASSUME LInv, [LNext]_lvars PROVE LInv'
    OBVIOUS
  <1>1. CASE UNCHANGED lvars
    BY <1>1 DEF LInv, IInv, TypeOK, OneSentence, SentenceOK, Sent, CollectedSoFar,
                lvars, vars, ctx
  <1> QED
    BY <1>1, SendInv, TransmitInv, FaultInv DEF LNext

THEOREM LineInvariance == LSpec => []LInv
  BY LInitInv, LNextInv, PTL DEF LSpec

-----------------------------------------------------------------------------
(* Behind a faulty line, too, the receiver writes inside its buffer only    *)
(* and collects the beginning of one sentence.                              *)
THEOREM LineTypeCorrect == LSpec => [](TypeOK /\ OneSentence)
  <1>1. LInv => TypeOK /\ OneSentence
    BY DEF LInv, IInv
  <1> QED
    BY <1>1, LineInvariance, PTL

(* A sentence sent while the line is quiet is read, whatever was on the     *)
(* line before it: every '$' starts afresh (edc_gps.c:535-540).             *)
THEOREM QuietRead == LSpec => QuietSentenceRead
  <1>1. LInv /\ [LNext]_lvars =>
          [AtItsEnd /\ ~hurt /\ Transmit
               => /\ gps' = Read(gps, body)
                  /\ status' = IF Supported(body) THEN "OK" ELSE "UNSUPPORTED"]_lvars
    BY ReadsAtItsEnd DEF LInv, Transmit
  <1> QED
    BY <1>1, LineInvariance, PTL DEF LSpec, QuietSentenceRead

-----------------------------------------------------------------------------
(* The first '*' of a text, and so its body, are where they should be.      *)
LEMMA LeastExists ==
  ASSUME NEW T, T \subseteq Nat, T # {}
  PROVE  \E x \in T : \A y \in T : x <= y
  <1> DEFINE R == OpToRel(<, Nat)
  <1>1. IsWellFoundedOn(R, Nat)
    BY NatLessThanWellFounded
  <1>2. \A x, y \in Nat : y < x => <<y, x>> \in R
    BY DEF OpToRel
  <1> HIDE DEF R
  <1>3. PICK x \in T : \A y \in T : ~(<<y, x>> \in R)
    BY <1>1, WFMin
  <1>4. ASSUME NEW y \in T PROVE x <= y
    <2>1. x \in Nat /\ y \in Nat
      OBVIOUS
    <2>2. ~(y < x)
      BY <1>2, <1>3, <2>1
    <2> QED
      BY <2>1, <2>2
  <1> QED
    BY <1>4

-----------------------------------------------------------------------------
(* Damaged texts: what the fix g can become when one is read.               *)
Takes(b, text, g, h) ==
    \/ h = g
    \/ IF HasStar(text) THEN h = Read(g, b)
       ELSE \E t \in Unchecked(b) : h = Read(g, t)

Harmless(b, text) ==
    Len(text) > Shortest => \A g : Takes(b, text, g, ParseNMEA(text, g).gps)

LEMMA ReadsBody ==
  ASSUME NEW text, NEW g
  PROVE  ParseNMEA(text, g).gps \in {g, Read(g, Body(text))}
  BY DEF ParseNMEA

(* A text with a '*' and with checksum digits of b only is read as b, or    *)
(* not at all.                                                              *)
OnlyDigitsOf(b, text) ==
    \A i \in 1 .. Len(text) : text[i].k = "sum" => text[i] \in {Sum(b, 1), Sum(b, 2)}

LEMMA BodyIsShorter ==
  ASSUME NEW text \in Seq(Symbol), HasStar(text)
  PROVE  Len(Body(text)) \in Nat
  <1> DEFINE stars == {i \in 1 .. Len(text) : text[i].k = "*"}
             s == CHOOSE i \in stars : \A j \in stars : i <= j
  <1>1. stars # {} /\ stars \subseteq Nat
    BY DEF HasStar
  <1>2. s \in stars
    BY <1>1, LeastExists
  <1>3. Body(text) = SubSeq(text, 2, s - 1)
    BY <1>1 DEF Body
  <1>4. s \in 1 .. Len(text) /\ Len(text) \in Nat
    BY <1>2
  <1> HIDE DEF s, stars
  <1>5. SubSeq(text, 2, s - 1) \in Seq(Symbol)
    BY <1>4
  <1> QED
    BY <1>3, <1>5

LEMMA StarredHarmless ==
  ASSUME NEW b, NEW text \in Seq(Symbol), HasStar(text), OnlyDigitsOf(b, text)
  PROVE  Harmless(b, text)
  <1> SUFFICES ASSUME NEW g PROVE ParseNMEA(text, g).gps \in {g, Read(g, b)}
    BY DEF Harmless, Takes
  <1>1. CASE ~ChecksumHolds(text)
    BY <1>1 DEF ParseNMEA
  <1>2. CASE ChecksumHolds(text)
    <2> DEFINE s == Len(Body(text)) + 2
    <2>1. s \in Nat /\ s + 1 \in 1 .. Len(text)
      <3>1. s + 2 <= Len(text)
        BY <1>2 DEF ChecksumHolds
      <3> QED
        BY <3>1, BodyIsShorter
    <2>2. text[s + 1] = Sum(Body(text), 1)
      BY <1>2 DEF ChecksumHolds
    <2>3. text[s + 1].k = "sum" /\ text[s + 1].of = Body(text)
      BY <2>2 DEF Sum
    <2>4. text[s + 1] \in {Sum(b, 1), Sum(b, 2)}
      BY <2>1, <2>3 DEF OnlyDigitsOf
    <2>5. text[s + 1].of = b
      BY <2>4 DEF Sum
    <2> QED
      BY <2>3, <2>5, ReadsBody
  <1> QED
    BY <1>1, <1>2

LEMMA BodyWithoutStar ==
  ASSUME NEW text \in Seq(Symbol), Len(text) > 0, \A i \in 1 .. Len(text) : text[i].k # "*"
  PROVE  /\ ~HasStar(text)
         /\ Body(text) \in Seq(Symbol) /\ Len(Body(text)) = Len(text) - 1
         /\ \A i \in 1 .. Len(text) - 1 : Body(text)[i] = text[i + 1]
  <1>1. Body(text) = Tail(text) /\ ~HasStar(text)
    BY DEF Body, HasStar
  <1> QED
    BY <1>1

LEMMA StarlessHarmless ==
  ASSUME NEW b, NEW text, ~HasStar(text), Body(text) \in Unchecked(b)
  PROVE  Harmless(b, text)
  BY ReadsBody DEF Harmless, Takes

(* The '*' and the digits of a sentence on the wire, and of what is not.    *)
LEMMA WireKinds ==
  ASSUME NEW b \in Sentences, NEW i \in 1 .. Len(b) + 4
  PROVE  /\ OnTheWire(b)[i].k = "*" <=> i = Len(b) + 2
         /\ OnTheWire(b)[i].k = "sum" => OnTheWire(b)[i] \in {Sum(b, 1), Sum(b, 2)}
  <1>1. Len(b) \in Nat \ {0}
    BY WireSymbols
  <1>2. CASE i = 1
    BY <1>1, <1>2, WireSymbols DEF Dollar, Mark
  <1>3. CASE i \in 2 .. Len(b) + 1
    <2>1. i - 1 \in 1 .. Len(b) /\ (i - 1) + 1 = i /\ i # Len(b) + 2
      BY <1>1, <1>3
    <2>2. OnTheWire(b)[i] = b[i - 1]
      BY <2>1, WireSymbols
    <2>3. b[i - 1].k \in {"char", ","}
      BY <2>1, SentencesAssumption, Zenon
    <2> QED
      BY <2>1, <2>2, <2>3
  <1>4. CASE i = Len(b) + 2
    BY <1>4, WireSymbols DEF Star, Mark
  <1>5. CASE i \in {Len(b) + 3, Len(b) + 4}
    <2>1. i # Len(b) + 2 /\ OnTheWire(b)[i] \in {Sum(b, 1), Sum(b, 2)}
      BY <1>1, <1>5, WireSymbols
    <2>2. OnTheWire(b)[i].k = "sum"
      BY <2>1 DEF Sum
    <2> QED
      BY <2>1, <2>2
  <1> QED
    BY <1>1, <1>2, <1>3, <1>4, <1>5

LEMMA NoiseKinds ==
  ASSUME NEW c \in Noise
  PROVE  c.k # "sum" /\ (c.k = "*" <=> c = Star)
  <1>1. c \in {Dollar, LineEnd, Star, Comma} \/ c.k = "char"
    BY NoiseAssumption, Zenon
  <1>2. Dollar.k = "$" /\ LineEnd.k = "eol" /\ Star.k = "*" /\ Comma.k = ","
    BY DEF Dollar, LineEnd, Star, Comma, Mark
  <1> QED
    BY <1>1, <1>2

(* Cut short: by a line end where there was none.                           *)
LEMMA CutHarmless ==
  ASSUME NEW b \in Sentences, NEW text \in Seq(Symbol), Len(text) \in 1 .. Len(b) + 4,
         \A i \in 1 .. Len(text) : text[i] = OnTheWire(b)[i]
  PROVE  Harmless(b, text)
  <1> DEFINE L == Len(b)
             m == Len(text)
  <1>1. b \in Seq(Symbol) /\ L \in Nat \ {0} /\ m \in 1 .. L + 4
    BY WireSymbols
  <1>2. \A i \in 1 .. L : OnTheWire(b)[i + 1] = b[i]
    BY WireSymbols
  <1>3. \A i \in 1 .. m : /\ text[i].k = "*" <=> i = L + 2
                          /\ text[i].k = "sum" => text[i] \in {Sum(b, 1), Sum(b, 2)}
    <2> SUFFICES ASSUME NEW i \in 1 .. m
                 PROVE  /\ text[i].k = "*" <=> i = L + 2
                        /\ text[i].k = "sum" => text[i] \in {Sum(b, 1), Sum(b, 2)}
      OBVIOUS
    <2>1. i \in 1 .. L + 4 /\ text[i] = OnTheWire(b)[i]
      BY <1>1
    <2> QED
      BY <2>1, WireKinds
  <1>4. CASE m >= L + 2
    <2>1. HasStar(text)
      <3>1. L + 2 \in 1 .. m
        BY <1>1, <1>4
      <3> QED
        BY <1>3, <3>1 DEF HasStar
    <2>2. OnlyDigitsOf(b, text)
      BY <1>3 DEF OnlyDigitsOf
    <2> QED
      BY <2>1, <2>2, StarredHarmless
  <1>5. CASE m = 1
    <2>1. ~(Len(text) > Shortest)
      BY <1>5, ShortestAssumption
    <2> QED
      BY <2>1 DEF Harmless
  <1>6. CASE m \in 2 .. L + 1
    <2> DEFINE n == m - 1
    <2>1. n \in 1 .. L /\ \A i \in 1 .. m : text[i].k # "*"
      BY <1>1, <1>3, <1>6
    <2>2. /\ ~HasStar(text) /\ Body(text) \in Seq(Symbol) /\ Len(Body(text)) = n
          /\ \A i \in 1 .. n : Body(text)[i] = text[i + 1]
      BY <1>1, <2>1, BodyWithoutStar
    <2>3. /\ SubSeq(b, 1, n) \in Seq(Symbol) /\ Len(SubSeq(b, 1, n)) = n
          /\ \A i \in 1 .. n : SubSeq(b, 1, n)[i] = b[i]
      BY <1>1, <2>1
    <2>4. ASSUME NEW i \in 1 .. n PROVE Body(text)[i] = b[i]
      <3>1. i \in 1 .. L /\ i + 1 \in 1 .. m
        BY <1>1, <2>1
      <3> QED
        BY <1>2, <2>2, <3>1
    <2>5. Body(text) = SubSeq(b, 1, n)
      BY <2>1, <2>2, <2>3, <2>4, SeqEqual
    <2> QED
      BY <2>1, <2>2, <2>5, StarlessHarmless DEF Unchecked
  <1> HIDE DEF L, m
  <1>7. m >= L + 2 \/ m = 1 \/ m \in 2 .. L + 1
    BY <1>1
  <1> QED
    BY <1>4, <1>5, <1>6, <1>7

(* A symbol too many.                                                       *)
LEMMA InsertedHarmless ==
  ASSUME NEW b \in Sentences, NEW text \in Seq(Symbol), Len(text) = Len(b) + 5,
         NEW k \in 1 .. Len(b) + 4, text[k + 1] \in Noise,
         \A i \in 1 .. k : text[i] = OnTheWire(b)[i],
         \A i \in k + 2 .. Len(text) : text[i] = OnTheWire(b)[i - 1]
  PROVE  Harmless(b, text)
  <1> DEFINE L == Len(b)
             s == IF k >= L + 2 THEN L + 2 ELSE L + 3
  <1>1. L \in Nat \ {0} /\ k \in 1 .. L + 4 /\ Len(text) = L + 5
    BY WireSymbols
  <1>2. OnTheWire(b)[L + 2] = Star
    BY WireSymbols
  <1>3. s \in 1 .. Len(text) /\ text[s] = Star
    <2>1. CASE k >= L + 2
      <3>1. s = L + 2 /\ s \in 1 .. k
        BY <1>1, <2>1
      <3> QED
        BY <1>1, <1>2, <3>1
    <2>2. CASE ~(k >= L + 2)
      <3>1. s = L + 3 /\ s \in k + 2 .. Len(text) /\ s - 1 = L + 2
        BY <1>1, <2>2
      <3> QED
        BY <1>1, <1>2, <3>1
    <2> QED
      BY <2>1, <2>2
  <1>4. HasStar(text)
    BY <1>3 DEF HasStar, Star, Mark
  <1>5. ASSUME NEW i \in 1 .. Len(text), text[i].k = "sum"
        PROVE  text[i] \in {Sum(b, 1), Sum(b, 2)}
    <2>1. CASE i \in 1 .. k
      <3>1. i \in 1 .. L + 4
        BY <1>1, <2>1
      <3> QED
        BY <1>5, <2>1, <3>1, WireKinds
    <2>2. CASE i = k + 1
      BY <1>5, <2>2, NoiseKinds
    <2>3. CASE i \in k + 2 .. Len(text)
      <3>1. i - 1 \in 1 .. L + 4 /\ text[i] = OnTheWire(b)[i - 1]
        BY <1>1, <2>3
      <3> QED
        BY <1>5, <3>1, WireKinds
    <2> QED
      BY <1>1, <2>1, <2>2, <2>3
  <1> QED
    BY <1>4, <1>5, StarredHarmless DEF OnlyDigitsOf

(* The two digits behind something.                                         *)
LEMMA WithDigits ==
  ASSUME NEW b \in Seq(Symbol), NEW t \in Seq(Symbol), Len(t) = Len(b) + 2,
         \A i \in 1 .. Len(b) : t[i] = b[i],
         t[Len(b) + 1] = Sum(b, 1), t[Len(b) + 2] = Sum(b, 2)
  PROVE  t = b \o Digits(b)
  <1>1. Len(b) \in Nat /\ Sum(b, 1) \in Symbol /\ Sum(b, 2) \in Symbol
    <2>1. Len(b) \in Nat
      OBVIOUS
    <2>2. Len(b) + 1 \in 1 .. Len(t) /\ Len(b) + 2 \in 1 .. Len(t)
      BY <2>1
    <2> QED
      BY <2>1, <2>2
  <1> DEFINE d == <<Sum(b, 1), Sum(b, 2)>>
  <1>2. d \in Seq(Symbol) /\ Len(d) = 2 /\ d[1] = Sum(b, 1) /\ d[2] = Sum(b, 2)
    BY <1>1
  <1> HIDE DEF d
  <1>3. /\ b \o d \in Seq(Symbol) /\ Len(b \o d) = Len(b) + 2
        /\ \A i \in 1 .. Len(b) : (b \o d)[i] = b[i]
        /\ (b \o d)[Len(b) + 1] = Sum(b, 1) /\ (b \o d)[Len(b) + 2] = Sum(b, 2)
    <2>1. /\ b \o d \in Seq(Symbol) /\ Len(b \o d) = Len(b) + Len(d)
          /\ \A i \in 1 .. Len(b) : (b \o d)[i] = b[i]
          /\ \A i \in 1 .. Len(d) : (b \o d)[Len(b) + i] = d[i]
      BY <1>2, OneBehindTheOther, Zenon
    <2>2. 1 \in 1 .. Len(d) /\ 2 \in 1 .. Len(d)
      BY <1>2
    <2> QED
      BY <1>2, <2>1, <2>2
  <1>4. ASSUME NEW i \in 1 .. Len(t) PROVE t[i] = (b \o d)[i]
    <2>1. i \in 1 .. Len(b) \/ i = Len(b) + 1 \/ i = Len(b) + 2
      BY <1>1
    <2> QED
      BY <1>3, <2>1
  <1>5. t = b \o d
    BY <1>3, <1>4, SeqEqual
  <1> QED
    BY <1>5 DEF Digits, d

(* Another symbol: instead of the '*' it stays, glued to the last field     *)
(* with the digits behind it.                                               *)
LEMMA ReplacedHarmless ==
  ASSUME NEW b \in Sentences, NEW text \in Seq(Symbol), Len(text) = Len(b) + 4,
         NEW k \in 2 .. Len(b) + 4, text[k] \in Noise, text[k] # OnTheWire(b)[k],
         \A i \in 1 .. Len(text) : i # k => text[i] = OnTheWire(b)[i]
  PROVE  Harmless(b, text)
  <1> DEFINE L == Len(b)
             c == text[k]
  <1>1. b \in Seq(Symbol) /\ L \in Nat \ {0} /\ k \in 2 .. L + 4 /\ Len(text) = L + 4
    BY WireSymbols
  <1>2. ASSUME NEW i \in 1 .. Len(text), i # k
        PROVE  /\ text[i].k = "*" <=> i = L + 2
               /\ text[i].k = "sum" => text[i] \in {Sum(b, 1), Sum(b, 2)}
    BY <1>2, WireKinds
  <1>3. OnlyDigitsOf(b, text)
    <2> SUFFICES ASSUME NEW i \in 1 .. Len(text), text[i].k = "sum"
                 PROVE  text[i] \in {Sum(b, 1), Sum(b, 2)}
      BY DEF OnlyDigitsOf
    <2>1. i # k
      BY NoiseKinds
    <2> QED
      BY <1>2, <2>1
  <1>4. CASE k # L + 2
    <2>1. L + 2 \in 1 .. Len(text) /\ text[L + 2].k = "*"
      BY <1>1, <1>2, <1>4
    <2>2. HasStar(text)
      BY <2>1 DEF HasStar
    <2> QED
      BY <1>3, <2>2, StarredHarmless
  <1>5. CASE k = L + 2
    <2>1. \A i \in 1 .. Len(text) : text[i].k # "*"
      <3>1. c.k # "*"
        BY <1>5, NoiseKinds, WireSymbols
      <3> QED
        BY <1>2, <1>5, <3>1
    <2>2. /\ ~HasStar(text) /\ Body(text) \in Seq(Symbol) /\ Len(Body(text)) = L + 3
          /\ \A i \in 1 .. L + 3 : Body(text)[i] = text[i + 1]
      BY <1>1, <2>1, BodyWithoutStar
    <2> DEFINE e == <<c>>
               d == Digits(b)
    <2>3. /\ Sum(b, 1) \in Symbol /\ Sum(b, 2) \in Symbol /\ c \in Symbol
          /\ d \in Seq(Symbol) /\ Len(d) = 2 /\ d[1] = Sum(b, 1) /\ d[2] = Sum(b, 2)
          /\ e \in Seq(Symbol) /\ Len(e) = 1 /\ e[1] = c
      <3>1. Sum(b, 1) \in Symbol /\ Sum(b, 2) \in Symbol
        BY SentencesAssumption, Zenon
      <3>2. c \in Symbol
        BY NoiseAssumption
      <3> QED
        BY <3>1, <3>2 DEF Digits
    <2> HIDE DEF e, d
    <2> DEFINE f == b \o e
    <2>4. /\ f \in Seq(Symbol) /\ Len(f) = L + 1 /\ f[L + 1] = c
          /\ \A i \in 1 .. L : f[i] = b[i]
      <3>1. /\ f \in Seq(Symbol) /\ Len(f) = Len(b) + Len(e)
            /\ \A i \in 1 .. Len(b) : f[i] = b[i]
            /\ \A i \in 1 .. Len(e) : f[Len(b) + i] = e[i]
        BY <1>1, <2>3, OneBehindTheOther, Zenon
      <3>2. 1 \in 1 .. Len(e)
        BY <2>3
      <3> QED
        BY <1>1, <2>3, <3>1, <3>2
    <2> HIDE DEF f
    <2>5. /\ f \o d \in Seq(Symbol) /\ Len(f \o d) = L + 3
          /\ \A i \in 1 .. L + 1 : (f \o d)[i] = f[i]
          /\ (f \o d)[L + 2] = d[1] /\ (f \o d)[L + 3] = d[2]
      <3>1. /\ f \o d \in Seq(Symbol) /\ Len(f \o d) = Len(f) + Len(d)
            /\ \A i \in 1 .. Len(f) : (f \o d)[i] = f[i]
            /\ \A i \in 1 .. Len(d) : (f \o d)[Len(f) + i] = d[i]
        BY <2>3, <2>4, OneBehindTheOther, Zenon
      <3>2. 1 \in 1 .. Len(d) /\ 2 \in 1 .. Len(d) /\ Len(f) + 1 = L + 2 /\ Len(f) + 2 = L + 3
        BY <1>1, <2>3, <2>4
      <3> QED
        BY <1>1, <2>3, <2>4, <3>1, <3>2
    <2>6. ASSUME NEW i \in 1 .. L + 3 PROVE Body(text)[i] = (f \o d)[i]
      <3>1. Body(text)[i] = text[i + 1] /\ i + 1 \in 1 .. Len(text)
        BY <1>1, <2>2
      <3>2. CASE i \in 1 .. L
        <4>1. i + 1 # k /\ i \in 1 .. L + 1
          BY <1>1, <1>5, <3>2
        <4>2. OnTheWire(b)[i + 1] = b[i]
          BY <3>2, WireSymbols
        <4> QED
          BY <2>4, <2>5, <3>1, <3>2, <4>1, <4>2
      <3>3. CASE i = L + 1
        <4>1. i + 1 = k /\ i \in 1 .. L + 1
          BY <1>1, <1>5, <3>3
        <4> QED
          BY <2>4, <2>5, <3>1, <3>3, <4>1
      <3>4. CASE i = L + 2
        <4>1. i + 1 = L + 3 /\ i + 1 # k
          BY <1>1, <1>5, <3>4
        <4>2. text[i + 1] = Sum(b, 1)
          BY <3>1, <4>1, WireSymbols
        <4> QED
          BY <2>3, <2>5, <3>1, <3>4, <4>1, <4>2
      <3>5. CASE i = L + 3
        <4>1. i + 1 = L + 4 /\ i + 1 # k
          BY <1>1, <1>5, <3>5
        <4>2. text[i + 1] = Sum(b, 2)
          BY <3>1, <4>1, WireSymbols
        <4> QED
          BY <2>3, <2>5, <3>1, <3>5, <4>1, <4>2
      <3>6. i \in 1 .. L \/ i = L + 1 \/ i = L + 2 \/ i = L + 3
        BY <1>1
      <3> QED
        BY <3>2, <3>3, <3>4, <3>5, <3>6
    <2>7. Body(text) = f \o d
      BY <1>1, <2>2, <2>5, <2>6, SeqEqual
    <2>8. Body(text) \in Unchecked(b)
      BY <2>7 DEF Unchecked, f, d, e
    <2> QED
      BY <2>2, <2>8, StarlessHarmless
  <1> QED
    BY <1>4, <1>5

(* A symbol too few: without the '*', the digits are glued to the last      *)
(* field.                                                                   *)
LEMMA LostHarmless ==
  ASSUME NEW b \in Sentences, NEW text \in Seq(Symbol), Len(text) = Len(b) + 3,
         NEW k \in 2 .. Len(b) + 4,
         \A i \in 1 .. k - 1 : text[i] = OnTheWire(b)[i],
         \A i \in k .. Len(text) : text[i] = OnTheWire(b)[i + 1]
  PROVE  Harmless(b, text)
  <1> DEFINE L == Len(b)
             s == IF k > L + 2 THEN L + 2 ELSE L + 1
  <1>1. b \in Seq(Symbol) /\ L \in Nat \ {0} /\ k \in 2 .. L + 4 /\ Len(text) = L + 3
    BY WireSymbols
  <1>2. ASSUME NEW i \in 1 .. Len(text)
        PROVE  IF i < k THEN i \in 1 .. L + 4 /\ text[i] = OnTheWire(b)[i]
               ELSE i + 1 \in 1 .. L + 4 /\ text[i] = OnTheWire(b)[i + 1]
    <2>1. i < k => i \in 1 .. k - 1 /\ i \in 1 .. L + 4
      BY <1>1
    <2>2. ~(i < k) => i \in k .. Len(text) /\ i + 1 \in 1 .. L + 4
      BY <1>1
    <2> QED
      BY <2>1, <2>2
  <1>3. OnlyDigitsOf(b, text)
    <2> SUFFICES ASSUME NEW i \in 1 .. Len(text), text[i].k = "sum"
                 PROVE  text[i] \in {Sum(b, 1), Sum(b, 2)}
      BY DEF OnlyDigitsOf
    <2>1. CASE i < k
      BY <1>2, <2>1, WireKinds
    <2>2. CASE ~(i < k)
      BY <1>2, <2>2, WireKinds
    <2> QED
      BY <2>1, <2>2
  <1>4. OnTheWire(b)[L + 2] = Star
    BY WireSymbols
  <1>5. CASE k # L + 2
    <2>1. s \in 1 .. Len(text) /\ text[s] = Star
      <3>1. CASE k > L + 2
        <4>1. s = L + 2 /\ s \in 1 .. Len(text) /\ s < k
          BY <1>1, <3>1
        <4> QED
          BY <1>2, <1>4, <4>1
      <3>2. CASE ~(k > L + 2)
        <4>1. s = L + 1 /\ s \in 1 .. Len(text) /\ ~(s < k) /\ s + 1 = L + 2
          BY <1>1, <1>5, <3>2
        <4> QED
          BY <1>2, <1>4, <4>1
      <3> QED
        BY <3>1, <3>2
    <2>2. HasStar(text)
      BY <2>1 DEF HasStar, Star, Mark
    <2> QED
      BY <1>3, <2>2, StarredHarmless
  <1>6. CASE k = L + 2
    <2>1. ASSUME NEW i \in 1 .. Len(text) PROVE text[i].k # "*"
      <3>1. CASE i < k
        <4>1. i # L + 2 /\ i \in 1 .. L + 4 /\ text[i] = OnTheWire(b)[i]
          BY <1>1, <1>2, <1>6, <3>1
        <4> QED
          BY <4>1, WireKinds
      <3>2. CASE ~(i < k)
        <4>1. i + 1 # L + 2 /\ i + 1 \in 1 .. L + 4 /\ text[i] = OnTheWire(b)[i + 1]
          BY <1>1, <1>2, <1>6, <3>2
        <4> QED
          BY <4>1, WireKinds
      <3> QED
        BY <3>1, <3>2
    <2>2. /\ ~HasStar(text) /\ Body(text) \in Seq(Symbol) /\ Len(Body(text)) = L + 2
          /\ \A i \in 1 .. L + 2 : Body(text)[i] = text[i + 1]
      BY <1>1, <2>1, BodyWithoutStar
    <2>3. ASSUME NEW i \in 1 .. L PROVE Body(text)[i] = b[i]
      <3>1. i + 1 \in 1 .. Len(text) /\ i + 1 < k /\ i \in 1 .. L + 2
        BY <1>1, <1>6
      <3> QED
        BY <1>2, <2>2, <3>1, WireSymbols
    <2>4. Body(text)[L + 1] = Sum(b, 1) /\ Body(text)[L + 2] = Sum(b, 2)
      <3>1. /\ L + 2 \in 1 .. Len(text) /\ ~(L + 2 < k) /\ (L + 2) + 1 = L + 3
            /\ L + 3 \in 1 .. Len(text) /\ ~(L + 3 < k) /\ (L + 3) + 1 = L + 4
            /\ L + 1 \in 1 .. L + 2 /\ L + 2 \in 1 .. L + 2
            /\ (L + 1) + 1 = L + 2 /\ (L + 2) + 1 = L + 3
        BY <1>1, <1>6
      <3>2. text[L + 2] = OnTheWire(b)[L + 3] /\ text[L + 3] = OnTheWire(b)[L + 4]
        BY <1>2, <3>1
      <3>3. Body(text)[L + 1] = text[L + 2] /\ Body(text)[L + 2] = text[L + 3]
        BY <2>2, <3>1
      <3> QED
        BY <3>2, <3>3, WireSymbols
    <2>5. Body(text) = b \o Digits(b)
      BY <1>1, <2>2, <2>3, <2>4, WithDigits
    <2>6. Body(text) \in Unchecked(b)
      BY <2>5 DEF Unchecked
    <2> QED
      BY <2>2, <2>6, StarlessHarmless
  <1> QED
    BY <1>5, <1>6

(* A '$' in the middle of a sentence, and the rest of it: with the '*', or  *)
(* too short to be looked at.                                               *)
LEMMA RestartedHarmless ==
  ASSUME NEW b \in Sentences, NEW text \in Seq(Symbol), NEW j \in 2 .. Len(b) + 5,
         Len(text) = Len(b) + 6 - j, text[1] = Dollar,
         \A i \in 2 .. Len(text) : text[i] = OnTheWire(b)[j + i - 2]
  PROVE  Harmless(b, text)
  <1> DEFINE L == Len(b)
  <1>1. L \in Nat \ {0} /\ j \in 2 .. L + 5 /\ Len(text) = L + 6 - j
    BY WireSymbols
  <1>2. CASE j > L + 2
    <2>1. ~(Len(text) > Shortest)
      BY <1>1, <1>2, ShortestAssumption
    <2> QED
      BY <2>1 DEF Harmless
  <1>3. CASE j <= L + 2
    <2> DEFINE s == L + 4 - j
    <2>1. HasStar(text)
      <3>1. s \in 2 .. Len(text) /\ s \in 1 .. Len(text) /\ j + s - 2 = L + 2
        BY <1>1, <1>3
      <3>2. text[s] = Star
        BY <3>1, WireSymbols
      <3> HIDE DEF s
      <3> QED
        BY <3>1, <3>2 DEF HasStar, Star, Mark
    <2>2. ASSUME NEW i \in 1 .. Len(text), text[i].k = "sum"
          PROVE  text[i] \in {Sum(b, 1), Sum(b, 2)}
      <3>1. i # 1
        BY <2>2 DEF Dollar, Mark
      <3>2. i \in 2 .. Len(text) /\ j + i - 2 \in 1 .. L + 4
        BY <1>1, <3>1
      <3> QED
        BY <2>2, <3>2, WireKinds
    <2> QED
      BY <2>1, <2>2, StarredHarmless DEF OnlyDigitsOf
  <1> QED
    BY <1>1, <1>2, <1>3

(* A lone '$' is too short.                                                 *)
LEMMA DollarHarmless ==
  ASSUME NEW b, NEW text, Len(text) = 1
  PROVE  Harmless(b, text)
  <1>1. ~(Len(text) > Shortest)
    BY ShortestAssumption
  <1> QED
    BY <1>1 DEF Harmless

-----------------------------------------------------------------------------
(* What the receiver has collected comes to no harm.                        *)
Left == IF Sent <= Len(body) + 4 THEN Len(body) + 4 - Sent ELSE 0

(* What will have been collected at the line end, if nothing else happens.  *)
Completes(text) ==
    /\ text \in Seq(Symbol)
    /\ Len(text) = index + Left
    /\ \A i \in 1 .. index : text[i] = buffer[i - 1]
    /\ \A i \in index + 1 .. Len(text) : text[i] = OnTheWire(body)[Sent + i - index]

ComingToNoHarm ==
    in_sentence /\ Sent > 0 => \A text : Completes(text) => Harmless(body, text)

(* Between two sentences, nothing but a stray '$' is collected.             *)
IdleBetween ==
    /\ in_sentence /\ (pending = << >> \/ (Sent = 0 /\ ~hurt)) => index = 1
    /\ ~hurt /\ Sent > Len(body) + 4 => ~in_sentence

SymbolsCollected == in_sentence => \A i \in 0 .. index - 1 : buffer[i] \in Symbol

DInv ==
    /\ LInv /\ ComingToNoHarm /\ IdleBetween /\ SymbolsCollected
    /\ Len(body) \in Nat

(* What a step may do to the fix.                                           *)
TakesOnWhatWasSent == Takes(body, Collected, gps, gps')

(* What one call of EDC_GPS_StreamFeed does, seen from outside.             *)
LEMMA FeedDollar ==
  ASSUME IInv, StreamFeed(Dollar)
  PROVE  /\ in_sentence' /\ index' = 1 /\ buffer'[0] = Dollar /\ gps' = gps
  <1>1. Open(Dollar)
    BY MarksDiffer DEF StreamFeed, Ignore, Complete, Drop, Collect, Overflow, Restarts
  <1>2. 0 \in 0 .. BufferSize - 1 /\ Dollar \in Symbol /\ Store(0, Dollar)
    BY <1>1, BufferAssumption, NoiseAssumption DEF Open
  <1>3. buffer'[0] = Dollar
    BY <1>2, StoreInside DEF IInv, TypeOK
  <1> QED
    BY <1>1, <1>3 DEF Open

LEMMA FeedIdle ==
  ASSUME IInv, NEW c \in Symbol, c # Dollar, ~in_sentence, StreamFeed(c)
  PROVE  ~in_sentence' /\ gps' = gps
  <1>1. Ignore(c)
    BY DEF StreamFeed, Open, Complete, Drop, Collect, Overflow, Restarts
  <1> QED
    BY <1>1 DEF Ignore, ctx

LEMMA FeedEnd ==
  ASSUME IInv, in_sentence, StreamFeed(LineEnd)
  PROVE  /\ ~in_sentence'
         /\ \/ gps' = gps
            \/ index > Shortest /\ gps' = ParseNMEA(Collected, gps).gps
  <1>1. Complete(LineEnd) \/ Drop(LineEnd)
    BY MarksDiffer DEF StreamFeed, Open, Ignore, Collect, Overflow, Restarts
  <1> QED
    BY <1>1 DEF Complete, Drop

LEMMA FeedOther ==
  ASSUME IInv, NEW c \in Symbol, c \notin {Dollar, LineEnd}, in_sentence, StreamFeed(c)
  PROVE  /\ gps' = gps
         /\ \/ ~in_sentence'
            \/ /\ in_sentence' /\ index' = index + 1 /\ buffer'[index] = c
               /\ \A j \in 0 .. index - 1 : buffer'[j] = buffer[j]
  <1>1. Collect(c) \/ Overflow(c)
    BY DEF StreamFeed, Open, Ignore, Complete, Drop, Restarts
  <1>2. CASE Overflow(c)
    BY <1>2 DEF Overflow
  <1>3. CASE Collect(c)
    <2>1. index \in 0 .. BufferSize - 1 /\ Store(index, c)
      BY <1>3 DEF IInv, TypeOK, Collect
    <2>2. /\ buffer'[index] = c
          /\ \A j \in 0 .. BufferSize - 1 : j # index => buffer'[j] = buffer[j]
      BY <2>1, StoreInside DEF IInv, TypeOK
    <2>3. \A j \in 0 .. index - 1 : j \in 0 .. BufferSize - 1 /\ j # index
      BY <2>1, BufferAssumption
    <2> QED
      BY <1>3, <2>2, <2>3 DEF Collect
  <1> QED
    BY <1>1, <1>2, <1>3

LEMMA FeedSymbols ==
  ASSUME IInv, SymbolsCollected, NEW c \in Symbol, StreamFeed(c)
  PROVE  SymbolsCollected'
  <1>1. index \in 0 .. BufferSize - 1 /\ BufferSize \in Nat
    BY BufferAssumption DEF IInv, TypeOK
  <1>2. CASE c = Dollar
    <2>1. index' = 1 /\ buffer'[0] = c
      BY <1>2, FeedDollar
    <2> QED
      BY <2>1 DEF SymbolsCollected
  <1>3. CASE c # Dollar /\ ~in_sentence
    BY <1>3, FeedIdle DEF SymbolsCollected
  <1>4. CASE c = LineEnd /\ in_sentence
    BY <1>4, FeedEnd DEF SymbolsCollected
  <1>5. CASE c \notin {Dollar, LineEnd} /\ in_sentence
    <2>1. \/ ~in_sentence'
          \/ /\ in_sentence' /\ index' = index + 1 /\ buffer'[index] = c
             /\ \A j \in 0 .. index - 1 : buffer'[j] = buffer[j]
      BY <1>5, FeedOther
    <2>2. CASE ~in_sentence'
      BY <2>2 DEF SymbolsCollected
    <2>3. CASE in_sentence'
      <3>1. ASSUME NEW i \in 0 .. index PROVE buffer'[i] \in Symbol
        <4>1. i = index \/ i \in 0 .. index - 1
          BY <1>1
        <4> QED
          BY <1>5, <2>1, <2>3, <4>1 DEF SymbolsCollected
      <3>2. index' - 1 = index
        BY <1>1, <2>1, <2>3
      <3> QED
        BY <3>1, <3>2 DEF SymbolsCollected
    <2> QED
      BY <2>2, <2>3
  <1> QED
    BY <1>2, <1>3, <1>4, <1>5

(* What has been collected at a line end.                                   *)
LEMMA CollectedText ==
  ASSUME IInv, SymbolsCollected, in_sentence
  PROVE  /\ Collected \in Seq(Symbol) /\ Len(Collected) = index /\ index \in Nat
         /\ \A i \in 1 .. index : Collected[i] = buffer[i - 1]
  <1>1. index \in Nat
    BY BufferAssumption DEF IInv, TypeOK
  <1>2. \A i \in 1 .. index : buffer[i - 1] \in Symbol
    BY <1>1 DEF SymbolsCollected
  <1> QED
    BY <1>1, <1>2 DEF Collected

LEMMA HarmlessRead ==
  ASSUME Harmless(body, Collected), Len(Collected) > Shortest,
         gps' = ParseNMEA(Collected, gps).gps
  PROVE  TakesOnWhatWasSent
  BY DEF Harmless, TakesOnWhatWasSent, Takes

LEMMA Place ==
  ASSUME LInv, pending # << >>
  PROVE  /\ body \in Sentences /\ Len(body) \in Nat \ {0}
         /\ Sent \in 0 .. Len(body) + 5 /\ Len(pending) = Len(body) + 6 - Sent
         /\ Head(pending) = OnTheWire(body)[Sent + 1] /\ Head(pending) \in Symbol
  <1>1. /\ pending \in Seq(Symbol) /\ Len(pending) \in Nat \ {0} /\ body \in Sentences
        /\ Len(body) \in Nat \ {0} /\ Len(pending) <= Len(body) + 6
        /\ \A k \in 1 .. Len(pending) : pending[k] = OnTheWire(body)[Sent + k]
    BY WireSymbols DEF LInv, SentenceOK
  <1>2. Head(pending) = pending[1] /\ 1 \in 1 .. Len(pending)
    BY <1>1
  <1>3. Sent \in 0 .. Len(body) + 5 /\ Len(pending) = Len(body) + 6 - Sent
    BY <1>1 DEF Sent
  <1> QED
    BY <1>1, <1>2, <1>3

LEMMA IndexNat ==
  ASSUME IInv
  PROVE  index \in Nat /\ (in_sentence => index > 0 /\ buffer[0] = Dollar)
  BY BufferAssumption DEF IInv, TypeOK, OneSentence

(* A '$' arrives.                                                           *)
LEMMA DollarToNoHarm ==
  ASSUME IInv, StreamFeed(Dollar), body' = body, Len(body) \in Nat, Sent' \in Nat \ {0},
         Sent' <= Len(body) + 4 => body \in Sentences
  PROVE  ComingToNoHarm' /\ index' = 1
  <1>1. index' = 1 /\ buffer'[0] = Dollar
    BY FeedDollar
  <1> SUFFICES ASSUME NEW text, Completes(text)' PROVE Harmless(body, text)
    BY <1>1 DEF ComingToNoHarm
  <1> DEFINE m == Sent'
             L == Len(body)
  <1>2. /\ m <= L + 4 => Left' = L + 4 - m
        /\ m >= L + 4 => Left' = 0
    BY DEF Left
  <1>3. /\ text \in Seq(Symbol) /\ Len(text) = 1 + Left'
        /\ \A i \in 1 .. 1 : text[i] = buffer'[i - 1]
        /\ \A i \in 1 + 1 .. Len(text) : text[i] = OnTheWire(body)[m + i - 1]
    BY <1>1 DEF Completes
  <1>4. text[1] = Dollar
    <2>1. 1 \in 1 .. 1 /\ 1 - 1 = 0
      OBVIOUS
    <2> QED
      BY <1>1, <1>3, <2>1
  <1>5. m \in Nat \ {0} /\ L \in Nat
    OBVIOUS
  <1> HIDE DEF m, L
  <1>6. CASE m <= L + 4
    <2> DEFINE j == m + 1
    <2>1. j \in 2 .. L + 5 /\ Len(text) = L + 6 - j
      BY <1>2, <1>3, <1>5, <1>6
    <2>2. ASSUME NEW i \in 2 .. Len(text) PROVE text[i] = OnTheWire(body)[j + i - 2]
      <3>1. i \in 1 + 1 .. Len(text) /\ m + i - 1 = j + i - 2
        BY <1>5
      <3> QED
        BY <1>3, <3>1
    <2>3. body \in Sentences
      BY <1>6 DEF m, L
    <2> HIDE DEF j
    <2> QED
      BY <1>3, <1>4, <2>1, <2>2, <2>3, RestartedHarmless DEF L
  <1>7. CASE m > L + 4
    <2>1. Len(text) = 1
      BY <1>2, <1>3, <1>5, <1>7
    <2> QED
      BY <1>3, <1>4, <2>1, DollarHarmless
  <1> QED
    BY <1>5, <1>6, <1>7

(* What is collected if nothing has gone wrong since the '$'.               *)
LEMMA CollectedWell ==
  ASSUME LInv, IdleBetween, pending # << >>, ~hurt, in_sentence
  PROVE  /\ Sent \in 0 .. Len(body) + 4
         /\ index = (IF Sent = 0 THEN 1 ELSE Sent)
         /\ \A i \in 1 .. index : buffer[i - 1] = OnTheWire(body)[i]
  <1>1. body \in Sentences /\ Len(body) \in Nat \ {0} /\ Sent \in 0 .. Len(body) + 5
    BY Place
  <1>2. Sent \in 0 .. Len(body) + 4
    BY <1>1 DEF IdleBetween
  <1>3. CASE Sent = 0
    <2>1. index = 1 /\ buffer[0] = Dollar
      BY <1>3, IndexNat DEF LInv, IdleBetween
    <2>2. OnTheWire(body)[1] = Dollar
      BY <1>1, WireSymbols
    <2> QED
      BY <1>2, <1>3, <2>1, <2>2
  <1>4. CASE Sent # 0
    <2>1. Sent \in 1 .. Len(body) + 4
      BY <1>1, <1>2, <1>4
    <2>2. index = Sent /\ \A k \in 0 .. Sent - 1 : buffer[k] = OnTheWire(body)[k + 1]
      BY <2>1 DEF LInv, CollectedSoFar
    <2>3. ASSUME NEW i \in 1 .. index PROVE buffer[i - 1] = OnTheWire(body)[i]
      <3>1. i - 1 \in 0 .. Sent - 1 /\ (i - 1) + 1 = i
        BY <2>1, <2>2
      <3> QED
        BY <2>2, <3>1
    <2> QED
      BY <1>2, <1>4, <2>2, <2>3
  <1> QED
    BY <1>3, <1>4

(* A line end where there was none.                                         *)
LEMMA EndToNoHarm ==
  ASSUME DInv, pending # << >>, ~hurt, StreamFeed(LineEnd)
  PROVE  ~in_sentence' /\ TakesOnWhatWasSent
  <1>0. LineEnd \in Symbol /\ LineEnd # Dollar /\ IInv
    BY NoiseAssumption, MarksDiffer DEF DInv, LInv
  <1>1. CASE ~in_sentence
    BY <1>0, <1>1, FeedIdle DEF TakesOnWhatWasSent, Takes
  <1>2. CASE in_sentence
    <2>1. /\ ~in_sentence'
          /\ \/ gps' = gps
             \/ index > Shortest /\ gps' = ParseNMEA(Collected, gps).gps
      BY <1>0, <1>2, FeedEnd
    <2>2. /\ body \in Sentences /\ Len(body) \in Nat \ {0}
          /\ Sent \in 0 .. Len(body) + 4
          /\ index = (IF Sent = 0 THEN 1 ELSE Sent)
          /\ \A i \in 1 .. index : buffer[i - 1] = OnTheWire(body)[i]
      BY <1>2, Place, CollectedWell DEF DInv
    <2>3. /\ Collected \in Seq(Symbol) /\ Len(Collected) = index
          /\ \A i \in 1 .. index : Collected[i] = buffer[i - 1]
      BY <1>0, <1>2, CollectedText DEF DInv
    <2>4. Harmless(body, Collected)
      <3>1. Len(Collected) \in 1 .. Len(body) + 4
        BY <2>2, <2>3
      <3>2. \A i \in 1 .. Len(Collected) : Collected[i] = OnTheWire(body)[i]
        BY <2>2, <2>3
      <3> QED
        BY <2>2, <2>3, <3>1, <3>2, CutHarmless
    <2> QED
      BY <2>1, <2>3, <2>4, HarmlessRead DEF TakesOnWhatWasSent, Takes
  <1> QED
    BY <1>1, <1>2

(* A symbol of the sentence arrives.                                        *)
LEMMA TransmitToNoHarm ==
  ASSUME DInv, Transmit
  PROVE  ComingToNoHarm' /\ IdleBetween' /\ SymbolsCollected' /\ TakesOnWhatWasSent
  <1> DEFINE L == Len(body)
             c == Head(pending)
             k == Sent
  <1>1. /\ pending # << >> /\ StreamFeed(c) /\ pending' = Tail(pending)
        /\ body' = body /\ hurt' = hurt
    BY DEF Transmit
  <1>2. /\ LInv /\ IInv /\ SentenceOK
    BY DEF DInv, LInv
  <1>3. /\ body \in Sentences /\ L \in Nat \ {0} /\ k \in 0 .. L + 5
        /\ Len(pending) = L + 6 - k /\ c = OnTheWire(body)[k + 1] /\ c \in Symbol
    BY <1>1, <1>2, Place
  <1>4. Sent' = k + 1 /\ (pending' = << >> => k = L + 5)
    <2>1. Sent' = Sent + 1
      BY <1>1, <1>2, TailSentenceOK
    <2>2. Len(pending') = Len(pending) - 1
      BY <1>1, <1>2 DEF SentenceOK
    <2> QED
      BY <1>3, <2>1, <2>2
  <1>5. SymbolsCollected'
    BY <1>1, <1>2, <1>3, FeedSymbols DEF DInv
  <1>6. index \in Nat
    BY <1>2, IndexNat
  <1>7. CASE k = 0
    <2>1. c = Dollar
      BY <1>3, <1>7, WireSymbols
    <2>2. Sent' \in Nat \ {0}
      BY <1>3, <1>4
    <2>3. ComingToNoHarm' /\ index' = 1
      BY <1>1, <1>2, <1>3, <2>1, <2>2, DollarToNoHarm
    <2>4. gps' = gps
      BY <1>1, <1>2, <2>1, FeedDollar
    <2>5. ~(Sent' > Len(body') + 4)
      BY <1>1, <1>3, <1>4, <1>7
    <2> QED
      BY <1>5, <2>3, <2>4, <2>5 DEF IdleBetween, TakesOnWhatWasSent, Takes
  <1>8. CASE k \in 1 .. L + 3
    <2>1. c \notin {Dollar, LineEnd}
      <3>1. k + 1 \in 2 .. L + 4
        BY <1>3, <1>8
      <3> QED
        BY <1>3, <3>1, InsideSentence
    <2>2. IdleBetween'
      <3>1. pending' # << >> /\ Sent' # 0 /\ ~(Sent' > Len(body') + 4)
        BY <1>1, <1>3, <1>4, <1>8
      <3> QED
        BY <3>1 DEF IdleBetween
    <2>3. CASE ~in_sentence
      <3>1. ~in_sentence' /\ gps' = gps
        BY <1>1, <1>2, <1>3, <2>1, <2>3, FeedIdle
      <3> QED
        BY <1>5, <2>2, <3>1 DEF ComingToNoHarm, TakesOnWhatWasSent, Takes
    <2>4. CASE in_sentence
      <3>1. /\ gps' = gps
            /\ \/ ~in_sentence'
               \/ /\ in_sentence' /\ index' = index + 1 /\ buffer'[index] = c
                  /\ \A j \in 0 .. index - 1 : buffer'[j] = buffer[j]
        BY <1>1, <1>2, <1>3, <2>1, <2>4, FeedOther
      <3>2. CASE ~in_sentence'
        BY <1>5, <2>2, <3>1, <3>2 DEF ComingToNoHarm, TakesOnWhatWasSent, Takes
      <3>3. CASE in_sentence'
        <4>1. ASSUME NEW text, Completes(text)' PROVE Completes(text)
          <5>1. Left = L + 4 - k /\ Left' = L + 4 - (k + 1)
            BY <1>1, <1>3, <1>4, <1>8 DEF Left
          <5>2. /\ text \in Seq(Symbol) /\ Len(text) = index' + Left'
                /\ \A i \in 1 .. index' : text[i] = buffer'[i - 1]
                /\ \A i \in index' + 1 .. Len(text) : text[i] = OnTheWire(body)[Sent' + i - index']
            BY <1>1, <4>1 DEF Completes
          <5>3. Len(text) = index + Left
            BY <1>3, <1>6, <3>1, <3>3, <5>1, <5>2
          <5>4. ASSUME NEW i \in 1 .. index PROVE text[i] = buffer[i - 1]
            <6>1. i \in 1 .. index + 1 /\ i - 1 \in 0 .. index - 1
              BY <1>6
            <6> QED
              BY <3>1, <3>3, <5>2, <6>1
          <5>5. ASSUME NEW i \in index + 1 .. Len(text)
                PROVE  text[i] = OnTheWire(body)[k + i - index]
            <6>1. CASE i = index + 1
              <7>1. i \in 1 .. index + 1 /\ i - 1 = index /\ k + i - index = k + 1
                BY <1>3, <1>6, <6>1
              <7> QED
                BY <1>3, <3>1, <3>3, <5>2, <7>1
            <6>2. CASE i # index + 1
              <7>1. i \in (index + 1) + 1 .. Len(text) /\ (k + 1) + i - (index + 1) = k + i - index
                BY <1>3, <1>6, <6>2
              <7> QED
                BY <1>4, <3>1, <3>3, <5>2, <7>1
            <6> QED
              BY <6>1, <6>2
          <5> QED
            BY <5>2, <5>3, <5>4, <5>5 DEF Completes
        <4>2. Sent > 0
          BY <1>8
        <4>3. \A text : Completes(text) => Harmless(body, text)
          BY <2>4, <4>2 DEF DInv, ComingToNoHarm
        <4>4. ComingToNoHarm'
          BY <1>1, <4>1, <4>3 DEF ComingToNoHarm
        <4> QED
          BY <1>5, <2>2, <3>1, <4>4 DEF TakesOnWhatWasSent, Takes
      <3> QED
        BY <3>2, <3>3
    <2> QED
      BY <2>3, <2>4
  <1>9. CASE k \in L + 4 .. L + 5
    <2>1. c = LineEnd
      <3>1. k + 1 = L + 5 \/ k + 1 = L + 6
        BY <1>3, <1>9
      <3> QED
        BY <1>3, <3>1, WireSymbols
    <2>2. CASE ~in_sentence
      <3>1. ~in_sentence' /\ gps' = gps
        BY <1>1, <1>2, <1>3, <2>1, <2>2, FeedIdle, MarksDiffer
      <3> QED
        BY <1>5, <3>1 DEF ComingToNoHarm, IdleBetween, TakesOnWhatWasSent, Takes
    <2>3. CASE in_sentence
      <3>1. /\ ~in_sentence'
            /\ \/ gps' = gps
               \/ index > Shortest /\ gps' = ParseNMEA(Collected, gps).gps
        BY <1>1, <1>2, <2>1, <2>3, FeedEnd
      <3>2. /\ Collected \in Seq(Symbol) /\ Len(Collected) = index
            /\ \A i \in 1 .. index : Collected[i] = buffer[i - 1]
        BY <1>2, <2>3, CollectedText DEF DInv
      <3>3. Left = 0
        BY <1>3, <1>9 DEF Left
      <3>4. Completes(Collected)
        <4>1. Len(Collected) = index + Left /\ \A i \in index + 1 .. Len(Collected) : FALSE
          BY <1>6, <3>2, <3>3
        <4> QED
          BY <3>2, <4>1 DEF Completes
      <3>5. Harmless(body, Collected)
        <4>1. Sent > 0
          BY <1>3, <1>9
        <4> QED
          BY <2>3, <3>4, <4>1 DEF DInv, ComingToNoHarm
      <3> QED
        BY <1>5, <3>1, <3>2, <3>5, HarmlessRead
           DEF ComingToNoHarm, IdleBetween, TakesOnWhatWasSent, Takes
    <2> QED
      BY <2>2, <2>3
  <1> QED
    BY <1>3, <1>7, <1>8, <1>9

(* A symbol of the sentence does not arrive.                                *)
LEMMA LoseToNoHarm ==
  ASSUME DInv, Lose
  PROVE  ComingToNoHarm' /\ IdleBetween' /\ SymbolsCollected' /\ TakesOnWhatWasSent
  <1> DEFINE L == Len(body)
             k == Sent
  <1>1. /\ pending # << >> /\ pending' = Tail(pending) /\ body' = body /\ ~hurt /\ hurt'
        /\ buffer' = buffer /\ index' = index /\ in_sentence' = in_sentence /\ gps' = gps
    BY DEF Lose, Fault, vars, ctx
  <1>2. LInv /\ IInv /\ SentenceOK /\ IdleBetween
    BY DEF DInv, LInv
  <1>3. /\ body \in Sentences /\ L \in Nat \ {0} /\ k \in 0 .. L + 5
        /\ Len(pending) = L + 6 - k
    BY <1>1, <1>2, Place
  <1>4. Sent' = k + 1 /\ (pending' = << >> => k = L + 5)
    <2>1. Sent' = Sent + 1
      BY <1>1, <1>2, TailSentenceOK
    <2>2. Len(pending') = Len(pending) - 1
      BY <1>1, <1>2 DEF SentenceOK
    <2> QED
      BY <1>3, <2>1, <2>2
  <1>5. SymbolsCollected' /\ TakesOnWhatWasSent
    BY <1>1 DEF DInv, SymbolsCollected, TakesOnWhatWasSent, Takes
  <1>6. CASE ~in_sentence
    BY <1>1, <1>5, <1>6 DEF ComingToNoHarm, IdleBetween
  <1>7. CASE in_sentence
    <2>1. /\ k \in 0 .. L + 4 /\ index = (IF k = 0 THEN 1 ELSE k)
          /\ \A i \in 1 .. index : buffer[i - 1] = OnTheWire(body)[i]
      BY <1>1, <1>2, <1>7, CollectedWell
    <2>2. IdleBetween'
      <3>1. pending' # << >> /\ Sent' # 0
        BY <1>3, <1>4, <2>1
      <3> QED
        BY <1>1, <3>1 DEF IdleBetween
    <2>3. ASSUME NEW text, Completes(text)' PROVE Harmless(body, text)
      <3>1. /\ text \in Seq(Symbol) /\ Len(text) = index + Left'
            /\ \A i \in 1 .. index : text[i] = buffer[i - 1]
            /\ \A i \in index + 1 .. Len(text) : text[i] = OnTheWire(body)[(k + 1) + i - index]
        BY <1>1, <1>4, <2>3 DEF Completes
      <3>2. \A i \in 1 .. index : text[i] = OnTheWire(body)[i]
        BY <2>1, <3>1
      <3>3. Left' = IF k + 1 <= L + 4 THEN L + 4 - (k + 1) ELSE 0
        BY <1>1, <1>4 DEF Left
      <3> HIDE DEF L, k
      <3>4. CASE k = 0 \/ k = L + 4
        <4>1. Len(text) = L + 4
          BY <1>3, <2>1, <3>1, <3>3, <3>4
        <4>2. ASSUME NEW i \in 1 .. Len(text) PROVE text[i] = OnTheWire(body)[i]
          <5>1. CASE i \in 1 .. index
            BY <3>2, <5>1
          <5>2. CASE i \notin 1 .. index
            <6>1. i \in index + 1 .. Len(text) /\ (k + 1) + i - index = i
              BY <1>3, <2>1, <3>4, <4>1, <5>2
            <6> QED
              BY <3>1, <6>1
          <5> QED
            BY <5>1, <5>2
        <4>3. Len(text) \in 1 .. L + 4
          BY <1>3, <4>1
        <4> QED
          BY <1>3, <3>1, <4>2, <4>3, CutHarmless DEF L
      <3>5. CASE k \in 1 .. L + 3
        <4> DEFINE j == k + 1
        <4>1. j \in 2 .. L + 4 /\ Len(text) = L + 3 /\ index = j - 1
          <5>1. L \in Nat /\ k \in 1 .. L + 3 /\ index = k
            BY <1>3, <2>1, <3>5
          <5>2. Left' = L + 4 - (k + 1)
            BY <3>3, <5>1
          <5>3. Len(text) = index + Left'
            BY <3>1
          <5> QED
            BY ONLY <5>1, <5>2, <5>3
        <4>2. ASSUME NEW i \in j .. Len(text) PROVE text[i] = OnTheWire(body)[i + 1]
          <5>1. i \in index + 1 .. Len(text) /\ (k + 1) + i - index = i + 1
            BY <1>3, <3>5, <4>1
          <5> QED
            BY <3>1, <5>1
        <4> HIDE DEF j
        <4> QED
          BY <1>3, <3>1, <3>2, <4>1, <4>2, LostHarmless DEF L
      <3> QED
        BY <1>3, <2>1, <3>4, <3>5
    <2> QED
      BY <1>1, <1>5, <2>2, <2>3 DEF ComingToNoHarm
  <1> QED
    BY <1>6, <1>7

(* Another symbol arrives, or one that nobody sent: by DollarToNoHarm and   *)
(* EndToNoHarm if it is a '$' or a line end; else it is collected.          *)
LEMMA CorruptToNoHarm ==
  ASSUME DInv, pending # << >>, ~hurt, hurt', body' = body, pending' = Tail(pending),
         NEW c \in Noise \ {Dollar, LineEnd}, c # Head(pending), StreamFeed(c)
  PROVE  ComingToNoHarm' /\ IdleBetween' /\ gps' = gps
  <1> DEFINE L == Len(body)
             k == Sent
  <1>1. /\ LInv /\ IInv /\ SentenceOK /\ IdleBetween
        /\ c \in Symbol /\ c \notin {Dollar, LineEnd}
    BY NoiseAssumption DEF DInv, LInv
  <1>2. /\ body \in Sentences /\ L \in Nat \ {0} /\ k \in 0 .. L + 5
        /\ Len(pending) = L + 6 - k /\ Head(pending) = OnTheWire(body)[k + 1]
    BY <1>1, Place
  <1>3. Sent' = k + 1 /\ (pending' = << >> => k = L + 5)
    <2>1. Sent' = Sent + 1
      BY <1>1, TailSentenceOK
    <2>2. Len(pending') = Len(pending) - 1
      BY <1>1 DEF SentenceOK
    <2>3. ASSUME pending' = << >> PROVE k = L + 5
      <3>1. Len(pending') = 0
        BY ONLY <2>3
      <3> QED
        BY ONLY <1>2, <2>2, <3>1
    <2> QED
      BY <2>1, <2>3
  <1>4. CASE ~in_sentence
    <2>1. ~in_sentence' /\ gps' = gps
      BY <1>1, <1>4, FeedIdle
    <2> QED
      BY <2>1 DEF ComingToNoHarm, IdleBetween
  <1>5. CASE in_sentence
    <2>1. /\ k \in 0 .. L + 4 /\ index = (IF k = 0 THEN 1 ELSE k)
          /\ \A i \in 1 .. index : buffer[i - 1] = OnTheWire(body)[i]
      BY <1>1, <1>5, CollectedWell
    <2>2. IdleBetween'
      <3>1. pending' # << >> /\ Sent' # 0
        BY <1>2, <1>3, <2>1
      <3> QED
        BY <3>1 DEF IdleBetween
    <2>3. /\ gps' = gps
          /\ \/ ~in_sentence'
             \/ /\ in_sentence' /\ index' = index + 1 /\ buffer'[index] = c
                /\ \A j \in 0 .. index - 1 : buffer'[j] = buffer[j]
      BY <1>1, <1>5, FeedOther
    <2>4. CASE ~in_sentence'
      BY <2>2, <2>3, <2>4 DEF ComingToNoHarm
    <2>5. CASE in_sentence'
      <3>1. ASSUME NEW text, Completes(text)' PROVE Harmless(body, text)
        <4>1. /\ text \in Seq(Symbol) /\ Len(text) = (index + 1) + Left'
              /\ \A i \in 1 .. index + 1 : text[i] = buffer'[i - 1]
              /\ \A i \in (index + 1) + 1 .. Len(text) :
                     text[i] = OnTheWire(body)[(k + 1) + i - (index + 1)]
          BY <1>3, <2>3, <2>5, <3>1 DEF Completes
        <4>2. ASSUME NEW i \in 1 .. index PROVE text[i] = OnTheWire(body)[i]
          <5>1. i \in 1 .. index + 1 /\ i - 1 \in 0 .. index - 1
            BY <1>2, <2>1
          <5> QED
            BY <2>1, <2>3, <2>5, <4>1, <5>1
        <4>3. text[index + 1] = c
          <5>1. index + 1 \in 1 .. index + 1 /\ (index + 1) - 1 = index
            BY <1>2, <2>1
          <5> QED
            BY <2>3, <2>5, <4>1, <5>1
        <4>4. Left' = IF k + 1 <= L + 4 THEN L + 4 - (k + 1) ELSE 0
          BY <1>3 DEF Left
        <4>5. text[index + 1] \in Noise
          BY <4>3
        <4> HIDE DEF L, k
        <4>6. CASE k = 0 \/ k = L + 4
          <5>1. index \in 1 .. L + 4 /\ Len(text) = L + 5
            BY <1>2, <2>1, <4>1, <4>4, <4>6
          <5>2. ASSUME NEW i \in index + 2 .. Len(text) PROVE text[i] = OnTheWire(body)[i - 1]
            <6>1. i \in (index + 1) + 1 .. Len(text) /\ (k + 1) + i - (index + 1) = i - 1
              BY <1>2, <2>1, <4>6, <5>1
            <6> QED
              BY <4>1, <6>1
          <5> QED
            BY <1>2, <4>1, <4>2, <4>5, <5>1, <5>2, InsertedHarmless DEF L
        <4>7. CASE k \in 1 .. L + 3
          <5> DEFINE j == k + 1
          <5>1. j \in 2 .. L + 4 /\ index + 1 = j /\ Len(text) = L + 4
            BY <1>2, <2>1, <4>1, <4>4, <4>7
          <5>2. ASSUME NEW i \in 1 .. Len(text), i # j PROVE text[i] = OnTheWire(body)[i]
            <6>1. CASE i <= index
              <7>1. i \in 1 .. index
                BY <1>2, <2>1, <6>1
              <7> QED
                BY <4>2, <7>1
            <6>2. CASE ~(i <= index)
              <7>1. i \in (index + 1) + 1 .. Len(text) /\ (k + 1) + i - (index + 1) = i
                BY <1>2, <2>1, <4>7, <5>1, <5>2, <6>2
              <7> QED
                BY <4>1, <7>1
            <6> QED
              BY <6>1, <6>2
          <5>3. text[j] \in Noise /\ text[j] # OnTheWire(body)[j]
            <6>1. text[j] = c
              BY <4>3, <5>1
            <6> QED
              BY <1>2, <6>1
          <5> HIDE DEF j
          <5> QED
            BY <1>2, <4>1, <5>1, <5>2, <5>3, ReplacedHarmless DEF L
        <4> QED
          BY <1>2, <2>1, <4>6, <4>7
      <3> QED
        BY <2>2, <2>3, <3>1 DEF ComingToNoHarm
    <2> QED
      BY <2>4, <2>5
  <1> QED
    BY <1>4, <1>5

LEMMA InsertToNoHarm ==
  ASSUME DInv, ~hurt, hurt', body' = body, pending' = pending,
         NEW c \in Noise \ {Dollar, LineEnd}, StreamFeed(c)
  PROVE  ComingToNoHarm' /\ IdleBetween' /\ gps' = gps
  <1> DEFINE L == Len(body)
             k == Sent
  <1>1. /\ LInv /\ IInv /\ SentenceOK /\ IdleBetween /\ L \in Nat
        /\ c \in Symbol /\ c \notin {Dollar, LineEnd}
    BY NoiseAssumption DEF DInv, LInv
  <1>2. Sent' = k
    BY DEF Sent
  <1>3. CASE ~in_sentence
    <2>1. ~in_sentence' /\ gps' = gps
      BY <1>1, <1>3, FeedIdle
    <2> QED
      BY <2>1 DEF ComingToNoHarm, IdleBetween
  <1>4. CASE in_sentence
    <2>1. pending # << >>
      <3>1. ASSUME pending = << >> PROVE Sent > Len(body) + 4
        <4>1. Len(pending) = 0
          BY ONLY <3>1
        <4> QED
          BY ONLY <1>1, <4>1 DEF Sent
      <3> QED
        BY <1>1, <1>4, <3>1 DEF IdleBetween
    <2>2. /\ body \in Sentences /\ L \in Nat \ {0}
          /\ k \in 0 .. L + 4 /\ index = (IF k = 0 THEN 1 ELSE k)
          /\ \A i \in 1 .. index : buffer[i - 1] = OnTheWire(body)[i]
      BY <1>1, <1>4, <2>1, CollectedWell, Place
    <2>3. IdleBetween'
      BY <2>1 DEF IdleBetween
    <2>4. /\ gps' = gps
          /\ \/ ~in_sentence'
             \/ /\ in_sentence' /\ index' = index + 1 /\ buffer'[index] = c
                /\ \A j \in 0 .. index - 1 : buffer'[j] = buffer[j]
      BY <1>1, <1>4, FeedOther
    <2>5. CASE ~in_sentence' \/ k = 0
      <3>1. ~in_sentence' \/ ~(Sent' > 0)
        BY <1>2, <2>5
      <3> QED
        BY <2>3, <2>4, <3>1 DEF ComingToNoHarm
    <2>6. CASE in_sentence' /\ k # 0
      <3>1. ASSUME NEW text, Completes(text)' PROVE Harmless(body, text)
        <4>1. k \in 1 .. L + 4 /\ index = k
          BY <2>2, <2>6
        <4>2. Left' = L + 4 - k
          BY <1>2, <4>1 DEF Left
        <4>3. /\ text \in Seq(Symbol) /\ Len(text) = (index + 1) + Left'
              /\ \A i \in 1 .. index + 1 : text[i] = buffer'[i - 1]
              /\ \A i \in (index + 1) + 1 .. Len(text) :
                     text[i] = OnTheWire(body)[k + i - (index + 1)]
          BY <1>2, <2>4, <2>6, <3>1 DEF Completes
        <4>4. ASSUME NEW i \in 1 .. k PROVE text[i] = OnTheWire(body)[i]
          <5>1. i \in 1 .. index + 1 /\ i - 1 \in 0 .. index - 1 /\ i \in 1 .. index
            BY <4>1
          <5> QED
            BY <2>2, <2>4, <2>6, <4>3, <5>1
        <4>5. text[k + 1] \in Noise
          <5>1. index + 1 \in 1 .. index + 1 /\ (index + 1) - 1 = index
            BY <4>1
          <5>2. text[index + 1] = c
            BY <2>4, <2>6, <4>3, <5>1
          <5> QED
            BY <4>1, <5>2
        <4> HIDE DEF L, k
        <4>6. Len(text) = L + 5
          <5>1. Len(text) = (index + 1) + Left' /\ L \in Nat
            BY <2>2, <4>3
          <5> QED
            BY ONLY <4>1, <4>2, <5>1
        <4>7. ASSUME NEW i \in k + 2 .. Len(text) PROVE text[i] = OnTheWire(body)[i - 1]
          <5>1. i \in (index + 1) + 1 .. Len(text) /\ k + i - (index + 1) = i - 1
            BY <2>2, <4>1, <4>6
          <5> QED
            BY <4>3, <5>1
        <4> QED
          BY <2>2, <4>1, <4>3, <4>4, <4>5, <4>6, <4>7, InsertedHarmless DEF L
      <3> QED
        BY <2>3, <2>4, <3>1 DEF ComingToNoHarm
    <2> QED
      BY <2>5, <2>6
  <1> QED
    BY <1>3, <1>4

(* The two together with the marks of a sentence.                           *)
LEMMA CorruptedToNoHarm ==
  ASSUME DInv, Corrupt
  PROVE  ComingToNoHarm' /\ IdleBetween' /\ SymbolsCollected' /\ TakesOnWhatWasSent
  <1>1. PICK c \in Noise \ {Head(pending)} : StreamFeed(c)
    BY DEF Corrupt
  <1>2. /\ pending # << >> /\ pending' = Tail(pending) /\ body' = body /\ ~hurt /\ hurt'
        /\ c \in Symbol
    BY NoiseAssumption DEF Corrupt, Fault
  <1>3. /\ IInv /\ SentenceOK /\ LInv /\ SymbolsCollected
    BY DEF DInv, LInv
  <1>4. SymbolsCollected'
    BY <1>1, <1>2, <1>3, FeedSymbols
  <1>5. CASE c = Dollar
    <2>1. body \in Sentences /\ Sent' \in Nat \ {0} /\ Len(body) \in Nat
      <3>1. Sent' = Sent + 1 /\ body \in Sentences /\ Sent \in Nat /\ Len(body) \in Nat
        BY <1>2, <1>3, TailSentenceOK
      <3> QED
        BY <3>1
    <2>2. ComingToNoHarm' /\ index' = 1
      BY <1>1, <1>2, <1>3, <1>5, <2>1, DollarToNoHarm
    <2>3. gps' = gps
      BY <1>1, <1>3, <1>5, FeedDollar
    <2> QED
      BY <1>2, <1>4, <2>2, <2>3 DEF IdleBetween, TakesOnWhatWasSent, Takes
  <1>6. CASE c = LineEnd
    BY <1>1, <1>2, <1>4, <1>6, EndToNoHarm DEF ComingToNoHarm, IdleBetween
  <1>7. CASE c \notin {Dollar, LineEnd}
    BY <1>1, <1>2, <1>4, <1>7, CorruptToNoHarm DEF TakesOnWhatWasSent, Takes
  <1> QED
    BY <1>5, <1>6, <1>7

LEMMA InsertedToNoHarm ==
  ASSUME DInv, Insert
  PROVE  ComingToNoHarm' /\ IdleBetween' /\ SymbolsCollected' /\ TakesOnWhatWasSent
  <1>1. PICK c \in Noise : StreamFeed(c)
    BY DEF Insert
  <1>2. pending' = pending /\ body' = body /\ ~hurt /\ hurt' /\ c \in Symbol
    BY NoiseAssumption DEF Insert, Fault
  <1>3. IInv /\ SentenceOK /\ LInv /\ SymbolsCollected /\ IdleBetween /\ Len(body) \in Nat
    BY DEF DInv, LInv
  <1>4. SymbolsCollected' /\ Sent' = Sent
    BY <1>1, <1>2, <1>3, FeedSymbols DEF Sent
  <1>5. /\ Sent \in Nat /\ (Sent <= Len(body) + 4 => body \in Sentences)
        /\ (pending = << >> => ~in_sentence)
    <2>1. CASE pending = << >>
      <3>1. Len(pending) = 0
        BY ONLY <2>1
      <3>2. Sent = Len(body) + 6
        BY ONLY <1>3, <3>1 DEF Sent
      <3> QED
        BY <1>2, <1>3, <3>2 DEF IdleBetween
    <2>2. CASE pending # << >>
      BY <1>3, <2>2, Place
    <2> QED
      BY <2>1, <2>2
  <1>6. CASE c = Dollar
    <2>1. in_sentence' /\ index' = 1 /\ gps' = gps
      BY <1>1, <1>3, <1>6, FeedDollar
    <2>2. ComingToNoHarm'
      <3>1. CASE Sent = 0
        BY <1>4, <3>1 DEF ComingToNoHarm
      <3>2. CASE Sent # 0
        <4>1. Sent' \in Nat \ {0} /\ (Sent' <= Len(body) + 4 => body \in Sentences)
          BY <1>4, <1>5, <3>2
        <4> QED
          BY <1>1, <1>2, <1>3, <1>6, <4>1, DollarToNoHarm
      <3> QED
        BY <3>1, <3>2
    <2> QED
      BY <1>2, <1>4, <2>1, <2>2 DEF IdleBetween, TakesOnWhatWasSent, Takes
  <1>7. CASE c = LineEnd
    <2>1. ~in_sentence' /\ TakesOnWhatWasSent
      <3>1. CASE pending = << >>
        BY <1>1, <1>2, <1>3, <1>5, <1>7, <3>1, FeedIdle, MarksDiffer DEF TakesOnWhatWasSent, Takes
      <3>2. CASE pending # << >>
        BY <1>1, <1>2, <1>7, <3>2, EndToNoHarm
      <3> QED
        BY <3>1, <3>2
    <2> QED
      BY <1>4, <2>1 DEF ComingToNoHarm, IdleBetween
  <1>8. CASE c \notin {Dollar, LineEnd}
    BY <1>1, <1>2, <1>4, <1>8, InsertToNoHarm DEF TakesOnWhatWasSent, Takes
  <1> QED
    BY <1>6, <1>7, <1>8

(* The next sentence is sent.                                               *)
LEMMA SendToNoHarm ==
  ASSUME DInv, Send
  PROVE  ComingToNoHarm' /\ IdleBetween' /\ SymbolsCollected' /\ TakesOnWhatWasSent
         /\ Len(body') \in Nat
  <1>1. PICK b \in Sentences : body' = b /\ pending' = OnTheWire(b)
    BY DEF Send
  <1>2. /\ pending = << >> /\ ~hurt' /\ buffer' = buffer /\ index' = index
        /\ in_sentence' = in_sentence /\ gps' = gps
    BY DEF Send, vars, ctx
  <1>3. Len(body') \in Nat /\ Sent' = 0
    BY <1>1, WireSymbols DEF Sent
  <1>4. IdleBetween'
    BY <1>2, <1>3 DEF DInv, IdleBetween
  <1> QED
    BY <1>2, <1>3, <1>4 DEF DInv, ComingToNoHarm, SymbolsCollected, TakesOnWhatWasSent, Takes

LEMMA DInitInv == LInit => DInv
  <1> SUFFICES ASSUME LInit PROVE DInv
    OBVIOUS
  <1>1. body = << >> /\ ~in_sentence /\ Len(<< >>) = 0
    BY DEF LInit, Init
  <1> QED
    BY <1>1, LInitInv DEF DInv, ComingToNoHarm, IdleBetween, SymbolsCollected

LEMMA DNextInv ==
  ASSUME DInv, [LNext]_lvars
  PROVE  DInv' /\ TakesOnWhatWasSent
  <1>1. LInv'
    BY LNextInv DEF DInv
  <1>2. CASE UNCHANGED lvars
    <2>1. TakesOnWhatWasSent
      BY <1>2 DEF TakesOnWhatWasSent, Takes, lvars, vars
    <2> QED
      BY <1>1, <1>2, <2>1 DEF DInv, ComingToNoHarm, Completes, Left, Sent, IdleBetween,
                              SymbolsCollected, lvars, vars, ctx
  <1>3. CASE Send
    BY <1>1, <1>3, SendToNoHarm DEF DInv
  <1>4. CASE Transmit \/ Lose \/ Corrupt \/ Insert
    <2>1. body' = body
      BY <1>4 DEF Transmit, Lose, Corrupt, Insert, Fault
    <2>2. Len(body') \in Nat
      BY <2>1 DEF DInv
    <2> QED
      BY <1>1, <1>4, <2>2, TransmitToNoHarm, LoseToNoHarm, CorruptedToNoHarm,
         InsertedToNoHarm DEF DInv
  <1> QED
    BY <1>2, <1>3, <1>4 DEF LNext

-----------------------------------------------------------------------------
(* What the sentences of the GPS module say of speed and validity.          *)
LEMMA ReadByType ==
  ASSUME NEW b \in Sentences, NEW g
  PROVE  Read(g, b) =
             LET f == Pieces(b)
                 h == [g EXCEPT !.sentence_type = f[1]]
             IN  IF Type(b) = <<"G", "G", "A">> THEN ReadGGA(h, f)
                 ELSE IF Type(b) = <<"R", "M", "C">> THEN ReadRMC(h, f)
                 ELSE IF Type(b) = <<"V", "T", "G">> THEN ReadVTG(h, f)
                 ELSE IF Type(b) = <<"G", "L", "L">> THEN ReadGLL(h, f)
                 ELSE h
  <1>1. Identified(b)
    BY SentencesAssumption, Zenon
  <1> QED
    BY <1>1 DEF Read

LEMMA SpeedsStayEqual ==
  ASSUME NEW b \in Sentences, NEW g, DOMAIN g = DOMAIN NoFix,
         g.speed_kmh = KnotsToKmh(g.speed_knots)
  PROVE  Read(g, b).speed_kmh = KnotsToKmh(Read(g, b).speed_knots)
  <1> DEFINE f == Pieces(b)
             h == [g EXCEPT !.sentence_type = f[1]]
  <1>1. Type(b) = <<"V", "T", "G">> => Number(At(f, 7)) = KnotsToKmh(Number(At(f, 5)))
    BY SpeedAssumption, Zenon
  <1>2. DOMAIN h = DOMAIN NoFix /\ h.speed_kmh = KnotsToKmh(h.speed_knots)
    BY DEF NoFix
  <1>3. Read(g, b) = IF Type(b) = <<"G", "G", "A">> THEN ReadGGA(h, f)
                     ELSE IF Type(b) = <<"R", "M", "C">> THEN ReadRMC(h, f)
                     ELSE IF Type(b) = <<"V", "T", "G">> THEN ReadVTG(h, f)
                     ELSE IF Type(b) = <<"G", "L", "L">> THEN ReadGLL(h, f)
                     ELSE h
    BY ReadByType
  <1> HIDE DEF h, f
  <1>4. ReadGGA(h, f).speed_kmh = KnotsToKmh(ReadGGA(h, f).speed_knots)
    BY <1>2 DEF ReadGGA, NoFix
  <1>5. ReadRMC(h, f).speed_kmh = KnotsToKmh(ReadRMC(h, f).speed_knots)
    BY <1>2 DEF ReadRMC, NoFix
  <1>6. ReadVTG(h, f).speed_kmh = Number(At(f, 7)) /\ ReadVTG(h, f).speed_knots = Number(At(f, 5))
    BY <1>2 DEF ReadVTG, NoFix
  <1>7. ReadGLL(h, f).speed_kmh = KnotsToKmh(ReadGLL(h, f).speed_knots)
    BY <1>2 DEF ReadGLL, NoFix
  <1> QED
    BY <1>1, <1>2, <1>3, <1>4, <1>5, <1>6, <1>7

LEMMA ValidityStated ==
  ASSUME NEW b \in Sentences, NEW g, DOMAIN g = DOMAIN NoFix
  PROVE  /\ g.is_valid /\ ~Read(g, b).is_valid => Validity(b) = {FALSE}
         /\ ~g.is_valid /\ Read(g, b).is_valid =>
                Validity(b) = {TRUE} \/ Type(b) = <<"V", "T", "G">>
  <1> DEFINE f == Pieces(b)
             h == [g EXCEPT !.sentence_type = f[1]]
             v == Read(g, b).is_valid
  <1>1. DOMAIN h = DOMAIN NoFix /\ h.is_valid = g.is_valid
    BY DEF NoFix
  <1>2. Read(g, b) = IF Type(b) = <<"G", "G", "A">> THEN ReadGGA(h, f)
                     ELSE IF Type(b) = <<"R", "M", "C">> THEN ReadRMC(h, f)
                     ELSE IF Type(b) = <<"V", "T", "G">> THEN ReadVTG(h, f)
                     ELSE IF Type(b) = <<"G", "L", "L">> THEN ReadGLL(h, f)
                     ELSE h
    BY ReadByType
  <1>3. Validity(b) = IF Type(b) = <<"G", "G", "A">> THEN {Count(At(f, 6)) > 0}
                      ELSE IF Type(b) = <<"R", "M", "C">> THEN Stated(At(f, 2))
                      ELSE IF Type(b) = <<"G", "L", "L">> THEN Stated(At(f, 6))
                      ELSE {}
    BY DEF Validity
  <1> HIDE DEF h, f, v
  <1>4. <<"R", "M", "C">> # <<"G", "G", "A">> /\ <<"G", "L", "L">> # <<"G", "G", "A">>
        /\ <<"G", "L", "L">> # <<"R", "M", "C">> /\ <<"G", "L", "L">> # <<"V", "T", "G">>
        /\ <<"V", "T", "G">> # <<"R", "M", "C">> /\ <<"V", "T", "G">> # <<"G", "G", "A">>
    OBVIOUS
  <1>5. ASSUME NEW field, Validity(b) = Stated(field), v = Valid(g.is_valid, field)
        PROVE  /\ g.is_valid /\ ~v => Validity(b) = {FALSE}
               /\ ~g.is_valid /\ v => Validity(b) = {TRUE}
    <2>1. CASE field = << >>
      BY <1>5, <2>1 DEF Valid
    <2>2. CASE field # << >>
      <3>1. v = (Head(field).v = "A") /\ Validity(b) = {Head(field).v = "A"}
        BY <1>5, <2>2 DEF Valid, Stated
      <3>2. (Head(field).v = "A") \in BOOLEAN
        OBVIOUS
      <3> QED
        BY <3>1, <3>2
    <2> QED
      BY <2>1, <2>2
  <1>6. CASE Type(b) = <<"G", "G", "A">>
    <2>1. v = (Count(At(f, 6)) > 0) /\ Validity(b) = {Count(At(f, 6)) > 0}
      BY <1>1, <1>2, <1>3, <1>6 DEF ReadGGA, NoFix, v
    <2>2. (Count(At(f, 6)) > 0) \in BOOLEAN
      OBVIOUS
    <2> QED
      BY <2>1, <2>2 DEF v
  <1>7. CASE Type(b) = <<"R", "M", "C">>
    <2>1. Validity(b) = Stated(At(f, 2)) /\ v = Valid(g.is_valid, At(f, 2))
      BY <1>1, <1>2, <1>3, <1>4, <1>7 DEF ReadRMC, NoFix, v
    <2> QED
      BY <1>5, <2>1 DEF v
  <1>8. CASE Type(b) = <<"V", "T", "G">>
    <2>1. v
      BY <1>1, <1>2, <1>4, <1>8 DEF ReadVTG, NoFix, v
    <2> QED
      BY <1>8, <2>1 DEF v
  <1>9. CASE Type(b) = <<"G", "L", "L">>
    <2>1. Validity(b) = Stated(At(f, 6)) /\ v = Valid(g.is_valid, At(f, 6))
      BY <1>1, <1>2, <1>3, <1>4, <1>9 DEF ReadGLL, NoFix, v
    <2> QED
      BY <1>5, <2>1 DEF v
  <1>10. CASE Type(b) \notin Types
    <2>1. Read(g, b) = h
      BY <1>2, <1>10 DEF Types
    <2> QED
      BY <1>1, <2>1
  <1> QED
    BY <1>6, <1>7, <1>8, <1>9, <1>10 DEF Types

(* While the line is quiet, a whole sentence is read, or nothing.           *)
LEMMA QuietTransmit ==
  ASSUME DInv, Transmit, ~hurt
  PROVE  gps' = gps \/ (body \in Sentences /\ gps' = Read(gps, body))
  <1> DEFINE L == Len(body)
             c == Head(pending)
             k == Sent
  <1>1. pending # << >> /\ StreamFeed(c)
    BY DEF Transmit
  <1>2. LInv /\ IInv /\ SentenceOK /\ CollectedSoFar /\ IdleBetween
    BY DEF DInv, LInv
  <1>3. /\ body \in Sentences /\ L \in Nat \ {0} /\ k \in 0 .. L + 5
        /\ Len(pending) = L + 6 - k /\ c = OnTheWire(body)[k + 1] /\ c \in Symbol
    BY <1>1, <1>2, Place
  <1>4. CASE k = 0
    <2>1. c = Dollar
      BY <1>3, <1>4, WireSymbols
    <2> QED
      BY <1>1, <1>2, <2>1, FeedDollar
  <1>5. CASE k \in 1 .. L + 3
    <2>1. c \notin {Dollar, LineEnd}
      <3>1. k + 1 \in 2 .. L + 4
        BY <1>3, <1>5
      <3> QED
        BY <1>3, <3>1, InsideSentence
    <2> QED
      BY <1>1, <1>2, <1>3, <2>1, FeedIdle, FeedOther
  <1>6. CASE k = L + 4
    <2>1. AtItsEnd
      BY <1>3, <1>6 DEF AtItsEnd
    <2> QED
      BY <1>1, <1>2, <1>3, <2>1, ReadsAtItsEnd
  <1>7. CASE k = L + 5
    <2>1. c = LineEnd
      BY <1>3, <1>7, WireSymbols
    <2>2. ~in_sentence
      BY <1>2, <1>3, <1>7 DEF IdleBetween
    <2> QED
      BY <1>1, <1>2, <1>3, <2>1, <2>2, FeedIdle, MarksDiffer
  <1> QED
    BY <1>3, <1>4, <1>5, <1>6, <1>7

(* The invariant with the count of faults and the speeds.                   *)
FInv == DInv /\ faults \in Nat /\ (hurt => faults > 0) /\ SpeedsAgree

LEMMA FInitInv == LInit => FInv
  <1> SUFFICES ASSUME LInit PROVE FInv
    OBVIOUS
  <1>1. gps = NoFix /\ faults = 0 /\ hurt = FALSE
    BY DEF LInit, Init
  <1>2. NoFix.speed_kmh = 0 /\ NoFix.speed_knots = 0
    BY DEF NoFix
  <1>3. KnotsToKmh(0) = 0
    BY DEF KnotsToKmh
  <1> QED
    BY <1>1, <1>2, <1>3, DInitInv DEF FInv, SpeedsAgree

LEMMA FNextInv ==
  ASSUME FInv, [LNext]_lvars
  PROVE  FInv' /\ TakesOnWhatWasSent /\ (gps' # gps => SpeedsAgree' /\ ValidityOnWord)
  <1>0. DInv /\ DInv' /\ TakesOnWhatWasSent /\ DOMAIN gps = DOMAIN NoFix
    BY DNextInv DEF FInv, DInv, LInv, IInv, TypeOK
  <1>1. CASE UNCHANGED lvars \/ Send
    <2>1. gps' = gps /\ faults' = faults /\ (hurt' => hurt)
      BY <1>1 DEF Send, lvars, vars
    <2> QED
      BY <1>0, <2>1 DEF FInv, SpeedsAgree
  <1>2. CASE Lose \/ Corrupt \/ Insert
    <2>1. faults' = faults + 1 /\ hurt'
      BY <1>2 DEF Lose, Corrupt, Insert, Fault
    <2>2. faults' \in Nat /\ faults' > 0
      BY <2>1 DEF FInv
    <2> QED
      BY <1>0, <2>1, <2>2 DEF FInv, SpeedsAgree, ValidityOnWord
  <1>3. CASE Transmit
    <2>1. faults' = faults /\ hurt' = hurt /\ body' = body
      BY <1>3 DEF Transmit
    <2>2. CASE hurt
      <3>1. faults > 0 /\ faults \in Nat
        BY <2>2 DEF FInv
      <3> QED
        BY <1>0, <2>1, <2>2, <3>1 DEF FInv, SpeedsAgree, ValidityOnWord
    <2>3. CASE ~hurt
      <3>1. gps' = gps \/ (body \in Sentences /\ gps' = Read(gps, body))
        BY <1>0, <1>3, <2>3, QuietTransmit
      <3>2. SpeedsAgree'
        <4>1. CASE gps' = gps
          BY <2>1, <4>1 DEF FInv, SpeedsAgree
        <4>2. CASE body \in Sentences /\ gps' = Read(gps, body)
          BY <1>0, <2>1, <4>2, SpeedsStayEqual DEF FInv, SpeedsAgree
        <4> QED
          BY <3>1, <4>1, <4>2
      <3>3. gps' # gps => ValidityOnWord
        BY <1>0, <3>1, ValidityStated DEF ValidityOnWord
      <3> QED
        BY <1>0, <2>1, <3>2, <3>3 DEF FInv
    <2> QED
      BY <2>2, <2>3
  <1> QED
    BY <1>1, <1>2, <1>3 DEF LNext

(* Whatever one fault a sentence does to the sentences: what is accepted    *)
(* with a '*' is what was sent, because its checksum digits belong to no    *)
(* other text; without one, where edc_gps.c:273 asks for no checksum, the   *)
(* fix takes on the beginning of what was sent, or all of it with what      *)
(* stood between it and the line end glued on, and nothing else; and speeds *)
(* and validity stay consistent from one kind of sentence to the next.      *)
THEOREM NothingForeign == LSpec => OnlyWhatWasSent
  <1>1. /\ LInit => FInv
        /\ FInv /\ [LNext]_lvars => FInv'
    BY FInitInv, FNextInv
  <1>2. FInv /\ [LNext]_lvars =>
          [gps' # gps =>
               /\ IF HasStar(Collected) THEN gps' = Read(gps, body)
                  ELSE \E text \in Unchecked(body) : gps' = Read(gps, text)
               /\ SpeedsAgree'
               /\ ValidityOnWord]_vars
    BY FNextInv DEF TakesOnWhatWasSent, Takes
  <1> QED
    BY <1>1, <1>2, PTL DEF LSpec, OnlyWhatWasSent
=============================================================================
