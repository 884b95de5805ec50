# EmbeddedDataConvert: formal verification

EmbeddedDataConvert (EDC) is a C library for microcontrollers: it converts
between numbers and text, decodes Unicode, frames and tokenizes serial data,
reads NMEA-0183 sentences and handles Persian text. It allocates nothing, keeps
its state in structs and buffers that the caller owns, and reports errors by
status code. This directory holds TLA+ models of it, the TLC configurations that
check them on small instances, and proofs, checked by TLAPS, of what holds for
every buffer size, every text and every width of integer.

Paths such as `edc_parser.c:308` are in `src/` or `include/` of the repository.
`PROJECT.json` lists, for every definition, the lines it translates; for every
property, a deliberate mistake in the code it would catch; and the hazards of
the code with the properties that cover them.

Conventions: names follow the source. A definition `Name_Something` is such a
deliberate mistake, used only by the mutation runs. A write outside an array is
not forbidden by a guard: it makes the domain of the array grow, and `TypeOK`
notices. `Doc...` is what a comment or a document of the repository claims and
the code does not do.

## 1. The system

| component | state | operations | what is hard about it | what makes it correct |
|---|---|---|---|---|
| streaming framer (`edc_parser.c:236-329`) | `EDC_StreamParser`, the caller's buffer | Init, Feed (one byte), Reset | markers in any order, frames as long as the buffer or longer, a frame handed out in place | no write outside the buffer; exactly the frames of the stream, each terminated |
| UART receive loop (`examples/uart_streaming`) | a pointer to the last frame | Feed, use the frame | a line that loses, alters and inserts bytes; bytes fed while the frame is used | undisturbed messages arrive; reception recovers; a frame lasts until the next one is written over it |
| UTF-8 codec (`edc_unicode.c`) | `EDC_UTF8_StreamDecoder` | Feed (one byte), DecodeChar, EncodeChar | any byte after any other; two decoders that test in different places | same verdict and code point from both; shortest forms only |
| Unicode buffer conversions (`edc_unicode.c:155-405`) | loop positions | validate, count, UTF-16, UTF-32 | capacities counted in words, surrogates, two byte orders | conversions invert each other; errors are reported where they are |
| NMEA receiver (`edc_gps.c`) | `EDC_GPS_StreamContext`, the caller's `EDC_GPS_Sentence` | StreamInit, StreamFeed, ParseNMEA | noise, cut sentences, a struct that outlives sentences | with a checksum the fix holds exactly what was sent, and it is untouched by a rejected sentence |
| CSV tokenizer (`edc_parser.c:159-234`) | `EDC_CSV_Tokenizer` | Init, Next | quotes counted anew by every call | every field once, in order |
| key-value parser (`edc_parser.c:9-157`) | loop position, the caller's array | Parse, Find | eight ways through the loop body | items in order, nothing overlaps, always ends |
| coordinates (`edc_gps.c:20-177`) | none | NMEA form, degrees/minutes/seconds, text | rounding at whole degrees and minutes; text cut to its buffer | minutes below sixty; positions got back to the last bits |
| integers (`edc_numeric.c:9-505`) | accumulator, position | ToString(Ex), StringTo for 8 types | arithmetic at the ends of the range | errors exactly when the number does not fit; what is written is read back |
| floating point, fixed point, Boolean (`edc_numeric.c:506-1183`) | accumulators, position, exponent | ToString, ToScientific, StringTo, conversions between the two | rounding, wrap-around, powers of ten, casts out of range | what is written is read back; every call returns |
| Persian text (`edc_persian.c`) | two positions, one or two buffers | digit conversions, normalisation, in place or not; transliteration | the text is overwritten while it is read | in place as out of place; normal forms are normal |
| strings and hex (`edc_string.c`) | none | copy, compare, trim, find, case, hexadecimal | slices that are not terminated, and a length of 0 that means they are | nothing outside the slice is looked at or changed |
| buffer utilities, units, status codes | none beyond the arguments | pure functions | | |

The components share no state. They interact by calls, all of them synchronous:
the application's loop feeds bytes to a framer or to the NMEA receiver; a
completed frame is parsed, as a key-value text for example, in the buffer it was
collected in; parsers hand out slices of the caller's text without copying;
the Persian conversions call the UTF-8 codec for every character. The library
starts no threads. What runs concurrently is outside of it: the sender, the
line, and an interrupt that might feed a byte while a frame is being used. Hence
the hazards of this code are, in this order: boundaries of buffers and of
integers; sequences of legal calls that leave something stale behind; bytes lost
or damaged on the line; loops that must end; and agreement between pairs of
functions that must match (two decoders, formatter and parser, in place and out
of place).

## 2. The modules

**StreamParser** is the framer. Its variables are the fields of the struct, the
caller's buffer as a function on `0 .. capacity - 1`, and what the last call
returned. `Discard`, `Open`, `Resync`, `Deliver`, `Accumulate` and `Overflow`
are the branches of Feed in the order the code tries them; `Reset` is Reset. The
markers are fixed by `Init`, every pair of bytes being possible, NUL (no start
marker) and equal markers included. **StreamParserHistory** adds the bytes
received so far and the properties that refer to them. **FrameSpec** is the
abstract framer: it has no buffer, and says of the whole stream which frame its
last byte completes and whether it overflowed. `ImplementsFramer` is the
refinement, with `frames` and `lost` read off what Feed returned.

**UartLink** composes the framer with the environment: a sender, and a line with
faults (`Lose`, `Corrupt`, `Insert`). Every byte that arrives is fed
(`Receive`), whether or not the application is still reading the last frame
through the pointer; two history variables hold that frame as it was handed out
(`shown`) and how many bytes of what may be the next have come since
(`arrived`).

**Utf8** holds EDC_UTF8_DecodeChar and EDC_UTF8_EncodeChar as operators on
sequences of bytes; **Utf8Stream** is the byte-wise decoder, with one action per
branch of Feed and a history variable `taken`, the bytes of the current attempt.

**GpsStream** is the NMEA receiver. A symbol is a character: one of the marks
the receiver looks for (`$`, `,`, `*`, line end), any other, or a checksum digit,
which names the text it was computed from and reads like some character
(`Digit`). `Open`, `Ignore`, `Complete`, `Drop`, `Collect`, `Overflow` are the
branches of StreamFeed, and `Complete` contains all of ParseNMEA: the checksum,
the identifier, and the four kinds of sentence, whose fields are cut out at the
commas (`Pieces`), each writing the fields of the struct that the code writes,
latitudes of zero and empty fields included. What a number's characters amount
to is a parameter (`Number`, `Count`). **GpsLine** puts the receiver at the end
of a line with faults, which lose, alter or insert any character of a sentence,
inside its fields too.

**Text** holds slices, EDC_StrLen and trimming. **CsvTokenizer** is one call of
Next per step; **KeyValue** one iteration of the loop of EDC_KV_Parse per step
(`Return`, `EmptyKey`, `Item`), with EDC_KV_Find as an operator. **Strings**
holds the functions of `edc_string.c` as operators on the memory and a slice of
it. **FieldUse** composes the tokenizer with a caller who applies them to the
fields: `LowerField` and `UpperField` change the text under the tokenizer; what
the other functions return for the fields is said by the properties, in every
state, of all pairs of fields.

**IntegerFormat** is how integers are written, as operators. **IntegerText** is
one call of EDC_StringToU64 or EDC_StringToI64 or of one of the six narrower
functions, with one step per digit; all arithmetic of the code wraps at
`UMax + 1`. The text is arbitrary, or one that the formatter wrote. The width of
the integers is a parameter.

**BinaryFloat** is IEEE arithmetic with the precision and the range as
parameters: a finite number is an integer number of least units, and every
operation rounds to nearest, ties to even. **DecimalFormat** is how
`edc_numeric.c` writes floating-point, fixed-point and Boolean values and
converts between the first two; what a cast out of range gives is a choice
between the outcomes processors produce. **DecimalText** is one call of
EDC_StringToDouble, EDC_StringToFloat, EDC_StringTo_Q or EDC_StringToBool, a
step per character and per power of ten, of a text that is arbitrary or was
written before; before a scientific one, the two loops of
EDC_Double_ToScientific run, a step per iteration (`Divide`, `Multiply`).
EDC_Float_To_Q and EDC_Double_To_Q64 are one step (`Convert`, `Saturate`,
`DoesNotSaturate`).

**Coordinates** converts a position one way and then back or to text, or reads a
coordinate in NMEA form, in the arithmetic of BinaryFloat; one action per
function.

**PersianText** (what becomes of one character) and **Utf16** (one character as
words) are operators; **TextConversion** is one call of one of the eleven
functions that convert or inspect a whole text, a step per character: `Convert`,
`Malformed`, `TooSmall`, `Finish`. In place, `Write` writes to the memory that
is being read.

Every **MC** module instantiates one of these for TLC. The proofs are in
**StreamParserProofs** (the framer, and at the end of a line), **Utf8Proofs**
(whose arithmetic of characters the conversions use too), **GpsProofs** (the
receiver, and at the end of a line), **IntegerTextProofs**,
**TextConversionProofs**, **KeyValueProofs**, **FieldUseProofs** (the
tokenizer, and with the caller who changes its fields) and **NumberProofs**
(rounded numbers, and what computes with them: texts, conversions and
coordinates).

## 3. The runs

| run | instance | shows |
|---|---|---|
| MCStreamParser | NUL and three bytes, all marker pairs, capacities 1 to 4, streams up to 6 bytes with resets | `FrameIntact`: a frame is the bytes just before its end marker, and terminated; `ImplementsFramer` |
| MCUartLink | three bytes, capacities 2 and 4, two faults | `LastsUntilOverwritten`: noise leaves a frame handed out alone, and what follows changes no more of it than has arrived; `QuietMessageReceived`; `Recovers` |
| MCUtf8Stream | the 24 bytes on either side of every limit the code tests | `AgreesWithDecodeChar`; `OnlyShortestForms`; `RejectsOnlyHopeless`: no error comes before it has to |
| MCGpsLine | a sentence of each of five kinds in any order, character by character, buffer exactly as long as the longest, one fault at any character | `OneSentence`; `QuietSentenceRead`; `RejectedLeavesFix`; `OnlyWhatWasSent`: with a `*`, the fix takes on what was sent to the character, without one its beginning, or all of it with something behind; it includes that speeds and validity stay consistent (`SpeedsAgree`, `ValidityOnWord`); `KeepsReading` |
| MCFieldUse | all texts up to 5 characters over a letter, space, comma, quote, NUL, and over a letter in two cases, zero, x, comma; three delimiters; fields changed at any moment | `HandsOutFields`: the calls give what a reading of the whole text gives; `ChangesFieldsOnly`; `UsesFieldOnly` (`FindsFirst`, `ComparesInOrder`, `CopiesOrTells`); `HexReadsBack` (`DecodesItems`, `BytesReadBack`) |
| MCKeyValue | all texts up to 4 characters over eight characters, and all lists of up to two items as a writer writes them; arrays of 1 and 3 | `SlicesInOrder`; `ReadsPieces`; `ReadsBack`; `Returns` |
| MCIntegerText | 6-bit integers, narrower types of 3 bits, six bases, texts up to 4 characters, every number written in every base with three paddings | `ReportsExactly`, which includes that nothing wraps on the way (`NothingWraps`); `ReadsBack` |
| MCTextConversion | texts of up to three units, each a character some conversion treats in its own way, or a broken one; up to three words, two code points, at every limit; sets of flags and options; eight capacities | `ReadsOriginal`; `AsConverted`: in place what the function out of place gives, `DIGITS_TO_PERSIAN` apart; `InNormalForm` (`SecondPassSame`, `Capitalized`); `ThereAndBack` (`DigitsReadBack`, `EncodingsReadBack`); `AgreesWithCharacters` (`BytesAsCharacters`, `LengthsPredicted`, `FirstError`) |
| MCDecimalText | ten bits of precision, five for float; 6-bit and 12-bit fixed point in five formats, every number of it; texts of every sign, whole part, fraction and exponent, and of any three characters | `FixedPointCorrect` (`FixedExact`, `ConvertsNearest`, `FixedReadsBack`, `ConvertsBack`, `BoolReadsBack`) and `FloatingPointCorrect` (`FloatNear`, `FloatReadsBack`), with explicit bounds of the rounding errors; `Returns` |
| MCCoordinates | 17 bits of precision; positions at and next to every minute of seven degrees, both signs; coordinates at and next to every whole degree; eleven buffers | `PositionReadsBack` (`PositionKept`, within three neighbours and a sixtieth of the NMEA form's last bit; `CoordinateRead`); `CutAtCharacter` |
| MCGpsCut, MCScientificLoop | as MCGpsLine and MCDecimalText | each a claim of the documentation that the code does not keep (section 5) |

Names in parentheses are the conjuncts of the property in front of them. Most
passing runs also check a type invariant, `TypeOK` (`DecoderTypeOK` in
Utf8Stream, `PositionTypeOK` in Coordinates), which in this code carries weight:
it is the memory safety of every write, and the absence of lost bits, wrapped
integers and minutes out of range. Where slices are what can go out of bounds,
`HandsOutFields` and `SlicesInOrder` say so instead.

*Why the bounds are enough.* The framer compares a byte only with the two
markers and with NUL, so that three bytes besides NUL give every role and an
indifferent byte; six bytes are enough to overflow the largest of the buffers,
to go on in the middle of the line, and to complete a frame after it. Two faults
on the UART are enough to lose an end marker and to hit the next message too.
The UTF-8 code compares bytes only with the chosen limits; TLC explores
sequences of any length, since the decoder's state is bounded. The GPS buffer is
as long as the longest sentence, so that one inserted character overflows it;
noise can be every mark, and a digit that makes another number; the last field
of one sentence is a fraction, so that cutting it short leaves a number too. Five
characters of CSV hold two fields with quotes around a delimiter; four of a
key-value text reach every branch of the loop, and the written lists exercise it
at greater length; the texts hold the spoilt ones too, where quotes, line ends
and equal delimiters make the loop read something else than pieces. Six bits
keep the shape of 64: the limits are one apart, and no base divides them evenly
except the powers of two; the staging area and the length limit are scaled with
the width (`TempSize` 8 for 66, `StrCap` 6 for 64). Rounding, too, looks alike
at every precision, as long as One is far from both ends: ten bits leave room
for numbers so small, and so great, that a digit or one half no longer counts;
places and divisors are scaled with the fixed-point format (`PlacesLimit` 10 for
10^9, `UMax64` 4095 for 2^64 - 1), so that the last place allowed just fits.
With 17 bits all numbers of a coordinate between one degree and its NMEA form
are normal and have the rounding errors that they have with 53; that a quotient
is never rounded up to a whole degree depends on the ratio of a hundred to
powers of two, not on the precision. Persian characters have one to four bytes,
and three units put a longer, a shorter and a removed one in every order; three
words put both surrogates next to each other and to a plain word; `StrCap` is 6
for 8192. For memory safety of framer, receiver, integer parser and text
conversions, framing, UTF-8, what a damaged sentence leaves in the fix, the
fields of CSV and what the string utilities say of them, the items of key-value
texts, what is read back of integers and of key-value lists, integer overflow,
the results of the text conversions, in place too, and what is converted back,
fixed-point and Boolean text, fixed-point numbers made of floating-point ones,
and positions, the bounds do not matter in the end: these are proved without
them, the positions and conversions for every precision.

*Deadlock* is checked in every run. A call that has returned stutters (`Done`,
`Returned`).

*Fairness.* Safety runs assume none. `MCUartLink` and `MCGpsLine` assume weak
fairness of the sender (it starts another message) and of the line: a byte that
is sent arrives and is fed, which is what the example's loop does with the bytes
of its stream, one per iteration (`main_uart_streaming.c:40-47`; the example's
stream has an end, a serial line has none). For the GPS module it is enough that
a character leaves it, whatever becomes of it (`Moves`). Nothing is assumed of
when the application reads a frame. Faults are never fair, only bounded in
number: no receiver recovers on a line that never heals. `KeyValue` and
`DecimalText` assume that a loop takes its next iteration, which is what a
sequential program does. The others need none.

## 4. What is proved

The proofs hold for all constants that satisfy the named assumptions: capacities
are positive (Init refuses 0), NUL is a byte, an uninitialized cell holds no
byte; the GPS buffer has 2 to 255 cells (its index is a `uint8_t`); `UMax` is `2
* IMax + 1`, and every digit fits the type. Of what the GPS module sends
(`SentencesAssumption`, `SpeedAssumption`): a sentence begins with an
identifier, has no mark inside but commas, is long enough to be looked at, fits
the buffer with its checksum, and a VTG gives one speed in two units. Noise is
any set of marks and characters (`NoiseAssumption`). Of the checksum, it is
assumed that it tells any two texts apart that one fault on the line separates,
and that two characters of a field are never the checksum of what stands before
them (the comment of `Sum`): how good an XOR is, is outside of the model. Of
the characters: NUL is neither a space nor a quote nor a delimiter, line ends
are spaces, and upper and lower case are about letters only, so that no
delimiter, quote or space is the other case of something (`CaseAssumption`); a
buffer to copy to has room for the NUL at least (`SizesAssumption`, since
EDC_StrCopy refuses one of no size); the words of UTF-16 have 16 bits, which
`TextAssumption` says of the inputs. Of the lists that are written to be read
back (`WritableAssumption`): a key is not empty, does not begin with what the
parser skips, and has no delimiter or line end in it; a value that begins or
ends with a space, or has a delimiter or line end in it, is put between quotes
that it does not contain. Of the numbers: 10.0 is finite, and a precision is at
least two bits (`FloatAssumption`); inputs are numbers of that precision
(`TextAssumption`, `PositionsAssumption`); whole degrees times a hundred fit the
precision, and 1.0 is not subnormal (`DegreesAssumption`); a float's significant
bits fit the fixed point's integers and a double has more of them, fewer than
those of 64 bits, with a range that holds all (`ConversionAssumption`). The
places that are read of a fixed-point number, scaled and rounded, fit 64 bits in
the finest format (`LimitsAssumption`: 10^10 * 2^30 + 5 * 10^9 < 2^64), and what
EDC writes for a word or a fixed-point number is shorter than what is read of it
at most (`LengthAssumption`). TLC evaluates all of them.

*Induction.* What a loop has done is compared with a definition that looks at
the whole text. Where that definition is a set or a recursive function on
numbers, the proof takes a least counterexample (`LeastExists`, from the
well-foundedness of `<` on Nat); where it counts (how many cuts or pieces lie
before a position), the invariant says that the scan has passed as many of them
as it has handed out.

* **Framer** (`TypeCorrect`, `FramesIntact`, `Refinement`). The type invariant
  is not inductive by itself: that the data write at `length` stays inside needs
  `LengthOK` (what `length` can be, in a frame and outside), and that a frame is
  a suffix of the stream needs `Mirror`, the buffer being a copy of the stream's
  last `length` bytes. `IInv` is the conjunction, with one lemma for the buffer
  (`FeedTypeOK`) and one for the history (`FeedHistory`). The refinement needs
  `FrameInv` in addition: with a start marker, a frame is open in the parser
  exactly if it is in the stream and still fits; without one, `length` is the
  number of bytes since the last end marker modulo the capacity, which takes
  arithmetic of remainders.
* **UTF-8** (`DecoderTypeCorrect`, `SameVerdicts`, `ShortestForms`,
  `RejectsNothingEarly`). `DecoderInv` says that the registers are either clear
  or hold exactly the bits of the bytes taken (`Collecting`), and what a verdict
  says of them. The rest is arithmetic: `TestsAgree` shows that testing the
  second byte, as the buffer decoder does, is the same as testing the finished
  code point; `EncodeValue` that the encoder inverts the decoder. That no error
  comes before it has to needs the converse, which bytes are hopeless whatever
  follows (`Hopeless`, `NothingSaves`): a wrong lead byte, a missing
  continuation, or a second byte out of the range its lead byte allows, and only
  after the fourth byte for code points too large.
* **UART link** (`QuietReceived`, `FrameLasts`), for every alphabet, buffer
  size, pair of markers and message, and any number of faults. The invariant
  `LInv` says that what is still to be sent is the rest of a frame that fits the
  buffer (`MessageOK`, `WellFramed`), that as long as no fault hit it, the
  parser holds just what was sent (`Collected`), and that between messages an
  end marker has left it empty (`Cleared`). A start marker makes up for the last
  part: with one, what was on the line before does not matter. That a frame
  handed out lasts needs that the parser has collected no more bytes than have
  arrived since it could begin the next one, and that before a start marker it
  is in no frame (`Kept`): what Feed stores, it stores behind what it has
  collected, or at the beginning.
* **GPS line** (`QuietRead`, `LineTypeCorrect`, `NothingForeign`), for every set
  of sentences, every meaning of characters as numbers, and any number of
  faults. The invariant is that of the receiver with the same two parts, what is
  still to be sent (`SentenceOK`) and what has been collected since the `$`
  (`CollectedSoFar`); that ParseNMEA cuts the body out of the text again and
  finds the checksum behind it is a lemma (`ReadsWholeSentence`). What reaches
  the fix cannot be seen at the line end, where the fault is long past. So the
  invariant looks ahead (`ComingToNoHarm`): what is collected, completed by the
  rest of the sentence, is `Harmless`, that is, leaves the fix alone or does to
  it what `Takes` allows. A character that arrives as it was sent keeps this by
  itself. A fault need only be looked at once, where it happens, with the text
  it leads to. If that text has a `*`, it is accepted only with the two checksum
  digits behind it, and these name the body that was sent (`StarredHarmless`).
  Only texts that have lost their `*` need cases: a sentence cut short, the `*`
  lost or replaced, and texts restarted by a `$` (`CutHarmless`, `LostHarmless`,
  `ReplacedHarmless`, `InsertedHarmless`, `RestartedHarmless`); they are what
  `Unchecked` lists. The proof is for at most one fault between the start of one
  sentence and the next, as in the model; two may cancel out in any XOR.
* **NMEA receiver** (`TypeCorrect`, `CollectsOneSentence`, `NoTrace`). The
  invariant is `TypeOK /\ OneSentence`; that a rejected sentence leaves no trace
  in the struct is an action property that follows from the order of tests in
  ParseNMEA.
* **CSV** (`FieldsInOrder`; `FieldsInOrderInUse`, `OnlyFieldsChange`,
  `FieldsForWhatTheyAre`). The code counts quotes from the start of the field,
  the property from the start of the text. They agree because a call always
  starts behind an even number of quotes, at a cut (`AtCut`), having handed out
  as many fields as there are cuts up to there (`TokensOK`). Changing a field's
  case moves no quote, delimiter or space (`SameShape`), so the fields handed
  out before and after it are the same, and the slice of a field lies between
  two cuts. What the string utilities say of a field needs only that it lies in
  the text (`InText`), and is then a matter of the first place where something
  holds: where two strings differ, one of which an order is made
  (`AgreesBetween`: what stands between two strings that agree so far agrees
  with both), where one stands in the other, where a copy ends.
* **Hexadecimal text** (`HexadecimalReadsBack`), for every text and every length
  of buffer. A text is accepted exactly if it can be cut into items, and is then
  the bytes of those that are pairs (`Cuttable`, `Decodes`); with too small a
  buffer the bytes are the beginning of the same ones (`Bounded`); spaces around
  the text change nothing (`TrimmedReads`); bytes that were written are read
  back (`HexIsWritten`, `HexIsRead`, `BytesBack`). Each turn of the loop is one
  of six (end, space or separator, prefix, cut off, wrong, byte), and each fact
  goes from the end of the text to its beginning. It is assumed that no
  character means two things in hexadecimal text (`HexAssumption`: digits of
  different value, `x`, spaces, separators and NUL), which is true of the
  characters the code tests for (`edc_string.c:296`), and which TLC evaluates.
* **Key-value** (`Ordered`, `PiecesInOrder`, `WrittenReadsBack`). That slices
  are in order needs the text to stay as it is and terminated (`TextOK`), so
  that every scan ends at NUL at the latest. That they are the pieces of a plain
  text, each once, needs `NoneCut` (the scan is never inside a piece whose key
  is still to come) and `AllRead`: the pairs are the pieces behind the scan
  position, in order, the n-th pair being the piece with n - 1 pieces before it.
  A text in which the two delimiters are equal is not plain: the code then takes
  each of them for the one that its loop asks for first. A written list need not
  be plain, since quoted values may contain everything. For it, `LaidOut` says
  where each item lies in the text, `ItemFound` that one iteration that starts
  at an item ends at the next, having handed out its key and value, and the
  invariant (`ListRead`) that the scan is always at an item.
* **Integers** (`Exact`, `NeverWraps`, `TypeCorrect`, `WrittenReadsBack`).
  `IInv` says of the verdicts what `ReportsExactly` says, and that the wrapping
  accumulator equals the number without wrap-around and is within the limit,
  from which `NeverWraps` follows for the sums and for the products. A digit that passes both
  tests keeps it there (`QuotientAdmits`); one that fails either would have left
  it (`QuotientRefuses`). So the tests are exact at every width, 64 bits
  included. `TypeCorrect` adds that `idx` stops at the NUL and that a negated
  result is in range. For the round trip, the accumulator is the value of the
  digits read (`RInv`), and the digits written have the value of the number,
  which is what dividing by the base again and again gives; nothing is written
  that the parser takes for a sign, a prefix or the end.
* **Text conversions** (`TypeCorrect`, `NeverOvertakes`, `InPlaceAsOutOfPlace`,
  `ComesBack`, `NormalFormKept`, `CharactersAgree`), Persian and Unicode. In
  place, the invariant is that the write position is never ahead of the read
  position, which rests on `ChunkSize`: no conversion offered in place makes a
  character longer. It holds for all flags, because the one that would (English
  digits to Persian) is ignored in place. Out of place, what is written is what
  there was room for, a NUL included where there is one. `InPlaceAsOutOfPlace`
  proves the result itself, compared with the conversion out of place: what a
  step converts in place it would convert the same out of place, with the flags
  that are honoured (`SameOutOfPlace`), and in the middle of a call, the conversion of the text
  is what is written, followed by the conversion of what is not yet read
  (`Halfway`). `Rest`, the conversion from a position on, is a recursive
  function; that it exists, and obeys its equation, is proved by its least
  counterexample, since an induction theorem cannot be instantiated. Two facts
  carry the step. No conversion yields a NUL, so that the first NUL in the
  memory is the end of the result. And a character cut off by the end of the
  text is malformed with whatever lies behind the NUL in place as it is with
  nothing (`ChunkAgrees`). `ComesBack` needs no invariant of its own: the result
  is the conversion of the text, so that its conversion back is a fact about two
  recursive functions. If each character is read back as what it was made of,
  whatever follows it, so is the text (`BackAgain`, from its end to its
  beginning). For an encoding this is arithmetic (`CharacterBack`): a decoded
  character is encoded to the bytes or words it came from, an encoded one is
  valid and decoded to itself, and a pair of surrogates is one number written in
  two digits of ten bits. For the digits, which are matched byte by byte, what
  follows does matter: the last byte of one character must not form a digit with
  the first of the next. It cannot if the text held no such pair (`SameLength`:
  turning digits into English ones keeps a text as it is only if there are
  none), since a written digit begins with a byte that is never the second of a
  pair (`DigitBack`). `NormalFormKept` follows from the same fact about the
  result, from its end to its beginning: no character that a normalisation
  writes is one it replaces (`NotReplacedAgain`), and what a transliteration
  writes is ASCII and empty or not to be capitalised again, because the capital
  is written first (`Capital` relates a text to the byte before it, the space a
  word begins after). `CharactersAgree` relates bytes to characters. A digit is
  found at a byte only where a character of two bytes begins (`DigitOrNot`), and
  between digits a text is copied byte by byte, hence character by character
  (`CopyRun`, `DigitsDecoded`). A character has one lead byte, and two words of
  UTF-16 if it has four bytes (`LeadsStep`, `WordsLength`), so that a text is as
  long as its lead bytes tell (`TextLength`). What is only inspected has no
  result to reason from and gets an invariant (`InspectInv`): a beginning of the
  text is malformed if, and only if, what it has behind the characters that were
  read is (`ReadInBeginning`).
* **Rounded numbers.** A number is rounded to a multiple of a power of two, so
  these proofs begin with powers of two and their multiples. What the rest uses
  of an operation is that its result is held by the format (`IsDouble`), lies
  within half a spacing of the exact one, and on the same side of every double
  (`RoundedFacts`, `DoubleFacts`); and which results need no rounding at all.
* **Coordinates** (`PositionTypeCorrect`, `CutOnlyAtCharacter`,
  `PositionComesBack`). Minutes and seconds stay below 60, and degrees within
  their type, although every step rounds: a cast to a whole number is exact
  (`WholePart`), and no quotient below a whole degree is rounded up to it
  (`QuotientBelow`), since numbers just below k hundreds are more than a spacing
  away once divided. `PositionInv` says this, and that a text is what the
  degrees, minutes and seconds in hand become in a buffer of that size. That a
  position comes back is an analysis of errors: what each operation adds
  (`NmeaKept`, `DMSKept`), in units of the position's own spacing, for which
  `SpacingGrows` says that numbers rounded to at most some number are spaced no
  wider than it is. A text in a buffer of any size is compared,
  piece by piece, with the one in a buffer that holds all of it (`Assembling`):
  they agree up to the cut, but for the one size in which the degree sign is
  left out.
* **Texts of numbers** (`TextTypeCorrect`, `FixedIsNearest`, `FixedComesBack`,
  `BooleanComesBack`). The type invariant is inductive with `TextInv`, one
  conjunct for each thing that could go wrong: the place in the text, the room
  in the buffer it was written to, the number being scaled, the power of ten,
  and the places behind the point, which are fewer than what they are divided
  by. From the last follows that they fit 64 bits when they are scaled
  (`PlacesFit`). `FixedInv` says what has been read: `frac_div` is a power of
  ten, and `result` and `frac_accum` are the quotient, modulo 2^32, and the
  remainder of the digits' numeral by it. What is returned is that numeral,
  rounded half up (`RoundedWhole`). For the round trip, `QShape` is the layout
  of a text that was written, and `ReadingInv` says that the call stands at some
  character of it, having read what lies before: digits of a number read again
  are that number (`DigitsRead`), also behind zeros (`PlacesRead`). What the
  last place cuts off is less than one of its units, and rounding makes up for
  it if that is half a unit of the format at most (`RoundsBack`). Of a Boolean,
  `BoolInv` says that the text is what was written, and `WordFound` that no word
  that is tried first matches it.
* **Conversions to fixed point** (`ConversionIsNearest`, `ConversionComesBack`;
  together with the previous ones, `FixedPointIsCorrect`). Multiplying by a
  power of two is exact or infinite (`ScaledIs`). One half can be added exactly
  as long as the format holds halves, but for sums that cross a power of two;
  from there on it is rounded, to the even neighbour of two as close
  (`HalfAdded`, `TieToEven`), and the number made is the nearest or next to it.
  What compares greater than the greatest number of the type is at least a whole
  unit beyond it (`HeldAbove`), so that nothing saturates that has a nearest
  number. `ConversionInv` says what a conversion was given, and which of the
  results its tests allow it has returned.

*Only model-checked:* liveness (`Recovers`, `KeepsReading`, `Returns`), since
the prover handles neither fairness nor ENABLED; and `FloatingPointCorrect`,
what floating-point texts are read as (`FloatNear`) and that written ones are
read back (`FloatReadsBack`). There every digit adds a rounding error, so that
the bound grows along the text: it would take another invariant, that of a
running error relative to the number of digits, and after the last of them the
power of ten, rounded at every step as well, multiplies all of it.

## 5. Where the code and its documents disagree

Two are shown by a run that TLC ends with a counterexample:

* `MCGpsCut`: the checksum is asked for only if a `*` arrived
  (`edc_gps.c:273`). A byte altered into a line end (`546-552`) cuts a sentence
  short, in the middle of a field too; its beginning is written to the fix, the
  field as the number that is left of it, `4807.038` as 48 for example, and
  EDC_OK returned, while `edc_gps.h:173` speaks of "a complete valid sentence".
* `MCScientificLoop`: EDC_Double_ToScientific tests for NaN but not for
  infinity, and divides infinity by ten for ever (`edc_numeric.c:647`);
  `docs/en/05_misra_compliance.md:13` says "All loops are strictly bounded with
  invariant termination conditions." `Returns` shows that nothing else in the
  module goes on for ever.

More are visible in the models, and stated there as exceptions, at the
definition in parentheses; the properties hold with the exception, and do not
catch the behaviour itself:

* if the `*` itself is lost or altered, the checksum digits are read as the end
  of the last field, which extends to the next comma or the end of the text
  (`edc_gps.c:215-226`), and EDC_OK returned: another number, if that field is
  one that is read (the last two sets of `Unchecked`);
* EDC_Persian_Normalize_InPlace ignores EDC_NORM_DIGITS_TO_PERSIAN and returns
  EDC_OK, with Arabic digits too, where the character would not become longer
  (`edc_persian.c:369-374` against `307-313`). `edc_persian.h:131` restricts the
  flags to those that replace two bytes by two or one;
  `docs/en/01_architecture.md:46` says "EDC never fails silently." (`Honoured`
  in TextConversion);
* a VTG sentence sets `is_valid` (`edc_gps.c:467`), which `edc_gps.h:49`
  reserves to RMC and GGA; in the same struct, everything else may be stale or
  zero (the last line of `ValidityOnWord`);
* with length 0, at most 64 characters of a number are read
  (`edc_numeric.c:238`, `336`), so that a number of 65 characters, INT64_MIN in
  base 2 for example, comes back as another number with EDC_OK;
  `edc_numeric.h:127` says "0 to parse null-terminated" (the proviso of
  `ReadsBack`);
* with length 0, at most 8192 bytes of Persian text are converted, in place the
  rest is cut off, and EDC_OK returned; `docs/en/01_architecture.md:46` says
  "EDC never fails silently." (`Input` in TextConversion);
* neither the whole part of a fixed-point number (`edc_numeric.c:1023`, modulo
  2^32 in `FixedExact`) nor the exponent of a floating-point one (`796`, the
  choice in `ExponentDigit`) is tested for overflow, while
  `docs/en/05_misra_compliance.md:25` says "Integer and floating-point parsers
  check for overflow prior to multiplication/addition operations";
* the least fixed-point number is written, but not read back (`FixedReadsBack`);
  its magnitude is formed as `-q` in `int32_t` (`edc_numeric.c:943`), which is
  undefined there, and is taken to be 2^31, as in two's complement (`QParts`);
* a double of 2^63 passes the test of EDC_Double_To_Q64 and is then cast to 64
  bits that do not hold it (`edc_numeric.c:899`, `914`; `ConvertsNearest`), and
  EDC_Double_ToString casts what is 2^64 and more (`565`; `FloatReadsBack`);
* a position cut short to fit its buffer is returned with EDC_OK, in one size
  with the degree sign left out and the space behind it (`CutAtCharacter`);
* a framer with a one-byte buffer and a start marker hands out a frame without
  the terminator that `edc_parser.h:141` promises (the proviso of `Terminated`);
* without a start marker, the tail of a line that overflowed is handed out as a
  frame with EDC_OK (`RunLength(s) % capacity` in FrameSpec), while
  `edc_parser.h:143` speaks of a complete frame;
* EDC_KV_Parse drops the items its array has no room for and returns EDC_OK
  (`AtMost` in `ReadsPieces`).

## 6. What is not modelled, and the plan

*Left out for good:* units, one multiplication or addition each, of which only
the one the receiver uses appears (`KnotsToKmh`); EDC_Buffer_ApplyInPlace, a
loop that applies a caller's function to every byte, and the accessors of slices
around it; status texts and configuration macros; the character classes that no
function uses; benchmarks, fuzz driver, and the examples other than the receive
loop. Arguments refused at the entry of a function (NULL, zero capacity, a
format of 31 fraction bits) are not modelled: the strict checks are on by
default. Upper and lower case of numbers, words and hemispheres are told apart
only where a property does.

*Next, in this order:*

1. **Composition** of the framer, the key-value parser and its caller: a frame
   parsed in place, slices into the framer's buffer, used before the next byte.
2. **An error analysis** of floating-point text, from which `FloatNear` and
   `FloatReadsBack` would follow for every precision.

Runs are combined where one instance answers several questions, as MCGpsLine
does, so that each module keeps one passing run.
