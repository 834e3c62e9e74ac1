--------------------------- MODULE AudioPipeline ---------------------------
(***************************************************************************)
(* plugin/node/audio-pipeline.ts: resampling, chunking and the accumulator *)
(* that turns PCM pieces of any size into frames.  A Buffer is a sequence  *)
(* of bytes; offsets count from 0 as in the code.  Rates are in units of   *)
(* 8 kHz; the two ratios the module exports, 3 and 1/2, are exact as       *)
(* floating-point numbers, and fractions are exact here.                   *)
(***************************************************************************)
EXTENDS Integers, Sequences

CONSTANTS FrameSize,   \* VOLC_FRAME_BYTES, 640 in the code
          MaxBytes     \* bound: bytes pushed between two flushes

ASSUME AudioAssumption == FrameSize \in Nat \ {0} /\ MaxBytes \in Nat

VARIABLES buffer,      \* the accumulator's buffer
          given,       \* what was pushed since it was last empty by flush or reset
          frames       \* the frames push returned since

audioVars == <<buffer, given, frames>>

-----------------------------------------------------------------------------
(* Resampling *)

MinOf(a, b) == IF a < b THEN a ELSE b
MaxOf(a, b) == IF a < b THEN b ELSE a

clamp16(value) == MaxOf(-32768, MinOf(32767, value))

CanRead(input, offset) == 0 <= offset /\ offset + 2 <= Len(input)

readInt16LE(input, offset) ==
    LET u == input[offset + 1] + 256 * input[offset + 2]
    IN  IF u < 32768 THEN u ELSE u - 65536

Int16LE(value) == LET u == value % 65536 IN <<u % 256, u \div 256>>

\* The offsets the two reads of output sample i use: input.length / 2 is a half for
\* an odd length, and (inputSamples - 1) * 2 is the length less 2 in any case.
FirstOffset(i, from, to) == 2 * ((i * from) \div to)

NextOffsetPastEnd(i, from, to, length) == FirstOffset(i, from, to) + 2

NextOffset(i, from, to, length) == MinOf(FirstOffset(i, from, to) + 2, length - 2)

\* Math.round rounds halves up.
Sample(input, i, from, to) ==
    LET s0 == readInt16LE(input, FirstOffset(i, from, to))
        s1 == readInt16LE(input, NextOffset(i, from, to, Len(input)))
        frac == (i * from) % to
    IN  clamp16((2 * (s0 * to + frac * (s1 - s0)) + to) \div (2 * to))

\* A read outside of the buffer throws a RangeError.
resamplePcm(input, from, to) ==
    LET outputSamples == (Len(input) * to) \div (2 * from)
        Reads(i) == /\ CanRead(input, FirstOffset(i, from, to))
                    /\ CanRead(input, NextOffset(i, from, to, Len(input)))
    IN  IF \A i \in 0..(outputSamples - 1) : Reads(i)
        THEN [threw  |-> FALSE,
              output |-> [b \in 1..(2 * outputSamples) |->
                            Int16LE(Sample(input, (b - 1) \div 2, from, to))[1 + ((b - 1) % 2)]]]
        ELSE [threw |-> TRUE, output |-> <<>>]

downsample48to16(input) == resamplePcm(input, 6, 2)
upsample24to48(input) == resamplePcm(input, 3, 6)

-----------------------------------------------------------------------------
(* Frames *)

\* Buffer.alloc(size) and copy: the rest is zero, what does not fit is cut.
Padded(piece, size) == [i \in 1..size |-> IF i <= Len(piece) THEN piece[i] ELSE 0]

chunkPcm(audio, chunkSize) ==
    [k \in 1..((Len(audio) + chunkSize - 1) \div chunkSize) |->
        Padded(SubSeq(audio, (k - 1) * chunkSize + 1, MinOf(k * chunkSize, Len(audio))), chunkSize)]

AudioInit == buffer = <<>> /\ given = <<>> /\ frames = <<>>

\* The n whole frames at the front of a buffer, and what is left behind them.
Whole(bytes, n) == [k \in 1..n |-> SubSeq(bytes, (k - 1) * FrameSize + 1, k * FrameSize)]
Rest(bytes, n)  == SubSeq(bytes, n * FrameSize + 1, Len(bytes))

FrameCountAtMostOne(bytes) == IF Len(bytes) >= FrameSize THEN 1 ELSE 0

FrameCount(bytes) == Len(bytes) \div FrameSize

push(data) ==
    LET bytes == buffer \o data
    IN  /\ Len(given) + Len(data) <= MaxBytes
        /\ frames' = frames \o Whole(bytes, FrameCount(bytes))
        /\ buffer' = Rest(bytes, FrameCount(bytes))
        /\ given' = given \o data

\* What flush returns: no frame, or one.
Flushed == IF buffer = <<>> THEN <<>> ELSE <<Padded(buffer, FrameSize)>>

flush == buffer' = <<>> /\ given' = <<>> /\ frames' = <<>>

reset == buffer' = <<>> /\ given' = <<>> /\ frames' = <<>>

\* The bytes pushed are numbered, so that an order or a loss shows.
AudioNext ==
    \/ \E n \in 0..(2 * FrameSize + 1) : push([i \in 1..n |-> Len(given) + i])
    \/ flush
    \/ reset

AudioSpec == AudioInit /\ [][AudioNext]_audioVars

-----------------------------------------------------------------------------
(* Properties *)

\* However the audio is cut into pushes, the frames the accumulator returns, with
\* the one flush would return, are the frames chunkPcm cuts the whole audio into:
\* nothing is lost, repeated or reordered, and only the last frame is padded.
StreamIntact == frames \o Flushed = chunkPcm(given, FrameSize)
=============================================================================
