------------------------------ MODULE MCVoice ------------------------------
(***************************************************************************)
(* The voice path that the node does not use yet.  Its parts share no      *)
(* state, so a behaviour exercises one of them: the client of the dialogue *)
(* API, the accumulator, or the resampler on an input that grows sample by *)
(* sample and may end in half a sample.                                    *)
(***************************************************************************)
EXTENDS VolcClient, AudioPipeline

CONSTANTS MaxSamples   \* bound: samples of an input buffer to resample

VARIABLES part,        \* the part exercised
          samples,     \* the input of the resampler
          half         \* the bytes behind its last sample

Samples == {-32768, -3, 0, 32767}

Init ==
    /\ VolcInit
    /\ AudioInit
    /\ part \in {"client", "accumulator", "resampler"}
    /\ samples = <<>>
    /\ half \in IF part = "resampler" THEN {<<>>, <<1>>} ELSE {<<>>}

Next ==
    \/ /\ part = "client"
       /\ VolcNext
       /\ UNCHANGED <<audioVars, part, samples, half>>
    \/ /\ part = "accumulator"
       /\ AudioNext
       /\ UNCHANGED <<volcVars, part, samples, half>>
    \/ /\ part = "resampler"
       /\ \E v \in Samples :
              samples' = IF Len(samples) < MaxSamples THEN Append(samples, v) ELSE <<v>>
       /\ UNCHANGED <<volcVars, audioVars, part, half>>

Spec == Init /\ [][Next]_<<volcVars, audioVars, part, samples, half>>

-----------------------------------------------------------------------------
Bytes(values) ==
    [b \in 1..(2 * Len(values)) |-> Int16LE(values[(b + 1) \div 2])[1 + ((b - 1) % 2)]]

\* References on samples: every third sample is kept; after every sample comes the
\* mean of it and its successor, rounded up, and the last sample is held.
EveryThird(values) == [k \in 1..(Len(values) \div 3) |-> values[3 * k - 2]]

Doubled(values) ==
    [k \in 1..(2 * Len(values)) |->
        LET here == (k + 1) \div 2
        IN  IF k % 2 = 1 \/ here = Len(values) THEN values[here]
            ELSE (values[here] + values[here + 1] + 1) \div 2]

\* Downsampling to 16 kHz picks every third sample, whatever the length; upsampling
\* to 48 kHz interpolates inside of the buffer to its last sample, and throws exactly
\* when half a sample trails: outputSamples then counts it (audio-pipeline.ts:44).
ResampleSound ==
    LET input == Bytes(samples) \o half
    IN  /\ downsample48to16(input) = [threw |-> FALSE, output |-> Bytes(EveryThird(samples))]
        /\ upsample24to48(input).threw <=> half # <<>>
        /\ half = <<>> => upsample24to48(input).output = Bytes(Doubled(samples))
=============================================================================
