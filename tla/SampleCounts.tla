---------------------------- MODULE SampleCounts ----------------------------
(***************************************************************************)
(* The rules of libaften on the number of samples a call of                *)
(* aften_encode_frame passes, shared by every model of the encoder.        *)
(* The context remembers the count of the last accepted call in            *)
(* last_samples_count, which is NoCallYet (-1) until the first one.        *)
(***************************************************************************)
EXTENDS Integers

\* Samples per channel in one AC-3 frame: six blocks of 256.
A52_SAMPLES_PER_FRAME == 1536

\* The value aften_encode_init gives last_samples_count.
NoCallYet == -1

\* aften_encode_frame answers -1 without touching the encoder: the count is out
\* of range, or more samples follow a call that already was shorter than a frame.
Rejects(count, last) ==
    \/ count > A52_SAMPLES_PER_FRAME
    \/ count < 0
    \/ /\ count # 0
       /\ last # NoCallYet
       /\ last < A52_SAMPLES_PER_FRAME

\* Nothing is left to encode: the last accepted call had room for the 256
\* samples the MDCT still holds, so no silent frame has to be appended.
Drained(last) ==
    /\ last <= A52_SAMPLES_PER_FRAME - 256
    /\ last # NoCallYet

\* The counts of calls that get past Rejects, aften_encode_close's own included.
CallCounts(Counts) == {0} \cup (Counts \cap 0 .. A52_SAMPLES_PER_FRAME)

\* What last_samples_count can hold when calls pass counts of the set Counts.
LastCounts(Counts) == {NoCallYet} \cup CallCounts(Counts)
=============================================================================
