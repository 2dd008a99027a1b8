---------------------------- MODULE FramePacing ----------------------------
(***************************************************************************)
(* The size of the frames of one thread at a constant bit rate             *)
(* (frame_init, adjust_frame_size and the counters of process_frame).      *)
(* Frames are whole 16-bit words.  At 44.1 kHz and its halves a frame      *)
(* would need a fraction of a word, so adjust_frame_size adds one word     *)
(* whenever the bits written lag behind the samples encoded.  It compares  *)
(* the two by products of 32-bit unsigned integers, which wrap around.     *)
(***************************************************************************)
EXTENDS A52Tables

CONSTANTS
    RateCodes,     \* positions in a52_bitrate_tab
    FsCods,        \* positions in a52_sample_rate_tab
    HalfRates      \* halfratecod: how often the sample rate is halved

ASSUME PacingAssumption ==
    /\ RateCodes \subseteq 0 .. 18
    /\ FsCods \subseteq 0 .. 2
    /\ HalfRates \subseteq 0 .. 2

\* The sizes in bits, for each sample rate, that a frame's frmsizecod stands for.
a52_frame_size_tab == <<
    <<1024, 1024, 1280, 1280, 1536, 1536, 1792, 1792, 2048, 2048, 2560, 2560,
      3072, 3072, 3584, 3584, 4096, 4096, 5120, 5120, 6144, 6144, 7168, 7168,
      8192, 8192, 10240, 10240, 12288, 12288, 14336, 14336, 16384, 16384,
      18432, 18432, 20480, 20480>>,
    <<1104, 1120, 1392, 1408, 1664, 1680, 1936, 1952, 2224, 2240, 2784, 2800,
      3328, 3344, 3888, 3904, 4448, 4464, 5568, 5584, 6672, 6688, 7792, 7808,
      8912, 8928, 11136, 11152, 13360, 13376, 15600, 15616, 17824, 17840,
      20048, 20064, 22288, 22304>>,
    <<1536, 1536, 1920, 1920, 2304, 2304, 2688, 2688, 3072, 3072, 3840, 3840,
      4608, 4608, 5376, 5376, 6144, 6144, 7680, 7680, 9216, 9216, 10752, 10752,
      12288, 12288, 15360, 15360, 18432, 18432, 21504, 21504, 24576, 24576,
      27648, 27648, 30720, 30720>> >>

VARIABLES
    rate, fscod, halfratecod,   \* chosen by aften_encode_init
    bit_cnt, sample_cnt,        \* of the A52ThreadContext
    frame_size,                 \* of the A52Frame, in words
    frmsizecod,                 \* the code the latest call wrote, or NotWritten
    drift                       \* history: bits written beyond the exact rate,
                                \* in parts of 1 / srate

settings == <<rate, fscod, halfratecod>>
vars == <<settings, bit_cnt, sample_cnt, frame_size, frmsizecod, drift>>

A52_SAMPLES_PER_FRAME == 1536

NotWritten == -1

srate          == a52_sample_rate_tab[fscod + 1] \div 2^halfratecod
bit_rate       == a52_bitrate_tab[rate + 1] \div 2^halfratecod
kbps           == bit_rate * 1000
frame_size_min == (bit_rate * 96000) \div srate

Init ==
    /\ rate \in RateCodes /\ fscod \in FsCods /\ halfratecod \in HalfRates
    /\ bit_cnt = 0 /\ sample_cnt = 0
    /\ frame_size = 0
    /\ frmsizecod = NotWritten
    /\ drift = 0

\* The product of a < 2^21 and b < 2^20 as its two 16-bit halves: computed in
\* parts that stay within the checker's own 32-bit integers.
Product(a, b) ==
    LET mid == (a \div 2^10) * (b % 2^16)
        low == (a % 2^10) * (b % 2^16) + (mid % 2^6) * 2^10
    IN  [hi |-> (mid \div 2^6) + a * (b \div 2^16) + (low \div 2^16),
         lo |-> low % 2^16]

\* uint32_t: what does not fit into 32 bits is lost.
Wrap(p) == [p EXCEPT !.hi = @ % 2^16]

\* Mutant: equality counts as lagging behind.
LessOrEqual(p, q) == p.hi < q.hi \/ (p.hi = q.hi /\ p.lo <= q.lo)

Less(p, q) == p.hi < q.hi \/ (p.hi = q.hi /\ p.lo < q.lo)

\* How often adjust_frame_size takes a whole second off both counters.
Seconds ==
    LET b == bit_cnt \div kbps
        s == sample_cnt \div srate
    IN  IF b < s THEN b ELSE s

BitsLeft    == bit_cnt - Seconds * kbps
SamplesLeft == sample_cnt - Seconds * srate

\* The bits written lag behind the samples encoded.
Behind == Less(Wrap(Product(BitsLeft, srate)), Wrap(Product(SamplesLeft, kbps)))

\* adjust_frame_size, from what frame_init chose.
AdjustFrameSize == frame_size' = frame_size_min + (IF Behind THEN 1 ELSE 0)

\* Mutant: the word added is not counted.
CountMinimum(words) == frame_size_min * 16

\* What a frame of that many words adds to bit_cnt.
BitsOf(words) == words * 16

\* process_frame, with the frmsizecod of output_frame_header.
ProcessFrame ==
    /\ AdjustFrameSize
    /\ bit_cnt' = BitsLeft + BitsOf(frame_size')
    /\ sample_cnt' = SamplesLeft + A52_SAMPLES_PER_FRAME
    /\ frmsizecod' = 2 * rate + (frame_size' - frame_size_min)
    /\ drift' = drift + (16 * frame_size' * srate - A52_SAMPLES_PER_FRAME * kbps)
    /\ UNCHANGED settings

\* process_frame when bit allocation fails: nothing is written or counted.
ProcessFails ==
    /\ AdjustFrameSize
    /\ bit_cnt' = BitsLeft
    /\ sample_cnt' = SamplesLeft
    /\ frmsizecod' = NotWritten
    /\ UNCHANGED <<settings, drift>>

Next == ProcessFrame \/ ProcessFails

Spec == Init /\ [][Next]_vars

-----------------------------------------------------------------------------
\* The frmsizecod written into a frame's header stands for the frame's size: a
\* word is never added where the format has no code for it.
SizeIsCoded ==
    frmsizecod # NotWritten =>
        a52_frame_size_tab[fscod + 1][frmsizecod + 1] = 16 * frame_size

\* The bits written never lag a word behind the exact rate, and are never two
\* words ahead of it, however long the stream and although the products wrap.
RateKept == -16 * srate < drift /\ drift < 32 * srate
=============================================================================
