-------------------------- MODULE MCBitAllocSearch --------------------------
(* Instances of BitAllocSearch for TLC, on the scale of real frames. *)
EXTENDS BitAllocSearch

Ramp(k, from, s) == IF s <= from THEN 0 ELSE k * (s - from)

\* Mantissa bits grow with the offset: from one offset on at one rate, from a
\* second one on faster, up to 16 bits for every coefficient.  At offset 0, and
\* not below it, a52_bit_alloc_calc_bap gives no coefficient any bits.
RampBits(g, s) ==
    LET b == Ramp(g.k1, g.from1, s) + Ramp(g.k2, g.from2, s)
    IN  IF s = 0 THEN 0 ELSE IF b > g.cap THEN g.cap ELSE b

Frame(fixed, sz, k1, from1, k2, from2, cap) ==
    [fixed |-> fixed, size |-> sz, k1 |-> k1, from1 |-> from1,
     k2 |-> k2, from2 |-> from2, cap |-> cap]

\* 192 kbps stereo at 48 kHz: silence, ordinary frames, steep and late ramps,
\* one that fits exactly, one that takes bits below offset 0, some that fit
\* at the lowest offsets only, and one that does not fit at all.
StereoFrames ==
    {Frame(1500, 6144, 0, 0, 0, 0, 0),
     Frame(1500, 6144, 12, 40, 0, 0, 48000),
     Frame(2200, 6144, 30, 150, 90, 300, 48000),
     Frame(1500, 6144, 250, 8, 0, 0, 48000),
     Frame(6080, 6144, 250, 8, 0, 0, 48000),
     Frame(1500, 6144, 5, 100, 70, 980, 48000),
     Frame(1344, 6144, 16, 60, 0, 0, 48000),
     Frame(5900, 6144, 6, -16, 90, 0, 48000),
     Frame(6144, 6144, 25, 3, 0, 0, 48000),
     Frame(6144, 6144, 25, 15, 0, 0, 48000),
     Frame(6200, 6144, 12, 40, 0, 0, 48000)}

\* 640 kbps mono, where 253 coefficients in six blocks take at most 24288 bits:
\* silence and a frame that fit at the first guess, which is above 1023, one that fits
\* there exactly, and two that do not.
MonoFrames ==
    {Frame(700, 20480, 0, 0, 0, 0, 24288),
     Frame(900, 20480, 18, 100, 0, 0, 24288),
     Frame(992, 20480, 21, 100, 0, 0, 24288),
     Frame(900, 20480, 40, 60, 0, 0, 24288),
     Frame(1200, 20480, 4, 0, 300, 985, 24288)}

\* The sizes of 32 to 192 kbps at 48 kHz, each listed twice in the table (frmsizecod 0
\* to 21), and those up to 640 kbps.
SizesTo192 ==
    <<1024, 1024, 1280, 1280, 1536, 1536, 1792, 1792, 2048, 2048, 2560, 2560,
      3072, 3072, 3584, 3584, 4096, 4096, 5120, 5120, 6144, 6144>>
SizesTo640 ==
    SizesTo192 \o
    <<7168, 7168, 8192, 8192, 10240, 10240, 12288, 12288, 14336, 14336, 16384, 16384,
      18432, 18432, 20480, 20480>>

StereoAndMono ==
    {[n_channels |-> 2, target_bitrate |-> 192, halfratecod |-> 0,
      frame_sizes |-> SizesTo192, frames |-> StereoFrames],
     [n_channels |-> 1, target_bitrate |-> 640, halfratecod |-> 0,
      frame_sizes |-> SizesTo640, frames |-> MonoFrames]}
=============================================================================
