---------------------------- MODULE SampleFormat ----------------------------
(* The 64 conversions of pcm/pcm_convert.c.  An integer sample is its value.  A
   float is counted in units of 2^-23, a double in units of 2^-31: every sample the
   conversions make from integers is exact in them, but for the low bits of 32-bit
   samples in a float. *)
EXTENDS Integers

PCM_SAMPLE_FMT_U8 == 0
PCM_SAMPLE_FMT_S8 == 1
PCM_SAMPLE_FMT_S16 == 2
PCM_SAMPLE_FMT_S20 == 3
PCM_SAMPLE_FMT_S24 == 4
PCM_SAMPLE_FMT_S32 == 5
PCM_SAMPLE_FMT_FLT == 6
PCM_SAMPLE_FMT_DBL == 7
Formats == PCM_SAMPLE_FMT_U8 .. PCM_SAMPLE_FMT_DBL
IsFloat(fmt) == fmt \in {PCM_SAMPLE_FMT_FLT, PCM_SAMPLE_FMT_DBL}

fmt_bits == [fmt \in Formats |-> <<8, 8, 16, 20, 24, 32, 32, 64>>[fmt + 1]]

(* Bits of a sample in the units above, sign included. *)
Depth(fmt) == CASE fmt = PCM_SAMPLE_FMT_FLT -> 24 [] fmt = PCM_SAMPLE_FMT_DBL -> 32
                [] OTHER -> fmt_bits[fmt]

(* << and >> on signed values; / and a cast round towards zero. *)
Shifted(v, from, to) == IF to >= from THEN v * 2^(to - from) ELSE v \div 2^(from - to)
Truncated(v, from, to) ==
    IF to >= from THEN v * 2^(to - from)
    ELSE IF v >= 0 THEN v \div 2^(from - to) ELSE -((-v) \div 2^(from - to))
Limit(v, bits) == IF v > 2^(bits - 1) - 1 THEN 2^(bits - 1) - 1
                  ELSE IF v < -(2^(bits - 1)) THEN -(2^(bits - 1)) ELSE v

Centred(src, v) == IF src = PCM_SAMPLE_FMT_U8 THEN v - 128 ELSE v

(* Integers are shifted, floating-point samples scaled, clipped and cast. *)
Integral(src, v, bits) ==
    IF IsFloat(src) THEN Limit(Truncated(v, Depth(src), bits), bits)
    ELSE Shifted(Centred(src, v), Depth(src), bits)

(* The 128 is added before the cast, so that a floating-point sample rounds down. *)
fmt_convert_to_u8(src, v) ==
    CASE src = PCM_SAMPLE_FMT_U8 -> v
      [] IsFloat(src) -> Limit(Shifted(v, Depth(src), 8), 8) + 128
      [] OTHER -> Integral(src, v, 8) + 128
fmt_convert_to_s8(src, v) == Integral(src, v, 8)
fmt_convert_to_s16(src, v) == Integral(src, v, 16)
fmt_convert_to_s20(src, v) == Integral(src, v, 20)
fmt_convert_to_s24(src, v) == Integral(src, v, 24)
(* Not clipped: a float outside -1 .. 1 has no defined result, and is left out. *)
fmt_convert_to_s32(src, v) == Shifted(Centred(src, v), Depth(src), 32)
fmt_convert_to_float(src, v) == Shifted(Centred(src, v), Depth(src), 24)
fmt_convert_to_double(src, v) == Shifted(Centred(src, v), Depth(src), 32)

(* SET_FMT_CONVERT_FROM. *)
fmt_convert(src, dst, v) ==
    CASE dst = PCM_SAMPLE_FMT_U8 -> fmt_convert_to_u8(src, v)
      [] dst = PCM_SAMPLE_FMT_S8 -> fmt_convert_to_s8(src, v)
      [] dst = PCM_SAMPLE_FMT_S16 -> fmt_convert_to_s16(src, v)
      [] dst = PCM_SAMPLE_FMT_S20 -> fmt_convert_to_s20(src, v)
      [] dst = PCM_SAMPLE_FMT_S24 -> fmt_convert_to_s24(src, v)
      [] dst = PCM_SAMPLE_FMT_S32 -> fmt_convert_to_s32(src, v)
      [] dst = PCM_SAMPLE_FMT_FLT -> fmt_convert_to_float(src, v)
      [] dst = PCM_SAMPLE_FMT_DBL -> fmt_convert_to_double(src, v)
=============================================================================
