----------------------------- MODULE EncoderInit -----------------------------
(* aften_set_defaults and aften_encode_init (libaften/a52enc.c): what the settings of
   an AftenContext make of the encoder's context, or why they are refused.  An
   instruction set is its name; what a processor has and what the build was compiled
   with are sets of names. *)
EXTENDS A52Tables, FiniteSets

MAX_NUM_THREADS == 32    \* of the build

(* cpu_caps_detect: the sets that may be used. *)
cpu_caps_detect(cpu) == cpu.detect \cap cpu.compile

(* The rest (ssse3, 3dnow...) has no code yet. *)
set_available_simd_instructions(cpu) ==
    cpu_caps_detect(cpu) \cap {"mmx", "sse", "sse2", "sse3", "altivec"}

(* What aften_set_defaults leaves to be overridden, by the name of its option. *)
aften_set_defaults(cpu) ==
    [wanted_simd_instructions |-> set_available_simd_instructions(cpu), threads |-> 0, v |-> 1,
     channels |-> -1, samplerate |-> -1, acmod |-> -1, lfe |-> -1, encoding_mode |-> "CBR",
     b |-> 0, q |-> 240, w |-> -1, m |-> 1, s |-> 0, bwfilter |-> 0, dcfilter |-> 0, lfefilter |-> 0,
     fba |-> 0, exps |-> 8, dynrng |-> 5, wmin |-> 0, wmax |-> 60,
     cmix |-> 0, smix |-> 0, dsur |-> 0, dnorm |-> 31, xbsi1 |-> 0, dmixmod |-> 0, ltrtcmix |-> 4,
     ltrtsmix |-> 4, lorocmix |-> 4, lorosmix |-> 4, xbsi2 |-> 0, dsurexmod |-> 0, dheadphon |-> 0,
     adconvtyp |-> 0]

-----------------------------------------------------------------------------
(* Mutant: the detection comes after the restrictions. *)
DetectLast(cpu, wanted) == cpu_caps_detect(cpu)

(* cpu_caps_detect, then apply_simd_restrictions. *)
CapsInUse(cpu, wanted) == cpu_caps_detect(cpu) \cap wanted

(* mdct_init, a52_window_init and exponent_init: the code each is given. *)
mdct_init(caps) ==
    IF "sse3" \in caps THEN "sse3" ELSE IF "sse" \in caps THEN "sse"
    ELSE IF "altivec" \in caps THEN "altivec" ELSE "C"
a52_window_init(caps) == IF "sse" \in caps THEN "sse" ELSE "C"
exponent_init(caps) == IF "sse2" \in caps THEN "sse2" ELSE IF "mmx" \in caps THEN "mmx" ELSE "C"

-----------------------------------------------------------------------------
(* The sample rate: the first of the nine that fits, halfratecod first. *)
RateCode(samplerate) ==
    LET fits == {c \in (0 .. 2) \X (0 .. 2) : a52_sample_rate_tab[c[2] + 1] \div 2^(c[1]) = samplerate}
    IN  IF fits = {} THEN <<-1, -1>>
        ELSE CHOOSE c \in fits : \A d \in fits : 3 * c[1] + c[2] <= 3 * d[1] + d[2]

bsid(halfratecod, s) ==
    IF halfratecod > 0 THEN 8 + halfratecod ELSE IF s.xbsi1 = 1 \/ s.xbsi2 = 1 THEN 6 ELSE 8

(* The bit rate by position in its table; 19 if it is not there. *)
DefaultRate == <<96, 192, 256, 384, 448>>
RatePosition(s, n_channels, halfratecod) ==
    LET brate == IF s.encoding_mode = "CBR" /\ s.b = 0 THEN DefaultRate[n_channels] ELSE s.b
        at == {i \in 0 .. 18 : a52_bitrate_tab[i + 1] \div 2^halfratecod = brate}
    IN  IF at # {} THEN CHOOSE i \in at : \A j \in at : i <= j
        ELSE IF s.encoding_mode = "CBR" THEN 19 ELSE 18

last_quality(s, target_bitrate, n_channels, halfratecod) ==
    IF s.encoding_mode = "VBR" THEN s.q
    ELSE ((((target_bitrate \div n_channels) * 35) \div 24) + 95) + (25 * halfratecod)

(* Division as in C: towards zero. *)
Quotient(a, b) == IF a >= 0 THEN a \div b ELSE -((-a) \div b)
CLIP(x, min, max) == LET low == IF x > max THEN max ELSE x IN IF low > min THEN low ELSE min

fixed_bwcode(s, quality, rate) ==
    LET cutoff == ((quality - 120) * 120) + 4000
    IN  IF s.w >= 0 THEN s.w
        ELSE CLIP(Quotient(Quotient(cutoff * 512, rate) - 73, 3), s.wmin, s.wmax)

(* The limits of the variable bandwidth; it needs a constant rate. *)
BandwidthRefused(s) ==
    \/ s.w \notin -2 .. 60
    \/ s.w = -2 /\ \/ s.wmin \notin 0 .. 60 \/ s.wmax \notin 0 .. 60 \/ s.wmin > s.wmax
                   \/ s.encoding_mode = "VBR"

-----------------------------------------------------------------------------
(* Mutant: block switching at every sample rate. *)
AlwaysSwitch(rate) == TRUE

(* The transient detector's high-pass does not fit low sample rates. *)
CanSwitch(rate) == rate > 16000

(* The cutoff of each filter in use, in Hz. *)
FilterCutoffs(s, bwcode, rate) ==
    LET bw == (((IF s.w = -2 THEN s.wmax ELSE bwcode) * 3 + 73) * rate) \div 512
        cutoff == [bs |-> 8000, dc |-> 3, bw |-> bw, lfe |-> 120]
        uses == {f \in DOMAIN cutoff : \/ f = "bs" /\ s.s = 1 /\ CanSwitch(rate)
                                       \/ f = "dc" /\ s.dcfilter = 1
                                       \/ f = "bw" /\ s.bwfilter = 1 /\ bw >= 4000
                                       \/ f = "lfe" /\ s.lfefilter = 1 /\ s.lfe = 1}
    IN  [f \in uses |-> cutoff[f]]

(* filter_init, for the kinds of filter in use: cascaded where it may be. *)
filter_init(cutoff, rate) == rate > 0 /\ cutoff >= 0 /\ 2 * cutoff <= rate

Fail(why) == [why |-> why]

(* Why the settings are refused, if they are, in the order of the checks. *)
Refusal(s, halfratecod, i, filters) ==
    IF s.channels \notin 1 .. 6 \/ s.acmod \notin 0 .. 7 THEN "channels"
    ELSE IF s.channels = 6 /\ s.lfe = 0 THEN "channels"
    ELSE IF s.channels = 1 /\ s.lfe = 1 THEN "channels"
    ELSE IF halfratecod < 0 THEN "sample rate"
    ELSE IF s.encoding_mode = "VBR" /\ s.q \notin 0 .. 1023 THEN "quality"
    ELSE IF i = 19 THEN "bit rate"
    ELSE IF s.exps \notin 1 .. 32 THEN "exponent strategies"
    ELSE IF BandwidthRefused(s) THEN "bandwidth"
    ELSE IF \E f \in DOMAIN filters : ~filter_init(filters[f], s.samplerate) THEN "filter"
    ELSE IF s.lfefilter = 1 /\ s.lfe = 0 THEN "lfe filter"
    ELSE "none"

(* The whole of aften_encode_init up to the threads. *)
aften_encode_init(s, cpu, ncpus) ==
    LET caps == CapsInUse(cpu, s.wanted_simd_instructions)
        n_channels == s.channels - s.lfe
        rate == RateCode(s.samplerate)
        halfratecod == rate[1]
        i == RatePosition(s, n_channels, halfratecod)
        target_bitrate == a52_bitrate_tab[i + 1] \div 2^halfratecod
        quality == last_quality(s, target_bitrate, n_channels, halfratecod)
        bwcode == fixed_bwcode(s, quality, s.samplerate)
        filters == FilterCutoffs(s, bwcode, s.samplerate)
        threads == IF s.threads > 0 THEN s.threads ELSE ncpus
        why == Refusal(s, halfratecod, i, filters)
    IN  IF why # "none" THEN Fail(why)
        ELSE [why |-> why, acmod |-> s.acmod, lfe |-> s.lfe, n_all_channels |-> s.channels,
              n_channels |-> n_channels, halfratecod |-> halfratecod, fscod |-> rate[2],
              bsid |-> bsid(halfratecod, s), frmsizecod |-> 2 * i, target_bitrate |-> target_bitrate,
              last_quality |-> quality, bwcode |-> bwcode, filters |-> filters,
              code |-> {mdct_init(caps), a52_window_init(caps), exponent_init(caps)},
              n_threads |-> IF threads > MAX_NUM_THREADS THEN MAX_NUM_THREADS ELSE threads]
=============================================================================
