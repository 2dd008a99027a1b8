--------------------------- MODULE Psychoacoustics ---------------------------
(* The bit allocation routine of libaften/a52.c as the encoder calls it: from
   bin 0, without coupling and without delta bit allocation.  A decoder runs the
   same routine on the exponents it received, so the encoder's bit allocation
   pointers have to be a function of what the frame carries.  Arrays indexed by
   bin or by band are sequences: element i + 1 is bin or band i. *)
EXTENDS A52Tables

Larger(a, b) == IF a > b THEN a ELSE b
Smaller(a, b) == IF a > b THEN b ELSE a
Clip(x, lo, hi) == Larger(Smaller(x, hi), lo)
Absolute(a) == IF a >= 0 THEN a ELSE -a

calc_lowcomp1(a, b0, b1, c) ==
    IF b0 + 256 = b1 THEN c ELSE IF b0 > b1 THEN Larger(a - 64, 0) ELSE a

calc_lowcomp(a, b0, b1, bin) ==
    CASE bin < 7 -> calc_lowcomp1(a, b0, b1, 384)
      [] bin \in 7 .. 19 -> calc_lowcomp1(a, b0, b1, 320)
      [] OTHER -> Larger(a - 128, 0)

(* Exponents to power spectral density. *)
Psd(exp, end) == [bin \in 1 .. end |-> 3072 - exp[bin] * 128]

RECURSIVE LogAdd(_, _, _, _)
LogAdd(psd, v, bin, band_end) ==
    IF bin >= band_end THEN v
    ELSE LET adr == Smaller(Absolute(v - psd[bin + 1]) \div 2, 255)
         IN  LogAdd(psd, Larger(v, psd[bin + 1]) + a52_log_add_tab[adr + 1], bin + 1, band_end)

(* The power of each band that holds a bin below end; acc holds the bands done. *)
RECURSIVE BandPsd(_, _, _)
BandPsd(psd, end, acc) ==
    LET band == Len(acc)
        bin == band_start_tab[band]
    IN  IF bin >= end THEN acc
        ELSE BandPsd(psd, end, Append(acc, LogAdd(psd, psd[bin + 1], bin + 1,
                                                  Smaller(band_start_tab[band + 1], end))))

(* The excitation function.  The leaks run from band to band; the first bands have
   no leak of their own until the band power rises. *)
RECURSIVE Excite(_, _, _, _, _)
Excite(s, psd, fast_gain, acc, st) ==
    LET band == Len(acc)
        p == psd[band + 1]
        last == Len(psd) = band + 1
        few == Len(psd) = 7 /\ band = 6
        next == IF last THEN p ELSE psd[band + 2]
        start == band < 2 \/ st.start
        lowcomp == IF band >= 22 \/ few THEN st.lowcomp
                   ELSE IF start THEN calc_lowcomp1(st.lowcomp, p, next, 384)
                   ELSE calc_lowcomp(st.lowcomp, p, next, band)
        fastleak == IF start THEN p - fast_gain
                    ELSE Larger(st.fastleak - s.fdecay, p - fast_gain)
        slowleak == IF start THEN p - s.sgain
                    ELSE Larger(st.slowleak - s.sdecay, p - s.sgain)
        excite == CASE start -> fastleak - lowcomp
                    [] ~start /\ band < 22 -> Larger(fastleak - lowcomp, slowleak)
                    [] OTHER -> Larger(fastleak, slowleak)
        goes_on == band < 2 \/ (st.start /\ band < 6 /\ p > next)
    IN  IF last THEN Append(acc, excite)
        ELSE Excite(s, psd, fast_gain, Append(acc, excite),
                    [lowcomp |-> lowcomp, fastleak |-> fastleak, slowleak |-> slowleak,
                     start |-> goes_on])

(* The masking curve: excitation, lifted where a band is weak, at least the
   threshold of hearing. *)
Mask(s, psd, fast_gain) ==
    LET excite == Excite(s, psd, fast_gain, <<>>,
                         [lowcomp |-> 0, fastleak |-> 0, slowleak |-> 0, start |-> TRUE])
        lift(band) == Larger(s.dbknee - psd[band], 0) \div 4
        hearing == a52_hearing_threshold_tab[s.fscod + 1]
    IN  [band \in 1 .. Len(psd) |->
            Larger(hearing[((band - 1) \div 2^s.halfratecod) + 1], excite[band] + lift(band))]

(* Bit allocation pointers.  x & 0x1FE0 keeps bits 5 to 12. *)
a52_bit_alloc_calc_bap(mask, psd, end, snr_offset, floor) ==
    IF snr_offset = -960 THEN [bin \in 1 .. end |-> 0]
    ELSE LET m == [band \in DOMAIN mask |->
                     ((Larger(mask[band] - snr_offset - floor, 0) % 8192) \div 32) * 32 + floor]
         IN  [bin \in 1 .. end |->
                a52_bap_tab[Clip((psd[bin] - m[bin_to_band_tab[bin - 1] + 1]) \div 32, 0, 63) + 1]]

(* Psd and mask of one block and channel. *)
a52_bit_allocation_prepare(s, exp, end, fast_gain) ==
    LET psd == Psd(exp, end)
    IN  [psd |-> psd, mask |-> Mask(s, BandPsd(psd, end, <<>>), fast_gain)]
=============================================================================
