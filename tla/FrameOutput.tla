----------------------------- MODULE FrameOutput -----------------------------
(* One frame from MDCT coefficients to bytes: what process_frame does once the
   transform is done.  The coefficients and the block switch flags are inputs (the
   signal processing before them is floating point); from there every integer is
   the code's.  The search for an SNR offset is the subject of BitAllocSearch: here
   an offset is taken as accepted when the frame has the bits predicted for it. *)
EXTENDS Psychoacoustics, Exponents, Mantissas, BitWriter, Crc16, SequencesExt

CONSTANTS
    Settings,        \* the encoder settings, records of A52Context's fields
    Inputs,          \* names of inputs
    Coef(_, _, _, _),\* Coef(input, block, channel, bin): coefficient * 2^24
    Blksw(_, _, _),  \* Blksw(input, block, channel): 1 for a transient
    Flags,           \* rematrixing flags, the outcomes of a comparison of energies
    Garbage,         \* bytes an uninitialised array may hold
    Offsets,         \* SNR offsets
    Slack,           \* words a frame may have beyond the ones it needs
    MaxCodedFrameSize

VARIABLES
    set, input,
    phase, blk,          \* the next function, and its block
    f                    \* A52Frame and its blocks, per channel and block, and the writer

vars == <<set, input, phase, blk, f>>

n_channels == a52_channels_tab[set.acmod + 1]
Channels == 1 .. n_channels + set.lfe
Fbw == 1 .. n_channels
IsLfe(ch) == ch > n_channels
ncoefs(ch) == IF IsLfe(ch) THEN 7 ELSE set.bwcode * 3 + 73
Blocks == 1 .. NumBlocks
bsid == IF set.halfratecod > 0 THEN 8 + set.halfratecod
        ELSE IF set.xbsi1e + set.xbsi2e > 0 THEN 6 ELSE 8
Bins == set.bwcode * 3 + 84              \* every bin a group can reach

Stereo == 2
DualMono == 0

(* The parameters frame_init and start_bit_allocation set: sdecaycod 2, fdecaycod 1,
   sgaincod 1, dbkneecod 2, floorcod 7. *)
bit_alloc ==
    [fscod |-> set.fscod, halfratecod |-> set.halfratecod,
     sdecay |-> a52_slow_decay_tab[3] \div 2^set.halfratecod,
     fdecay |-> a52_fast_decay_tab[2] \div 2^set.halfratecod,
     sgain |-> a52_slow_gain_tab[2], dbknee |-> a52_db_per_bit_tab[3], floor |-> a52_floor_tab[8]]

Init ==
    /\ set \in Settings /\ input \in Inputs
    /\ phase = "rematrix" /\ blk = 1
    /\ f = [coef |-> [ch \in Channels |-> [b \in Blocks |-> [i \in 1 .. Bins |->
                       IF i <= ncoefs(ch) THEN Coef(input, b, ch, i - 1) ELSE 0]]],
            rematflg |-> <<0, 0, 0, 0>>, exp |-> <<>>, exp_strategy |-> <<>>, grp_exp |-> <<>>,
            mask |-> <<>>, frame_bits |-> 0, exp_bits |-> 0, mant_bits |-> 0, snroffst |-> 0,
            frame_size |-> 0, bap |-> <<>>, qmant |-> <<>>,
            bw |-> bitwriter_init(MaxCodedFrameSize), bytes |-> <<>>]

Step(from, to) == phase = from /\ phase' = to /\ UNCHANGED <<set, input, blk>>

rematbndtab == <<13, 25, 37, 61, 252>>
Halved(x) == IF x >= 0 THEN x \div 2 ELSE -((-x) \div 2)

(* Stereo only: in the bands whose flag is set, half the sum and half the
   difference take the place of the two channels. *)
calc_rematrixing ==
    /\ Step("rematrix", "extract")
    /\ IF set.acmod # Stereo THEN UNCHANGED f
       ELSE \E flags \in Flags :
              LET in(i) == /\ i < ncoefs(1)
                           /\ \E bnd \in 1 .. 4 : /\ flags[bnd] = 1
                                                  /\ rematbndtab[bnd] <= i /\ i < rematbndtab[bnd + 1]
                  new(ch, b, i) == LET l == f.coef[1][b][i]
                                       r == f.coef[2][b][i]
                                   IN  Halved(IF ch = 1 THEN l + r ELSE l - r)
              IN  f' = [f EXCEPT !.rematflg = flags,
                                 !.coef = [ch \in Channels |-> [b \in Blocks |-> [i \in 1 .. Bins |->
                                     IF ch <= 2 /\ in(i - 1) THEN new(ch, b, i) ELSE @[ch][b][i]]]]]

ExtractExponents ==
    /\ Step("extract", "strategy")
    /\ f' = [f EXCEPT !.exp = [ch \in Channels |-> [b \in Blocks |->
                                 [i \in 1 .. Bins |-> extract_exponents(f.coef[ch][b][i])]]]]

(* Sets of strategies; the LFE channel sends its exponents once. *)
compute_exponent_strategy ==
    /\ Step("strategy", "encode")
    /\ \E g \in Garbage :
         LET stack == [b \in Blocks |-> [i \in 1 .. Bins |-> g]]
             str(ch) == IF set.expstr_search = 1 THEN 0
                        ELSE compute_expstr_ch(f.exp[ch], ncoefs(ch), set.expstr_search, stack)
         IN  f' = [f EXCEPT !.exp_strategy = [ch \in Channels |->
                              a52_expstr_set_tab[IF IsLfe(ch) THEN 1 ELSE str(ch) + 1]]]

EncodeExponents ==
    /\ Step("encode", "group")
    /\ f' = [f EXCEPT !.exp = [ch \in Channels |->
                                 encode_exponents(@[ch], ncoefs(ch), f.exp_strategy[ch])]]

Sum(op(_), n) == LET sum[i \in 0 .. n] == IF i = 0 THEN 0 ELSE sum[i - 1] + op(i) IN sum[n]
New(ch, b) == f.exp_strategy[ch][b] # EXP_REUSE

GroupExponents ==
    /\ Step("group", "start")
    /\ f' = [f EXCEPT
         !.grp_exp = [ch \in Channels |-> [b \in Blocks |->
             IF New(ch, b) THEN group_exponents(f.exp[ch][b], ncoefs(ch), f.exp_strategy[ch][b])
             ELSE <<>>]],
         !.exp_bits = Sum(LAMBDA ch : Sum(LAMBDA b :
             IF New(ch, b) THEN 4 + 7 * nexpgrptab(f.exp_strategy[ch][b], ncoefs(ch)) ELSE 0,
             NumBlocks), n_channels + set.lfe)]

(* The fast gain goes with the strategy last sent; a block where one changes sends
   the SNR offsets and all gains again. *)
fgaincod(ch, b) == 4 - f.exp_strategy[ch][RunStart(f.exp_strategy[ch], b)]
write_snr(b) == b = 1 \/ \E ch \in Channels : New(ch, b) /\ fgaincod(ch, b) # fgaincod(ch, b - 1)

If(cond, n) == IF cond THEN n ELSE 0

(* Mutant: the flag for a second dynamic range word is not counted. *)
CountNoDynrng2(b) ==
    2 * n_channels + 1 + If(set.dynrng, 8 + If(set.acmod = DualMono, 8)) + 1 + If(b = 1, 1)
    + If(set.acmod = Stereo, 1 + If(b = 1, 4)) + 2 * n_channels + set.lfe
    + Sum(LAMBDA ch : If(New(ch, b), 6 + 2), n_channels)
    + 1 + If(b = 1, 2 + 2 + 2 + 2 + 3) + 1 + If(write_snr(b), 6 + 7 * (n_channels + set.lfe)) + 2

BlockBits(b) ==
    2 * n_channels                                            \* blksw, dithflg
    + 1 + If(set.acmod = DualMono, 1)                         \* dynrnge, dynrng2e
    + If(set.dynrng, 8 + If(set.acmod = DualMono, 8))
    + 1 + If(b = 1, 1)                                        \* cplstre, cplinu
    + If(set.acmod = Stereo, 1 + If(b = 1, 4))                \* rematstr, rematflg
    + 2 * n_channels + set.lfe                                \* chexpstr, lfeexpstr
    + Sum(LAMBDA ch : If(New(ch, b), 6 + 2), n_channels)      \* chbwcod, gainrng
    + 1 + If(b = 1, 2 + 2 + 2 + 2 + 3)                        \* baie
    + 1 + If(write_snr(b), 6 + 7 * (n_channels + set.lfe))    \* snr
    + 2                                                       \* delta, skip

(* All but mantissas and exponents: header, blocks, auxdatae and crcrsv, CRC. *)
count_frame_bits ==
    65 + <<8, 0, 2, 2, 2, 4, 2, 4>>[set.acmod + 1] + 14 * set.xbsi1e + 14 * set.xbsi2e
    + Sum(BlockBits, NumBlocks) + 2 + 16

start_bit_allocation ==
    /\ Step("start", "allocate")
    /\ f' = [f EXCEPT
         !.frame_bits = count_frame_bits,
         !.mask = [ch \in Channels |-> [b \in Blocks |->
             IF ~New(ch, b) THEN <<>>
             ELSE a52_bit_allocation_prepare(bit_alloc, f.exp[ch][b], ncoefs(ch),
                                             a52_fast_gain_tab[fgaincod(ch, b) + 1])]]]

(* Mutant: pointers are copied from the first block of the frame. *)
BitAllocOfFirstBlock(offset) ==
    /\ Step("allocate", "count")
    /\ LET new(ch) == a52_bit_alloc_calc_bap(f.mask[ch][1].mask, f.mask[ch][1].psd, ncoefs(ch),
                                             offset * 4 - 960, bit_alloc.floor)
       IN  f' = [f EXCEPT !.snroffst = offset, !.bap = [ch \in Channels |-> [b \in Blocks |-> new(ch)]]]

(* bit_alloc at an offset: a block that reuses exponents reuses the pointers. *)
BitAlloc(offset) ==
    /\ Step("allocate", "count")
    /\ LET new(ch, b) == a52_bit_alloc_calc_bap(f.mask[ch][b].mask, f.mask[ch][b].psd, ncoefs(ch),
                                                offset * 4 - 960, bit_alloc.floor)
       IN  f' = [f EXCEPT !.snroffst = offset,
                          !.bap = [ch \in Channels |-> [b \in Blocks |->
                                     new(ch, RunStart(f.exp_strategy[ch], b))]]]

BlockBaps(b) == FlattenSeq([ch \in Channels |-> f.bap[ch][b]])

(* The offset is accepted for a frame that has at least the bits predicted. *)
AcceptSize ==
    /\ Step("count", "quantize")
    /\ \E slack \in Slack :
         LET mant_bits == Sum(LAMBDA b : compute_mantissa_size(BlockBaps(b)), NumBlocks)
             words == (f.frame_bits + f.exp_bits + mant_bits + 15) \div 16 + slack
         IN  /\ 2 * words <= MaxCodedFrameSize
             /\ f' = [f EXCEPT !.mant_bits = mant_bits, !.frame_size = words]

Mantissa(b) ==
    FlattenSeq([ch \in Channels |-> [i \in 1 .. ncoefs(ch) |->
        [c |-> f.coef[ch][b][i], e |-> f.exp[ch][b][i], b |-> f.bap[ch][b][i]]]])

Quantize ==
    /\ Step("quantize", "header")
    /\ f' = [f EXCEPT !.qmant = [b \in Blocks |-> quantize_mantissas(Mantissa(b))]]
-----------------------------------------------------------------------------
(* A field is <<number of bits, value>>. *)
When(cond, fields) == IF cond THEN fields ELSE <<>>
Each(n, field(_)) == [ch \in 1 .. n |-> field(ch)]
EachOf(n, fields(_)) == FlattenSeq([ch \in 1 .. n |-> fields(ch)])

(* The frame size code counts the word that pacing added; its value and the levels
   of the mix are constants of a setting and do not matter here. *)
HeaderFields ==
    <<<<16, 2935>>, <<16, 0>>, <<2, set.fscod>>, <<6, 36>>, <<5, bsid>>, <<3, 0>>, <<3, set.acmod>>>>
    \o When(set.acmod % 2 = 1 /\ set.acmod # 1, <<<<2, 0>>>>)
    \o When((set.acmod \div 4) % 2 = 1, <<<<2, 0>>>>)
    \o When(set.acmod = Stereo, <<<<2, 0>>>>)
    \o <<<<1, set.lfe>>, <<5, 31>>, <<1, 0>>, <<1, 0>>, <<1, 0>>>>
    \o When(set.acmod = DualMono, <<<<5, 31>>, <<1, 0>>, <<1, 0>>, <<1, 0>>>>)
    \o <<<<1, 0>>, <<1, 1>>>>
    \o When(bsid = 6, <<<<1, set.xbsi1e>>>>)
    \o When(bsid = 6 /\ set.xbsi1e = 1, <<<<2, 0>>, <<3, 4>>, <<3, 4>>, <<3, 4>>, <<3, 4>>>>)
    \o When(bsid = 6, <<<<1, set.xbsi2e>>>>)
    \o When(bsid = 6 /\ set.xbsi2e = 1, <<<<2, 0>>, <<2, 0>>, <<1, 0>>, <<9, 0>>>>)
    \o When(bsid # 6, <<<<1, 0>>, <<1, 0>>>>)
    \o <<<<1, 0>>>>

blksw(ch, b) == Blksw(input, b, ch)

(* compute_dither_strategy: no dither in a short block nor after one. *)
dithflag(ch, b) == IF blksw(ch, b) = 1 \/ (b > 1 /\ blksw(ch, b - 1) = 1) THEN 0 ELSE 1

DynrngFields ==
    LET once == IF set.dynrng THEN <<<<1, 1>>, <<8, 85>>>> ELSE <<<<1, 0>>>>
    IN  once \o When(set.acmod = DualMono, once)

ExponentFields(b) ==
    EachOf(n_channels + set.lfe, LAMBDA ch :
        When(New(ch, b),
             [i \in 1 .. Len(f.grp_exp[ch][b]) |-> <<IF i = 1 THEN 4 ELSE 7, f.grp_exp[ch][b][i]>>]
             \o When(~IsLfe(ch), <<<<2, 0>>>>)))

MantissaFields(b) ==
    LET baps == BlockBaps(b)
    IN  [i \in 1 .. Len(baps) |-> MantissaField(baps[i], f.qmant[b][i])]

BlockFields(b) ==
    Each(n_channels, LAMBDA ch : <<1, blksw(ch, b)>>)
    \o Each(n_channels, LAMBDA ch : <<1, dithflag(ch, b)>>)
    \o DynrngFields
    \o (IF b = 1 THEN <<<<1, 1>>, <<1, 0>>>> ELSE <<<<1, 0>>>>)
    \o When(set.acmod = Stereo,
            (IF b = 1 THEN <<<<1, 1>>>> \o [i \in 1 .. 4 |-> <<1, f.rematflg[i]>>] ELSE <<<<1, 0>>>>))
    \o Each(n_channels, LAMBDA ch : <<2, f.exp_strategy[ch][b]>>)
    \o When(set.lfe = 1, <<<<1, f.exp_strategy[n_channels + 1][b]>>>>)
    \o EachOf(n_channels, LAMBDA ch : When(New(ch, b), <<<<6, set.bwcode>>>>))
    \o ExponentFields(b)
    \o (IF b = 1 THEN <<<<1, 1>>, <<2, 2>>, <<2, 1>>, <<2, 1>>, <<2, 2>>, <<3, 7>>>> ELSE <<<<1, 0>>>>)
    \o (IF write_snr(b)
        THEN <<<<1, 1>>, <<6, f.snroffst \div 16>>>>
             \o EachOf(n_channels + set.lfe, LAMBDA ch : <<<<4, f.snroffst % 16>>, <<3, fgaincod(ch, b)>>>>)
        ELSE <<<<1, 0>>>>)
    \o <<<<1, 0>>, <<1, 0>>>>
    \o MantissaFields(b)

RECURSIVE Written(_, _)
Written(w, fields) ==
    IF w.next > Len(fields) THEN w.bw
    ELSE Written([bw |-> bitwriter_writebits(w.bw, fields[w.next][1], fields[w.next][2]),
                  next |-> w.next + 1], fields)
WriteFields(bw, fields) == Written([bw |-> bw, next |-> 1], fields)

output_frame_header ==
    /\ Step("header", "blocks")
    /\ f' = [f EXCEPT !.bw = WriteFields(bitwriter_init(MaxCodedFrameSize), HeaderFields)]

output_audio_block ==
    /\ phase = "blocks"
    /\ f' = [f EXCEPT !.bw = WriteFields(@, BlockFields(blk))]
    /\ blk' = blk + 1 /\ UNCHANGED <<set, input>>
    /\ phase' = IF blk = NumBlocks THEN "end" ELSE "blocks"

(* Mutant: the first checksum covers one word too many. *)
FiveEighthsRounded(fs) == (fs * 5 + 7) \div 8

FiveEighths(fs) == fs \div 2 + fs \div 8

output_frame_end ==
    /\ phase = "end" /\ UNCHANGED <<set, input, blk>>
    /\ LET flushed == bitwriter_flushbits(f.bw)
           fs == f.frame_size
           n == 2 * fs - 2 - bitwriter_bitcount(flushed) \div 8
           body == flushed.buf \o [i \in 1 .. n |-> 0]
           fs58 == FiveEighths(fs)
           crc1 == crc16_zero(calc_crc16(SubSeq(body, 5, 2 * fs58)), 2 * fs58 - 2)
           crc2 == calc_crc16(SubSeq(body, 2 * fs58 + 1, 2 * fs - 2))
       IN  IF n < 0 THEN phase' = "too long" /\ UNCHANGED f
           ELSE /\ phase' = "done"
                /\ f' = [f EXCEPT !.bytes =
                           SubSeq(body, 1, 2) \o <<crc1 \div 256, crc1 % 256>>
                           \o SubSeq(body, 5, 2 * fs - 2) \o <<crc2 \div 256, crc2 % 256>>]

(* The frame has been handed over. *)
Finished == phase \in {"done", "too long"} /\ UNCHANGED vars

Next ==
    \/ calc_rematrixing \/ ExtractExponents \/ compute_exponent_strategy \/ EncodeExponents
    \/ GroupExponents \/ start_bit_allocation \/ (\E o \in Offsets : BitAlloc(o)) \/ AcceptSize
    \/ Quantize \/ output_frame_header \/ output_audio_block \/ output_frame_end \/ Finished

Spec == Init /\ [][Next]_vars
-----------------------------------------------------------------------------
(* What a decoder knows of a block: the exponents in the groups last sent. *)
DecodedExponents(grp, str) ==
    LET delta(m) == LET code == grp[(m - 1) \div 3 + 2]
                    IN  ((code \div 5^(2 - ((m - 1) % 3))) % 5) - 2
        sent[m \in 0 .. 3 * (Len(grp) - 1)] == IF m = 0 THEN grp[1] ELSE sent[m - 1] + delta(m)
    IN  [i \in 1 .. 1 + 3 * (Len(grp) - 1) * GroupSize(str) |->
            sent[(i - 2 + GroupSize(str)) \div GroupSize(str)]]

(* A frame of accepted size is never too short for its bits, and the bits written are
   the bits count_frame_bits, group_exponents and
   compute_mantissa_size predicted, less auxdatae, crcrsv and crc2, and less the
   extra information that is counted but not sent at half and quarter rates. *)
BitsAsPredicted ==
    /\ phase # "too long"
    /\ phase = "end" =>
         bitwriter_bitcount(f.bw) + 18 + If(bsid # 6, 14 * (set.xbsi1e + set.xbsi2e))
           = f.frame_bits + f.exp_bits + f.mant_bits

(* The frame is as long as announced and holds, bit for bit, the fields in the
   order output_frame_header and output_audio_blocks wrote them, then zeros. *)
FrameReadsBack ==
    phase = "done" =>
        LET fields == HeaderFields \o FlattenSeq([b \in Blocks |-> BlockFields(b)])
            from[a \in Nat, b \in Nat] ==
                IF a = b THEN BitsOf(fields[a][1], fields[a][2])
                ELSE from[a, (a + b) \div 2] \o from[(a + b) \div 2 + 1, b]
            bits == from[1, Len(fields)]
            read(i) == (f.bytes[(i - 1) \div 8 + 1] \div 2^(7 - ((i - 1) % 8))) % 2
        IN  /\ Len(f.bytes) = 2 * f.frame_size
            /\ \A i \in (1 .. 8 * Len(f.bytes) - 16) \ (17 .. 32) :
                  read(i) = IF i <= Len(bits) THEN bits[i] ELSE 0

(* A decoder that checks the first five eighths (as A/52 rounds them) and then the
   whole frame finds both checksums zero. *)
ChecksumsHold ==
    phase = "done" =>
        LET fs == f.frame_size
        IN  /\ calc_crc16(SubSeq(f.bytes, 3, 2 * (fs \div 2 + fs \div 8))) = 0
            /\ calc_crc16(SubSeq(f.bytes, 3, 2 * fs)) = 0

(* The MMX and SSE2 versions give what the C functions give, for whole vectors, the
   rest behind them and every group size; aften_encode_init chooses between them by
   the processor, so a difference would make frames depend on it. *)
VectorsAgree ==
    phase = "encode" =>
        \A ch \in Channels, b \in {1, NumBlocks} :
            LET exp == f.exp[ch][b]
                other == f.exp[ch][3]
                n == ncoefs(ch)
                min == exponent_min(exp, exp, other, n)
                error == exponent_sum_square_error(exp, other, n)
            IN  /\ \A str \in {EXP_D15, EXP_D25, EXP_D45} :
                      LET encoded == encode_exp_blk_ch(exp, n, str)
                      IN  /\ encode_exp_blk_ch_mmx(exp, n, str) = encoded
                          /\ encode_exp_blk_ch_sse2(exp, n, str) = encoded
                /\ exponent_min_mmx(exp, exp, other, n) = min
                /\ exponent_min_sse2(exp, exp, other, n) = min
                /\ exponent_sum_square_error_mmx(exp, other, n) = error
                /\ exponent_sum_square_error_sse2(exp, other, n) = error

(* Every block's exponents, the reused ones included, are the ones a decoder gets
   from the groups last sent for the channel; a group fits in its 7 bits and the
   first exponent in its 4. *)
ExponentsDecode ==
    phase = "start" =>
        \A ch \in Channels, b \in Blocks :
            LET first == RunStart(f.exp_strategy[ch], b)
                grp == f.grp_exp[ch][first]
                decoded == DecodedExponents(grp, f.exp_strategy[ch][first])
            IN  /\ grp[1] \in 0 .. 15
                /\ \A i \in 2 .. Len(grp) : grp[i] \in 0 .. 124
                /\ \A i \in 1 .. ncoefs(ch) : f.exp[ch][b][i] = decoded[i]

(* The bit allocation pointers are the ones the routine gives for the exponents and
   the gain a decoder has in that very block, though the encoder copies them. *)
PointersDecode ==
    phase = "count" =>
        \A ch \in Channels, b \in Blocks :
            LET p == a52_bit_allocation_prepare(bit_alloc, f.exp[ch][b], ncoefs(ch),
                         a52_fast_gain_tab[4 - f.exp_strategy[ch][RunStart(f.exp_strategy[ch], b)] + 1])
            IN  f.bap[ch][b] = a52_bit_alloc_calc_bap(p.mask, p.psd, ncoefs(ch),
                                                      f.snroffst * 4 - 960, bit_alloc.floor)

(* Mantissa codes: each group code is below its limit (so never the mark 128), and
   its digits, in order, are the levels of its members; the others are in range. *)
MantissasDecode ==
    phase = "header" =>
        \A b \in Blocks :
            LET xs == Mantissa(b)
                q == f.qmant[b]
                of(k) == SelectSeq([i \in 1 .. Len(xs) |-> i], LAMBDA i : Kind(xs[i].b) = k)
                codes(k) == SelectSeq(of(k), LAMBDA i : q[i] # Merge)
                level(k, m) ==
                    (q[codes(k)[(m - 1) \div GroupLength[k] + 1]]
                       \div Weights[k][((m - 1) % GroupLength[k]) + 1]) % (<<3, 5, 11>>[k])
            IN  /\ \A k \in 1 .. 3 :
                      /\ Len(codes(k)) = (Len(of(k)) + GroupLength[k] - 1) \div GroupLength[k]
                      /\ \A m \in 1 .. Len(codes(k)) : q[codes(k)[m]] < <<27, 125, 121>>[k]
                      /\ \A m \in 1 .. Len(of(k)) : level(k, m) = Quantized(xs[of(k)[m]])
                /\ \A i \in 1 .. Len(xs) :
                      xs[i].b \in {3, 5} => q[i] \in 0 .. Levels(xs[i].b) - 1

(* The set of strategies chosen for a channel has the least error of the sets
   searched, each encoded as encode_exponents would encode it. *)
StrategyIsBest ==
    phase = "encode" =>
        \A ch \in Fbw :
            LET error(strs) == LET enc == encode_exponents(f.exp[ch], ncoefs(ch), strs)
                               IN  SetError(f.exp[ch], ncoefs(ch), strs, enc)
            IN  \A s \in 1 .. set.expstr_search :
                    error(f.exp_strategy[ch])
                      <= error(a52_expstr_set_tab[expstr_set_search_order_tab[s] + 1])
=============================================================================
