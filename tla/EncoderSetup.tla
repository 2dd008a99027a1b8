---------------------------- MODULE EncoderSetup ----------------------------
(* main() of aften/aften.c up to its encoding loop: the command line argument by
   argument, the input files, the channel layout, the encoder.  What the files hold,
   whether they can be opened and the processor are the environment. *)
EXTENDS CommandLine, ChannelLayout

CONSTANTS Args,         \* sets of arguments: a command line is made of those in one
          MaxOptions,   \* how many of them may be options
          MaxFiles,     \* how many may name the file of a channel
          Streams,      \* what a file may hold
          Cpus,         \* processors, and what the build was compiled for
          Ncpus,        \* what get_ncpus may return
          Initial,      \* the samples of -pad 0 (256)
          SizeOfFloat   \* the bytes of a FLOAT

ASSUME SetupAssumption ==
    /\ \A a \in UNION Args : a.opt \in DOMAIN options_list \cup {"file", "ch", "chconfig", "nosimd", "raw_fmt", "help", "?"}
    /\ Streams \subseteq [channels : Nat \ {0}, ch_mask : SUBSET (0 .. 31), sample_rate : Nat]
    /\ MaxOptions \in Nat /\ MaxFiles \in Nat
    /\ Ncpus \subseteq Nat \ {0}
    /\ Initial \in Nat /\ SizeOfFloat \in Nat \ {0}

VARIABLES stage,     \* where main is
          cpu,
          c,         \* the command line as far as it is parsed: opts, priv, s, ret
          words,     \* the arguments there are to choose from
          given,     \* the arguments seen so far
          pf,        \* the PcmContext, as far as main looks at it
          asked,     \* the acmod of the command line, which main overwrites; for the properties
          initial,   \* how many samples -pad 0 read, and initial_samples
          ctx,       \* the A52Context
          handed     \* the speakers of the channels aften_encode_frame is given

inputVars == <<pf, asked, initial>>
vars == <<stage, cpu, words, c, given, inputVars, ctx, handed>>

Nowhere == [channels |-> 0, ch_mask |-> {}, sample_rate |-> 0]

Init ==
    /\ stage = "args"
    /\ cpu \in Cpus
    /\ words \in Args
    /\ c = [ret |-> 0, opts |-> opts_init, priv |-> priv_init, s |-> aften_set_defaults(cpu)]
    /\ given = {}
    /\ pf = Nowhere
    /\ asked = -1
    /\ initial = [nr |-> 0, smp |-> <<>>]
    /\ ctx = Fail("not yet")
    /\ handed = <<>>

IsFile(a) == a.opt \in {"file", "ch"}

ParseArg(a) ==
    /\ stage = "args" /\ c.ret = 0
    /\ IsFile(a) \/ Cardinality({b \in given : ~IsFile(b)}) < MaxOptions
    /\ a.opt = "ch" => c.opts.num_input_files < MaxFiles
    /\ c' = parse(c, a)
    /\ given' = given \cup {a}
    /\ UNCHANGED <<stage, cpu, words, inputVars, ctx, handed>>

(* The end of the command line, or of parsing it. *)
EndOfArgs ==
    /\ stage = "args"
    /\ LET done == IF c.ret = 0 THEN finish(c) ELSE c
       IN  /\ c' = done
           /\ stage' = CASE done.ret = 0 -> "open" [] done.ret = 1 -> "usage"
                        [] done.ret = Crashed -> "crashed" [] OTHER -> "help"
    /\ UNCHANGED <<cpu, words, given, inputVars, ctx, handed>>

(* The mask pcm_get_default_ch_mask gives a number of channels. *)
DefaultMask(channels) ==
    IF channels \notin 1 .. 6 THEN {}
    ELSE <<{2}, {0, 1}, {0, 1, 8}, {0, 1, 2, 8}, {0, 1, 2, 4, 5}, {0, 1, 2, 3, 4, 5}>>[channels]

(* fopen, pcm_init and pcm_set_source_params, which refuses the parameters of several
   files that are not mono but does not say so to main. *)
OpenInput(st) ==
    /\ stage = "open"
    /\ LET n == c.opts.num_input_files
           raw == [channels |-> 1, ch_mask |-> {2}, sample_rate |-> 48000]
           file == IF c.opts.raw_input THEN raw ELSE st
           all == IF n = 1 THEN file ELSE [file EXCEPT !.channels = n, !.ch_mask = DefaultMask(n)]
           kept == n > 1 /\ c.opts.raw_ch # 1
       IN  /\ n > 1 => file.channels = 1
           /\ pf' = IF ~c.opts.raw_input \/ kept THEN all
                    ELSE IF n > 1 THEN [all EXCEPT !.sample_rate = c.opts.raw_sr]
                    ELSE [channels |-> c.opts.raw_ch, ch_mask |-> DefaultMask(c.opts.raw_ch),
                          sample_rate |-> c.opts.raw_sr]
    /\ stage' = "layout"
    /\ UNCHANGED <<cpu, words, c, given, asked, initial, ctx, handed>>

InputFails ==
    /\ stage = "open"
    /\ stage' = "failed"
    /\ UNCHANGED <<cpu, words, c, given, inputVars, ctx, handed>>

-----------------------------------------------------------------------------
(* Mutant: an lfe that was given is not compared with the channels. *)
LfeTrusted(acmod, lfe, channels) ==
    LET rest == channels - a52_channels_tab[acmod + 1]
    IN  IF rest \notin 0 .. 1 THEN -1 ELSE IF lfe >= 0 THEN lfe ELSE rest

(* The lfe of an acmod that was given; -1 if they do not go with the channels. *)
LfeOf(acmod, lfe, channels) ==
    LET rest == channels - a52_channels_tab[acmod + 1]
    IN  IF rest \in 0 .. 1 /\ lfe \in {-1, rest} THEN rest ELSE -1

(* acmod and lfe where the user left them open. *)
LayoutFromFile ==
    LET mask == IF c.s.lfe = 1 THEN pf.ch_mask \cup {LFE} ELSE pf.ch_mask
    IN  IF (c.s.lfe = 0 /\ pf.channels = 6) \/ (c.s.lfe = 1 /\ pf.channels = 1) THEN Refused
        ELSE aften_wav_channels_to_acmod(pf.channels, mask)

ChooseLayout ==
    /\ stage = "layout"
    /\ LET lfe == LfeOf(c.s.acmod, c.s.lfe, pf.channels)
           layout == IF c.s.acmod < 0 THEN LayoutFromFile
                     ELSE [ret |-> IF lfe < 0 THEN -1 ELSE 0, acmod |-> c.s.acmod, lfe |-> lfe]
       IN  IF layout.ret # 0 THEN stage' = "failed" /\ UNCHANGED c
           ELSE /\ stage' = "output"
                /\ c' = [c EXCEPT !.s.acmod = layout.acmod, !.s.lfe = layout.lfe,
                                  !.s.channels = pf.channels, !.s.samplerate = pf.sample_rate]
    /\ pf' = [pf EXCEPT !.ch_mask = IF c.s.acmod < 0 /\ c.s.lfe = 1 THEN @ \cup {LFE} ELSE @]
    /\ asked' = c.s.acmod
    /\ UNCHANGED <<cpu, words, given, initial, ctx, handed>>

OutputFails ==
    /\ stage = "output"
    /\ stage' = "failed"
    /\ UNCHANGED <<cpu, words, c, given, inputVars, ctx, handed>>

-----------------------------------------------------------------------------
(* The speakers behind the channels of the input, for the properties: bits of the WAVE
   mask, the speakers of chstrs where each has its file, and those of MPEG streams. *)
Ascending(bits) == SetToSortSeq(bits, <)

(* The WAVE mask that stands for an acmod; dual mono goes as stereo. *)
LayoutMask(acmod, lfe) ==
    <<{0, 1}, {2}, {0, 1}, {0, 1, 2}, {0, 1, 8}, {0, 1, 2, 8}, {0, 1, 4, 5}, {0, 1, 2, 4, 5}>>[acmod + 1]
    \cup (IF lfe = 1 THEN {LFE} ELSE {})

(* The order of the channels in an A/52 frame. *)
A52Order(acmod, lfe) ==
    << <<0, 1>>, <<2>>, <<0, 1>>, <<0, 2, 1>>, <<0, 1, 8>>, <<0, 2, 1, 8>>, <<0, 1, 4, 5>>, <<0, 2, 1, 4, 5>> >>[acmod + 1]
    \o (IF lfe = 1 THEN <<LFE>> ELSE <<>>)

(* MPEG streams start with the centre. *)
MpegOrder(acmod, lfe) ==
    LET layout == LayoutMask(acmod, lfe)
        centre == IF 2 \in layout THEN <<2>> ELSE <<>>
    IN  centre \o SelectSeq(A52Order(acmod, lfe), LAMBDA x : x # 2)

(* Side speakers serve as back speakers. *)
AsBack(order) == [k \in DOMAIN order |-> IF order[k] \in {9, 10} THEN order[k] - 5 ELSE order[k]]

(* The option that gave the file names its speaker. *)
SpeakerOfFile(file) ==
    LET a == CHOOSE a \in given : a.opt = "ch" /\ a.val.file = file
    IN  [fl |-> 0, fc |-> 2, fr |-> 1, sl |-> 4, s |-> 8, sr |-> 5, m1 |-> 0, m2 |-> 1, lfe |-> LFE][a.val.ch]

(* The speakers that the file's mask names, which main goes by if the user gave no acmod.
   A mask without bits names none. *)
Named == pf.ch_mask \ {31}
Unknown == asked < 0 /\ Named # {} /\ LayoutOf(Named \ {LFE}) < 0

InputOrder ==
    LET acmod == c.s.acmod
        lfe == c.s.lfe
        named == Cardinality(Named) = pf.channels /\ LayoutOf(Named \ {LFE}) = acmod
    IN  CASE c.priv.multi_input -> [k \in 1 .. c.opts.num_input_files |-> SpeakerOfFile(c.opts.infile[k - 1])]
          [] ~c.priv.multi_input /\ Unknown -> Ascending(Named)
          [] ~c.priv.multi_input /\ ~Unknown ->
                CASE c.opts.chmap = 1 -> A52Order(acmod, lfe)
                  [] c.opts.chmap = 2 -> MpegOrder(acmod, lfe)
                  [] OTHER -> IF named THEN AsBack(Ascending(Named)) ELSE Ascending(LayoutMask(acmod, lfe))

(* aften_remap, on one sample of every channel. *)
Remap(smp) ==
    CASE c.opts.chmap = 0 -> aften_remap_wav_to_a52(smp, c.s.acmod)
      [] c.opts.chmap = 2 -> aften_remap_mpeg_to_a52(smp, c.s.acmod)
      [] OTHER -> smp

-----------------------------------------------------------------------------
(* A value of the sample buffer: the speaker it is for and when, or nothing. *)
Silence == <<-1, 0>>
Torn == <<-2, 0>>

(* fwav after reading nr samples, calloc having cleared it. *)
Fresh(nr, ch) ==
    [i \in 1 .. Initial * ch |-> IF i <= nr * ch THEN <<InputOrder[((i - 1) % ch) + 1], (i - 1) \div ch>> ELSE Silence]

(* Fewer than there should be are moved to the end: nr bytes of them, not nr samples. *)
Moved(smp, nr, ch) ==
    LET gap == (Initial - nr) * ch
        floats == nr \div SizeOfFloat
    IN  [i \in DOMAIN smp |->
            CASE i <= gap -> Silence
              [] i > gap /\ i - gap <= floats -> smp[i - gap]
              [] i - gap = floats + 1 /\ nr % SizeOfFloat # 0 -> Torn
              [] OTHER -> smp[i]]

(* nr samples are put in order from the value diff on, not from the sample diff on. *)
Remapped(smp, nr, ch) ==
    LET diff == Initial - nr
        at(i) == (i - 1 - diff) \div ch
        group(g) == Remap([j \in 1 .. ch |-> smp[diff + g * ch + j]])
    IN  [i \in DOMAIN smp |-> IF i - diff \in 1 .. nr * ch THEN group(at(i))[((i - 1 - diff) % ch) + 1] ELSE smp[i]]

(* -pad 0: the first nr samples of the input, if it has Initial, are the encoder's start. *)
ReadInitial(nr) ==
    /\ stage = "output" /\ c.opts.pad = 0
    /\ LET ch == c.s.channels
           smp == IF nr < Initial THEN Moved(Fresh(nr, ch), nr, ch) ELSE Fresh(nr, ch)
       IN  initial' = [nr |-> nr, smp |-> Remapped(smp, nr, ch)]
    /\ stage' = "init"
    /\ UNCHANGED <<cpu, words, c, given, pf, asked, ctx, handed>>

InitEncoder ==
    /\ stage = "init" \/ (stage = "output" /\ c.opts.pad = 1)
    /\ \E n \in Ncpus : ctx' = aften_encode_init(c.s, cpu, n)
    /\ stage' = IF ctx'.why = "none" THEN "encode" ELSE "failed"
    /\ c' = IF ctx'.why = "none" THEN [c EXCEPT !.s.threads = ctx'.n_threads] ELSE c
    /\ UNCHANGED <<cpu, words, given, inputVars, handed>>

(* The first block of the loop goes through aften_remap to aften_encode_frame. *)
HandOver ==
    /\ stage = "encode" /\ handed = <<>>
    /\ handed' = Remap(InputOrder)
    /\ UNCHANGED <<stage, cpu, words, c, given, inputVars, ctx>>

Next ==
    \/ \E a \in words : ParseArg(a)
    \/ EndOfArgs
    \/ \E st \in Streams : OpenInput(st)
    \/ InputFails
    \/ ChooseLayout
    \/ OutputFails
    \/ \E nr \in 0 .. Initial : ReadInitial(nr)
    \/ InitEncoder
    \/ HandOver

Spec == Init /\ [][Next]_vars

-----------------------------------------------------------------------------
(* The one case where main goes by a mask that names the LFE speaker among others that
   A/52 has no layout for, on fewer than six channels: aften_wav_channels_to_acmod takes
   the acmod of all the channels, the LFE among them, and sets lfe besides. *)
LfeCountedTwice ==
    Unknown /\ LFE \in Named /\ pf.channels < A52_MAX_CHANNELS

(* In every other case the encoder has the channels its acmod and lfe stand for, from
   the option, from a mask A/52 has a layout for, from one it has none for, or from no
   mask: the bit stream tells the decoder of no others (main, aften_wav_channels_to_acmod,
   aften_encode_init, which does not compare them). *)
ChannelsAgree ==
    stage = "encode" /\ ~LfeCountedTwice =>
        ctx.n_all_channels = a52_channels_tab[ctx.acmod + 1] + ctx.lfe

(* Where the speakers are known, each channel the encoder is handed is the one A/52 puts
   there, from a WAVE file in WAVE order, an MPEG decoder's output, or one file per
   speaker in any order of the options; and so is each of the samples -pad 0 starts the
   encoder with, if the input has that many (validate_input_files, main,
   aften_remap_wav_to_a52, aften_remap_mpeg_to_a52). *)
SpeakersInOrder ==
    stage = "encode" /\ ~Unknown =>
        LET order == A52Order(ctx.acmod, ctx.lfe)
            ch == ctx.n_all_channels
        IN  /\ handed # <<>> => handed = order
            /\ initial.nr = Initial =>
                   \A t \in 0 .. Initial - 1, k \in 1 .. ch : initial.smp[t * ch + k] = <<order[k], t>>

(* No accepted setting makes a filter's cutoff too high for the sample rate, so that
   init fails, and the coded bandwidth is one the format has: at most 60, even for a low
   quality, a low rate or limits that cross (aften_encode_init). *)
FiltersFit ==
    /\ ctx.why # "filter"
    /\ stage = "encode" => /\ ctx.bwcode \in 0 .. 60
                           /\ \A f \in DOMAIN ctx.filters : 2 * ctx.filters[f] <= c.s.samplerate

(* The code the encoder runs is compiled in, the processor has its instructions, and the
   user did not rule it out (cpu_caps_detect, apply_simd_restrictions, parse_nosimd). *)
SimdAvailable ==
    stage = "encode" =>
        \A k \in ctx.code \ {"C"} :
            /\ k \in cpu.detect /\ k \in cpu.compile
            /\ \A a \in given : a.opt = "nosimd" => k \notin a.val
=============================================================================
