------------------------ MODULE EncoderSetup_proofs ------------------------
(* What is proved of the way from the command line to the encoder, for every command
   line, however long, every input file, every processor and every build. *)
EXTENDS EncoderSetup, FiniteSetTheorems, WellFoundedInduction, TLAPS

(* The settings the proofs look at. *)
Looked == {"acmod", "lfe", "channels", "samplerate", "wanted_simd_instructions", "threads",
           "w", "wmin", "wmax", "q", "encoding_mode"}

Shape(x) == DOMAIN x = {"ret", "opts", "priv", "s"} /\ Looked \subseteq DOMAIN x.s

(* The ranges the parser leaves them in. *)
Ranges(x) ==
    /\ x.s.w \in -2 .. 60 /\ x.s.wmin \in 0 .. 60 /\ x.s.wmax \in 0 .. 60
    /\ x.s.q \in 0 .. 1023 /\ x.s.encoding_mode \in {"CBR", "VBR"}

(* Nothing the user ruled out is still wanted. *)
NotRuledOut(x, args) ==
    \A a \in args : a.opt = "nosimd" => x.s.wanted_simd_instructions \cap a.val = {}

(* acmod and lfe stand for the channels; six without LFE are refused later. *)
Agree(s) ==
    s.channels \in 1 .. 6 /\ s.acmod \in 0 .. 7 /\ ~(s.channels = 6 /\ s.lfe = 0) =>
        s.channels = a52_channels_tab[s.acmod + 1] + s.lfe

(* They stand for one channel more. *)
OneOver(s) ==
    s.channels \in 1 .. 6 /\ s.acmod \in 0 .. 7 =>
        s.channels + 1 = a52_channels_tab[s.acmod + 1] + s.lfe

(* A mask whose LFE is counted among the channels of the acmod. *)
Twice(mask, ch) ==
    /\ mask \ {31} # {} /\ LayoutOf((mask \ {31}) \ {LFE}) < 0
    /\ LFE \in mask \ {31} /\ ch < A52_MAX_CHANNELS

(* Where the LFE is counted twice, acmod and lfe tell the decoder of one channel more than
   the encoder has (aften_wav_channels_to_acmod). *)
OneChannelTooMany ==
    stage = "encode" /\ LfeCountedTwice =>
        ctx.n_all_channels + 1 = a52_channels_tab[ctx.acmod + 1] + ctx.lfe

SettingsInv ==
    /\ words \in Args
    /\ Shape(c) /\ Ranges(c) /\ NotRuledOut(c, given)
    /\ stage \in {"output", "init"} => c.s.lfe \in {0, 1}
    /\ FiltersFit
    /\ SimdAvailable

LayoutInv ==
    /\ stage = "layout" => DOMAIN pf = {"channels", "ch_mask", "sample_rate"}
    /\ stage \in {"output", "init"} => IF LfeCountedTwice THEN OneOver(c.s) ELSE Agree(c.s)
    /\ ChannelsAgree
    /\ OneChannelTooMany

-----------------------------------------------------------------------------
(* Parsing. *)

(* The table of options has none of the settings that main makes itself. *)
LEMMA OptionFacts ==
    /\ options_list.w = -2 .. 60 /\ options_list.wmin = 0 .. 60 /\ options_list.wmax = 0 .. 60
    /\ options_list.q = 0 .. 1023
    /\ "encoding_mode" \notin DOMAIN options_list
    /\ "wanted_simd_instructions" \notin DOMAIN options_list
  BY DEF options_list

(* A parser that goes on keeps the shape, the ranges and the instruction sets wanted. *)
Keeps(x, y) ==
    Shape(y) /\ Ranges(y) /\ y.s.wanted_simd_instructions = x.s.wanted_simd_instructions

(* The settings that Keeps looks at are the same. *)
SameSettings(x, y) ==
    /\ DOMAIN y = DOMAIN x /\ DOMAIN y.s = DOMAIN x.s
    /\ \A n \in {"w", "wmin", "wmax", "q", "encoding_mode", "wanted_simd_instructions"} : y.s[n] = x.s[n]

LEMMA SameKept ==
    ASSUME NEW x, Shape(x), Ranges(x), NEW y, SameSettings(x, y)
    PROVE  Keeps(x, y)
<1>1. /\ y.s.w = x.s.w /\ y.s.wmin = x.s.wmin /\ y.s.wmax = x.s.wmax /\ y.s.q = x.s.q
      /\ y.s.encoding_mode = x.s.encoding_mode
      /\ y.s.wanted_simd_instructions = x.s.wanted_simd_instructions
  BY DEF SameSettings
<1>2. Shape(y)
  BY DEF SameSettings, Shape
<1> QED
  BY <1>1, <1>2 DEF Keeps, Ranges

(* parse_integer_value sets what the table names, in its range, or fails. *)
LEMMA IntegerKept ==
    ASSUME NEW x, Shape(x), Ranges(x), NEW name \in DOMAIN options_list, NEW val
    PROVE  Keeps(x, parse_integer_value(x, name, val))
<1>1. CASE val \notin options_list[name]
  BY <1>1 DEF parse_integer_value, Error, Keeps, Shape, Ranges
<1>2. CASE val \in options_list[name] /\ name \in DOMAIN x.s
  <2> DEFINE y == parse_integer_value(x, name, val)
  <2>1. y = [x EXCEPT !.s[name] = val]
    BY <1>2 DEF parse_integer_value
  <2>2. Shape(y) /\ y.s = [x.s EXCEPT ![name] = val]
    BY <2>1 DEF Shape
  <2> HIDE DEF y
  <2>3. \A n \in Looked : y.s[n] = IF n = name THEN val ELSE x.s[n]
    BY <2>2 DEF Shape
  <2>4. y.s.wanted_simd_instructions = x.s.wanted_simd_instructions
    BY <1>2, <2>3, OptionFacts DEF Looked
  <2>5. y.s.encoding_mode \in {"CBR", "VBR"}
    BY <1>2, <2>3, OptionFacts DEF Looked, Ranges
  <2>6. y.s.w \in -2 .. 60 /\ y.s.wmin \in 0 .. 60 /\ y.s.wmax \in 0 .. 60 /\ y.s.q \in 0 .. 1023
    <3>1. y.s.w \in -2 .. 60
      BY <1>2, <2>3, OptionFacts DEF Looked, Ranges
    <3>2. y.s.wmin \in 0 .. 60
      BY <1>2, <2>3, OptionFacts DEF Looked, Ranges
    <3>3. y.s.wmax \in 0 .. 60
      BY <1>2, <2>3, OptionFacts DEF Looked, Ranges
    <3>4. y.s.q \in 0 .. 1023
      BY <1>2, <2>3, OptionFacts DEF Looked, Ranges
    <3> QED
      BY <3>1, <3>2, <3>3, <3>4
  <2>7. Ranges(y)
    BY <2>5, <2>6, SMTT(30) DEF Ranges
  <2>8. Keeps(x, y)
    BY <2>2, <2>4, <2>7, Zenon DEF Keeps
  <2> QED
    BY <2>8 DEF y
<1>3. CASE val \in options_list[name] /\ name \notin DOMAIN x.s
  BY <1>3 DEF parse_integer_value, Keeps, Shape, Ranges
<1> QED
  BY <1>1, <1>2, <1>3

(* Whatever an option turns on besides. *)
LEMMA ImpliedKept ==
    ASSUME NEW x, Shape(x), Ranges(x), NEW name
    PROVE  Keeps(x, Implied(x, name))
<1>1. Implied(x, name) \in {[x EXCEPT !.s.xbsi1 = 1], [x EXCEPT !.s.xbsi2 = 1],
                            [x EXCEPT !.opts.raw_input = TRUE], x}
  BY DEF Implied
<1>2. ASSUME NEW y \in {[x EXCEPT !.s.xbsi1 = 1], [x EXCEPT !.s.xbsi2 = 1],
                        [x EXCEPT !.opts.raw_input = TRUE], x}
      PROVE  SameSettings(x, y)
  <2>1. DOMAIN y = DOMAIN x /\ y.s \in {[x.s EXCEPT !.xbsi1 = 1], [x.s EXCEPT !.xbsi2 = 1], x.s}
    BY <1>2 DEF Shape
  <2>2. DOMAIN y.s = DOMAIN x.s
    BY <2>1
  <2>3. ASSUME NEW n \in {"w", "wmin", "wmax", "q", "encoding_mode", "wanted_simd_instructions"}
        PROVE  y.s[n] = x.s[n]
    BY <2>1 DEF Shape, Looked
  <2> QED
    BY <2>1, <2>2, <2>3 DEF SameSettings
<1> QED
  BY <1>1, <1>2, SameKept

(* One argument: only nosimd changes the instruction sets wanted, and takes its own off. *)
LEMMA ParseKept ==
    ASSUME NEW x, Shape(x), Ranges(x), NEW a,
           a.opt \in DOMAIN options_list
                       \cup {"file", "ch", "chconfig", "nosimd", "raw_fmt", "help", "?"}
    PROVE  /\ Shape(parse(x, a)) /\ Ranges(parse(x, a))
           /\ parse(x, a).s.wanted_simd_instructions =
                IF a.opt = "nosimd" THEN x.s.wanted_simd_instructions \ a.val
                ELSE x.s.wanted_simd_instructions
<1> DEFINE y == parse(x, a)
<1>1. CASE a.opt = "nosimd"
  <2>1. y = [x EXCEPT !.s.wanted_simd_instructions = @ \ a.val]
    BY <1>1 DEF parse, parse_nosimd
  <2>2. /\ DOMAIN y = DOMAIN x
        /\ y.s = [x.s EXCEPT !.wanted_simd_instructions = x.s.wanted_simd_instructions \ a.val]
    BY <2>1 DEF Shape
  <2> HIDE DEF y
  <2>3. Shape(y)
    BY <2>2 DEF Shape
  <2>4. y.s.wanted_simd_instructions = x.s.wanted_simd_instructions \ a.val
    BY <2>2 DEF Shape, Looked
  <2>5. Ranges(y)
    BY <2>2 DEF Shape, Looked, Ranges
  <2> QED
    BY <1>1, <2>3, <2>4, <2>5 DEF y
<1> SUFFICES ASSUME a.opt # "nosimd" PROVE Keeps(x, y)
  BY <1>1 DEF Keeps
<1>2. Keeps(x, Error(x))
  BY DEF Error, Keeps, Shape, Ranges
<1>3. CASE a.opt = "file"
  <2>1. y = parse_file(x, a.val)
    BY <1>3 DEF parse
  <2> DEFINE found == [x EXCEPT !.priv.empty_params = @ + 1, !.opts.outfile = a.val]
  <2>2. DOMAIN found = DOMAIN x /\ found.s = x.s
    BY DEF Shape
  <2>3. y \in {Error(x), [found EXCEPT !.priv.found_output = TRUE],
               [found EXCEPT !.priv.single_input = TRUE, !.opts.infile[0] = x.opts.outfile,
                             !.opts.num_input_files = 1]}
    BY <2>1 DEF parse_file
  <2> HIDE DEF found
  <2>4. y # Error(x) => DOMAIN y = DOMAIN x /\ y.s = x.s
    BY <2>2, <2>3 DEF Shape
  <2>5. y # Error(x) => SameSettings(x, y)
    BY <2>4 DEF SameSettings
  <2> QED
    BY <1>2, <2>5, SameKept
<1>4. CASE a.opt = "ch"
  <2>1. y = parse_ch(x, a.val.ch, a.val.file)
    BY <1>4 DEF parse
  <2>2. y # Error(x) => DOMAIN y = DOMAIN x /\ y.s = x.s
    BY <2>1 DEF parse_ch, Shape
  <2>3. y # Error(x) => SameSettings(x, y)
    BY <2>2 DEF SameSettings
  <2> QED
    BY <1>2, <2>3, SameKept
<1>5. CASE a.opt = "chconfig"
  <2>1. y = parse_chconfig(x, a.val)
    BY <1>5 DEF parse
  <2> DEFINE cfg == a.val
             config == IF cfg.lfe THEN [x EXCEPT !.s.lfe = 1] ELSE x
  <2>2. DOMAIN config = DOMAIN x /\ config.s = IF cfg.lfe THEN [x.s EXCEPT !.lfe = 1] ELSE x.s
    BY DEF Shape
  <2>3. y \in {Error(x), [config EXCEPT !.s.acmod = 0], [config EXCEPT !.s.acmod = cfg.front + 2 * cfg.rear]}
    BY <2>1 DEF parse_chconfig
  <2> HIDE DEF config
  <2>4. y # Error(x) => \E v : y = [config EXCEPT !.s.acmod = v]
    BY <2>3
  <2>5. ASSUME NEW v, y = [config EXCEPT !.s.acmod = v] PROVE SameSettings(x, y)
    <3>1. DOMAIN y = DOMAIN x /\ y.s = [config.s EXCEPT !.acmod = v]
      BY <2>2, <2>5 DEF Shape
    <3>2. DOMAIN y.s = DOMAIN x.s
      BY <2>2, <3>1
    <3>3. ASSUME NEW n \in {"w", "wmin", "wmax", "q", "encoding_mode", "wanted_simd_instructions"}
          PROVE  y.s[n] = x.s[n]
      BY <2>2, <3>1, <3>3 DEF Shape, Looked
    <3> QED
      BY <3>1, <3>2, <3>3 DEF SameSettings
  <2> QED
    BY <1>2, <2>4, <2>5, SameKept
<1>6. CASE a.opt \in {"raw_fmt", "help", "?"}
  <2>1. y \in {parse_raw_fmt(x), parse_help(x, a.val), Error(x)}
    BY <1>6 DEF parse
  <2>2. y # Error(x) => DOMAIN y = DOMAIN x /\ y.s = x.s
    BY <2>1 DEF parse_raw_fmt, parse_help, Shape
  <2>3. y # Error(x) => SameSettings(x, y)
    BY <2>2 DEF SameSettings
  <2> QED
    BY <1>2, <2>3, SameKept
<1>7. CASE a.opt = "q"
  <2>1. PICK z : z = [x EXCEPT !.s.encoding_mode = "VBR"]
    OBVIOUS
  <2>2. y = parse_integer_value(z, "q", a.val)
    BY <1>7, <2>1 DEF parse, parse_q
  <2>3. Keeps(x, z)
    BY <2>1 DEF Keeps, Shape, Ranges, Looked
  <2>4. "q" \in DOMAIN options_list
    BY DEF options_list
  <2>5. Keeps(z, y)
    BY <2>2, <2>3, <2>4, IntegerKept DEF Keeps
  <2> QED
    BY <2>3, <2>5 DEF Keeps
<1>8. CASE /\ a.opt \in DOMAIN options_list
           /\ a.opt \notin {"file", "ch", "chconfig", "raw_fmt", "help", "?", "q"}
  <2>1. y = parse_integer_value(Implied(x, a.opt), a.opt, a.val)
    BY <1>8 DEF parse, parse_simple_int
  <2> QED
    BY <1>8, <2>1, ImpliedKept, IntegerKept DEF Keeps
<1> QED
  BY <1>3, <1>4, <1>5, <1>6, <1>7, <1>8

(* The checks at the end of the command line. *)
LEMMA FinishKept ==
    ASSUME NEW x, Shape(x), Ranges(x)
    PROVE  Keeps(x, finish(x))
<1>1. Keeps(x, Error(x)) /\ Keeps(x, x) /\ Keeps(x, [x EXCEPT !.ret = Crashed])
  <2>1. /\ DOMAIN Error(x) = DOMAIN x /\ Error(x).s = x.s
        /\ DOMAIN [x EXCEPT !.ret = Crashed] = DOMAIN x /\ [x EXCEPT !.ret = Crashed].s = x.s
    BY DEF Error, Shape
  <2>2. SameSettings(x, Error(x)) /\ SameSettings(x, x) /\ SameSettings(x, [x EXCEPT !.ret = Crashed])
    BY <2>1 DEF SameSettings
  <2> QED
    BY <2>2, SameKept
<1>2. Keeps(x, validate_input_files(x))
  <2> DEFINE y == validate_input_files(x)
  <2>1. y # Error(x) => \E a, l : DOMAIN y = DOMAIN x /\ y.s = [x.s EXCEPT !.acmod = a, !.lfe = l]
    BY DEF validate_input_files, Shape
  <2> HIDE DEF y
  <2>2. ASSUME NEW a, NEW l, DOMAIN y = DOMAIN x, y.s = [x.s EXCEPT !.acmod = a, !.lfe = l]
        PROVE  SameSettings(x, y)
    BY <2>2 DEF SameSettings, Shape, Looked
  <2>3. Keeps(x, y)
    BY <1>1, <2>1, <2>2, SameKept
  <2> QED
    BY <2>3 DEF y
<1>3. finish(x) \in {Error(x), [x EXCEPT !.ret = Crashed], validate_input_files(x), x}
  BY DEF finish
<1> QED
  BY <1>1, <1>2, <1>3

-----------------------------------------------------------------------------
(* The channel layout. *)

(* A set has n elements. *)
Has(set, n) == IsFiniteSet(set) /\ Cardinality(set) = n

(* One element more. *)
LEMMA OneMore ==
    ASSUME NEW n \in Nat, NEW set, Has(set, n), NEW b, b \notin set, NEW larger,
           larger = set \cup {b}
    PROVE  Has(larger, n + 1)
  BY FS_AddElement DEF Has

(* The numbers of speakers. *)
LEMMA SpeakerCounts ==
    /\ Has({2}, 1) /\ Has({0, 1}, 2) /\ Has({0, 1, 2}, 3) /\ Has({0, 1, 8}, 3)
    /\ Has({0, 1, 2, 8}, 4) /\ Has({0, 1, 4, 5}, 4) /\ Has({0, 1, 9, 10}, 4)
    /\ Has({0, 1, 2, 4, 5}, 5) /\ Has({0, 1, 2, 9, 10}, 5)
<1>1. Has({2}, 1) /\ Has({0}, 1)
  BY FS_Singleton DEF Has
<1>2. Has({0, 1}, 1 + 1)
  BY <1>1, OneMore
<1>3. Has({0, 1, 2}, 2 + 1) /\ Has({0, 1, 8}, 2 + 1) /\ Has({0, 1, 4}, 2 + 1) /\ Has({0, 1, 9}, 2 + 1)
  BY <1>2, OneMore
<1>4. Has({0, 1, 2, 8}, 3 + 1) /\ Has({0, 1, 2, 4}, 3 + 1) /\ Has({0, 1, 2, 9}, 3 + 1)
  BY <1>3, OneMore
<1>5. Has({0, 1, 4, 5}, 3 + 1) /\ Has({0, 1, 9, 10}, 3 + 1)
  BY <1>3, OneMore
<1>6. Has({0, 1, 2, 4, 5}, 4 + 1) /\ Has({0, 1, 2, 9, 10}, 4 + 1)
  BY <1>4, OneMore
<1> QED
  BY <1>1, <1>2, <1>3, <1>4, <1>5, <1>6

(* A mask of A/52 has as many speakers as its acmod has channels. *)
LEMMA LayoutChannels ==
    ASSUME NEW mask, LayoutOf(mask) >= 0
    PROVE  /\ LayoutOf(mask) \in 1 .. 7
           /\ Has(mask, a52_channels_tab[LayoutOf(mask) + 1])
<1>1. LayoutOf(mask) \in 1 .. 7
  BY DEF LayoutOf
<1>2. CASE LayoutOf(mask) \in 1 .. 3
  <2>1. mask = (IF LayoutOf(mask) = 1 THEN {2} ELSE IF LayoutOf(mask) = 2 THEN {0, 1} ELSE {0, 1, 2})
    BY <1>2 DEF LayoutOf
  <2> QED
    BY <1>1, <1>2, <2>1, SpeakerCounts DEF a52_channels_tab
<1>3. CASE LayoutOf(mask) \in 4 .. 5
  <2>1. mask = (IF LayoutOf(mask) = 4 THEN {0, 1, 8} ELSE {0, 1, 2, 8})
    BY <1>3 DEF LayoutOf
  <2> QED
    BY <1>1, <1>3, <2>1, SpeakerCounts DEF a52_channels_tab
<1>4. CASE LayoutOf(mask) = 6
  <2>1. mask \in {{0, 1, 4, 5}, {0, 1, 9, 10}}
    BY <1>4 DEF LayoutOf
  <2> QED
    BY <1>1, <1>4, <2>1, SpeakerCounts DEF a52_channels_tab
<1>5. CASE LayoutOf(mask) = 7
  <2>1. mask \in {{0, 1, 2, 4, 5}, {0, 1, 2, 9, 10}}
    BY <1>5 DEF LayoutOf
  <2> QED
    BY <1>1, <1>5, <2>1, SpeakerCounts DEF a52_channels_tab
<1> QED
  BY <1>1, <1>2, <1>3, <1>4, <1>5

(* aften_wav_channels_to_acmod decides on the LFE channel. *)
LEMMA WavLfe ==
    ASSUME NEW ch, NEW mask, NEW r, r = aften_wav_channels_to_acmod(ch, mask), r.ret = 0
    PROVE  r.lfe \in {0, 1}
  BY DEF aften_wav_channels_to_acmod, Refused

(* It finds the acmod of a mask of A/52, and for others goes by the number of channels. *)
LEMMA WavLayout ==
    ASSUME NEW ch, NEW mask,
           NEW r, r = aften_wav_channels_to_acmod(ch, mask), r.ret = 0,
           NEW s, s = [acmod |-> r.acmod, lfe |-> r.lfe, channels |-> ch]
    PROVE  IF Twice(mask, ch) THEN OneOver(s) ELSE Agree(s)
<1>1. ch \in 1 .. 6
  BY DEF aften_wav_channels_to_acmod, Refused, A52_MAX_CHANNELS
<1>2. CASE mask \ {31} = {}
  <2>1. /\ ch = 6 => r.acmod = 7 /\ r.lfe = 1
        /\ ch # 6 => r.acmod = ch_to_acmod[ch] /\ r.lfe = 0
    BY <1>1, <1>2 DEF aften_wav_channels_to_acmod, A52_MAX_CHANNELS, ch_to_acmod
  <2>2. Agree(s)
    BY <1>1, <2>1 DEF Agree, ch_to_acmod, a52_channels_tab
  <2> QED
    BY <1>2, <2>2 DEF Twice
<1>3. CASE mask \ {31} # {}
  <2>1. PICK m, fbw : m = mask \ {31} /\ fbw = m \ {LFE}
    OBVIOUS
  <2>2. LayoutOf(fbw) \in -1 .. 7
    BY DEF LayoutOf
  <2>3. /\ Cardinality(m) = ch
        /\ r.acmod = IF LayoutOf(fbw) >= 0 THEN LayoutOf(fbw) ELSE ch_to_acmod[ch]
        /\ r.lfe = IF LFE \in m THEN 1 ELSE 0
    BY <1>1, <1>3, <2>1 DEF aften_wav_channels_to_acmod, Refused, A52_MAX_CHANNELS
  <2>4. CASE LayoutOf(fbw) >= 0
    <3>1. LayoutOf(fbw) \in 1 .. 7 /\ Has(fbw, a52_channels_tab[LayoutOf(fbw) + 1])
      BY <2>4, LayoutChannels
    <3>2. a52_channels_tab[LayoutOf(fbw) + 1] \in Nat
      BY <3>1 DEF a52_channels_tab
    <3>3. Agree(s)
      <4>1. CASE LFE \in m
        <5>1. m = fbw \cup {LFE} /\ LFE \notin fbw
          BY <2>1, <4>1
        <5>2. Has(m, a52_channels_tab[LayoutOf(fbw) + 1] + 1)
          BY <3>1, <3>2, <5>1, OneMore
        <5> QED
          BY <2>3, <2>4, <4>1, <5>2 DEF Agree, Has
      <4>2. CASE LFE \notin m
        <5>1. m = fbw
          BY <2>1, <4>2
        <5> QED
          BY <2>3, <2>4, <3>1, <3>2, <4>2, <5>1 DEF Agree, Has
      <4> QED
        BY <4>1, <4>2
    <3>4. ~Twice(mask, ch)
      BY <2>1, <2>2, <2>4 DEF Twice
    <3> QED
      BY <3>3, <3>4
  <2>5. CASE LayoutOf(fbw) < 0
    <3>1. s.acmod = ch_to_acmod[ch] /\ s.channels = ch /\ s.lfe = (IF LFE \in m THEN 1 ELSE 0)
      BY <2>2, <2>3, <2>5
    <3>2. a52_channels_tab[ch_to_acmod[ch] + 1] = (IF ch = 6 THEN 5 ELSE ch)
      BY <1>1 DEF ch_to_acmod, a52_channels_tab
    <3>3. Twice(mask, ch) <=> LFE \in m /\ ch < 6
      BY <1>3, <2>1, <2>5 DEF Twice, A52_MAX_CHANNELS
    <3>4. CASE LFE \in m /\ ch < 6
      <4>1. OneOver(s)
        BY <1>1, <3>1, <3>2, <3>4 DEF OneOver
      <4> QED
        BY <3>3, <3>4, <4>1
    <3>5. CASE ~(LFE \in m /\ ch < 6)
      <4>1. Agree(s)
        BY <1>1, <3>1, <3>2, <3>5 DEF Agree
      <4> QED
        BY <3>3, <3>5, <4>1
    <3> QED
      BY <3>4, <3>5
  <2> QED
    BY <2>2, <2>4, <2>5
<1> QED
  BY <1>2, <1>3

-----------------------------------------------------------------------------
(* aften_encode_init. *)

(* The nine sample rates. *)
NineRates == {48000, 44100, 32000, 24000, 22050, 16000, 12000, 11025, 8000}

RateNo(h, j) ==
    IF h = 0 THEN IF j = 0 THEN 48000 ELSE IF j = 1 THEN 44100 ELSE 32000
    ELSE IF h = 1 THEN IF j = 0 THEN 24000 ELSE IF j = 1 THEN 22050 ELSE 16000
    ELSE IF j = 0 THEN 12000 ELSE IF j = 1 THEN 11025 ELSE 8000

(* They are what the table and the halving give. *)
LEMMA RatesOfTable ==
    ASSUME NEW h \in 0 .. 2, NEW j \in 0 .. 2
    PROVE  a52_sample_rate_tab[j + 1] \div 2^h = RateNo(h, j)
<1>1. CASE h = 0
  BY <1>1 DEF a52_sample_rate_tab, RateNo
<1>2. CASE h = 1
  BY <1>2 DEF a52_sample_rate_tab, RateNo
<1>3. CASE h = 2
  BY <1>3 DEF a52_sample_rate_tab, RateNo
<1> QED
  BY <1>1, <1>2, <1>3

(* No two of the nine codes have the same rate. *)
LEMMA RatesDiffer ==
    ASSUME NEW h \in 0 .. 2, NEW j \in 0 .. 2
    PROVE  /\ RateNo(h, j) \in NineRates
           /\ \A k, l \in 0 .. 2 : RateNo(k, l) = RateNo(h, j) => k = h /\ l = j
<1> SUFFICES ASSUME NEW k \in 0 .. 2, NEW l \in 0 .. 2
             PROVE  /\ RateNo(h, j) \in NineRates
                    /\ RateNo(k, l) = RateNo(h, j) => k = h /\ l = j
  OBVIOUS
<1>1. CASE h = 0
  BY <1>1 DEF RateNo, NineRates
<1>2. CASE h = 1
  BY <1>2 DEF RateNo, NineRates
<1>3. CASE h = 2
  BY <1>3 DEF RateNo, NineRates
<1> QED
  BY <1>1, <1>2, <1>3

(* The search for a rate finds its code, or none. *)
LEMMA KnownRates ==
    ASSUME NEW samplerate
    PROVE  \/ RateCode(samplerate)[1] = -1
           \/ samplerate \in NineRates /\ RateCode(samplerate)[1] \in 0 .. 2
<1> DEFINE value(d) == a52_sample_rate_tab[d[2] + 1] \div 2^(d[1])
           fits == {d \in (0 .. 2) \X (0 .. 2) : value(d) = samplerate}
           least(d) == \A e \in fits : 3 * d[1] + d[2] <= 3 * e[1] + e[2]
<1>0. CASE fits = {}
  BY <1>0 DEF RateCode
<1>1. SUFFICES ASSUME fits # {}
               PROVE  samplerate \in NineRates /\ RateCode(samplerate)[1] \in 0 .. 2
  BY <1>0
<1>2. RateCode(samplerate) = CHOOSE d \in fits : least(d)
  BY <1>1 DEF RateCode
<1>3. \A d \in (0 .. 2) \X (0 .. 2) :
         /\ value(d) \in NineRates
         /\ \A e \in (0 .. 2) \X (0 .. 2) : value(e) = value(d) => e = d
  <2> SUFFICES ASSUME NEW d \in (0 .. 2) \X (0 .. 2), NEW e \in (0 .. 2) \X (0 .. 2)
               PROVE  value(d) \in NineRates /\ (value(e) = value(d) => e = d)
    OBVIOUS
  <2>1. PICK h \in 0 .. 2, j \in 0 .. 2 : d = <<h, j>>
    OBVIOUS
  <2>2. PICK k \in 0 .. 2, l \in 0 .. 2 : e = <<k, l>>
    OBVIOUS
  <2>3. value(d) = a52_sample_rate_tab[j + 1] \div 2^h /\ value(e) = a52_sample_rate_tab[l + 1] \div 2^k
    BY <2>1, <2>2
  <2> HIDE DEF value
  <2>4. value(d) = RateNo(h, j) /\ value(e) = RateNo(k, l)
    BY <2>3, RatesOfTable
  <2> QED
    BY <2>1, <2>2, <2>4, RatesDiffer
<1> HIDE DEF value
<1>4. PICK d \in fits : least(d)
  BY <1>1, <1>3
<1>5. RateCode(samplerate) \in fits
  BY <1>2, <1>4
<1> QED
  BY <1>3, <1>5

(* The least of some numbers. *)
LEMMA Least ==
    ASSUME NEW set, set \subseteq Nat, set # {}
    PROVE  \E i \in set : \A j \in set : i <= j
<1>1. PICK less : less = OpToRel(<, Nat)
  OBVIOUS
<1>2. less = {p \in Nat \X Nat : p[1] < p[2]}
  BY <1>1, Zenon DEF OpToRel
<1>3. IsWellFoundedOn(less, Nat)
  BY <1>1, NatLessThanWellFounded, Zenon
<1>4. PICK i \in set : \A j \in set : ~(<<j, i>> \in less)
  BY <1>3, WFMin
<1>5. ASSUME NEW j \in set, ~(i <= j) PROVE FALSE
  <2>1. i \in Nat /\ j \in Nat /\ j < i
    BY <1>5
  <2>2. <<j, i>> \in Nat \X Nat /\ <<j, i>>[1] = j /\ <<j, i>>[2] = i
    BY <2>1
  <2>3. <<j, i>> \in less
    BY <1>2, <2>1, <2>2, Zenon
  <2> QED
    BY <1>4, <2>3, <1>5
<1> QED
  BY <1>5

(* The bit rate has a place in the table, or is refused. *)
LEMMA RateInTable ==
    ASSUME NEW s, NEW n, NEW h
    PROVE  RatePosition(s, n, h) \in 0 .. 19
<1> DEFINE brate == IF s.encoding_mode = "CBR" /\ s.b = 0 THEN DefaultRate[n] ELSE s.b
           at == {i \in 0 .. 18 : a52_bitrate_tab[i + 1] \div 2^h = brate}
<1>1. CASE at = {}
  BY <1>1 DEF RatePosition
<1>2. CASE at # {}
  <2>1. RatePosition(s, n, h) = CHOOSE i \in at : \A j \in at : i <= j
    BY <1>2 DEF RatePosition
  <2>a. at \subseteq Nat
    OBVIOUS
  <2> HIDE DEF at
  <2>2. \E i \in at : \A j \in at : i <= j
    BY <1>2, <2>a, Least
  <2>3. RatePosition(s, n, h) \in at
    BY <2>1, <2>2
  <2> QED
    BY <2>3 DEF at
<1> QED
  BY <1>1, <1>2

(* The bit rate is a number. *)
LEMMA TargetIsNumber ==
    ASSUME NEW h \in 0 .. 2, NEW i \in 0 .. 18
    PROVE  a52_bitrate_tab[i + 1] \div 2^h \in Int
<1>1. PICK b : b = a52_bitrate_tab[i + 1]
  OBVIOUS
<1>2. b \in Nat
  BY <1>1 DEF a52_bitrate_tab
<1>3. CASE h = 0
  BY <1>1, <1>2, <1>3
<1>4. CASE h = 1
  BY <1>1, <1>2, <1>4
<1>5. CASE h = 2
  BY <1>1, <1>2, <1>5
<1> QED
  BY <1>3, <1>4, <1>5

(* The bandwidth is one that the format has. *)
LEMMA BandwidthIsCoded ==
    ASSUME NEW s, s.w \in -2 .. 60, s.wmin \in 0 .. 60, s.wmax \in 0 .. 60,
           NEW quality \in Int, NEW rate \in NineRates
    PROVE  fixed_bwcode(s, quality, rate) \in 0 .. 60
<1>1. PICK cutoff \in Int : cutoff = ((quality - 120) * 120) + 4000
  OBVIOUS
<1>2. rate \in Nat /\ rate > 0
  BY DEF NineRates
<1>3. Quotient(cutoff * 512, rate) \in Int
  BY <1>2 DEF Quotient
<1>4. Quotient(Quotient(cutoff * 512, rate) - 73, 3) \in Int
  BY <1>3 DEF Quotient
<1>5. PICK x \in Int : x = Quotient(Quotient(cutoff * 512, rate) - 73, 3)
  BY <1>4
<1>6. CLIP(x, s.wmin, s.wmax) \in 0 .. 60
  BY DEF CLIP
<1> QED
  BY <1>1, <1>5, <1>6 DEF fixed_bwcode

(* No cutoff is above half the sample rate. *)
LEMMA CutoffsFit ==
    ASSUME NEW s, s.wmax \in 0 .. 60, NEW bwcode \in 0 .. 60, NEW rate \in NineRates,
           NEW f \in DOMAIN FilterCutoffs(s, bwcode, rate)
    PROVE  filter_init(FilterCutoffs(s, bwcode, rate)[f], rate)
<1>1. PICK x \in 0 .. 60 : x = IF s.w = -2 THEN s.wmax ELSE bwcode
  OBVIOUS
<1>2. PICK bw : bw = ((x * 3 + 73) * rate) \div 512
  OBVIOUS
<1>3. bw \in Nat /\ 2 * bw <= rate
  BY <1>2 DEF NineRates
<1>4. rate \in Nat /\ rate >= 8000
  BY DEF NineRates
<1>5. /\ f \in {"bs", "dc", "bw", "lfe"}
      /\ f = "bs" => rate > 16000
      /\ FilterCutoffs(s, bwcode, rate)[f] =
           [bs |-> 8000, dc |-> 3, bw |-> bw, lfe |-> 120][f]
  BY <1>1, <1>2 DEF FilterCutoffs, CanSwitch
<1> QED
  BY <1>3, <1>4, <1>5 DEF filter_init

(* The code of each part, by what the processor has and the user wants. *)
LEMMA CodeIsAvailable ==
    ASSUME NEW caps
    PROVE  {mdct_init(caps), a52_window_init(caps), exponent_init(caps)} \subseteq caps \cup {"C"}
<1>1. mdct_init(caps) \in caps \cup {"C"}
  BY DEF mdct_init
<1>2. a52_window_init(caps) \in caps \cup {"C"}
  BY DEF a52_window_init
<1>3. exponent_init(caps) \in caps \cup {"C"}
  BY DEF exponent_init
<1> QED
  BY <1>1, <1>2, <1>3

(* What an encoder that is made passed, and what one that a filter stopped did not. *)
LEMMA ChecksPassed ==
    ASSUME NEW s, NEW h, NEW i, NEW filters, Refusal(s, h, i, filters) \in {"none", "filter"}
    PROVE  /\ s.channels \in 1 .. 6 /\ s.acmod \in 0 .. 7
           /\ ~(s.channels = 6 /\ s.lfe = 0) /\ ~(s.channels = 1 /\ s.lfe = 1)
           /\ ~(h < 0) /\ i # 19
           /\ Refusal(s, h, i, filters) = "filter" =>
                \E f \in DOMAIN filters : ~filter_init(filters[f], s.samplerate)
<1>1. s.channels \in 1 .. 6 /\ s.acmod \in 0 .. 7
  BY DEF Refusal
<1>2. ~(s.channels = 6 /\ s.lfe = 0) /\ ~(s.channels = 1 /\ s.lfe = 1)
  BY DEF Refusal
<1>3. ~(h < 0)
  BY DEF Refusal
<1>4. i # 19
  BY DEF Refusal
<1>5. Refusal(s, h, i, filters) = "filter" =>
        \E f \in DOMAIN filters : ~filter_init(filters[f], s.samplerate)
  BY DEF Refusal
<1> QED
  BY <1>1, <1>2, <1>3, <1>4, <1>5

(* An encoder that aften_encode_init made. *)
Made(r, s, who) ==
    /\ r.acmod = s.acmod /\ r.lfe = s.lfe /\ r.n_all_channels = s.channels
    /\ s.acmod \in 0 .. 7 /\ s.channels \in 1 .. 6 /\ ~(s.channels = 6 /\ s.lfe = 0)
    /\ r.bwcode \in 0 .. 60
    /\ \A f \in DOMAIN r.filters : 2 * r.filters[f] <= s.samplerate
    /\ r.code \subseteq (cpu_caps_detect(who) \cap s.wanted_simd_instructions) \cup {"C"}

(* aften_encode_init makes one or refuses the settings, for some other reason than a filter. *)
LEMMA EncoderMade ==
    ASSUME NEW s, s.w \in -2 .. 60, s.wmin \in 0 .. 60, s.wmax \in 0 .. 60, s.q \in 0 .. 1023,
           s.encoding_mode \in {"CBR", "VBR"}, s.lfe \in {0, 1}, NEW who, NEW ncpus,
           NEW r, r = aften_encode_init(s, who, ncpus)
    PROVE  r.why # "filter" /\ (r.why = "none" => Made(r, s, who))
<1> DEFINE caps == CapsInUse(who, s.wanted_simd_instructions)
           n == s.channels - s.lfe
           rate == RateCode(s.samplerate)
           i == RatePosition(s, n, rate[1])
           target == a52_bitrate_tab[i + 1] \div 2^(rate[1])
           quality == last_quality(s, target, n, rate[1])
           bwcode == fixed_bwcode(s, quality, s.samplerate)
           filters == FilterCutoffs(s, bwcode, s.samplerate)
           why == Refusal(s, rate[1], i, filters)
           code == {mdct_init(caps), a52_window_init(caps), exponent_init(caps)}
<1>1. /\ why # "none" => r = [why |-> why]
      /\ why = "none" =>
           /\ r.why = why /\ r.acmod = s.acmod /\ r.lfe = s.lfe /\ r.n_all_channels = s.channels
           /\ r.bwcode = bwcode /\ r.filters = filters /\ r.code = code
  <2>1. why # "none" => r = [why |-> why]
    BY SMTT(30) DEF aften_encode_init, Fail
  <2>2. why = "none" =>
          r.why = why /\ r.acmod = s.acmod /\ r.lfe = s.lfe /\ r.n_all_channels = s.channels
    BY SMTT(30) DEF aften_encode_init
  <2>3. why = "none" => r.bwcode = bwcode /\ r.filters = filters /\ r.code = code
    BY SMTT(30) DEF aften_encode_init
  <2> QED
    BY <2>1, <2>2, <2>3, Zenon
<1>2. rate = RateCode(s.samplerate) /\ caps = CapsInUse(who, s.wanted_simd_instructions)
  OBVIOUS
<1>3. n = s.channels - s.lfe /\ i = RatePosition(s, n, rate[1])
  OBVIOUS
<1>4. target = a52_bitrate_tab[i + 1] \div 2^(rate[1]) /\ quality = last_quality(s, target, n, rate[1])
  OBVIOUS
<1>5. bwcode = fixed_bwcode(s, quality, s.samplerate) /\ filters = FilterCutoffs(s, bwcode, s.samplerate)
  OBVIOUS
<1>6. why = Refusal(s, rate[1], i, filters)
  OBVIOUS
<1>7. code \subseteq caps \cup {"C"}
  BY CodeIsAvailable
<1> HIDE DEF caps, n, rate, i, target, quality, bwcode, filters, why, code
<1>8. r.why = why
  BY <1>1
<1> SUFFICES ASSUME why \in {"none", "filter"} PROVE why # "filter" /\ Made(r, s, who)
  BY <1>8
<1>9. /\ n \in 1 .. 6 /\ s.acmod \in 0 .. 7 /\ s.channels \in 1 .. 6 /\ ~(rate[1] < 0) /\ i # 19
      /\ ~(s.channels = 6 /\ s.lfe = 0)
  BY <1>3, <1>6, ChecksPassed
<1>10. rate[1] \in 0 .. 2 /\ s.samplerate \in NineRates
  BY <1>2, <1>9, KnownRates
<1>11. i \in 0 .. 18
  BY <1>3, <1>9, RateInTable
<1>12. bwcode \in 0 .. 60
  <2>1. quality \in Int
    <3>1. PICK h \in 0 .. 2 : h = rate[1]
      BY <1>10
    <3>2. target \in Int
      BY <1>4, <1>11, <3>1, TargetIsNumber
    <3>3. quality = last_quality(s, target, n, h)
      BY <1>4, <3>1, Zenon
    <3>4. n \in 1 .. 6 /\ h \in 0 .. 2
      BY <1>9, <3>1
    <3>5. s.encoding_mode \in {"CBR", "VBR"} /\ s.q \in 0 .. 1023
      OBVIOUS
    <3>6. last_quality(s, target, n, h) \in Int
      BY <3>2, <3>4, <3>5 DEF last_quality
    <3> QED
      BY <3>3, <3>6
  <2> QED
    BY <1>5, <1>10, <2>1, BandwidthIsCoded
<1>13. \A f \in DOMAIN filters : filter_init(filters[f], s.samplerate)
  BY <1>5, <1>10, <1>12, CutoffsFit
<1>14. why = "none"
  BY <1>6, <1>13, ChecksPassed
<1>15. caps = cpu_caps_detect(who) \cap s.wanted_simd_instructions
  BY <1>2 DEF CapsInUse
<1> QED
  BY <1>1, <1>7, <1>9, <1>12, <1>13, <1>14, <1>15 DEF Made, filter_init

-----------------------------------------------------------------------------
(* The steps of main. *)

LEMMA SettingsInit == Init => SettingsInv
<1> SUFFICES ASSUME Init PROVE SettingsInv
  OBVIOUS
<1>1. c.s = aften_set_defaults(cpu) /\ DOMAIN c = {"ret", "opts", "priv", "s"}
  BY DEF Init
<1>2. Shape(c) /\ Ranges(c)
  BY <1>1 DEF aften_set_defaults, Shape, Looked, Ranges
<1>3. ctx.why = "not yet"
  BY DEF Init, Fail
<1> QED
  BY <1>2, <1>3 DEF Init, SettingsInv, NotRuledOut, FiltersFit, SimdAvailable

LEMMA LayoutInit == Init => LayoutInv
  BY DEF Init, LayoutInv, ChannelsAgree, OneChannelTooMany

(* A step that keeps the settings keeps what the invariant says of them. *)
LEMMA KeptAfter ==
    ASSUME NotRuledOut(c, given), Keeps(c, c'), given' = given
    PROVE  Shape(c)' /\ Ranges(c)' /\ NotRuledOut(c, given)'
<1>1. Shape(c)'
  BY DEF Keeps, Shape
<1>2. Ranges(c)'
  BY DEF Keeps, Ranges
<1>3. NotRuledOut(c, given)'
  BY DEF Keeps, NotRuledOut
<1> QED
  BY <1>1, <1>2, <1>3

(* One argument. *)
LEMMA ParseSettings ==
    ASSUME SettingsInv, NEW a \in words, ParseArg(a)
    PROVE  SettingsInv'
<1>1. a.opt \in DOMAIN options_list \cup {"file", "ch", "chconfig", "nosimd", "raw_fmt", "help", "?"}
  BY SetupAssumption DEF SettingsInv
<1>2. Shape(c) /\ Ranges(c)
  BY DEF SettingsInv
<1>3. c' = parse(c, a) /\ given' = given \cup {a} /\ stage' = "args" /\ ctx' = ctx /\ words' = words
  BY DEF ParseArg
<1>4. /\ Shape(c') /\ Ranges(c')
      /\ c'.s.wanted_simd_instructions =
           IF a.opt = "nosimd" THEN c.s.wanted_simd_instructions \ a.val
           ELSE c.s.wanted_simd_instructions
  BY <1>1, <1>2, <1>3, ParseKept
<1>5. NotRuledOut(c, given)'
  BY <1>3, <1>4 DEF SettingsInv, NotRuledOut
<1>6. Shape(c)' /\ Ranges(c)'
  BY <1>4 DEF Shape, Ranges
<1> QED
  BY <1>3, <1>5, <1>6 DEF SettingsInv, FiltersFit, SimdAvailable

(* The end of the arguments. *)
LEMMA EndSettings ==
    ASSUME SettingsInv, EndOfArgs
    PROVE  SettingsInv'
<1>1. Shape(c) /\ Ranges(c) /\ NotRuledOut(c, given)
  BY DEF SettingsInv
<1>2. c' \in {c, finish(c)} /\ given' = given /\ ctx' = ctx /\ words' = words
  BY DEF EndOfArgs
<1>3. stage' \in {"open", "usage", "crashed", "help"}
  BY DEF EndOfArgs
<1>4. Keeps(c, c')
  BY <1>1, <1>2, FinishKept DEF Keeps
<1>5. Shape(c)' /\ Ranges(c)' /\ NotRuledOut(c, given)'
  BY <1>1, <1>2, <1>4, KeptAfter
<1> QED
  BY <1>2, <1>3, <1>5 DEF SettingsInv, FiltersFit, SimdAvailable

(* The layout main decides on. *)
Chosen ==
    LET lfe == LfeOf(c.s.acmod, c.s.lfe, pf.channels)
    IN  IF c.s.acmod < 0 THEN LayoutFromFile
        ELSE [ret |-> IF lfe < 0 THEN -1 ELSE 0, acmod |-> c.s.acmod, lfe |-> lfe]

LEMMA ChosenLfe ==
    ASSUME Chosen.ret = 0
    PROVE  Chosen.lfe \in {0, 1}
<1>1. CASE ~(c.s.acmod < 0)
  BY <1>1 DEF Chosen, LfeOf
<1>2. CASE c.s.acmod < 0
  <2>1. Chosen = LayoutFromFile
    BY <1>2 DEF Chosen
  <2>2. PICK mask : Chosen \in {Refused, aften_wav_channels_to_acmod(pf.channels, mask)}
    BY <2>1 DEF LayoutFromFile
  <2>3. Chosen # Refused
    BY DEF Refused
  <2> QED
    BY <2>2, <2>3, WavLfe
<1> QED
  BY <1>1, <1>2

(* The mask main goes by: the LFE speaker is added if the user asked for it. *)
Amended == IF c.s.lfe = 1 THEN pf.ch_mask \cup {LFE} ELSE pf.ch_mask

(* An acmod that is given is compared with the channels, one that is not is found. *)
LEMMA ChosenAgrees ==
    ASSUME Chosen.ret = 0,
           NEW s, s = [acmod |-> Chosen.acmod, lfe |-> Chosen.lfe, channels |-> pf.channels]
    PROVE  IF c.s.acmod < 0 /\ Twice(Amended, pf.channels) THEN OneOver(s) ELSE Agree(s)
<1>1. CASE ~(c.s.acmod < 0)
  <2>1. PICK lfe : lfe = LfeOf(c.s.acmod, c.s.lfe, pf.channels)
    OBVIOUS
  <2>2. Chosen = [ret |-> IF lfe < 0 THEN -1 ELSE 0, acmod |-> c.s.acmod, lfe |-> lfe]
    BY <1>1, <2>1 DEF Chosen
  <2>3. lfe = pf.channels - a52_channels_tab[c.s.acmod + 1]
    BY <2>1, <2>2 DEF LfeOf
  <2>4. c.s.acmod \in 0 .. 7 => a52_channels_tab[c.s.acmod + 1] \in Nat
    BY DEF a52_channels_tab
  <2>5. Agree(s)
    BY <2>2, <2>3, <2>4 DEF Agree
  <2> QED
    BY <1>1, <2>5
<1>2. CASE c.s.acmod < 0
  <2>1. Chosen = LayoutFromFile
    BY <1>2 DEF Chosen
  <2>2. LayoutFromFile # Refused
    BY <2>1 DEF Refused
  <2>3. LayoutFromFile = aften_wav_channels_to_acmod(pf.channels, Amended)
    BY <2>2 DEF LayoutFromFile, Amended
  <2>4. IF Twice(Amended, pf.channels) THEN OneOver(s) ELSE Agree(s)
    BY <2>1, <2>3, WavLayout
  <2> QED
    BY <1>2, <2>4
<1> QED
  BY <1>1, <1>2

(* The settings after it. *)
LEMMA ChoiceStored ==
    ASSUME Shape(c), Ranges(c), ChooseLayout
    PROVE  \/ stage' = "failed" /\ c' = c
           \/ /\ stage' = "output" /\ Chosen.ret = 0
              /\ Keeps(c, c')
              /\ c'.s.acmod = Chosen.acmod /\ c'.s.lfe = Chosen.lfe /\ c'.s.channels = pf.channels
<1>1. PICK layout : layout = Chosen
  OBVIOUS
<1>2. IF layout.ret # 0 THEN stage' = "failed" /\ UNCHANGED c
      ELSE /\ stage' = "output"
           /\ c' = [c EXCEPT !.s.acmod = layout.acmod, !.s.lfe = layout.lfe,
                             !.s.channels = pf.channels, !.s.samplerate = pf.sample_rate]
  BY <1>1 DEF ChooseLayout, Chosen
<1>3. CASE layout.ret # 0
  BY <1>2, <1>3
<1>4. CASE layout.ret = 0
  <2>1. c' = [c EXCEPT !.s = [c.s EXCEPT !.acmod = layout.acmod, !.lfe = layout.lfe,
                                         !.channels = pf.channels, !.samplerate = pf.sample_rate]]
    BY <1>2, <1>4 DEF Shape
  <2>2. PICK t : t = [c.s EXCEPT !.acmod = layout.acmod, !.lfe = layout.lfe,
                                 !.channels = pf.channels, !.samplerate = pf.sample_rate]
    OBVIOUS
  <2>3. DOMAIN c' = DOMAIN c /\ c'.s = t
    BY <2>1, <2>2 DEF Shape
  <2>4. DOMAIN t = DOMAIN c.s
    BY <2>2
  <2>5. t.acmod = layout.acmod /\ t.lfe = layout.lfe /\ t.channels = pf.channels
    BY <2>2 DEF Shape, Looked
  <2>6. /\ t.w = c.s.w /\ t.wmin = c.s.wmin /\ t.wmax = c.s.wmax /\ t.q = c.s.q
        /\ t.encoding_mode = c.s.encoding_mode
        /\ t.wanted_simd_instructions = c.s.wanted_simd_instructions
    BY <2>2 DEF Shape, Looked
  <2>7. Keeps(c, c')
    BY <2>3, <2>4, <2>6 DEF Keeps, Shape, Ranges
  <2> QED
    BY <1>1, <1>2, <1>4, <2>3, <2>5, <2>7
<1> QED
  BY <1>3, <1>4

LEMMA ChoiceSettings ==
    ASSUME SettingsInv, ChooseLayout
    PROVE  SettingsInv'
<1>1. Shape(c) /\ Ranges(c) /\ NotRuledOut(c, given)
  BY DEF SettingsInv
<1>2. given' = given /\ ctx' = ctx /\ words' = words
  BY DEF ChooseLayout
<1>3. Keeps(c, c') /\ (stage' = "output" => c'.s.lfe \in {0, 1}) /\ stage' \notin {"init", "encode"}
  BY <1>1, ChoiceStored, ChosenLfe DEF Keeps
<1>4. Shape(c)' /\ Ranges(c)' /\ NotRuledOut(c, given)'
  BY <1>1, <1>2, <1>3, KeptAfter
<1> QED
  BY <1>2, <1>3, <1>4 DEF SettingsInv, FiltersFit, SimdAvailable

LEMMA ChoiceLayout ==
    ASSUME SettingsInv, LayoutInv, ChooseLayout
    PROVE  LayoutInv'
<1>1. Shape(c) /\ Ranges(c) /\ DOMAIN pf = {"channels", "ch_mask", "sample_rate"}
  BY DEF SettingsInv, LayoutInv, ChooseLayout
<1>2. stage' \in {"failed", "output"}
  BY <1>1, ChoiceStored
<1>3. ASSUME stage' = "output" PROVE IF LfeCountedTwice' THEN OneOver(c'.s) ELSE Agree(c'.s)
  <2>1. /\ Chosen.ret = 0
        /\ c'.s.acmod = Chosen.acmod /\ c'.s.lfe = Chosen.lfe /\ c'.s.channels = pf.channels
    BY <1>1, <1>3, ChoiceStored
  <2>2. PICK s : s = [acmod |-> Chosen.acmod, lfe |-> Chosen.lfe, channels |-> pf.channels]
    OBVIOUS
  <2>3. /\ OneOver(s) => OneOver(c'.s)
        /\ Agree(s) => Agree(c'.s)
    BY <2>1, <2>2 DEF OneOver, Agree
  <2>4. IF c.s.acmod < 0 /\ Twice(Amended, pf.channels) THEN OneOver(s) ELSE Agree(s)
    BY <2>1, <2>2, ChosenAgrees
  <2>5. /\ asked' = c.s.acmod /\ pf'.channels = pf.channels
        /\ c.s.acmod < 0 => pf'.ch_mask = Amended
    BY <1>1 DEF ChooseLayout, Amended
  <2>6. LfeCountedTwice' <=> c.s.acmod < 0 /\ Twice(Amended, pf.channels)
    BY <2>5 DEF LfeCountedTwice, Unknown, Named, Twice
  <2> QED
    BY <2>3, <2>4, <2>6
<1>4. (IF LfeCountedTwice THEN OneOver(c.s) ELSE Agree(c.s))' \/ stage' = "failed"
  BY <1>2, <1>3 DEF OneOver, Agree
<1> QED
  BY <1>2, <1>4 DEF LayoutInv, ChannelsAgree, OneChannelTooMany

(* An input file, or several, or raw samples. *)
LEMMA InputShape ==
    ASSUME NEW st \in Streams, OpenInput(st)
    PROVE  DOMAIN pf' = {"channels", "ch_mask", "sample_rate"}
<1> DEFINE n == c.opts.num_input_files
           raw == [channels |-> 1, ch_mask |-> {2}, sample_rate |-> 48000]
           file == IF c.opts.raw_input THEN raw ELSE st
           all == IF n = 1 THEN file ELSE [file EXCEPT !.channels = n, !.ch_mask = DefaultMask(n)]
<1>1. pf' \in {all, [all EXCEPT !.sample_rate = c.opts.raw_sr],
               [channels |-> c.opts.raw_ch, ch_mask |-> DefaultMask(c.opts.raw_ch),
                sample_rate |-> c.opts.raw_sr]}
  BY DEF OpenInput
<1>2. DOMAIN file = {"channels", "ch_mask", "sample_rate"}
  BY SetupAssumption
<1> HIDE DEF file
<1>3. DOMAIN all = {"channels", "ch_mask", "sample_rate"}
  BY <1>2
<1> HIDE DEF all
<1> QED
  BY <1>1, <1>3

(* The encoder. *)
LEMMA EncoderSettings ==
    ASSUME SettingsInv, InitEncoder
    PROVE  /\ SettingsInv'
           /\ stage' \in {"encode", "failed"}
           /\ stage' = "encode" => Made(ctx', c.s, cpu)
<1>1. Shape(c) /\ Ranges(c) /\ NotRuledOut(c, given) /\ c.s.lfe \in {0, 1}
  BY DEF SettingsInv, InitEncoder
<1>2. PICK n \in Ncpus : ctx' = aften_encode_init(c.s, cpu, n)
  BY DEF InitEncoder
<1>3. /\ stage' = (IF ctx'.why = "none" THEN "encode" ELSE "failed")
      /\ c' = IF ctx'.why = "none" THEN [c EXCEPT !.s.threads = ctx'.n_threads] ELSE c
      /\ given' = given /\ cpu' = cpu /\ words' = words
  BY DEF InitEncoder
<1>4. ctx'.why # "filter" /\ (ctx'.why = "none" => Made(ctx', c.s, cpu))
  <2>1. PICK s, r : s = c.s /\ r = ctx'
    OBVIOUS
  <2>2. /\ s.w \in -2 .. 60 /\ s.wmin \in 0 .. 60 /\ s.wmax \in 0 .. 60 /\ s.q \in 0 .. 1023
        /\ s.encoding_mode \in {"CBR", "VBR"} /\ s.lfe \in {0, 1}
    BY <1>1, <2>1 DEF Ranges
  <2>3. r = aften_encode_init(s, cpu, n)
    BY <1>2, <2>1
  <2>4. r.why # "filter" /\ (r.why = "none" => Made(r, s, cpu))
    BY <2>2, <2>3, EncoderMade
  <2> QED
    BY <2>1, <2>4
<1>5. Keeps(c, c') /\ c'.s.samplerate = c.s.samplerate
  BY <1>1, <1>3 DEF Keeps, Shape, Ranges, Looked
<1>6. Shape(c)' /\ Ranges(c)' /\ NotRuledOut(c, given)'
  BY <1>1, <1>3, <1>5, KeptAfter
<1>7. stage' \in {"encode", "failed"} /\ (stage' = "encode" => Made(ctx', c.s, cpu))
  BY <1>3, <1>4
<1>8. FiltersFit'
  BY <1>4, <1>5, <1>7 DEF FiltersFit, Made
<1>9. SimdAvailable'
  <2> SUFFICES ASSUME stage' = "encode", NEW k \in ctx'.code \ {"C"}
               PROVE  /\ k \in cpu'.detect /\ k \in cpu'.compile
                      /\ \A a \in given' : a.opt = "nosimd" => k \notin a.val
    BY DEF SimdAvailable
  <2>1. k \in cpu_caps_detect(cpu) /\ k \in c.s.wanted_simd_instructions
    BY <1>7 DEF Made
  <2> QED
    BY <1>1, <1>3, <2>1 DEF cpu_caps_detect, NotRuledOut
<1> QED
  BY <1>3, <1>6, <1>7, <1>8, <1>9 DEF SettingsInv

-----------------------------------------------------------------------------
(* Every step keeps the settings in order. *)
LEMMA SettingsInductive == SettingsInv /\ [Next]_vars => SettingsInv'
<1> SUFFICES ASSUME SettingsInv, [Next]_vars PROVE SettingsInv'
  OBVIOUS
<1>1. ASSUME NEW a \in words, ParseArg(a) PROVE SettingsInv'
  BY <1>1, ParseSettings
<1>2. CASE EndOfArgs
  BY <1>2, EndSettings
<1>3. ASSUME /\ stage' \notin {"output", "init", "encode"}
             /\ UNCHANGED <<words, c, given, ctx>>
      PROVE  SettingsInv'
  BY <1>3 DEF SettingsInv, Shape, Ranges, NotRuledOut, FiltersFit, SimdAvailable
<1>4. ASSUME NEW st \in Streams, OpenInput(st) PROVE SettingsInv'
  BY <1>3, <1>4 DEF OpenInput
<1>5. CASE InputFails \/ OutputFails
  BY <1>3, <1>5 DEF InputFails, OutputFails
<1>6. CASE ChooseLayout
  BY <1>6, ChoiceSettings
<1>7. CASE InitEncoder
  BY <1>7, EncoderSettings
<1>8. ASSUME NEW nr \in 0 .. Initial, ReadInitial(nr) PROVE SettingsInv'
  <2>1. stage = "output" /\ stage' = "init" /\ UNCHANGED <<words, c, given, ctx>>
    BY <1>8 DEF ReadInitial
  <2> QED
    BY <2>1 DEF SettingsInv, Shape, Ranges, NotRuledOut, FiltersFit, SimdAvailable
<1>9. CASE HandOver \/ UNCHANGED vars
  <2>1. UNCHANGED <<stage, cpu, words, c, given, ctx>>
    BY <1>9 DEF HandOver, vars
  <2>2. Shape(c)' /\ Ranges(c)' /\ NotRuledOut(c, given)'
    BY <2>1 DEF SettingsInv, Shape, Ranges, NotRuledOut
  <2>3. FiltersFit'
    BY <2>1 DEF SettingsInv, FiltersFit
  <2>4. SimdAvailable'
    BY <2>1 DEF SettingsInv, SimdAvailable
  <2> QED
    BY <2>1, <2>2, <2>3, <2>4 DEF SettingsInv
<1> QED
  BY <1>1, <1>2, <1>4, <1>5, <1>6, <1>7, <1>8, <1>9 DEF Next

(* Every step keeps acmod and lfe in agreement with the channels. *)
LEMMA LayoutInductive == SettingsInv /\ LayoutInv /\ [Next]_vars => LayoutInv'
<1> SUFFICES ASSUME SettingsInv, LayoutInv, [Next]_vars PROVE LayoutInv'
  OBVIOUS
<1>1. ASSUME stage' \notin {"layout", "output", "init", "encode"} PROVE LayoutInv'
  BY <1>1 DEF LayoutInv, ChannelsAgree, OneChannelTooMany
<1>2. ASSUME NEW a \in words, ParseArg(a) PROVE LayoutInv'
  BY <1>1, <1>2 DEF ParseArg
<1>3. CASE EndOfArgs
  <2>1. stage' \in {"open", "usage", "crashed", "help"}
    BY <1>3 DEF EndOfArgs
  <2> QED
    BY <1>1, <2>1
<1>4. ASSUME NEW st \in Streams, OpenInput(st) PROVE LayoutInv'
  <2>1. stage' = "layout"
    BY <1>4 DEF OpenInput
  <2>2. DOMAIN pf' = {"channels", "ch_mask", "sample_rate"}
    BY <1>4, InputShape
  <2> QED
    BY <2>1, <2>2 DEF LayoutInv, ChannelsAgree, OneChannelTooMany
<1>5. CASE InputFails \/ OutputFails
  BY <1>1, <1>5 DEF InputFails, OutputFails
<1>6. CASE ChooseLayout
  BY <1>6, ChoiceLayout
<1>7. ASSUME NEW nr \in 0 .. Initial, ReadInitial(nr) PROVE LayoutInv'
  <2>1. stage = "output" /\ stage' = "init" /\ UNCHANGED <<c, pf, asked>>
    BY <1>7 DEF ReadInitial
  <2>2. LfeCountedTwice' <=> LfeCountedTwice
    BY <2>1 DEF LfeCountedTwice, Unknown, Named
  <2>3. IF LfeCountedTwice THEN OneOver(c.s) ELSE Agree(c.s)
    BY <2>1 DEF LayoutInv
  <2> QED
    BY <2>1, <2>2, <2>3 DEF LayoutInv, ChannelsAgree, OneChannelTooMany, OneOver, Agree
<1>8. CASE InitEncoder
  <2>1. stage' \in {"encode", "failed"} /\ (stage' = "encode" => Made(ctx', c.s, cpu))
    BY <1>8, EncoderSettings
  <2>2. IF LfeCountedTwice THEN OneOver(c.s) ELSE Agree(c.s)
    BY <1>8 DEF InitEncoder, LayoutInv
  <2>3. LfeCountedTwice' <=> LfeCountedTwice
    BY <1>8 DEF InitEncoder, inputVars, LfeCountedTwice, Unknown, Named
  <2>4. ChannelsAgree' /\ OneChannelTooMany'
    BY <2>1, <2>2, <2>3 DEF Made, Agree, OneOver, ChannelsAgree, OneChannelTooMany
  <2> QED
    BY <2>1, <2>4 DEF LayoutInv
<1>9. CASE HandOver \/ UNCHANGED vars
  <2>1. UNCHANGED <<stage, c, pf, asked, ctx>>
    BY <1>9 DEF HandOver, vars, inputVars
  <2>2. LfeCountedTwice' <=> LfeCountedTwice
    BY <2>1 DEF LfeCountedTwice, Unknown, Named
  <2> QED
    BY <2>1, <2>2 DEF LayoutInv, ChannelsAgree, OneChannelTooMany, OneOver, Agree
<1> QED
  BY <1>2, <1>3, <1>4, <1>5, <1>6, <1>7, <1>8, <1>9 DEF Next

-----------------------------------------------------------------------------
(* No setting that the parser lets through makes aften_encode_init fail on a filter, and
   the bandwidth it decides on is one the format has, for every sample rate, quality and
   bit rate: for whatever the command line and the files say. *)
THEOREM FiltersAlwaysFit == Spec => []FiltersFit
<1>1. SettingsInv => FiltersFit
  BY DEF SettingsInv
<1> QED
  BY <1>1, SettingsInit, SettingsInductive, PTL DEF Spec

(* The transform, the window and the exponents run only code that is compiled in, that the
   processor has and that no nosimd option before or after another ruled out. *)
THEOREM SimdIsAvailable == Spec => []SimdAvailable
<1>1. SettingsInv => SimdAvailable
  BY DEF SettingsInv
<1> QED
  BY <1>1, SettingsInit, SettingsInductive, PTL DEF Spec

(* Whatever mask the file has and whichever of acmod and lfe the user gave, the encoder
   has the channels that acmod and lfe tell the decoder of, but for the one case of
   LfeCountedTwice. *)
THEOREM ChannelsAlwaysAgree == Spec => []ChannelsAgree
<1>1. LayoutInv => ChannelsAgree
  BY DEF LayoutInv
<1>2. SettingsInv /\ LayoutInv /\ [Next]_vars => (SettingsInv /\ LayoutInv)'
  BY SettingsInductive, LayoutInductive
<1> QED
  BY <1>1, <1>2, SettingsInit, LayoutInit, PTL DEF Spec

(* In that case they never agree: the stream tells the decoder of a channel that the
   encoder does not have. *)
THEOREM LfeToldTwice == Spec => []OneChannelTooMany
<1>1. LayoutInv => OneChannelTooMany
  BY DEF LayoutInv
<1>2. SettingsInv /\ LayoutInv /\ [Next]_vars => (SettingsInv /\ LayoutInv)'
  BY SettingsInductive, LayoutInductive
<1> QED
  BY <1>1, <1>2, SettingsInit, LayoutInit, PTL DEF Spec
=============================================================================
