----------------------------- MODULE CommandLine -----------------------------
(* The command line of aften (aften/opts.c).  An argument is an option together with
   its parameter, already read as a number where the option takes one; "?" stands for
   an unknown option, a parameter that is missing and one that cannot be read. *)
EXTENDS EncoderInit, SequencesExt

A52_NUM_SPEAKERS == 9

(* The options that set one integer, and its range. *)
options_list ==
    [acmod |-> 0 .. 7, adconvtyp |-> 0 .. 1, b |-> 0 .. 640, bwfilter |-> 0 .. 1, chmap |-> 0 .. 2,
     cmix |-> 0 .. 2, dcfilter |-> 0 .. 1, dheadphon |-> 0 .. 2, dmixmod |-> 0 .. 2, dnorm |-> 0 .. 31,
     dsur |-> 0 .. 2, dsurexmod |-> 0 .. 2, dynrng |-> 0 .. 5, exps |-> 1 .. 32, fba |-> 0 .. 1,
     lfe |-> 0 .. 1, lfefilter |-> 0 .. 1, lorocmix |-> 0 .. 7, lorosmix |-> 0 .. 7, ltrtcmix |-> 0 .. 7,
     ltrtsmix |-> 0 .. 7, m |-> 0 .. 1, pad |-> 0 .. 1, q |-> 0 .. 1023, raw_ch |-> 1 .. 6,
     raw_sr |-> 1 .. 48000, readtoeof |-> 0 .. 1, s |-> 0 .. 1, smix |-> 0 .. 2,
     threads |-> 0 .. MAX_NUM_THREADS, v |-> 0 .. 2, w |-> -2 .. 60, wmax |-> 0 .. 60, wmin |-> 0 .. 60,
     xbsi1 |-> 0 .. 1, xbsi2 |-> 0 .. 1]

OfXbsi1 == {"dmixmod", "lorocmix", "lorosmix", "ltrtcmix", "ltrtsmix"}
OfXbsi2 == {"dheadphon", "dsurexmod"}
OfRaw == {"raw_ch", "raw_sr"}

NoFile == "no file"
Stdin == "-"

(* PrivateOptions.  The mask of the speakers is the set of their positions in chstrs. *)
priv_init == [found_output |-> FALSE, single_input |-> FALSE, multi_input |-> FALSE,
              empty_params |-> 0, input_mask |-> {}]

(* What parse_commandline starts with, and the settings of aften_set_defaults. *)
opts_init == [chmap |-> 0, num_input_files |-> 0, infile |-> [i \in 0 .. A52_NUM_SPEAKERS - 1 |-> NoFile],
              outfile |-> NoFile, pad |-> 1, readtoeof |-> 0, raw_input |-> FALSE,
              raw_sr |-> 48000, raw_ch |-> 1]

(* A command line as far as it is parsed; ret is what the parser returns: 0 to go on,
   1 for an error, 2 to 4 for help and the version. *)
Error(c) == [c EXCEPT !.ret = 1]

(* Not a value of the parser: it reads a name through a null pointer. *)
Crashed == -1

parse_integer_value(c, name, val) ==
    IF val \notin options_list[name] THEN Error(c)
    ELSE IF name \in DOMAIN c.s THEN [c EXCEPT !.s[name] = val]
    ELSE [c EXCEPT !.opts[name] = val]

(* parse_raw_option, parse_xbsi1_opt and parse_xbsi2_opt: what the option turns on. *)
Implied(c, name) ==
    CASE name \in OfXbsi1 -> [c EXCEPT !.s.xbsi1 = 1]
      [] name \in OfXbsi2 -> [c EXCEPT !.s.xbsi2 = 1]
      [] name \in OfRaw -> [c EXCEPT !.opts.raw_input = TRUE]
      [] OTHER -> c

parse_simple_int(c, name, val) == parse_integer_value(Implied(c, name), name, val)
parse_q(c, val) == parse_integer_value([c EXCEPT !.s.encoding_mode = "VBR"], "q", val)

parse_help(c, ret) == [c EXCEPT !.ret = ret]
parse_nosimd(c, names) == [c EXCEPT !.s.wanted_simd_instructions = @ \ names]
parse_raw_fmt(c) == [c EXCEPT !.opts.raw_input = TRUE]

parse_chconfig(c, cfg) ==
    LET config == IF cfg.lfe THEN [c EXCEPT !.s.lfe = 1] ELSE c
    IN  IF cfg.dual THEN [config EXCEPT !.s.acmod = 0]
        ELSE IF cfg.front \notin 1 .. 3 \/ cfg.rear \notin 0 .. 2 \/ (cfg.front < 2 /\ cfg.rear # 0) THEN Error(c)
        ELSE [config EXCEPT !.s.acmod = cfg.front + 2 * cfg.rear]

chstrs == <<"fl", "fc", "fr", "sl", "s", "sr", "m1", "m2", "lfe">>

(* A channel that is not in chstrs takes no file, but counts as one. *)
parse_ch(c, ch, file) ==
    LET n == {i \in 0 .. A52_NUM_SPEAKERS - 1 : chstrs[i + 1] = ch}
    IN  IF c.priv.single_input \/ (n \cap c.priv.input_mask) # {} THEN Error(c)
        ELSE [c EXCEPT !.priv.input_mask = @ \cup n, !.priv.multi_input = TRUE,
                       !.opts.infile = [i \in DOMAIN @ |-> IF i \in n THEN file ELSE @[i]],
                       !.opts.num_input_files = @ + 1]

(* The first name is the output, until a second one makes it the input. *)
parse_file(c, name) ==
    LET found == [c EXCEPT !.priv.empty_params = @ + 1, !.opts.outfile = name]
    IN  CASE c.priv.empty_params = 0 -> [found EXCEPT !.priv.found_output = TRUE]
          [] c.priv.empty_params = 1 /\ ~c.priv.multi_input ->
                [found EXCEPT !.priv.single_input = TRUE, !.opts.infile[0] = c.opts.outfile,
                              !.opts.num_input_files = 1]
          [] OTHER -> Error(c)

parse(c, arg) ==
    CASE arg.opt = "file" -> parse_file(c, arg.val)
      [] arg.opt = "ch" -> parse_ch(c, arg.val.ch, arg.val.file)
      [] arg.opt = "chconfig" -> parse_chconfig(c, arg.val)
      [] arg.opt = "nosimd" -> parse_nosimd(c, arg.val)
      [] arg.opt = "raw_fmt" -> parse_raw_fmt(c)
      [] arg.opt = "help" -> parse_help(c, arg.val)
      [] arg.opt = "?" -> Error(c)
      [] arg.opt = "q" -> parse_q(c, arg.val)
      [] OTHER -> parse_simple_int(c, arg.opt, arg.val)

-----------------------------------------------------------------------------
(* Where infile[i] ends when it moves down over the gaps below it. *)
MoveDown(infile, i) ==
    LET free == {j \in 0 .. i : \A k \in j .. i - 1 : infile[k] = NoFile}
        to == CHOOSE j \in free : \A k \in free : j <= k
    IN  IF infile[i] = NoFile THEN infile
        ELSE [infile EXCEPT ![i] = NoFile, ![to] = infile[i]]

(* The acmod of a set of speakers, -1 if A/52 has none. *)
MaskToAcmod(mask) ==
    CASE mask = {6, 7} -> 0
      [] mask = {1} -> 1
      [] mask = {0, 2} -> 2
      [] mask = {0, 1, 2} -> 3
      [] mask = {0, 2, 4} -> 4
      [] mask = {0, 1, 2, 4} -> 5
      [] mask = {0, 2, 3, 5} -> 6
      [] mask = {0, 1, 2, 3, 5} -> 7
      [] OTHER -> -1

validate_input_files(c) ==
    LET acmod == MaskToAcmod(c.priv.input_mask \ {8})
    IN  IF acmod < 0 THEN Error(c)
        ELSE [c EXCEPT !.s.acmod = acmod, !.s.lfe = IF 8 \in c.priv.input_mask THEN 1 ELSE 0,
                       !.opts.infile = FoldLeft(MoveDown, @, [i \in 1 .. A52_NUM_SPEAKERS - 1 |-> i]),
                       !.opts.chmap = 1]

(* The checks at the end of parse_commandline.  The files stand first: "-" is found among
   them before an option -ch_ with an unknown name, which counted a file too many, is. *)
finish(c) ==
    LET v == IF c.priv.multi_input THEN validate_input_files(c) ELSE c
        named == {v.opts.infile[i] : i \in 0 .. c.opts.num_input_files - 1}
    IN  IF c.priv.single_input = c.priv.multi_input THEN Error(c)
        ELSE IF c.opts.num_input_files \notin 1 .. 6 THEN Error(c)
        ELSE IF ~c.priv.found_output \/ v.ret # 0 THEN Error(c)
        ELSE IF c.opts.num_input_files > 1 /\ Stdin \in named THEN Error(c)
        ELSE IF NoFile \in named THEN [c EXCEPT !.ret = Crashed]
        ELSE IF v.opts.outfile \in named \ {Stdin} THEN Error(c)
        ELSE v
=============================================================================
