--------------------------- MODULE MCEncoderSetup ---------------------------
(* Command lines, files and processors for EncoderSetup. *)
EXTENDS EncoderSetup

Opt(opt, val) == [opt |-> opt, val |-> val]
Ch(ch, file) == Opt("ch", [ch |-> ch, file |-> file])
Config(dual, front, rear, lfe) == Opt("chconfig", [dual |-> dual, front |-> front, rear |-> rear, lfe |-> lfe])

FileArgs == {Opt("file", "in"), Opt("file", "out"), Opt("file", Stdin)}
SpeakerArgs == {Ch(chstrs[i], chstrs[i]) : i \in 1 .. A52_NUM_SPEAKERS}

LayoutArgs == {Opt("acmod", 2), Opt("acmod", 7), Opt("acmod", 8), Opt("lfe", 0), Opt("lfe", 1),
               Config(FALSE, 3, 2, TRUE), Config(FALSE, 2, 1, TRUE), Config(TRUE, 0, 0, FALSE), Config(FALSE, 1, 1, FALSE),
               Opt("chmap", 2), Opt("raw_ch", 4), Opt("raw_sr", 11025)}
QualityArgs == {Opt("b", 32), Opt("b", 640), Opt("q", 0), Opt("q", 1023), Opt("w", -2), Opt("w", 60), Opt("wmin", 60),
                Opt("wmax", 0), Opt("bwfilter", 1), Opt("s", 1)}
OtherArgs == {Opt("lfefilter", 1), Opt("dcfilter", 1), Opt("exps", 33), Opt("dmixmod", 1), Opt("threads", 32), Opt("nosimd", {"sse3"}),
              Opt("nosimd", {"mmx", "sse2"}), Opt("help", 2), Opt("?", 0), Opt("raw_fmt", 0)}

(* One file and many options; one file without padding; one per speaker and few options;
   odd mixtures. *)
MCArgs == { FileArgs \cup LayoutArgs \cup QualityArgs \cup OtherArgs,
            {Opt("file", "in"), Opt("file", "out"), Opt("pad", 0), Opt("acmod", 7), Opt("lfe", 1), Opt("chmap", 1),
             Opt("chmap", 2), Opt("raw_ch", 4)},
            SpeakerArgs \cup {Opt("file", "out"), Opt("acmod", 2), Opt("chmap", 2), Opt("raw_fmt", 0), Opt("pad", 0)},
            FileArgs \cup {Ch("fc", Stdin), Ch("fc", "out"), Ch("fl", "fl"), Ch("fr", "fr"), Ch("fr", Stdin), Ch("xx", "xx")} }

Stream(mask, rate) == [channels |-> Cardinality(mask), ch_mask |-> mask, sample_rate |-> rate]
(* Layouts A/52 has, with and without LFE; others with and without; a file without a
   mask; one with seven. *)
Masks == {{2}, {0, 1}, {0, 1, 2, 3}, {0, 1, 3, 8}, {0, 1, 2, 3, 8}, {0, 1, 9, 10}, {0, 1, 3, 4, 5}, {0, 1, 2, 3, 9, 10},
          {0, 1, 6, 7}, {0, 1, 3, 6, 7}, {0, 1, 2, 3, 6, 7}, {0, 1, 31}}
MCStreams == {Stream(mask, 48000) : mask \in Masks} \cup {Stream({2}, rate) : rate \in {16000, 11025, 7000}}
             \cup {Stream({0, 1, 2, 4, 5}, 22050), [Stream(0 .. 2, 44100) EXCEPT !.ch_mask = {}], Stream(0 .. 6, 48000)}

X86 == {"mmx", "sse", "sse2", "sse3", "ssse3"}
MCCpus == {[detect |-> X86, compile |-> X86], [detect |-> {"mmx", "sse"}, compile |-> {"mmx", "sse", "sse2"}]}
=============================================================================
