------------------------------ MODULE PcmInput ------------------------------
(* The input of the encoder: pcm/pcm.c over one or several files, from pcm_init
   through reads and seeks to pcm_close.  The files, what is in them, and how a
   program uses the interface (aften.c, util/wavrms.c) are the environment.

   A file is a record: its bytes and whether it is seekable; and, for the properties
   only, where its audio starts, how many samples it has, and their format. *)
EXTENDS PcmHeaders

CONSTANTS Inputs,       \* sets of files that may be opened together
          ReadFormats,  \* what the samples may be converted to
          Asks,         \* how many samples a read may ask for
          Seeks,        \* offsets of seeks, in samples
          Times         \* offsets of seeks, in milliseconds

ASSUME InputAssumption ==
    /\ \A input \in Inputs : Len(input) \in 1 .. PCM_MAX_CHANNELS
    /\ ReadFormats \subseteq Formats
    /\ Asks \subseteq Nat \ {0}

VARIABLES fp_list,      \* the files
          pc,           \* PcmContext
          turn,         \* parity of the turns pcm_init has made
          out,          \* what the last read returned
          at            \* where the next read should start, in samples

vars == <<fp_list, pc, turn, out, at>>

Nothing == [from |-> 0, asked |-> 0, nr |-> 0, samples |-> <<>>]

Init ==
    /\ fp_list \in Inputs
    /\ \E fmt \in ReadFormats, file_format \in {PCM_FORMAT_UNKNOWN, fp_list[1].format} :
         pc = [phase |-> "init", files |-> <<>>, read_format |-> fmt, file_format |-> file_format,
               samples |-> 0, channels |-> 0, ch_mask |-> 0, sample_rate |-> 0]
    /\ turn = 0
    /\ out = Nothing
    /\ at = 0

num_files == Len(fp_list)
Current == Len(pc.files)

-----------------------------------------------------------------------------
(* pcm_init, file by file and chunk by chunk. *)
OpenFile ==
    /\ pc.phase = "init"
    /\ Current < num_files
    /\ Current > 0 => pc.files[Current].phase = "done"
    /\ pc' = [pc EXCEPT !.files = Append(@, pcmfile_init(fp_list[Current + 1], pc.read_format, pc.file_format))]
    /\ turn' = 1 - turn
    /\ UNCHANGED <<fp_list, out, at>>

ReadChunk ==
    /\ pc.phase = "init" /\ Current > 0 /\ pc.files[Current].phase = "chunks"
    /\ pc' = [pc EXCEPT !.files[Current] = read_chunk(fp_list[Current], @)]
    /\ turn' = 1 - turn
    /\ UNCHANGED <<fp_list, out, at>>

(* Several files must be mono; a file that fails ends pcm_init. *)
FileFails ==
    /\ pc.phase = "init" /\ Current > 0
    /\ LET pf == pc.files[Current]
       IN  pf.phase = "error" \/ (pf.phase = "ready" /\ num_files > 1 /\ pf.channels # 1)
    /\ pc' = [pc EXCEPT !.phase = "failed", !.files = <<>>]
    /\ turn' = 1 - turn
    /\ UNCHANGED <<fp_list, out, at>>

SetRate(files, rate) == [i \in DOMAIN files |-> [files[i] EXCEPT !.sample_rate = rate]]

FileOpened ==
    /\ pc.phase = "init" /\ Current > 0 /\ pc.files[Current].phase = "ready"
    /\ num_files = 1 \/ pc.files[Current].channels = 1
    /\ LET last == Current = num_files
           first == pc.files[1]
           done == [pc EXCEPT !.files[Current].phase = "done",
                              !.samples = Most(@, pc.files[Current].samples)]
       IN  pc' = IF ~last THEN done
                 ELSE [done EXCEPT
                         !.phase = "ready",
                         !.files = SetRate(done.files, first.sample_rate),
                         !.sample_rate = first.sample_rate,
                         !.channels = IF num_files = 1 THEN first.channels ELSE num_files,
                         !.ch_mask = IF num_files = 1 THEN first.ch_mask ELSE pcm_get_default_ch_mask(num_files)]
    /\ turn' = 1 - turn
    /\ UNCHANGED <<fp_list, out, at>>

-----------------------------------------------------------------------------
(* What aften.c sets before the first read, and pcm_set_read_format. *)
Fresh == pc.phase = "ready" /\ at = 0 /\ out = Nothing

pcm_set_read_to_eof ==
    /\ Fresh
    /\ pc' = [pc EXCEPT !.files = [i \in DOMAIN pc.files |-> [pc.files[i] EXCEPT !.read_to_eof = TRUE]]]
    /\ UNCHANGED <<fp_list, turn, out, at>>

(* The format a raw file really has, as the user gives it. *)
pcm_set_source_params ==
    /\ Fresh /\ pc.files[1].file_format = PCM_FORMAT_RAW
    /\ LET f == fp_list[1]
           files == [i \in DOMAIN pc.files |->
                        pcmfile_set_source_params(pc.files[i], f.channels, f.fmt, f.order, f.rate)]
       IN  pc' = IF num_files > 1 /\ f.channels # 1 THEN pc
                 ELSE [pc EXCEPT !.files = files, !.sample_rate = f.rate,
                          !.channels = IF num_files = 1 THEN files[1].channels ELSE @,
                          !.ch_mask = IF num_files = 1 THEN pcm_get_default_ch_mask(files[1].channels) ELSE @]
    /\ UNCHANGED <<fp_list, turn, out, at>>

pcm_set_read_format ==
    /\ Fresh
    /\ \E fmt \in ReadFormats :
         pc' = [pc EXCEPT !.read_format = fmt,
                          !.files = [i \in DOMAIN pc.files |-> pcmfile_set_read_format(pc.files[i], fmt)]]
    /\ UNCHANGED <<fp_list, turn, out, at>>

(* CHANNEL_INTERLEAVE_COMMON: the buffer was cleared, so that a channel that ends
   before the others goes on with zeros. *)
Interleaved(reads) ==
    LET nr == CHOOSE n \in {reads[i].nr : i \in DOMAIN reads} : \A i \in DOMAIN reads : n >= reads[i].nr
        Sample(j, i) == IF i <= reads[j].nr THEN reads[j].samples[i] ELSE 0
    IN  [nr |-> nr, samples |-> [k \in 1 .. nr * Len(reads) |->
                                    Sample(((k - 1) % Len(reads)) + 1, ((k - 1) \div Len(reads)) + 1)]]

ReadCrashes(n) ==
    /\ pc.phase = "ready"
    /\ \E i \in DOMAIN pc.files : Overruns(pc.files[i], n)
    /\ pc' = [pc EXCEPT !.phase = "crashed"]
    /\ UNCHANGED <<fp_list, turn, out, at>>

pcm_read_samples(n) ==
    /\ pc.phase = "ready"
    /\ \A i \in DOMAIN pc.files : ~Overruns(pc.files[i], n)
    /\ LET reads == [i \in DOMAIN pc.files |-> pcmfile_read_samples(fp_list[i], pc.files[i], n)]
           block == IF num_files = 1 THEN reads[1] ELSE Interleaved(reads)
       IN  /\ pc' = [pc EXCEPT !.files = [i \in DOMAIN reads |-> reads[i].pf]]
           /\ out' = [from |-> at, asked |-> n, nr |-> block.nr, samples |-> block.samples]
           /\ at' = at + block.nr
    /\ UNCHANGED <<fp_list, turn>>

Total(i) == LET f == fp_list[i]
            IN  IF pc.files[i].read_to_eof THEN f.all ELSE f.total

(* The seeks of a program that reads one file, and where they should lead: "syntax works
   like fseek" (pcmfile.h), within the audio. *)
Aim(offset, whence) ==
    LET total == fp_list[1].claimed
    IN  CASE whence = PCM_SEEK_SET -> Clip(offset, 0, total)
          [] whence = PCM_SEEK_CUR -> Clip(at + offset, 0, total)
          [] whence = PCM_SEEK_END -> Clip(total + offset, 0, total)

(* An offset from the end is taken back from it by the code and added to it by fseek.
   Where the two part, no target is asserted: reading goes on from where the seek led. *)
Reached(pf) == (pf.filepos - pf.data_start) \div pf.block_align
Target(offset, whence, r) ==
    IF whence = PCM_SEEK_END /\ offset # 0 THEN Reached(r.pf) ELSE Aim(offset, whence)

(* A seek that is refused changes nothing.  An input of unknown size is not sought. *)
Moved(r, target) ==
    /\ pc' = [pc EXCEPT !.files = <<r.pf>>]
    /\ at' = IF r.ok /\ pc.files[1].data_size # 0 THEN target ELSE at
    /\ out' = [Nothing EXCEPT !.from = at']
    /\ UNCHANGED <<fp_list, turn>>

SeekSamples(offset, whence) ==
    /\ pc.phase = "ready" /\ num_files = 1
    /\ LET r == pcmfile_seek_samples(fp_list[1], pc.files[1], offset, whence)
       IN  Moved(r, Target(offset, whence, r))

SeekTime(ms) ==
    /\ pc.phase = "ready" /\ num_files = 1
    /\ Moved(pcmfile_seek_time_ms(fp_list[1], pc.files[1], ms, PCM_SEEK_SET),
             Aim((ms * pc.files[1].sample_rate) \div 1000, PCM_SEEK_SET))

pcm_close ==
    /\ pc.phase \in {"ready", "failed"}
    /\ pc' = [pc EXCEPT !.phase = "closed", !.files = <<>>]
    /\ UNCHANGED <<fp_list, turn, out, at>>

Next ==
    \/ OpenFile \/ ReadChunk \/ FileFails \/ FileOpened
    \/ pcm_set_read_to_eof \/ pcm_set_source_params \/ pcm_set_read_format
    \/ \E n \in Asks : pcm_read_samples(n) \/ ReadCrashes(n)
    \/ \E offset \in Seeks, whence \in {PCM_SEEK_SET, PCM_SEEK_CUR, PCM_SEEK_END} : SeekSamples(offset, whence)
    \/ \E ms \in Times : SeekTime(ms)
    \/ pcm_close

(* pcm_init is one call: it goes on turning until it returns. *)
Turning == pc.phase = "init" /\ turn' = 1 - turn

Spec == Init /\ [][Next]_vars /\ WF_turn(Turning)

-----------------------------------------------------------------------------
(* The bytes a file has handed out are those up to filepos: what is buffered is
   exactly what comes next (byteio.c, pcmfile_seek_set).  Only after the end of the
   file may filepos and the stream part. *)
PositionKept ==
    \A i \in DOMAIN pc.files :
        LET io == pc.files[i].io
            filepos == pc.files[i].filepos
        IN  /\ \/ io.fp - io.size = filepos
               \/ io.size = 0 /\ io.fp >= Len(fp_list[i].bytes)
            /\ \A j \in 1 .. io.size : io.buffer[io.index + j] = filepos + j - 1

(* Sample k of channel c of a file, straight from its bytes. *)
TrueSample(f, k, c) ==
    LET width == (fmt_bits[f.fmt] + 7) \div 8
        first == f.start + (k * f.channels + c) * width
    IN  Decoded(f.fmt, f.order, SubSeq(f.bytes, first + 1, first + width))

(* r, in format dst, is the level v has in src: exactly if dst is as fine as src (but
   for a clipped 1.0), and within one step of dst otherwise. *)
SameLevel(src, v, dst, r) ==
    LET finer == Depth(dst) - Depth(src)
        diff == IF finer >= 0 THEN Centred(dst, r) - Centred(src, v) * 2^finer
                ELSE Centred(src, v) - Centred(dst, r) * 2^(-finer)
    IN  IF finer >= 0 THEN diff = 0 \/ (IsFloat(src) /\ diff = -1) ELSE diff \in -(2^(-finer)) .. 2^(-finer)

(* A raw file is read as 16-bit mono until its format is given. *)
AsDescribed ==
    \A i \in DOMAIN pc.files :
        /\ pc.files[i].channels = fp_list[i].channels
        /\ pc.files[i].source_format = fp_list[i].fmt
        /\ pc.files[i].order = fp_list[i].order

(* The header walk of wave_init, aiff_init and caff_init finds the audio that is in
   the file: behind extra, odd and oversized chunks, from a stream as from a file. *)
HeaderUnderstood ==
    pc.phase = "ready" =>
        \A i \in DOMAIN pc.files :
            /\ pc.files[i].file_format = fp_list[i].format
            /\ pc.files[i].data_start = fp_list[i].start
            /\ fp_list[i].format # PCM_FORMAT_RAW => AsDescribed /\ pc.sample_rate = fp_list[1].rate

(* A read returns the samples that follow, channel by channel, whatever the chunks of
   the header, the buffer boundaries, the seeks and the reads before it; it stops
   only at the end of the audio, and files that end early go on in zeros
   (pcm_read_samples, pcmfile_read_samples). *)
SamplesRight ==
    (pc.phase = "ready" /\ AsDescribed /\ out.asked > 0) =>
        LET totals == {Total(i) : i \in DOMAIN pc.files}
            end == CHOOSE n \in totals : \A m \in totals : m <= n
        IN  /\ out.nr = Clip(end - out.from, 0, Least(out.asked, PCM_MAX_READ))
            /\ \A k \in 0 .. out.nr - 1, c \in 0 .. pc.channels - 1 :
                 LET i == IF num_files = 1 THEN 1 ELSE c + 1
                     r == out.samples[k * pc.channels + c + 1]
                 IN  IF out.from + k >= Total(i) THEN r = 0
                     ELSE SameLevel(fp_list[i].fmt, TrueSample(fp_list[i], out.from + k, IF num_files = 1 THEN c ELSE 0),
                                    pc.read_format, r)

(* What pcmfile_position reports is where the next sample comes from. *)
PositionReported ==
    (pc.phase = "ready" /\ AsDescribed /\ pc.files[1].data_start > 0 /\ pc.files[1].data_size > 0) =>
        pcmfile_position(pc.files[1]) = IF num_files = 1 THEN at ELSE Least(at, Total(1))

(* pcm_init finds the audio or reports an error (pcmfile.h: "Returns non-zero value
   if an error occurs"). *)
InitReturns == <>(pc.phase # "init")
=============================================================================
