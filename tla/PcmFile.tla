------------------------------- MODULE PcmFile -------------------------------
(* One input file: pcm/pcmfile.c, pcm/pcm_io.c and the setters of
   pcm/pcm_convert.c.  f is the file (its bytes, and whether it can be sought in),
   pf the PcmFile that reads it; operators return what the C functions store. *)
EXTENDS ByteIO, SampleFormat, SequencesExt

CONSTANTS INT32_MAX, PCM_MAX_READ

PCM_FORMAT_UNKNOWN == -1
PCM_FORMAT_RAW == 0
PCM_FORMAT_WAVE == 1
PCM_FORMAT_AIFF == 2
PCM_FORMAT_CAFF == 3
PCM_MAX_CHANNELS == 6
PCM_SEEK_SET == 0
PCM_SEEK_CUR == 1
PCM_SEEK_END == 2
PCM_BYTE_ORDER_LE == 0
PCM_BYTE_ORDER_BE == 1

(* Sizes, counts and positions that are more than any file holds: what a negative
   number is as a uint64_t. *)
NoFileIsLonger == 2^30
Unsigned(n) == IF n < 0 THEN NoFileIsLonger ELSE n

Most(a, b) == IF a > b THEN a ELSE b
Clip(v, lo, hi) == Most(lo, Least(v, hi))

(* Byte sequences as integers.  A word of four is an int, so the ids and sizes of
   the headers keep their sign. *)
Wrap(u, bits) == LET m == u % 2^bits IN IF m >= 2^(bits - 1) THEN m - 2^bits ELSE m
Little(b) ==
    LET B(i) == IF i <= Len(b) THEN b[i] ELSE 0
    IN  B(1) + B(2) * 256 + B(3) * 2^16 + Wrap(B(4), 8) * 2^24
Ordered(order, b) == IF order = PCM_BYTE_ORDER_BE THEN Little(Reverse(b)) ELSE Little(b)
Big(b) == Ordered(PCM_BYTE_ORDER_BE, b)

pcm_get_default_ch_mask(channels) ==
    IF channels \in 1 .. 6 THEN <<4, 3, 259, 263, 55, 63>>[channels] ELSE 0

(* A run of read2le, read4le, read2be, read4be, read8be and readext.  It leaves the
   buffer as one read of all the bytes does.  A word the file does not hold any more
   is zero and does not move filepos, whatever was consumed; so are those after it. *)
Ends(sizes) ==
    LET end[k \in 0 .. Len(sizes)] == IF k = 0 THEN 0 ELSE end[k - 1] + sizes[k]
    IN  end
Words(f, pf, sizes) ==
    LET end == Ends(sizes)
        got == byteio_read(pf.io, Len(f.bytes), end[Len(sizes)])
        whole == {k \in DOMAIN end : end[k] <= Len(got.bytes)}
        last == CHOOSE k \in whole : \A m \in whole : m <= k
    IN  [words |-> [k \in DOMAIN sizes |->
                       [i \in 1 .. sizes[k] |->
                           IF k \in whole THEN f.bytes[got.bytes[end[k - 1] + i] + 1] ELSE 0]],
         pf |-> [pf EXCEPT !.io = got.io, !.filepos = @ + end[last]]]

-----------------------------------------------------------------------------
pcmfile_set_source_format(pf, fmt) ==
    LET source == Clip(fmt, PCM_SAMPLE_FMT_U8, PCM_SAMPLE_FMT_DBL)
        align == Most(1, ((fmt_bits[source] + 7) \div 8) * pf.channels)
    IN  [pf EXCEPT !.source_format = source, !.float = IsFloat(source), !.bit_width = fmt_bits[source],
                   !.block_align = align, !.samples = Unsigned(pf.data_size \div align)]

pcmfile_set_source_params(pf, ch, fmt, order, sr) ==
    pcmfile_set_source_format(
        [pf EXCEPT !.channels = Most(ch, 1), !.ch_mask = pcm_get_default_ch_mask(ch),
                   !.order = Clip(order, PCM_BYTE_ORDER_LE, PCM_BYTE_ORDER_BE),
                   !.sample_rate = Most(sr, 1)], fmt)

pcmfile_set_read_format(pf, fmt) ==
    pcmfile_set_source_format(
        [pf EXCEPT !.read_format = Clip(fmt, PCM_SAMPLE_FMT_U8, PCM_SAMPLE_FMT_DBL)], pf.source_format)

(* The part of pcmfile_init before the format is known. *)
PcmFileOf(f, read_format) ==
    [filepos |-> 0, io |-> byteio_init(Len(f.bytes)), seekable |-> f.seekable, read_to_eof |-> FALSE,
     file_size |-> IF f.seekable THEN Len(f.bytes) ELSE 0, data_start |-> 0, data_size |-> 0,
     samples |-> 0, order |-> 0, channels |-> 0, ch_mask |-> 0, sample_rate |-> 0, block_align |-> 0,
     bit_width |-> 0, source_format |-> 0, read_format |-> read_format, file_format |-> -1,
     float |-> FALSE, found_fmt |-> FALSE, phase |-> "header"]

-----------------------------------------------------------------------------
(* fseek moves the stream, not the buffer: SEEK_CUR counts from io.fp. *)
Fseek(pf, fp) == [pf EXCEPT !.io.fp = fp]
Flushed(f, pf) == [pf EXCEPT !.io = byteio_flush(@, Len(f.bytes))]

(* Mutant: the block that was buffered before the seek is kept. *)
SeekKeepsBuffer(f, pf, dest) == [ok |-> dest >= 0, pf |-> [Fseek(pf, dest) EXCEPT !.filepos = dest]]

(* Within the first INT32_MAX bytes the seek is absolute, then relative, then by
   reading on; a stream can only be read on.  fseek refuses what lies before the file.
   The destination is unsigned: below zero it is far, and a stream is read on to its
   end.  A slow seek reads in pieces of 1024 bytes, which leaves the buffer as one long
   read does. *)
pcmfile_seek_set(f, pf, to) ==
    LET dest == IF pf.seekable THEN to ELSE Unsigned(to)
        offset == dest - pf.filepos
        far == dest \notin 0 .. INT32_MAX
        reach == offset \in -INT32_MAX - 1 .. INT32_MAX
        target == IF far THEN pf.io.fp + offset ELSE dest
        slow == ~pf.seekable \/ (far /\ ~reach)
        refused == IF slow THEN dest < pf.filepos ELSE target < 0
        sought == IF ~pf.seekable THEN pf ELSE Flushed(f, IF slow THEN pf ELSE Fseek(pf, target))
    IN  IF refused THEN [ok |-> FALSE, pf |-> pf]
        ELSE [ok |-> TRUE,
              pf |-> [sought EXCEPT !.filepos = dest,
                          !.io = IF slow THEN byteio_read(@, Len(f.bytes), offset).io ELSE @]]

(* Mutant: an offset from the end counts from the end of the file. *)
SeekFromFileEnd(f, pf, offset, whence) ==
    pcmfile_seek_set(f, pf, CASE whence = PCM_SEEK_END -> Len(f.bytes) - Clip(offset * pf.block_align, 0, pf.data_size)
                              [] OTHER -> pf.data_start + Clip(offset * pf.block_align, 0, pf.data_size))

pcmfile_seek_samples(f, pf, offset, whence) ==
    LET bytes == offset * pf.block_align
        end == pf.data_start + pf.data_size
        newpos == CASE whence = PCM_SEEK_SET -> pf.data_start + Clip(bytes, 0, pf.data_size)
                    [] whence = PCM_SEEK_CUR ->
                         Least(pf.filepos - Least(-bytes, pf.filepos - pf.data_start), end)
                    [] whence = PCM_SEEK_END -> end - Clip(bytes, 0, pf.data_size)
    IN  IF pf.block_align <= 0 \/ pf.filepos < pf.data_start THEN [ok |-> FALSE, pf |-> pf]
        ELSE IF pf.data_size = 0 THEN [ok |-> TRUE, pf |-> pf]
        ELSE pcmfile_seek_set(f, pf, newpos)

pcmfile_seek_time_ms(f, pf, ms, whence) ==
    LET samples == ms * pf.sample_rate
    IN  pcmfile_seek_samples(f, pf, IF samples >= 0 THEN samples \div 1000 ELSE -((-samples) \div 1000), whence)

pcmfile_position(pf) ==
    IF pf.data_start = 0 \/ pf.data_size = 0 THEN 0
    ELSE (pf.filepos - pf.data_start) \div pf.block_align

pcmfile_position_time_ms(pf) == (pcmfile_position(pf) * 1000) \div pf.sample_rate

-----------------------------------------------------------------------------
(* Mutant: the sample is not extended by its sign. *)
WidenUnsigned(pf, gap, buf, j) ==
    LET at == gap + 3 * j
        v == Ordered(pf.order, <<buf[at], buf[at + 1], buf[at + 2]>>)
    IN  [k \in DOMAIN buf |-> IF k \div 4 = j THEN (v \div 2^(8 * (k % 4))) % 256 ELSE buf[k]]

(* Three-byte samples are widened in place: the bytes read lie at the end of a
   buffer of four bytes a sample, and each sample written must not reach the bytes
   of one not yet read.  The gap before the bytes is never negative: see Overruns. *)
WidenAt(pf, gap, buf, j) ==
    LET at == gap + 3 * j
        v == Wrap(Ordered(pf.order, <<buf[at], buf[at + 1], buf[at + 2]>>), pf.bit_width)
    IN  [k \in DOMAIN buf |-> IF k \div 4 = j THEN (v \div 2^(8 * (k % 4))) % 256 ELSE buf[k]]
Widened(pf, bytes, bytes_needed, buffer_size, nsmp) ==
    LET gap == buffer_size - bytes_needed
        raw == [k \in 0 .. buffer_size |-> IF k - gap + 1 \in DOMAIN bytes THEN bytes[k - gap + 1] ELSE 0]
        wide == FoldLeft(LAMBDA buf, j : WidenAt(pf, gap, buf, j), raw, [j \in 1 .. nsmp |-> j - 1])
    IN  [j \in 1 .. nsmp |-> Little(<<wide[4 * j - 4], wide[4 * j - 3], wide[4 * j - 2], wide[4 * j - 1]>>)]

(* IEEE floats and doubles of magnitude at most one, in the units of SampleFormat:
   the mantissa with its hidden bit, scaled by the exponent. *)
FloatOf(b) ==
    LET e == (b[4] % 128) * 2 + (b[3] \div 128)
        m == 2^23 + (b[3] % 128) * 2^16 + b[2] * 256 + b[1]
        v == IF e < 104 THEN 0 ELSE m \div 2^(127 - e)
    IN  IF b[4] >= 128 THEN -v ELSE v
DoubleOf(b) ==
    LET e == (b[8] % 128) * 16 + (b[7] \div 16)
        m == 2^20 + (b[7] % 16) * 2^16 + b[6] * 256 + b[5]
        v == IF e < 992 THEN 0 ELSE IF e < 1012 THEN m \div 2^(1012 - e) ELSE m * 2^(e - 1012)
    IN  IF b[8] >= 128 THEN -v ELSE v

(* The value of a sample in the file, after the byte swap its order calls for. *)
Decoded(fmt, order, bytes) ==
    LET native == IF order = PCM_BYTE_ORDER_BE THEN Reverse(bytes) ELSE bytes
    IN  CASE fmt = PCM_SAMPLE_FMT_FLT -> FloatOf(native)
          [] fmt = PCM_SAMPLE_FMT_DBL -> DoubleOf(native)
          [] fmt \in {PCM_SAMPLE_FMT_U8, PCM_SAMPLE_FMT_S32} -> Little(native)
          [] OTHER -> Wrap(Little(native), fmt_bits[fmt])

(* The gap buffer_size - bytes_needed is a uint32_t.  When three-byte audio ends inside
   a sample and few samples are left it wraps, and bytes are stored 4 GB behind the
   buffer: the process dies. *)
Overruns(pf, asked) ==
    LET left == pf.data_start + pf.data_size - pf.filepos
        num_samples == left \div pf.block_align
    IN  /\ ~pf.read_to_eof
        /\ pf.block_align * Least(asked, PCM_MAX_READ) >= left
        /\ pf.block_align \div pf.channels = 3
        /\ num_samples > 0
        /\ left > num_samples * 4 * pf.channels

pcmfile_read_samples(f, pf, asked) ==
    LET wanted == Least(asked, PCM_MAX_READ)
        left == pf.data_start + pf.data_size - pf.filepos
        limited == ~pf.read_to_eof /\ pf.block_align * wanted >= left
        bytes_needed == IF limited THEN left ELSE pf.block_align * wanted
        num_samples == IF limited THEN left \div pf.block_align ELSE wanted
        bps == pf.block_align \div pf.channels
        buffer_size == IF bps # 3 THEN bytes_needed ELSE num_samples * 4 * pf.channels
        got == byteio_read(pf.io, Len(f.bytes), bytes_needed)
        bytes == [i \in DOMAIN got.bytes |-> f.bytes[got.bytes[i] + 1]]
        nr == Len(bytes) \div pf.block_align
        raw == IF bps = 3 THEN Widened(pf, bytes, bytes_needed, buffer_size, nr * pf.channels)
               ELSE [j \in 1 .. nr * pf.channels |->
                        Decoded(pf.source_format, pf.order, SubSeq(bytes, (j - 1) * bps + 1, j * bps))]
    IN  IF num_samples <= 0 THEN [nr |-> 0, samples |-> <<>>, pf |-> pf]
        ELSE [nr |-> nr,
              samples |-> [j \in DOMAIN raw |-> fmt_convert(pf.source_format, pf.read_format, raw[j])],
              pf |-> [pf EXCEPT !.io = got.io, !.filepos = @ + Len(bytes)]]
=============================================================================
