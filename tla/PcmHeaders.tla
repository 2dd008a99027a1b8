----------------------------- MODULE PcmHeaders -----------------------------
(* The file formats: pcm/formats.c, wav.c, aiff.c, caff.c and raw.c.  X_start reads
   what precedes the chunks, X_chunk makes one turn of the chunk loop; the phase of
   pf says how the init function goes on: "chunks", "ready" or "error". *)
EXTENDS PcmFile

Failed(pf) == [pf EXCEPT !.phase = "error"]
Sought(r) == IF r.ok THEN r.pf ELSE Failed(r.pf)

(* Skips n bytes of a chunk, or reports that it cannot. *)
SkipBytes(f, pf, n) == Sought(pcmfile_seek_set(f, pf, pf.filepos + n))

(* A size that is zero stands for the rest of the file, where that is known. *)
DataAt(pf, size) ==
    LET known == pf.seekable /\ pf.file_size > 0
        rest == pf.file_size - pf.filepos
    IN  [pf EXCEPT !.data_start = pf.filepos, !.phase = "ready",
                   !.data_size = IF ~known THEN size ELSE IF size > 0 THEN Least(size, rest) ELSE rest]

(* The formats of a bit width; eight is what 8 bits stand for. *)
FormatOf(bits, float, eight) ==
    CASE bits = 8 -> eight [] bits = 16 -> PCM_SAMPLE_FMT_S16
      [] bits = 20 -> PCM_SAMPLE_FMT_S20 [] bits = 24 -> PCM_SAMPLE_FMT_S24
      [] bits = 32 -> IF float THEN PCM_SAMPLE_FMT_FLT ELSE PCM_SAMPLE_FMT_S32
      [] bits = 64 -> PCM_SAMPLE_FMT_DBL [] OTHER -> -1

-----------------------------------------------------------------------------
RIFF_ID == 1179011410
WAVE_ID == 1163280727
FMT__ID == 544501094
WAVE_DATA_ID == 1635017060
WAVE_FORMAT_PCM == 1
WAVE_FORMAT_IEEEFLOAT == 3
WAVE_FORMAT_EXTENSIBLE == 65534

wave_start(f, pf) ==
    LET w == Words(f, pf, <<4, 4, 4>>)
    IN  IF Little(w.words[1]) # RIFF_ID \/ Little(w.words[3]) # WAVE_ID THEN Failed(pf)
        ELSE [w.pf EXCEPT !.phase = "chunks"]

wave_fmt(f, pf, chunksize) ==
    LET w == Words(f, pf, <<2, 2, 4, 4, 2, 2>>)
        extensible == Little(w.words[1]) = WAVE_FORMAT_EXTENSIBLE /\ chunksize >= 26
        x == Words(f, w.pf, IF extensible THEN <<4, 4, 2>> ELSE <<>>)
        tag == Little(IF extensible THEN x.words[3] ELSE w.words[1])
        channels == Little(w.words[2])
        rate == Little(w.words[3])
        bits == Little(w.words[6])
    IN  IF chunksize < 16 \/ tag \notin {WAVE_FORMAT_PCM, WAVE_FORMAT_IEEEFLOAT}
            \/ channels = 0 \/ rate = 0 \/ bits = 0
        THEN Failed(pf)
        ELSE SkipBytes(f, [x.pf EXCEPT !.channels = channels, !.sample_rate = rate, !.bit_width = bits,
                              !.ch_mask = IF extensible THEN Little(x.words[2]) ELSE pcm_get_default_ch_mask(channels),
                              !.block_align = Most(1, ((bits + 7) \div 8) * channels),
                              !.order = PCM_BYTE_ORDER_LE, !.float = tag = WAVE_FORMAT_IEEEFLOAT,
                              !.found_fmt = TRUE],
                       chunksize - (IF extensible THEN 26 ELSE 16))

(* The data chunk ends the loop, and the format is set from the bit width. *)
wave_data(f, pf, chunksize) ==
    LET at == DataAt([pf EXCEPT !.read_to_eof = @ \/ chunksize = 0], chunksize)
    IN  IF ~pf.found_fmt \/ (pf.bit_width = 64 /\ ~pf.float) THEN Failed(pf)
        ELSE pcmfile_set_source_format(at, FormatOf(pf.bit_width, pf.float, PCM_SAMPLE_FMT_U8))

wave_chunk(f, pf) ==
    LET h == Words(f, pf, <<4, 4>>)
        id == Little(h.words[1])
        chunksize == Little(h.words[2])
    IN  CASE id = FMT__ID -> wave_fmt(f, h.pf, chunksize)
          [] id = WAVE_DATA_ID -> wave_data(f, h.pf, chunksize)
          [] OTHER -> IF chunksize > 0 THEN SkipBytes(f, h.pf, chunksize) ELSE h.pf

-----------------------------------------------------------------------------
FORM_ID == 1179603533
AIFF_ID == 1095321158
COMM_ID == 1129270605
SSND_ID == 1397968452

(* An 80-bit float with the upper 16 bits of its mantissa: exact for whole sample rates
   below 65536.  The sign negates the unsigned mantissa.  What no int holds, and
   infinity and NaN, the code or the cast to int makes zero or negative: 0 stands for
   it, and is refused alike. *)
ext2dbl(b) ==
    LET e == (b[1] % 128) * 256 + b[2]
        mantissa == b[3] * 256 + b[4]
        m == IF b[1] >= 128 THEN (65536 - mantissa) % 65536 ELSE mantissa
    IN  IF e <= 16398 THEN m \div 2^Least(16398 - e, 16)
        ELSE IF e <= 16413 THEN m * 2^(e - 16398)
        ELSE 0

aiff_start(f, pf) ==
    LET w == Words(f, pf, <<4, 4, 4>>)
    IN  IF Big(w.words[1]) # FORM_ID \/ Big(w.words[3]) # AIFF_ID THEN Failed(pf)
        ELSE [w.pf EXCEPT !.phase = "chunks"]

(* Mutant: chunks of odd size are not padded. *)
NotPadded(n) == n

Even(n) == n + (n % 2)

(* numSampleFrames is unsigned. *)
Frames(b) == Unsigned(Big(b))

aiff_comm(f, pf, chunksize) ==
    LET w == Words(f, pf, <<2, 4, 2, 10>>)
        channels == Big(w.words[1])
        bits == Big(w.words[3])
        rate == ext2dbl(w.words[4])
    IN  IF chunksize < 18 \/ channels = 0 \/ rate <= 0 \/ bits = 0 THEN Failed(pf)
        ELSE SkipBytes(f, [w.pf EXCEPT !.channels = channels, !.samples = Frames(w.words[2]),
                              !.bit_width = bits, !.sample_rate = rate, !.found_fmt = TRUE,
                              !.block_align = Most(1, ((bits + 7) \div 8) * channels)],
                       Even(chunksize - 18))

(* The rest of a file is unsigned too: past its end nothing is cut off. *)
aiff_ssnd(f, pf) ==
    LET w == Words(f, pf, <<4, 4>>)
        sought == SkipBytes(f, w.pf, Big(w.words[1]))
        size == pf.block_align * pf.samples
        rest == pf.file_size - sought.filepos
        at == [sought EXCEPT !.data_start = sought.filepos, !.phase = "ready",
                  !.data_size = IF pf.seekable /\ pf.file_size > 0 /\ rest >= 0 THEN Least(size, rest) ELSE size]
    IN  IF ~pf.found_fmt \/ sought.phase = "error" \/ pf.bit_width \notin {8, 16, 20, 24, 32} THEN Failed(pf)
        ELSE pcmfile_set_source_params(at, pf.channels, FormatOf(pf.bit_width, FALSE, PCM_SAMPLE_FMT_S8),
                                       PCM_BYTE_ORDER_BE, pf.sample_rate)

aiff_chunk(f, pf) ==
    LET h == Words(f, pf, <<4, 4>>)
        id == Big(h.words[1])
        chunksize == Big(h.words[2])
    IN  CASE id = COMM_ID -> aiff_comm(f, h.pf, chunksize)
          [] id = SSND_ID -> aiff_ssnd(f, h.pf)
          [] OTHER -> IF Even(chunksize) > 0 THEN SkipBytes(f, h.pf, Even(chunksize)) ELSE h.pf

-----------------------------------------------------------------------------
CAFF_ID == 1667327590
DESC_ID == 1684370275
CAFF_DATA_ID == 1684108385
LPCM_TAG == 1819304813

(* A 64-bit size, as a signed number: all ones, which stands for a size that is not
   known, is -1.  What four bytes cannot hold is more than any file has. *)
Big8(b) ==
    LET high == Big(SubSeq(b, 1, 4))
        low == Big(SubSeq(b, 5, 8))
    IN  IF high = (IF low < 0 THEN -1 ELSE 0) THEN low
        ELSE IF high < 0 THEN -NoFileIsLonger ELSE NoFileIsLonger

(* Mutant: the hidden bit of the mantissa is forgotten. *)
NoHiddenBit(b) ==
    LET e == (b[1] % 128) * 16 + (b[2] \div 16)
    IN  IF e < 1023 THEN 0 ELSE ((b[2] % 16) * 2^16 + b[3] * 256 + b[4]) \div 2^(1043 - e)

(* An IEEE double with the upper 20 bits of its mantissa: exact for whole sample rates
   below 2^20.  What no int holds is cast to a negative number: 0 stands for it, and is
   refused alike. *)
read_dbl(b) ==
    LET e == (b[1] % 128) * 16 + (b[2] \div 16)
        m == 2^20 + (b[2] % 16) * 2^16 + b[3] * 256 + b[4]
        v == IF e \in 1023 .. 1043 THEN m \div 2^(1043 - e)
             ELSE IF e \in 1044 .. 1053 THEN m * 2^(e - 1043) ELSE 0
    IN  IF b[1] >= 128 THEN -v ELSE v

caff_start(f, pf) ==
    LET w == Words(f, pf, <<4, 2, 2, 4, 8, 8, 4, 4, 4, 4, 4, 4>>)
        flags == Big(w.words[8])
        float == flags % 2 = 1
        align == Big(w.words[9])
        channels == Big(w.words[11])
        bits == Big(w.words[12])
        rate == read_dbl(w.words[6])
    IN  IF \/ Big(w.words[1]) # CAFF_ID \/ Big(w.words[2]) # 1
           \/ Big(w.words[4]) # DESC_ID \/ Big8(w.words[5]) # 32
           \/ rate < 1 \/ align < 1 \/ channels \notin 1 .. PCM_MAX_CHANNELS
           \/ Big(w.words[7]) # LPCM_TAG \/ (bits = 64 /\ ~float)
        THEN Failed(pf)
        ELSE pcmfile_set_source_format(
                 [w.pf EXCEPT !.phase = "chunks", !.channels = channels, !.sample_rate = rate, !.float = float,
                     !.ch_mask = pcm_get_default_ch_mask(channels),
                     !.order = IF (flags \div 2) % 2 = 1 THEN PCM_BYTE_ORDER_LE ELSE PCM_BYTE_ORDER_BE],
                 FormatOf(bits, float, PCM_SAMPLE_FMT_S8))

(* The size is unsigned: below zero it is long, and a skip by it goes back. *)
caff_chunk(f, pf) ==
    LET h == Words(f, pf, <<4, 8>>)
        chunksize == Big8(h.words[2])
        edit == Words(f, h.pf, <<4>>).pf
        at == DataAt(edit, chunksize - 4)
    IN  CASE Big(h.words[1]) = CAFF_DATA_ID -> [at EXCEPT !.samples = Unsigned(at.data_size \div at.block_align)]
          [] OTHER -> IF chunksize # 0 THEN SkipBytes(f, h.pf, chunksize) ELSE h.pf

-----------------------------------------------------------------------------
raw_init(f, pf) ==
    pcmfile_set_source_params(
        [pf EXCEPT !.data_size = IF pf.seekable /\ pf.file_size > 0 THEN pf.file_size ELSE 0,
                   !.read_to_eof = TRUE, !.phase = "ready"],
        1, PCM_SAMPLE_FMT_S16, PCM_BYTE_ORDER_LE, 48000)

(* wave_probe, aiff_probe, caff_probe and raw_probe on the 12 bytes that
   pcmfile_probe_format is given; raw takes what no other format claims. *)
pcmfile_probe_format(b) ==
    CASE Little(SubSeq(b, 1, 4)) = RIFF_ID /\ Little(SubSeq(b, 9, 12)) = WAVE_ID -> PCM_FORMAT_WAVE
      [] Big(SubSeq(b, 1, 4)) = FORM_ID /\ Big(SubSeq(b, 9, 12)) = AIFF_ID -> PCM_FORMAT_AIFF
      [] Big(SubSeq(b, 1, 4)) = CAFF_ID /\ b[5] = 0 /\ b[6] = 1 -> PCM_FORMAT_CAFF
      [] OTHER -> PCM_FORMAT_RAW

(* pcmfile_init; the bytes a short file leaves of probe_data are taken for zero. *)
pcmfile_init(f, read_format, file_format) ==
    LET new == PcmFileOf(f, read_format)
        peek == byteio_peek(new.io, Len(f.bytes), 12)
        probe_data == [i \in 1 .. 12 |-> IF i <= Len(peek.bytes) THEN f.bytes[peek.bytes[i] + 1] ELSE 0]
        unknown == file_format = PCM_FORMAT_UNKNOWN
        format == IF unknown THEN pcmfile_probe_format(probe_data) ELSE file_format
        pf == [new EXCEPT !.file_format = format, !.io = IF unknown THEN peek.io ELSE @]
    IN  CASE format = PCM_FORMAT_RAW -> raw_init(f, pf)
          [] format = PCM_FORMAT_WAVE -> wave_start(f, pf)
          [] format = PCM_FORMAT_AIFF -> aiff_start(f, pf)
          [] format = PCM_FORMAT_CAFF -> caff_start(f, pf)

read_chunk(f, pf) ==
    CASE pf.file_format = PCM_FORMAT_WAVE -> wave_chunk(f, pf)
      [] pf.file_format = PCM_FORMAT_AIFF -> aiff_chunk(f, pf)
      [] pf.file_format = PCM_FORMAT_CAFF -> caff_chunk(f, pf)
=============================================================================
