------------------------------- MODULE MCInput -------------------------------
(* Small files for PcmInput. *)
EXTENDS PcmInput

LE(v, n) == [i \in 1 .. n |-> (v \div 2^(8 * (i - 1))) % 256]
BE(v, n) == Reverse(LE(v, n))
LE4(v) == LE(v, 4)
BE4(v) == BE(v, 4)

(* No two samples near each other are equal, and both signs occur. *)
Audio(n) == [k \in 1 .. n |-> (k * 91 + 37) % 256]
Junk(n) == [k \in 1 .. n |-> 255]

(* Audio of n samples behind a header, and what follows it. *)
File(format, head, n, tail, seekable, fmt, channels, order, rate) ==
    LET align == ((fmt_bits[fmt] + 7) \div 8) * channels
        bytes == head \o Audio(n * align) \o tail
    IN  [bytes |-> bytes, seekable |-> seekable, format |-> format, start |-> Len(head), total |-> n,
         all |-> n + (Len(tail) \div align), claimed |-> n, fmt |-> fmt, channels |-> channels, order |-> order, rate |-> rate]

WaveHead(fmt, channels, ext, extra, size) ==
    LE4(RIFF_ID) \o LE4(0) \o LE4(WAVE_ID)
    \o (IF extra > 0 THEN LE4(1) \o LE4(extra) \o Junk(extra) ELSE <<>>)
    \o LE4(FMT__ID) \o LE4(IF ext THEN 40 ELSE 16) \o LE(IF ext THEN WAVE_FORMAT_EXTENSIBLE ELSE IF fmt >= 6 THEN 3 ELSE 1, 2)
    \o LE(channels, 2) \o LE4(2000) \o LE4(0) \o LE(0, 2) \o LE(fmt_bits[fmt], 2)
    \o (IF ext THEN LE4(0) \o LE4(63) \o LE(1, 2) \o Junk(14) ELSE <<>>)
    \o LE4(WAVE_DATA_ID) \o LE4(size)
(* One half, minus one quarter, one, minus three quarters, -2^-20, 2^-20, minus one. *)
Floats == <<0, 0, 0, 63>> \o <<0, 0, 128, 190>> \o <<0, 0, 128, 63>> \o <<0, 0, 64, 191>> \o <<0, 0, 128, 181>>
          \o <<0, 0, 128, 53>> \o <<0, 0, 128, 191>>
Doubles == LE4(0) \o <<0, 0, 224, 63>> \o LE4(0) \o <<0, 0, 208, 191>> \o LE4(0) \o <<0, 0, 232, 191>>
           \o LE4(0) \o <<0, 0, 176, 62>>
WithAudio(f, audio) == [f EXCEPT !.bytes = SubSeq(f.bytes, 1, f.start) \o audio]
Wave(fmt, channels, n, ext, extra, size, tail, seekable) ==
    File(PCM_FORMAT_WAVE, WaveHead(fmt, channels, ext, extra, size), n, tail, seekable, fmt, channels, 0, 2000)

AiffHead(fmt, channels, n, extra, offset) ==
    BE4(FORM_ID) \o BE4(0) \o BE4(AIFF_ID)
    \o BE4(COMM_ID) \o BE4(18) \o BE(channels, 2) \o BE4(n) \o BE(fmt_bits[fmt], 2)
    \o BE(16398 - 4, 2) \o BE(32000, 2) \o BE(0, 2) \o BE4(0)
    \o (IF extra > 0 THEN BE4(1) \o BE4(extra) \o Junk(extra + (extra % 2)) ELSE <<>>)
    \o BE4(SSND_ID) \o BE4(0) \o BE4(offset) \o BE4(0) \o Junk(offset)
Aiff(fmt, channels, n, extra, offset, tail, seekable) ==
    File(PCM_FORMAT_AIFF, AiffHead(fmt, channels, n, extra, offset), n, tail, seekable, fmt, channels, 1, 2000)

CaffHead(fmt, channels, extra, order, size) ==
    BE4(CAFF_ID) \o BE(1, 2) \o BE(0, 2) \o BE4(DESC_ID) \o BE4(0) \o BE4(32)
    \o <<64, 159, 64, 0>> \o BE4(0) \o BE4(LPCM_TAG) \o BE4(IF order = 0 THEN 2 ELSE 0)
    \o BE4(1) \o BE4(1) \o BE4(channels) \o BE4(fmt_bits[fmt])
    \o (IF extra > 0 THEN BE4(1) \o BE4(0) \o BE4(extra) \o Junk(extra) ELSE <<>>)
    \o BE4(CAFF_DATA_ID) \o (IF size < 0 THEN Junk(8) ELSE BE4(0) \o BE4(size)) \o BE4(0)
Caff(fmt, channels, n, extra, order, size, tail, seekable) ==
    File(PCM_FORMAT_CAFF, CaffHead(fmt, channels, extra, order, size), n, tail, seekable, fmt, channels, order, 2000)

Raw(fmt, channels, order, n, seekable) ==
    File(PCM_FORMAT_RAW, <<>>, n, <<>>, seekable, fmt, channels, order, 2000)

(* A stream whose header does not give its length has none until pcm_set_read_to_eof. *)
UnknownLength(f) == [f EXCEPT !.total = 0, !.claimed = 0]

Single == { Wave(2, 2, 5, FALSE, 0, 20, <<1, 2, 3, 4>>, TRUE),
            Wave(2, 2, 5, FALSE, 7, 20, <<1, 2, 3, 4>>, FALSE),
            Wave(4, 1, 7, TRUE, 0, 21, <<>>, TRUE), Wave(4, 2, 5, TRUE, 3, 30, <<9>>, FALSE),
            Wave(0, 3, 4, FALSE, 2, 0, <<>>, FALSE), [Wave(3, 1, 6, FALSE, 0, 99, <<>>, FALSE) EXCEPT !.claimed = 33],
            Wave(5, 1, 5, FALSE, 0, 0, <<>>, TRUE),
            Aiff(1, 1, 9, 3, 0, <<5, 6>>, TRUE), Aiff(2, 1, 6, 0, 4, <<>>, FALSE), Aiff(4, 2, 4, 5, 2, <<>>, TRUE),
            Caff(2, 1, 6, 5, 0, 16, <<1, 2>>, TRUE), Caff(4, 1, 6, 0, 1, -1, <<>>, TRUE),
            Caff(1, 2, 5, 3, 1, 14, <<>>, FALSE), UnknownLength(Caff(2, 1, 6, 0, 0, -1, <<>>, FALSE)),
            WithAudio(Wave(6, 1, 7, FALSE, 0, 28, <<>>, TRUE), Floats),
            WithAudio(Wave(7, 1, 4, FALSE, 0, 32, <<>>, FALSE), Doubles),
            Raw(2, 1, 1, 6, TRUE), Raw(4, 2, 0, 5, FALSE) }
(* Two files here end inside a three-byte sample; the second is never read without a crash
   but to the end of the file. *)
Several == { <<Wave(2, 1, 5, FALSE, 0, 10, <<1, 2>>, TRUE), Wave(4, 1, 3, TRUE, 3, 9, <<>>, FALSE)>>,
             <<Wave(2, 1, 3, FALSE, 0, 6, <<>>, TRUE), Wave(2, 1, 5, FALSE, 0, 10, <<>>, TRUE),
               Wave(0, 1, 4, FALSE, 0, 4, <<>>, TRUE)>>,
             <<Wave(4, 1, 3, FALSE, 0, 10, <<7>>, TRUE), Wave(2, 1, 4, FALSE, 0, 8, <<>>, FALSE)>>,
             <<Wave(4, 1, 1, FALSE, 0, 5, <<7, 8>>, TRUE), Wave(2, 1, 4, FALSE, 0, 8, <<>>, FALSE)>>,
             <<Wave(2, 1, 3, FALSE, 0, 6, <<>>, TRUE), Wave(2, 2, 3, FALSE, 0, 12, <<>>, TRUE)>> }
SmallInputs == {<<f>> : f \in Single} \cup Several

(* Files that end before their audio does. *)
Cut(f, n) == [f EXCEPT !.bytes = SubSeq(f.bytes, 1, n)]
CutInputs == {<<Cut(f, n)>> : f \in {Wave(2, 2, 5, FALSE, 4, 20, <<>>, TRUE), Aiff(2, 1, 6, 0, 4, <<>>, FALSE)},
                              n \in {20, 40}}
SeekRange == -2 .. 4
=============================================================================
