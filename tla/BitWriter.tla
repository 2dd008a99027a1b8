------------------------------ MODULE BitWriter ------------------------------
(* libaften/bitio.c: bits are collected in a 32-bit word and stored to memory four
   bytes at a time.  A word is the sequence of its bits, highest first; buf is the
   memory behind buf_ptr, as bytes, so buf_ptr - buffer is its length.  The frame
   writer always has a buffer, so the NULL case is left out. *)
EXTENDS Integers, Sequences

WordBits == 32
Zeros == [i \in 1 .. WordBits |-> 0]

(* val & ((1U << n) - 1), as n bits. *)
BitsOf(n, val) == [i \in 1 .. n |-> (val \div 2^(n - i)) % 2]

(* (word << n) | the n bits: what leaves the word on the left is lost. *)
ShiftIn(word, bits) == SubSeq(word \o bits, Len(bits) + 1, Len(bits) + WordBits)

(* Byte k of a word, as be2me_32 and a store (or >> 24) put it into memory. *)
ByteOf(word, k) ==
    LET value[i \in 0 .. 8] == IF i = 0 THEN 0 ELSE 2 * value[i - 1] + word[8 * (k - 1) + i]
    IN  value[8]
Bytes(word, n) == [k \in 1 .. n |-> ByteOf(word, k)]

bitwriter_init(len) ==
    [bit_buf |-> Zeros, bit_left |-> WordBits, buf |-> <<>>, len |-> len, eof |-> FALSE]

(* What is left in the word goes out byte by byte; the last one is padded. *)
bitwriter_flushbits(bw) ==
    LET pad == [i \in 1 .. bw.bit_left |-> 0]
        n == (WordBits - bw.bit_left + 7) \div 8
    IN  [bw EXCEPT !.buf = @ \o Bytes(ShiftIn(bw.bit_buf, pad), n),
                   !.bit_left = WordBits, !.bit_buf = Zeros]

(* Mutant: the word that is started keeps one bit too many of the old count. *)
WritebitsOffByOne(bw, bits, val) ==
    LET v == BitsOf(bits, val)
    IN  IF bits = 0 \/ bits > 32 THEN bw
        ELSE IF bits < bw.bit_left
        THEN [bw EXCEPT !.bit_buf = ShiftIn(@, v), !.bit_left = @ - bits]
        ELSE [bw EXCEPT !.buf = @ \o Bytes(ShiftIn(bw.bit_buf, SubSeq(v, 1, bw.bit_left)), 4),
                        !.bit_left = @ + WordBits - bits, !.bit_buf = v \o SubSeq(Zeros, bits + 1, 32)]

(* A field that does not fit ends the word with its first bits and starts the next
   one with all of them: the ones already stored are shifted out again later.
   At the end of the buffer the field is dropped. *)
bitwriter_writebits(bw, bits, val) ==
    LET v == BitsOf(bits, val)
    IN  IF bits = 0 \/ bits > 32 THEN bw
        ELSE IF bits <= bw.bit_left
        THEN [bw EXCEPT !.bit_buf = ShiftIn(@, v), !.bit_left = @ - bits]
        ELSE IF bw.eof THEN bw
        ELSE IF Len(bw.buf) + 3 >= bw.len THEN [bw EXCEPT !.eof = TRUE]
        ELSE [bw EXCEPT !.buf = @ \o Bytes(ShiftIn(bw.bit_buf, SubSeq(v, 1, bw.bit_left)), 4),
                        !.bit_left = @ + WordBits - bits,
                        !.bit_buf = ShiftIn(Zeros, v)]

bitwriter_bitcount(bw) == Len(bw.buf) * 8 + WordBits - bw.bit_left
=============================================================================
