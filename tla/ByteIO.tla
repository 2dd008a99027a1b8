------------------------------- MODULE ByteIO -------------------------------
(* pcm/byteio.c.  Every byte of a file is named by its offset, so what is read can
   be compared with where it stands.  A context is a record [buffer, index, size,
   fp]: buffer holds offsets, fp is the position of the C stream behind it. *)
EXTENDS Integers, Sequences

CONSTANT BYTEIO_BUFFER_SIZE
ASSUME BufferHoldsProbe == BYTEIO_BUFFER_SIZE \in Nat /\ BYTEIO_BUFFER_SIZE >= 12

Least(a, b) == IF a < b THEN a ELSE b

(* At most n bytes from a stream of len bytes. *)
fread(fp, len, n) == [i \in 1 .. Least(n, IF fp < len THEN len - fp ELSE 0) |-> fp + i - 1]

byteio_flush(io, len) ==
    LET got == fread(io.fp, len, BYTEIO_BUFFER_SIZE)
    IN  [buffer |-> got, index |-> 0, size |-> Len(got), fp |-> io.fp + Len(got)]

byteio_init(len) == byteio_flush([buffer |-> <<>>, index |-> 0, size |-> 0, fp |-> 0], len)

(* What is left moves to the front and the buffer is filled up. *)
byteio_align(io, len) ==
    LET kept == SubSeq(io.buffer, io.index + 1, io.index + io.size)
        got == fread(io.fp, len, BYTEIO_BUFFER_SIZE - io.size)
    IN  [buffer |-> kept \o got, index |-> 0, size |-> io.size + Len(got), fp |-> io.fp + Len(got)]

Buffered(io, n) == SubSeq(io.buffer, io.index + 1, io.index + n)
Consumed(io, n) == [io EXCEPT !.index = @ + n, !.size = @ - n]

(* One turn of the loop in byteio_read: as long as more is wanted than buffered, all
   of it is taken and the buffer is filled again; the end of the file ends the loop. *)
ReadOn(r, len) ==
    LET next == byteio_flush(r.io, len)
    IN  IF r.eof \/ r.n <= r.io.size THEN r
        ELSE [bytes |-> r.bytes \o Buffered(r.io, r.io.size), io |-> next,
              n |-> r.n - r.io.size, eof |-> next.size = 0]

(* The loop starts with nothing read; what is still wanted after it comes out of the
   buffer. *)
FirstTurn(io, n) == [bytes |-> <<>>, io |-> io, n |-> n, eof |-> FALSE]
LastTurn(r) ==
    IF r.eof THEN [bytes |-> r.bytes, io |-> r.io]
    ELSE [bytes |-> r.bytes \o Buffered(r.io, r.n), io |-> Consumed(r.io, r.n)]

(* The buffer is filled with every full block that follows, with what is left and
   with nothing. *)
byteio_read(io, len, n) ==
    LET turns == (len \div BYTEIO_BUFFER_SIZE) + 2
        turn[k \in 0 .. turns] == IF k = 0 THEN FirstTurn(io, n) ELSE ReadOn(turn[k - 1], len)
    IN  LastTurn(turn[turns])

byteio_peek(io, len, n) ==
    LET full == IF n > io.size THEN byteio_align(io, len) ELSE io
    IN  [bytes |-> Buffered(full, Least(n, full.size)), io |-> full]
=============================================================================
