--------------------------- MODULE PcmInput_proofs ---------------------------
(***************************************************************************)
(* Where a PCM file stands (PcmInput!PositionKept), for every buffer size, *)
(* every set of inputs and every sequence of reads and seeks.              *)
(*                                                                         *)
(* The argument goes up through the layers of src/pcm.  byteio_read is a   *)
(* loop, so it is proved by induction over its turns, from the least       *)
(* element of a set of numbers.  IoOK says that the buffer holds the bytes *)
(* before the stream's position; Stands adds filepos; Kept, Opened and     *)
(* PfOK add what a header may say of its file, for every chunk of every    *)
(* format; InputInv puts the files of an input together.  A seek leads     *)
(* where it should because the audio of an opened file lies inside the     *)
(* file (Opened), and a read keeps step because a short read ends at the   *)
(* end of the file (ReadRight).                                            *)
(***************************************************************************)
EXTENDS PcmInput, SequenceTheorems, WellFoundedInduction, TLAPS

-----------------------------------------------------------------------------
(* Induction over the natural numbers, from the least element of a set.    *)

\* A set of natural numbers that is not empty has a least one.
LEMMA LeastOf ==
    ASSUME NEW T \in SUBSET Nat, T # {}
    PROVE  \E m \in T : \A k \in T : m <= k
<1> DEFINE R == {ss \in Nat \X Nat : ss[1] < ss[2]}
<1>1. IsWellFoundedOn(R, Nat)
  BY NatLessThanWellFounded, Zenon DEF OpToRel
<1> HIDE DEF R
<1>2. PICK m \in T : \A k \in T : ~(<<k, m>> \in R)
  BY <1>1, WFMin, Zenon
<1>3. ASSUME NEW k \in T PROVE m <= k
  <2>1. ~(<<k, m>> \in R)
    BY <1>2
  <2>2. k \in Nat /\ m \in Nat /\ ~(k < m)
    BY <2>1 DEF R
  <2> QED
    BY <2>2
<1> QED
  BY <1>3

\* A set with zero and the successor of each member holds every number.
LEMMA Induction ==
    ASSUME NEW S \in SUBSET Nat, 0 \in S, \A n \in S : n + 1 \in S
    PROVE  S = Nat
<1> SUFFICES ASSUME Nat \ S # {} PROVE FALSE
  OBVIOUS
<1>1. PICK m \in Nat \ S : \A k \in Nat \ S : m <= k
  BY LeastOf
<1>2. m # 0 /\ m - 1 \in Nat
  BY <1>1
<1>3. m - 1 \in S
  BY <1>1, <1>2
<1> QED
  BY <1>1, <1>2, <1>3

\* Numbers below a bound have a greatest one.
LEMMA GreatestOf ==
    ASSUME NEW bound \in Nat, NEW T \in SUBSET (0 .. bound), T # {}
    PROVE  \E m \in T : \A k \in T : k <= m
<1> DEFINE U == {d \in 0 .. bound : bound - d \in T}
<1>1. U \in SUBSET Nat
  OBVIOUS
<1>2. U # {}
  <2>1. PICK t \in T : TRUE
    OBVIOUS
  <2>2. bound - t \in 0 .. bound /\ bound - (bound - t) = t
    OBVIOUS
  <2>3. bound - t \in U
    BY <2>2
  <2> QED
    BY <2>3
<1>3. PICK d \in U : \A e \in U : d <= e
  BY <1>1, <1>2, LeastOf
<1>4. ASSUME NEW k \in T PROVE k <= bound - d
  <2>1. bound - k \in 0 .. bound /\ bound - (bound - k) = k
    OBVIOUS
  <2>2. bound - k \in U
    BY <2>1
  <2>3. d <= bound - k /\ d \in 0 .. bound
    BY <1>3, <2>2
  <2> QED
    BY <2>3
<1> QED
  BY <1>3, <1>4

-----------------------------------------------------------------------------
(* byteio.c.                                                               *)

\* The bytes s of a file, each named by its offset, are those from position p on.
Follow(s, p) == \A i \in 1 .. Len(s) : s[i] = p + i - 1

\* The bytes that are buffered are the last ones before the stream's position.
Holds(io) == \A j \in 1 .. io.size : io.buffer[io.index + j] = (io.fp - io.size) + j - 1

\* The buffer of a file of len bytes holds bytes of the file, the last of them just
\* before the stream's position.
IoOK(io, len) ==
    /\ io \in [buffer : Seq(0 .. len - 1), index : Nat, size : Nat, fp : Nat]
    /\ io.index + io.size <= Len(io.buffer)
    /\ io.size <= io.fp
    /\ io.size > 0 => io.fp <= len
    /\ Holds(io)

\* The position in the file of the next byte that a read takes.
At(io) == io.fp - io.size

\* A stream past its end has nothing buffered.
LEMMA PastTheEnd ==
    ASSUME NEW len \in Nat, NEW io, IoOK(io, len), At(io) >= len
    PROVE  io.size = 0 /\ io.fp >= len
  BY DEF IoOK, At

\* fread gives bytes of the file, as many as there are.
LEMMA FreadFacts ==
    ASSUME NEW fp \in Nat, NEW len \in Nat, NEW n \in Nat
    PROVE  /\ fread(fp, len, n) \in Seq(0 .. len - 1)
           /\ Len(fread(fp, len, n)) = Least(n, IF fp < len THEN len - fp ELSE 0)
           /\ Follow(fread(fp, len, n), fp)
<1> DEFINE m == Least(n, IF fp < len THEN len - fp ELSE 0)
<1>1. m \in Nat /\ \A i \in 1 .. m : fp + i - 1 \in 0 .. len - 1
  BY DEF Least
<1>2. fread(fp, len, n) = [i \in 1 .. m |-> fp + i - 1]
  BY DEF fread
<1> HIDE DEF m
<1>3. [i \in 1 .. m |-> fp + i - 1] \in [1 .. m -> 0 .. len - 1]
  BY <1>1
<1>4. /\ [i \in 1 .. m |-> fp + i - 1] \in Seq(0 .. len - 1)
      /\ Len([i \in 1 .. m |-> fp + i - 1]) = m
  BY <1>1, <1>3, IsASeq, LenProperties
<1>5. Follow([i \in 1 .. m |-> fp + i - 1], fp)
  BY <1>4 DEF Follow
<1> QED
  BY <1>2, <1>4, <1>5 DEF m

\* Bytes that follow, and after them bytes that follow them.
LEMMA FollowOn ==
    ASSUME NEW S, NEW s \in Seq(S), NEW t \in Seq(S), NEW p \in Int, Follow(s, p), Follow(t, p + Len(s))
    PROVE  Follow(s \o t, p)
<1> DEFINE a == Len(s)
           b == Len(t)
           st == s \o t
<1>1. /\ a \in Nat /\ b \in Nat /\ Len(st) = a + b
      /\ \A i \in 1 .. a + b : st[i] = IF i <= a THEN s[i] ELSE t[i - a]
  BY LenProperties, ConcatProperties
<1>2. (\A i \in 1 .. a : s[i] = p + i - 1) /\ (\A i \in 1 .. b : t[i] = (p + a) + i - 1)
  BY DEF Follow
<1> HIDE DEF a, b, st
<1>3. ASSUME NEW i \in 1 .. a + b PROVE st[i] = p + i - 1
  <2>1. CASE i <= a
    BY <1>1, <1>2, <2>1
  <2>2. CASE ~(i <= a)
    <3>1. i - a \in 1 .. b /\ (p + a) + (i - a) - 1 = p + i - 1
      BY <1>1, <2>2
    <3> QED
      BY <1>1, <1>2, <2>2, <3>1
  <2> QED
    BY <2>1, <2>2
<1>4. \A i \in 1 .. Len(st) : st[i] = p + i - 1
  BY <1>1, <1>3
<1> QED
  BY <1>4 DEF Follow, st

\* The buffer is filled with a block, with the rest of the file, or with nothing.
LEMMA FlushFacts ==
    ASSUME NEW len \in Nat, NEW io, io.fp \in Nat
    PROVE  LET next == byteio_flush(io, len)
           IN  /\ IoOK(next, len) /\ At(next) = io.fp
               /\ next.size = 0 <=> io.fp >= len
               /\ next.size # 0 => next.fp <= len
               /\ next.size = BYTEIO_BUFFER_SIZE \/ next.fp >= len
               /\ next.size <= BYTEIO_BUFFER_SIZE
<1> DEFINE got == fread(io.fp, len, BYTEIO_BUFFER_SIZE)
<1>1. BYTEIO_BUFFER_SIZE \in Nat /\ BYTEIO_BUFFER_SIZE > 0
  BY BufferHoldsProbe
<1>2. got \in Seq(0 .. len - 1) /\ Len(got) \in Nat /\ Follow(got, io.fp)
      /\ Len(got) = Least(BYTEIO_BUFFER_SIZE, IF io.fp < len THEN len - io.fp ELSE 0)
  <2>1. /\ got \in Seq(0 .. len - 1) /\ Follow(got, io.fp)
        /\ Len(got) = Least(BYTEIO_BUFFER_SIZE, IF io.fp < len THEN len - io.fp ELSE 0)
    BY <1>1, FreadFacts
  <2> HIDE DEF got
  <2> QED
    BY <2>1, LenProperties
<1> DEFINE next == byteio_flush(io, len)
<1>3. next = [buffer |-> got, index |-> 0, size |-> Len(got), fp |-> io.fp + Len(got)]
  BY DEF byteio_flush
<1> HIDE DEF got, next
<1>4. /\ next.buffer = got /\ next.index = 0 /\ next.size = Len(got)
      /\ next.fp = io.fp + Len(got)
      /\ next \in [buffer : Seq(0 .. len - 1), index : Nat, size : Nat, fp : Nat]
  BY <1>2, <1>3
<1>5. Len(got) = IF io.fp < len
                   THEN IF BYTEIO_BUFFER_SIZE < len - io.fp THEN BYTEIO_BUFFER_SIZE
                        ELSE len - io.fp
                   ELSE 0
  BY <1>1, <1>2 DEF Least
<1>6. IoOK(next, len) /\ At(next) = io.fp
  <2>1. Holds(next)
    BY <1>2, <1>4 DEF Holds, Follow
  <2> QED
    BY <1>1, <1>2, <1>4, <1>5, <2>1 DEF IoOK, At
<1>7. /\ next.size = 0 <=> io.fp >= len
      /\ next.size # 0 => next.fp <= len
      /\ next.size = BYTEIO_BUFFER_SIZE \/ next.fp >= len
      /\ next.size <= BYTEIO_BUFFER_SIZE
  BY <1>1, <1>2, <1>4, <1>5
<1> QED
  BY <1>6, <1>7 DEF next

\* The turns of the loop in byteio_read, one after the other.
Turns(g, first, len, m) ==
    g = [k \in 0 .. m |-> IF k = 0 THEN first ELSE ReadOn(g[k - 1], len)]

\* There are such turns, as many as are asked for.
LEMMA TurnsExist ==
    ASSUME NEW first, NEW len, NEW m \in Nat
    PROVE  \E g : Turns(g, first, len, m)
<1> DEFINE S == {n \in Nat : \E g : Turns(g, first, len, n)}
<1>1. 0 \in S
  <2> DEFINE g == [k \in 0 .. 0 |-> first]
  <2>1. g = [k \in 0 .. 0 |-> IF k = 0 THEN first ELSE ReadOn(g[k - 1], len)]
    OBVIOUS
  <2>2. Turns(g, first, len, 0)
    BY <2>1 DEF Turns
  <2> QED
    BY <2>2
<1>2. ASSUME NEW n \in S PROVE n + 1 \in S
  <2>1. PICK g : Turns(g, first, len, n)
    OBVIOUS
  <2> DEFINE h == [k \in 0 .. n + 1 |-> IF k = n + 1 THEN ReadOn(g[n], len) ELSE g[k]]
  <2>2. /\ n \in Nat
        /\ \A k \in 0 .. n : g[k] = IF k = 0 THEN first ELSE ReadOn(g[k - 1], len)
    BY <2>1 DEF Turns
  <2>3. ASSUME NEW k \in 0 .. n + 1
        PROVE  h[k] = IF k = 0 THEN first ELSE ReadOn(h[k - 1], len)
    <3>1. CASE k = n + 1
      <4>1. h[k] = ReadOn(g[n], len) /\ h[k - 1] = g[n] /\ k # 0
        BY <2>2, <3>1
      <4> QED
        BY <4>1
    <3>2. CASE k # n + 1
      <4>1. k \in 0 .. n /\ h[k] = g[k] /\ (k # 0 => h[k - 1] = g[k - 1])
        BY <2>2, <3>2
      <4> QED
        BY <2>2, <4>1
    <3> QED
      BY <3>1, <3>2
  <2>4. h = [k \in 0 .. n + 1 |-> h[k]]
    OBVIOUS
  <2> HIDE DEF h
  <2>5. h = [k \in 0 .. n + 1 |-> IF k = 0 THEN first ELSE ReadOn(h[k - 1], len)]
    BY <2>3, <2>4
  <2>6. Turns(h, first, len, n + 1)
    BY <2>5 DEF Turns
  <2> QED
    BY <2>2, <2>6
<1>3. S = Nat
  <2> HIDE DEF S
  <2>1. S \in SUBSET Nat
    BY DEF S
  <2> QED
    BY <1>1, <1>2, <2>1, Induction
<1> QED
  BY <1>3

\* What is read so far: all bytes before the position, and n more to come.
Reading(r, io, len, n) ==
    /\ r \in [bytes : Seq(0 .. len - 1), n : Nat, eof : BOOLEAN,
              io : [buffer : Seq(0 .. len - 1), index : Nat, size : Nat, fp : Nat]]
    /\ IoOK(r.io, len)
    /\ At(r.io) = At(io) + Len(r.bytes)
    /\ Len(r.bytes) + r.n = n
    /\ Len(r.bytes) > 0 => At(r.io) <= len
    /\ r.eof => At(r.io) >= len
    /\ Follow(r.bytes, At(io))

\* The n elements of s after element j.
IsPiece(t, s, j, n) == \A i \in 1 .. n : t[i] = s[j + i]

\* A piece of a sequence.
LEMMA PieceFacts ==
    ASSUME NEW S, NEW s \in Seq(S), NEW j \in Nat, NEW n \in Nat, j + n <= Len(s)
    PROVE  /\ SubSeq(s, j + 1, j + n) \in Seq(S) /\ Len(SubSeq(s, j + 1, j + n)) = n
           /\ IsPiece(SubSeq(s, j + 1, j + n), s, j, n)
<1> DEFINE lo == j + 1
           hi == j + n
<1>1. Len(s) \in Nat /\ \A i \in 1 .. Len(s) : s[i] \in S
  BY LenProperties, ElementOfSeq
<1>2. \A i \in j + 1 .. j + n : i \in 1 .. Len(s)
  BY <1>1
<1>3. lo \in Int /\ hi \in Int /\ \A i \in lo .. hi : s[i] \in S
  BY <1>1, <1>2
<1>4. n = IF lo <= hi THEN hi - lo + 1 ELSE 0
  OBVIOUS
<1> HIDE DEF lo, hi
<1>5. SubSeq(s, lo, hi) \in Seq(S) /\ Len(SubSeq(s, lo, hi)) = IF lo <= hi THEN hi - lo + 1 ELSE 0
  BY <1>3, SubSeqProperties
<1>6. IsPiece(SubSeq(s, lo, hi), s, j, n)
  <2>1. \A i \in 1 .. hi - lo + 1 : SubSeq(s, lo, hi)[i] = s[lo + i - 1]
    BY <1>3, SubSeqProperties
  <2>2. hi - lo + 1 = n /\ \A i \in 1 .. n : lo + i - 1 = j + i
    BY DEF lo, hi
  <2> QED
    BY <2>1, <2>2 DEF IsPiece
<1> QED
  BY <1>4, <1>5, <1>6, Zenon DEF lo, hi

\* What is taken from the buffer is in the file.
LEMMA BufferedFacts ==
    ASSUME NEW len \in Nat, NEW io, IoOK(io, len), NEW n \in Nat, n <= io.size
    PROVE  /\ Buffered(io, n) \in Seq(0 .. len - 1) /\ Len(Buffered(io, n)) = n
           /\ Follow(Buffered(io, n), At(io))
           /\ IoOK(Consumed(io, n), len) /\ At(Consumed(io, n)) = At(io) + n
<1>1. /\ io.buffer \in Seq(0 .. len - 1) /\ io.index \in Nat /\ io.size \in Nat
      /\ io.index + io.size <= Len(io.buffer)
      /\ io \in [buffer : Seq(0 .. len - 1), index : Nat, size : Nat, fp : Nat]
  BY DEF IoOK
<1>2. /\ Buffered(io, n) \in Seq(0 .. len - 1) /\ Len(Buffered(io, n)) = n
      /\ IsPiece(Buffered(io, n), io.buffer, io.index, n)
  <2> DEFINE S == 0 .. len - 1
  <2>1. io.buffer \in Seq(S) /\ io.index \in Nat /\ io.index + n <= Len(io.buffer)
    BY <1>1
  <2> HIDE DEF S
  <2>2. /\ SubSeq(io.buffer, io.index + 1, io.index + n) \in Seq(S)
        /\ Len(SubSeq(io.buffer, io.index + 1, io.index + n)) = n
        /\ IsPiece(SubSeq(io.buffer, io.index + 1, io.index + n), io.buffer, io.index, n)
    BY <2>1, PieceFacts, ZenonT(40)
  <2> QED
    BY <2>2, Zenon DEF Buffered, S
<1>7. Follow(Buffered(io, n), At(io))
  <2>1. \A i \in 1 .. n : Buffered(io, n)[i] = io.buffer[io.index + i]
    BY <1>2 DEF IsPiece
  <2>2. \A i \in 1 .. n : io.buffer[io.index + i] = At(io) + i - 1
    BY <1>1 DEF IoOK, Holds, At
  <2> QED
    BY <1>2, <2>1, <2>2 DEF Follow
<1>3. Consumed(io, n) = [io EXCEPT !.index = io.index + n, !.size = io.size - n]
  BY DEF Consumed
<1> DEFINE c == Consumed(io, n)
<1>6. io.index + n \in Nat /\ io.size - n \in Nat
  BY <1>1
<1>4. /\ c \in [buffer : Seq(0 .. len - 1), index : Nat, size : Nat, fp : Nat]
      /\ c.buffer = io.buffer /\ c.fp = io.fp
      /\ c.index = io.index + n /\ c.size = io.size - n
  BY <1>1, <1>3, <1>6
<1> HIDE DEF c
<1>5. IoOK(c, len) /\ At(c) = At(io) + n
  <2>1. Holds(c)
    <3> SUFFICES ASSUME NEW j \in 1 .. c.size
                 PROVE  c.buffer[c.index + j] = (c.fp - c.size) + j - 1
      BY DEF Holds
    <3>1. io.fp \in Nat /\ n + j \in 1 .. io.size
      BY <1>1, <1>4 
    <3>2. io.buffer[io.index + (n + j)] = (io.fp - io.size) + (n + j) - 1
      BY <3>1 DEF IoOK, Holds
    <3>4. io.index \in Nat /\ io.size \in Nat /\ j \in Int
      BY <1>1, <1>4, <1>6
    <3>3. io.index + (n + j) = c.index + j /\ (io.fp - io.size) + (n + j) - 1 = (c.fp - c.size) + j - 1
      <4>1. c.index = io.index + n /\ c.size = io.size - n /\ c.fp = io.fp
        BY <1>4
      <4>2. /\ io.index + (n + j) = (io.index + n) + j
            /\ (io.fp - io.size) + (n + j) - 1 = (io.fp - (io.size - n)) + j - 1
        BY <3>1, <3>4
      <4> QED
        BY <4>1, <4>2, Zenon
    <3> QED
      BY <1>4, <3>2, <3>3
  <2> QED
    BY <1>1, <1>4, <2>1, SMTT(30) DEF IoOK, At
<1> QED
  BY <1>2, <1>5, <1>7 DEF c

\* A turn of the loop keeps what is read so far, and ends it or reads on.
LEMMA TurnKeeps ==
    ASSUME NEW len \in Nat, NEW io, IoOK(io, len), NEW n \in Nat,
           NEW r, Reading(r, io, len, n)
    PROVE  /\ Reading(ReadOn(r, len), io, len, n)
           /\ ~(r.eof \/ r.n <= r.io.size) =>
                  \/ ReadOn(r, len).eof
                  \/ /\ r.io.fp < len
                     /\ \/ ReadOn(r, len).io.fp = r.io.fp + BYTEIO_BUFFER_SIZE
                        \/ ReadOn(r, len).io.fp >= len
           /\ r.eof \/ r.n <= r.io.size => ReadOn(r, len) = r
<1>1. CASE r.eof \/ r.n <= r.io.size
  <2>1. ReadOn(r, len) = r
    BY <1>1 DEF ReadOn
  <2> QED
    BY <1>1, <2>1
<1>2. CASE ~(r.eof \/ r.n <= r.io.size)
  <2> DEFINE next == byteio_flush(r.io, len)
             took == Buffered(r.io, r.io.size)
             q == ReadOn(r, len)
  <2>1. q = [bytes |-> r.bytes \o took, io |-> next, n |-> r.n - r.io.size, eof |-> next.size = 0]
    BY <1>2 DEF ReadOn
  <2>2. /\ r.bytes \in Seq(0 .. len - 1) /\ r.n \in Nat /\ r.io.size \in Nat /\ r.io.fp \in Nat
        /\ IoOK(r.io, len) /\ At(r.io) = At(io) + Len(r.bytes) /\ Len(r.bytes) + r.n = n
        /\ r.io.size <= r.io.size /\ (Len(r.bytes) > 0 => At(r.io) <= len)
        /\ (r.io.size > 0 => r.io.fp <= len) /\ r.io.size <= r.io.fp
    BY DEF Reading, IoOK
  <2>3. took \in Seq(0 .. len - 1) /\ Len(took) = r.io.size /\ Follow(took, At(r.io))
    BY <2>2, BufferedFacts, Zenon
  <2>4. /\ IoOK(next, len) /\ At(next) = r.io.fp
        /\ next.size = 0 <=> r.io.fp >= len
        /\ next.size # 0 => next.fp <= len
        /\ next.size = BYTEIO_BUFFER_SIZE \/ next.fp >= len
    BY <2>2, FlushFacts, Zenon
  <2>5. next \in [buffer : Seq(0 .. len - 1), index : Nat, size : Nat, fp : Nat]
    BY <2>4 DEF IoOK
  <2> HIDE DEF took, next
  <2>6. r.bytes \o took \in Seq(0 .. len - 1) /\ Len(r.bytes \o took) = Len(r.bytes) + Len(took)
    BY <2>2, <2>3, ConcatProperties
  <2>7. q.bytes = r.bytes \o took /\ q.io = next /\ q.n = r.n - r.io.size /\ q.eof = (next.size = 0)
    BY <2>1
  <2>8. q \in [bytes : Seq(0 .. len - 1), n : Nat, eof : BOOLEAN,
              io : [buffer : Seq(0 .. len - 1), index : Nat, size : Nat, fp : Nat]]
    <3>1. r.n - r.io.size \in Nat
      BY <1>2, <2>2
    <3>2. (next.size = 0) \in BOOLEAN
      OBVIOUS
    <3> HIDE DEF q
    <3> QED
      BY <2>1, <2>5, <2>6, <3>1, <3>2
  <2> HIDE DEF q
  <2>9. At(next) = At(io) + Len(q.bytes) /\ Len(q.bytes) + q.n = n
    <3>1. Len(r.bytes) \in Nat /\ At(io) \in Int
      BY <2>2, LenProperties DEF IoOK, At
    <3>2. At(r.io) = r.io.fp - r.io.size
      BY DEF At
    <3>3. Len(q.bytes) = Len(r.bytes) + r.io.size
      BY <2>3, <2>6, <2>7, Zenon
    <3>4. /\ r.n \in Nat /\ r.io.size \in Nat /\ r.io.fp \in Nat
          /\ At(r.io) = At(io) + Len(r.bytes) /\ Len(r.bytes) + r.n = n /\ At(next) = r.io.fp
          /\ q.n = r.n - r.io.size
      BY <2>2, <2>4, <2>7, Zenon
    <3>5. Len(q.bytes) + q.n = n
      BY <3>1, <3>3, <3>4
    <3>6. r.io.fp = At(io) + Len(q.bytes)
      <4>1. r.io.fp - r.io.size = At(io) + Len(r.bytes)
        BY <3>2, <3>4, Zenon
      <4>2. r.io.fp = At(io) + (Len(r.bytes) + r.io.size)
        BY <3>1, <3>4, <4>1, SMTT(30)
      <4> QED
        BY <3>3, <4>2, Zenon
    <3> QED
      BY <3>4, <3>5, <3>6
  <2>10. q.eof => At(q.io) >= len
    BY <2>4, <2>7
  <2>13. Len(q.bytes) > 0 => At(q.io) <= len
    <3>1. Len(q.bytes) = Len(r.bytes) + r.io.size /\ Len(r.bytes) \in Nat
      BY <2>2, <2>3, <2>6, <2>7, LenProperties, Zenon
    <3>2. CASE r.io.size > 0
      BY <2>2, <2>4, <2>7, <3>2
    <3>3. CASE r.io.size = 0
      <4>1. At(r.io) = r.io.fp
        BY <2>2, <3>3 DEF At
      <4>2. Len(q.bytes) > 0 => Len(r.bytes) > 0
        BY <3>1, <3>3
      <4> QED
        BY <2>2, <2>4, <2>7, <4>1, <4>2, Zenon
    <3> QED
      BY <2>2, <3>2, <3>3
  <2>14. Follow(q.bytes, At(io))
    <3>1. Follow(r.bytes, At(io)) /\ At(io) \in Int
      BY DEF Reading, IoOK, At
    <3>2. Follow(took, At(io) + Len(r.bytes))
      BY <2>2, <2>3, Zenon
    <3> QED
      BY <2>2, <2>3, <2>7, <3>1, <3>2, FollowOn
  <2>11. Reading(q, io, len, n)
    BY <2>4, <2>7, <2>8, <2>9, <2>10, <2>13, <2>14 DEF Reading
  <2>12. q.eof \/ (r.io.fp < len /\ (q.io.fp = r.io.fp + BYTEIO_BUFFER_SIZE \/ q.io.fp >= len))
    <3>1. next.fp \in Nat /\ next.size \in Nat /\ r.io.fp \in Nat
      BY <2>2, <2>5
    <3>2. next.fp - next.size = r.io.fp
      BY <2>4 DEF At
    <3>3. next.fp = r.io.fp + next.size
      BY <3>1, <3>2
    <3>4. q.eof \/ r.io.fp < len
      <4>1. next.size = 0 \/ r.io.fp < len
        BY <2>4, <3>1
      <4>2. next.size = 0 => q.eof
        BY <2>7, Zenon
      <4> QED
        BY <4>1, <4>2, Zenon
    <3>5. q.io.fp = r.io.fp + BYTEIO_BUFFER_SIZE \/ q.io.fp >= len
      BY <2>4, <2>7, <3>3, Zenon
    <3> QED
      BY <3>4, <3>5
  <2> QED
    BY <1>2, <2>11, <2>12 DEF q
<1> QED
  BY <1>1, <1>2

\* byteio_read is its turns.
LEMMA ReadIsTurns ==
    ASSUME NEW io, NEW len, NEW n, NEW m \in Nat, m = (len \div BYTEIO_BUFFER_SIZE) + 2
    PROVE  \E g : /\ Turns(g, FirstTurn(io, n), len, m)
                  /\ byteio_read(io, len, n) = LastTurn(g[m])
<1> DEFINE g == CHOOSE t : t = [k \in 0 .. m |-> IF k = 0 THEN FirstTurn(io, n) ELSE ReadOn(t[k - 1], len)]
<1>1. Turns(g, FirstTurn(io, n), len, m)
  <2>1. \E t : Turns(t, FirstTurn(io, n), len, m)
    BY TurnsExist
  <2>2. \E t : t = [k \in 0 .. m |-> IF k = 0 THEN FirstTurn(io, n) ELSE ReadOn(t[k - 1], len)]
    BY <2>1, Zenon DEF Turns
  <2>3. g = [k \in 0 .. m |-> IF k = 0 THEN FirstTurn(io, n) ELSE ReadOn(g[k - 1], len)]
    BY <2>2, Zenon
  <2> QED
    BY <2>3, Zenon DEF Turns
<1>2. byteio_read(io, len, n) = LastTurn(g[m])
  BY Zenon DEF byteio_read
<1> QED
  BY <1>1, <1>2

\* The loop is over.
Over(r) == r.eof \/ r.n <= r.io.size

\* The blocks of a file are more than its bytes.
LEMMA BlocksCover ==
    ASSUME NEW len \in Nat, NEW k \in Nat, k = len \div BYTEIO_BUFFER_SIZE
    PROVE  (k + 1) * BYTEIO_BUFFER_SIZE >= len
<1>1. BYTEIO_BUFFER_SIZE \in Nat /\ BYTEIO_BUFFER_SIZE > 0
  BY BufferHoldsProbe
<1>2. len = BYTEIO_BUFFER_SIZE * k + (len % BYTEIO_BUFFER_SIZE)
      /\ len % BYTEIO_BUFFER_SIZE \in 0 .. BYTEIO_BUFFER_SIZE - 1
  BY <1>1
<1>3. (k + 1) * BYTEIO_BUFFER_SIZE = BYTEIO_BUFFER_SIZE * k + BYTEIO_BUFFER_SIZE
  BY <1>1
<1> QED
  BY <1>1, <1>2, <1>3

\* The loop of byteio_read comes to its end: every turn reads a block, the rest or nothing.
LEMMA TurnsEnd ==
    ASSUME NEW len \in Nat, NEW io, IoOK(io, len), NEW n \in Nat,
           NEW m \in Nat, m = (len \div BYTEIO_BUFFER_SIZE) + 2,
           NEW g, Turns(g, FirstTurn(io, n), len, m)
    PROVE  Reading(g[m], io, len, n) /\ Over(g[m])
<1>0. BYTEIO_BUFFER_SIZE \in Nat /\ BYTEIO_BUFFER_SIZE > 0
  BY BufferHoldsProbe
<1> DEFINE Far(k) == \/ Over(g[k]) \/ g[k].io.fp >= k * BYTEIO_BUFFER_SIZE \/ g[k].io.fp >= len
           S == {k \in Nat : k <= m => Reading(g[k], io, len, n) /\ Far(k)}
<1>1. /\ g[0] = FirstTurn(io, n)
      /\ \A k \in Nat : k + 1 <= m => g[k + 1] = ReadOn(g[k], len)
  <2>1. \A k \in 0 .. m : g[k] = IF k = 0 THEN FirstTurn(io, n) ELSE ReadOn(g[k - 1], len)
    BY Zenon DEF Turns
  <2>2. 0 \in 0 .. m
    OBVIOUS
  <2>3. \A k \in Nat : k + 1 <= m => k + 1 \in 0 .. m /\ k + 1 # 0 /\ (k + 1) - 1 = k
    OBVIOUS
  <2> QED
    BY <2>1, <2>2, <2>3
<1>2. 0 \in S
  <2>1. Reading(FirstTurn(io, n), io, len, n)
    <3>1. /\ FirstTurn(io, n).bytes = <<>> /\ FirstTurn(io, n).io = io
          /\ FirstTurn(io, n).n = n /\ FirstTurn(io, n).eof = FALSE
      BY DEF FirstTurn
    <3>2. io \in [buffer : Seq(0 .. len - 1), index : Nat, size : Nat, fp : Nat] /\ At(io) \in Int
      BY DEF IoOK, At
    <3>3. FirstTurn(io, n) \in [bytes : Seq(0 .. len - 1), n : Nat, eof : BOOLEAN,
              io : [buffer : Seq(0 .. len - 1), index : Nat, size : Nat, fp : Nat]]
      BY <3>2 DEF FirstTurn
    <3>4. Len(<<>>) = 0
      OBVIOUS
    <3>5. At(io) = At(io) + 0 /\ 0 + n = n /\ ~(0 > 0)
      BY <3>2
    <3>6. Follow(<<>>, At(io))
      BY <3>4 DEF Follow
    <3> QED
      BY <3>1, <3>3, <3>4, <3>5, <3>6, Zenon DEF Reading
  <2>2. io.fp >= 0 * BYTEIO_BUFFER_SIZE
    BY <1>0 DEF IoOK
  <2>3. FirstTurn(io, n).io = io
    BY DEF FirstTurn
  <2> QED
    BY <1>1, <2>1, <2>2, <2>3
<1>3. ASSUME NEW k \in S PROVE k + 1 \in S
  <2>1. k \in Nat /\ k + 1 \in Nat
    OBVIOUS
  <2>2. SUFFICES ASSUME k + 1 <= m PROVE Reading(g[k + 1], io, len, n) /\ Far(k + 1)
    BY <2>1
  <2>3. Reading(g[k], io, len, n) /\ Far(k)
    BY <2>1, <2>2
  <2>4. g[k + 1] = ReadOn(g[k], len)
    BY <1>1, <2>1, <2>2
  <2>5. /\ Reading(g[k + 1], io, len, n)
        /\ ~Over(g[k]) => \/ g[k + 1].eof
                         \/ /\ g[k].io.fp < len
                            /\ \/ g[k + 1].io.fp = g[k].io.fp + BYTEIO_BUFFER_SIZE
                               \/ g[k + 1].io.fp >= len
        /\ Over(g[k]) => g[k + 1] = g[k]
    BY <2>3, <2>4, TurnKeeps DEF Over
  <2>6. CASE Over(g[k])
    BY <2>5, <2>6
  <2>7. CASE ~Over(g[k])
    <3>1. g[k].io.fp \in Nat
      BY <2>3 DEF Reading, IoOK
    <3>2. (k + 1) * BYTEIO_BUFFER_SIZE = k * BYTEIO_BUFFER_SIZE + BYTEIO_BUFFER_SIZE
      BY <1>0, <2>1
    <3>3. CASE g[k + 1].eof
      BY <2>5, <3>3 DEF Over
    <3>4. CASE g[k + 1].io.fp >= len
      BY <2>5, <3>4
    <3>5. CASE g[k].io.fp < len /\ g[k + 1].io.fp = g[k].io.fp + BYTEIO_BUFFER_SIZE
      <4>1. g[k].io.fp >= k * BYTEIO_BUFFER_SIZE
        BY <2>3, <2>7, <3>1, <3>5
      <4>2. k * BYTEIO_BUFFER_SIZE \in Nat
        BY <1>0, <2>1
      <4>3. g[k + 1].io.fp >= (k + 1) * BYTEIO_BUFFER_SIZE
        BY <1>0, <3>1, <3>2, <3>5, <4>1, <4>2
      <4> QED
        BY <2>5, <4>3
    <3> QED
      BY <2>5, <2>7, <3>3, <3>4, <3>5
  <2> QED
    BY <2>6, <2>7
<1>4. S = Nat
  <2>1. S \in SUBSET Nat
    OBVIOUS
  <2> HIDE DEF S
  <2> QED
    BY <1>2, <1>3, <2>1, Induction
<1>5. m - 1 \in Nat /\ (m - 1) + 1 = m /\ m - 1 <= m
  <2>1. len \div BYTEIO_BUFFER_SIZE \in Nat
    BY <1>0
  <2> QED
    BY <2>1
<1>6. Reading(g[m - 1], io, len, n) /\ Far(m - 1) /\ Reading(g[m], io, len, n)
  BY <1>4, <1>5
<1> HIDE DEF S
<1>7. g[m] = ReadOn(g[m - 1], len)
  BY <1>1, <1>5
<1>8. CASE Over(g[m - 1])
  <2>1. g[m] = g[m - 1]
    BY <1>7, <1>8 DEF Over, ReadOn
  <2> QED
    BY <1>6, <1>8, <2>1
<1>9. CASE ~Over(g[m - 1])
  <2>1. g[m - 1].io.fp \in Nat
    BY <1>6 DEF Reading, IoOK
  <2>2. (m - 1) * BYTEIO_BUFFER_SIZE >= len /\ (m - 1) * BYTEIO_BUFFER_SIZE \in Nat
    <3>1. len \div BYTEIO_BUFFER_SIZE \in Nat
      BY <1>0
    <3>2. ((len \div BYTEIO_BUFFER_SIZE) + 1) * BYTEIO_BUFFER_SIZE >= len
      BY <3>1, BlocksCover
    <3>3. m - 1 = (len \div BYTEIO_BUFFER_SIZE) + 1
      BY <3>1
    <3> QED
      BY <1>0, <1>5, <3>2, <3>3
  <2>3. g[m - 1].io.fp >= len
    BY <1>6, <1>9, <2>1, <2>2
  <2>4. g[m].eof
    BY <1>6, <1>7, <1>9, <2>1, <2>3, TurnKeeps DEF Over
  <2> QED
    BY <1>6, <2>4 DEF Over
<1> QED
  BY <1>8, <1>9

\* The position is a number.
LEMMA PositionIsInt ==
    ASSUME NEW io, NEW len, IoOK(io, len)
    PROVE  At(io) \in Int
  BY DEF IoOK, At

\* A read gives the bytes that follow, moves past them, and stops short only at the
\* end of the file; it moves past the end only if it started there.
ReadRight(io, len, n, r) ==
    /\ IoOK(r.io, len)
    /\ r.bytes \in Seq(0 .. len - 1) /\ Len(r.bytes) \in 0 .. n
    /\ At(r.io) = At(io) + Len(r.bytes)
    /\ Len(r.bytes) > 0 => At(r.io) <= len
    /\ Len(r.bytes) = n \/ At(r.io) >= len
    /\ Follow(r.bytes, At(io))

(* byteio_read, for every file, every size of the buffer and every number of bytes: it
   returns the bytes that follow, in order, and less only at the end of the file; what
   is buffered afterwards is what comes next. *)
THEOREM ReadIsRight ==
    ASSUME NEW len \in Nat, NEW io, IoOK(io, len), NEW n \in Nat
    PROVE  ReadRight(io, len, n, byteio_read(io, len, n))
<1> DEFINE r == byteio_read(io, len, n)
<1> HIDE DEF r
<1> SUFFICES /\ IoOK(r.io, len)
             /\ r.bytes \in Seq(0 .. len - 1) /\ Len(r.bytes) \in 0 .. n
             /\ At(r.io) = At(io) + Len(r.bytes)
             /\ Len(r.bytes) > 0 => At(r.io) <= len
             /\ Len(r.bytes) = n \/ At(r.io) >= len
             /\ Follow(r.bytes, At(io))
  BY Zenon DEF ReadRight, r
<1> DEFINE m == (len \div BYTEIO_BUFFER_SIZE) + 2
<1>0. m \in Nat /\ m = (len \div BYTEIO_BUFFER_SIZE) + 2
  BY BufferHoldsProbe
<1> HIDE DEF m
<1>1. PICK g : Turns(g, FirstTurn(io, n), len, m) /\ r = LastTurn(g[m])
  <2>1. \E g : Turns(g, FirstTurn(io, n), len, m) /\ byteio_read(io, len, n) = LastTurn(g[m])
    BY <1>0, ReadIsTurns
  <2> QED
    BY <2>1, Zenon DEF r
<1>2. Reading(g[m], io, len, n) /\ Over(g[m])
  BY <1>0, <1>1, TurnsEnd, Zenon
<1> DEFINE q == g[m]
<1>3. /\ q.bytes \in Seq(0 .. len - 1) /\ q.n \in Nat /\ IoOK(q.io, len)
      /\ At(q.io) = At(io) + Len(q.bytes) /\ Len(q.bytes) + q.n = n
      /\ (Len(q.bytes) > 0 => At(q.io) <= len)
      /\ (q.eof => At(q.io) >= len) /\ Follow(q.bytes, At(io))
  BY <1>2 DEF Reading
<1> HIDE DEF q
<1>4. Len(q.bytes) \in Nat /\ At(q.io) \in Int /\ At(io) \in Int
  <2>1. At(q.io) \in Int /\ At(io) \in Int
    BY <1>3, PositionIsInt, Zenon
  <2>2. Len(q.bytes) \in Nat
    BY <1>3, LenProperties, Zenon
  <2> QED
    BY <2>1, <2>2
<1>5. CASE q.eof
  <2>1. r = [bytes |-> q.bytes, io |-> q.io]
    BY <1>1, <1>5, Zenon DEF LastTurn, q
  <2>2. r.bytes = q.bytes /\ r.io = q.io
    BY <2>1
  <2>3. Len(q.bytes) \in 0 .. n
    BY <1>3, <1>4
  <2> QED
    BY <1>3, <1>5, <2>2, <2>3, Zenon
<1>6. CASE ~q.eof
  <2> DEFINE took == Buffered(q.io, q.n)
  <2>1. r = [bytes |-> q.bytes \o took, io |-> Consumed(q.io, q.n)]
    BY <1>1, <1>6, Zenon DEF LastTurn, q
  <2>2. q.n <= q.io.size
    BY <1>2, <1>6, Zenon DEF Over, q
  <2>3. /\ took \in Seq(0 .. len - 1) /\ Len(took) = q.n /\ Follow(took, At(q.io))
        /\ IoOK(Consumed(q.io, q.n), len) /\ At(Consumed(q.io, q.n)) = At(q.io) + q.n
    BY <1>3, <2>2, BufferedFacts, Zenon
  <2> HIDE DEF took
  <2>4. r.bytes = q.bytes \o took /\ r.io = Consumed(q.io, q.n)
    BY <2>1
  <2>5. q.bytes \o took \in Seq(0 .. len - 1) /\ Len(q.bytes \o took) = Len(q.bytes) + Len(took)
    BY <1>3, <2>3, ConcatProperties
  <2>6. r.bytes \in Seq(0 .. len - 1) /\ Len(r.bytes) = n /\ IoOK(r.io, len)
    BY <1>3, <2>3, <2>4, <2>5, Zenon
  <2>7. At(r.io) = At(io) + n
    <3>1. At(r.io) = (At(io) + Len(q.bytes)) + q.n
      BY <1>3, <2>3, <2>4, Zenon
    <3>2. (At(io) + Len(q.bytes)) + q.n = At(io) + (Len(q.bytes) + q.n)
      BY <1>3, <1>4
    <3> QED
      BY <1>3, <3>1, <3>2, Zenon
  <2>8. n > 0 => At(r.io) <= len
    <3>1. At(r.io) = At(q.io) + q.n
      BY <2>3, <2>4, Zenon
    <3>2. CASE q.n > 0
      <4>1. q.io.fp \in Nat /\ q.io.size \in Nat /\ (q.io.size > 0 => q.io.fp <= len)
            /\ At(q.io) = q.io.fp - q.io.size
        BY <1>3 DEF IoOK, At
      <4> QED
        BY <1>3, <2>2, <3>1, <3>2, <4>1
    <3>3. CASE q.n = 0
      <4>1. At(r.io) = At(q.io) /\ (n > 0 => Len(q.bytes) > 0)
        BY <1>3, <1>4, <3>1, <3>3
      <4> QED
        BY <1>3, <4>1, Zenon
    <3> QED
      BY <1>3, <3>2, <3>3
  <2>9. n \in 0 .. n
    OBVIOUS
  <2>10. Follow(r.bytes, At(io))
    <3>1. Follow(took, At(io) + Len(q.bytes))
      BY <1>3, <2>3, Zenon
    <3> QED
      BY <1>3, <1>4, <2>3, <2>4, <3>1, FollowOn
  <2> QED
    BY <2>6, <2>7, <2>8, <2>9, <2>10, Zenon
<1> QED
  BY <1>5, <1>6

\* Looking ahead takes nothing.
LEMMA PeekFacts ==
    ASSUME NEW len \in Nat, NEW io, IoOK(io, len), io.size <= BYTEIO_BUFFER_SIZE, NEW n \in Nat,
           NEW r, r = byteio_peek(io, len, n)
    PROVE  /\ IoOK(r.io, len) /\ At(r.io) = At(io)
           /\ r.bytes \in Seq(0 .. len - 1) /\ Len(r.bytes) \in Nat
<1> DEFINE S == 0 .. len - 1
           full == IF n > io.size THEN byteio_align(io, len) ELSE io
<1>1. IoOK(full, len) /\ At(full) = At(io)
  <2>1. CASE n > io.size
    <3> DEFINE kept == SubSeq(io.buffer, io.index + 1, io.index + io.size)
               got == fread(io.fp, len, BYTEIO_BUFFER_SIZE - io.size)
               next == byteio_align(io, len)
    <3>1. /\ io.buffer \in Seq(S) /\ io.index \in Nat /\ io.size \in Nat /\ io.fp \in Nat
          /\ io.index + io.size <= Len(io.buffer) /\ io.size <= io.fp /\ (io.size > 0 => io.fp <= len)
          /\ Holds(io)
      BY DEF IoOK
    <3>2. BYTEIO_BUFFER_SIZE - io.size \in Nat
      BY <3>1, BufferHoldsProbe
    <3>3. /\ got \in Seq(S) /\ Follow(got, io.fp)
          /\ Len(got) = Least(BYTEIO_BUFFER_SIZE - io.size, IF io.fp < len THEN len - io.fp ELSE 0)
      BY <3>1, <3>2, FreadFacts, Zenon
    <3>4. next = [buffer |-> kept \o got, index |-> 0, size |-> io.size + Len(got), fp |-> io.fp + Len(got)]
      BY DEF byteio_align
    <3> HIDE DEF S, got
    <3>5. /\ kept \in Seq(S) /\ Len(kept) = io.size
          /\ IsPiece(kept, io.buffer, io.index, io.size)
      BY <3>1, PieceFacts, Zenon
    <3> HIDE DEF kept, next
    <3>6. kept \o got \in Seq(S) /\ Len(kept \o got) = Len(kept) + Len(got)
      BY <3>3, <3>5, ConcatProperties
    <3>7. Len(got) \in Nat
      BY <3>3, LenProperties
    <3>8. Len(got) > 0 => io.fp + Len(got) <= len
      BY <3>1, <3>2, <3>3, <3>7 DEF Least
    <3>9. /\ next.buffer = kept \o got /\ next.index = 0 /\ next.size = io.size + Len(got)
          /\ next.fp = io.fp + Len(got)
      BY <3>4
    <3>10. next \in [buffer : Seq(S), index : Nat, size : Nat, fp : Nat]
      <4>1. io.size + Len(got) \in Nat /\ io.fp + Len(got) \in Nat
        BY <3>1, <3>7
      <4> QED
        BY <3>4, <3>6, <4>1
    <3>11. /\ next.index + next.size <= Len(next.buffer) /\ next.size <= next.fp
           /\ next.size > 0 => next.fp <= len
           /\ next.fp - next.size = io.fp - io.size
      <4>1. Len(next.buffer) = io.size + Len(got)
        BY <3>5, <3>6, <3>9, Zenon
      <4>2. 0 + (io.size + Len(got)) <= io.size + Len(got)
            /\ io.size + Len(got) <= io.fp + Len(got)
            /\ (io.size + Len(got) > 0 => io.fp + Len(got) <= len)
            /\ (io.fp + Len(got)) - (io.size + Len(got)) = io.fp - io.size
        BY <3>1, <3>7, <3>8
      <4> QED
        BY <3>9, <4>1, <4>2, Zenon
    <3>13. Holds(next)
      <4> DEFINE p == io.fp - io.size
      <4>1. p \in Int /\ p + Len(kept) = io.fp
        BY <3>1, <3>5
      <4>2. Follow(kept, p)
        BY <3>1, <3>5 DEF Follow, Holds, IsPiece
      <4>3. Follow(kept \o got, p)
        BY <3>3, <3>5, <4>1, <4>2, FollowOn
      <4> QED
        BY <3>5, <3>6, <3>9, <3>11, <4>3 DEF Holds, Follow
    <3>12. IoOK(next, len) /\ At(next) = At(io)
      BY <3>10, <3>11, <3>13 DEF IoOK, At, S
    <3> QED
      BY <2>1, <3>12 DEF next
  <2>2. CASE ~(n > io.size)
    BY <2>2
  <2> QED
    BY <2>1, <2>2
<1>2. r = [bytes |-> Buffered(full, Least(n, full.size)), io |-> full]
  BY DEF byteio_peek
<1> HIDE DEF full, S
<1> DEFINE k == Least(n, full.size)
<1>3. r.bytes = Buffered(full, k) /\ r.io = full
  BY <1>2
<1>4. full.size \in Nat
  BY <1>1 DEF IoOK
<1>5. k \in Nat /\ k <= full.size
  BY <1>4 DEF Least
<1> HIDE DEF k
<1>6. r.bytes \in Seq(0 .. len - 1) /\ Len(r.bytes) = k
  <2>1. Buffered(full, k) \in Seq(0 .. len - 1) /\ Len(Buffered(full, k)) = k
    BY <1>1, <1>5, BufferedFacts, Zenon
  <2> QED
    BY <1>3, <2>1, Zenon
<1> QED
  BY <1>1, <1>3, <1>5, <1>6, Zenon

-----------------------------------------------------------------------------
(* The words of a header (pcm.h, read1 .. read4be, read_ext, read_dbl).    *)

\* Where the words of a header end, one after the other.
EndsAt(g, sizes, m) == g = [k \in 0 .. m |-> IF k = 0 THEN 0 ELSE g[k - 1] + sizes[k]]

\* There are such ends.
LEMMA EndsExist ==
    ASSUME NEW sizes, NEW m \in Nat
    PROVE  \E g : EndsAt(g, sizes, m)
<1> DEFINE S == {n \in Nat : \E g : EndsAt(g, sizes, n)}
<1>1. 0 \in S
  <2> DEFINE g == [k \in 0 .. 0 |-> 0]
  <2>1. g = [k \in 0 .. 0 |-> IF k = 0 THEN 0 ELSE g[k - 1] + sizes[k]]
    OBVIOUS
  <2>2. EndsAt(g, sizes, 0)
    BY <2>1 DEF EndsAt
  <2> QED
    BY <2>2
<1>2. ASSUME NEW n \in S PROVE n + 1 \in S
  <2>1. PICK g : EndsAt(g, sizes, n)
    OBVIOUS
  <2> DEFINE h == [k \in 0 .. n + 1 |-> IF k = n + 1 THEN g[n] + sizes[k] ELSE g[k]]
  <2>2. n \in Nat /\ \A k \in 0 .. n : g[k] = IF k = 0 THEN 0 ELSE g[k - 1] + sizes[k]
    BY <2>1 DEF EndsAt
  <2>3. ASSUME NEW k \in 0 .. n + 1
        PROVE  h[k] = IF k = 0 THEN 0 ELSE h[k - 1] + sizes[k]
    <3>1. CASE k = n + 1
      <4>1. h[k] = g[n] + sizes[k] /\ h[k - 1] = g[n] /\ k # 0
        BY <2>2, <3>1
      <4> QED
        BY <4>1
    <3>2. CASE k # n + 1
      <4>1. k \in 0 .. n /\ h[k] = g[k] /\ (k # 0 => h[k - 1] = g[k - 1])
        BY <2>2, <3>2
      <4> QED
        BY <2>2, <4>1
    <3> QED
      BY <3>1, <3>2
  <2>4. h = [k \in 0 .. n + 1 |-> h[k]]
    OBVIOUS
  <2> HIDE DEF h
  <2>5. h = [k \in 0 .. n + 1 |-> IF k = 0 THEN 0 ELSE h[k - 1] + sizes[k]]
    BY <2>3, <2>4
  <2>6. EndsAt(h, sizes, n + 1)
    BY <2>5 DEF EndsAt
  <2> QED
    BY <2>2, <2>6
<1>3. S = Nat
  <2>1. S \in SUBSET Nat
    OBVIOUS
  <2> HIDE DEF S
  <2> QED
    BY <1>1, <1>2, <2>1, Induction
<1> QED
  BY <1>3

\* The words lie one after the other.
LEMMA EndsFacts ==
    ASSUME NEW sizes, NEW m \in Nat, Len(sizes) = m, \A k \in 1 .. m : sizes[k] \in Nat \ {0}
    PROVE  /\ DOMAIN Ends(sizes) = 0 .. m /\ Ends(sizes)[0] = 0
           /\ \A k \in 0 .. m : Ends(sizes)[k] \in Nat
           /\ \A k \in 1 .. m : Ends(sizes)[k] = Ends(sizes)[k - 1] + sizes[k] /\ Ends(sizes)[k] > 0
<1> DEFINE g == Ends(sizes)
<1>1. EndsAt(g, sizes, m)
  <2>1. \E t : EndsAt(t, sizes, m)
    BY EndsExist
  <2>2. \E t : t = [k \in 0 .. m |-> IF k = 0 THEN 0 ELSE t[k - 1] + sizes[k]]
    BY <2>1, Zenon DEF EndsAt
  <2>3. g = [k \in 0 .. m |-> IF k = 0 THEN 0 ELSE g[k - 1] + sizes[k]]
    BY <2>2, Zenon DEF Ends
  <2> QED
    BY <2>3, Zenon DEF EndsAt
<1>2. DOMAIN g = 0 .. m /\ \A k \in 0 .. m : g[k] = IF k = 0 THEN 0 ELSE g[k - 1] + sizes[k]
  BY <1>1, Zenon DEF EndsAt
<1> HIDE DEF g
<1>3. g[0] = 0 /\ \A k \in 1 .. m : g[k] = g[k - 1] + sizes[k]
  BY <1>2
<1> DEFINE S == {k \in Nat : k <= m => g[k] \in Nat}
<1>4. 0 \in S
  BY <1>3
<1>5. ASSUME NEW k \in S PROVE k + 1 \in S
  <2>1. k \in Nat /\ (k <= m => g[k] \in Nat)
    OBVIOUS
  <2>2. k + 1 <= m => k + 1 \in 1 .. m /\ (k + 1) - 1 = k /\ k <= m
    BY <2>1
  <2>3. k + 1 <= m => g[k + 1] \in Nat
    BY <1>3, <2>1, <2>2
  <2> QED
    BY <2>1, <2>3
<1>6. S = Nat
  <2>1. S \in SUBSET Nat
    OBVIOUS
  <2> HIDE DEF S
  <2> QED
    BY <1>4, <1>5, <2>1, Induction
<1>7. \A k \in 0 .. m : g[k] \in Nat
  BY <1>6
<1> HIDE DEF S
<1>8. ASSUME NEW k \in 1 .. m PROVE g[k] > 0
  <2>1. k - 1 \in 0 .. m /\ sizes[k] \in Nat \ {0}
    OBVIOUS
  <2>2. g[k - 1] \in Nat /\ g[k] = g[k - 1] + sizes[k]
    BY <1>3, <1>7, <2>1
  <2> QED
    BY <2>1, <2>2
<1> QED
  BY <1>2, <1>3, <1>7, <1>8 DEF g

\* The fields of a PcmFile.
Fields == {"filepos", "io", "seekable", "read_to_eof", "file_size", "data_start", "data_size", "samples",
           "order", "channels", "ch_mask", "sample_rate", "block_align", "bit_width", "source_format",
           "read_format", "file_format", "float", "found_fmt", "phase"}

\* Where a PcmFile stands: what it has handed out ends at filepos, or the file is over.
Stands(f, pf) ==
    /\ DOMAIN pf = Fields
    /\ IoOK(pf.io, Len(f.bytes))
    /\ pf.filepos \in Nat
    /\ At(pf.io) = pf.filepos \/ At(pf.io) >= Len(f.bytes)

\* Words moves a PcmFile past the words that are there and leaves the rest of it alone;
\* a word that is not there is zero.
WordsRight(f, pf, sizes, w) ==
    /\ w.pf = [pf EXCEPT !.io = w.pf.io, !.filepos = w.pf.filepos]
    /\ Stands(f, w.pf)
    /\ w.pf.filepos = pf.filepos \/ (w.pf.filepos > 0 /\ w.pf.filepos <= Len(f.bytes))
    /\ \A k \in 1 .. Len(sizes) :
          /\ w.words[k] \in Seq(0 .. 255) /\ Len(w.words[k]) = sizes[k]
          /\ \/ w.pf.filepos > 0 /\ w.pf.filepos <= Len(f.bytes)
             \/ w.words[k] = [i \in 1 .. sizes[k] |-> 0]

\* Words is right.
LEMMA WordsAreRight ==
    ASSUME NEW f, f.bytes \in Seq(0 .. 255), NEW pf, Stands(f, pf),
           NEW sizes, NEW m \in Nat, Len(sizes) = m, DOMAIN sizes = 1 .. m,
           \A k \in 1 .. m : sizes[k] \in Nat \ {0}
    PROVE  WordsRight(f, pf, sizes, Words(f, pf, sizes))
<1> DEFINE w == Words(f, pf, sizes)
<1> HIDE DEF w
<1> SUFFICES /\ w.pf = [pf EXCEPT !.io = w.pf.io, !.filepos = w.pf.filepos]
             /\ Stands(f, w.pf)
             /\ w.pf.filepos = pf.filepos \/ (w.pf.filepos > 0 /\ w.pf.filepos <= Len(f.bytes))
             /\ \A k \in 1 .. m : /\ w.words[k] \in Seq(0 .. 255) /\ Len(w.words[k]) = sizes[k]
                                 /\ \/ w.pf.filepos > 0 /\ w.pf.filepos <= Len(f.bytes)
                                    \/ w.words[k] = [i \in 1 .. sizes[k] |-> 0]
  BY Zenon DEF WordsRight, w
<1> DEFINE len == Len(f.bytes)
           end == Ends(sizes)
           got == byteio_read(pf.io, len, end[Len(sizes)])
           whole == {k \in DOMAIN end : end[k] <= Len(got.bytes)}
           last == CHOOSE k \in whole : \A j \in whole : j <= k
<1>1. /\ DOMAIN end = 0 .. m /\ end[0] = 0
      /\ \A k \in 0 .. m : end[k] \in Nat
      /\ \A k \in 1 .. m : end[k] = end[k - 1] + sizes[k] /\ end[k] > 0
  BY EndsFacts, Zenon
<1>2. len \in Nat /\ \A j \in 1 .. len : f.bytes[j] \in 0 .. 255
  BY LenProperties, ElementOfSeq
<1>3. /\ DOMAIN pf = Fields /\ IoOK(pf.io, len) /\ pf.filepos \in Nat
      /\ At(pf.io) = pf.filepos \/ At(pf.io) >= len
  BY DEF Stands
<1>4. w = [words |-> [k \in DOMAIN sizes |->
                       [i \in 1 .. sizes[k] |->
                           IF k \in whole THEN f.bytes[got.bytes[end[k - 1] + i] + 1] ELSE 0]],
           pf |-> [pf EXCEPT !.io = got.io, !.filepos = pf.filepos + end[last]]]
  BY Zenon DEF Words, w
<1> HIDE DEF end, len
<1>5. end[Len(sizes)] \in Nat
  BY <1>1
<1>6. /\ IoOK(got.io, len)
      /\ got.bytes \in Seq(0 .. len - 1) /\ Len(got.bytes) \in 0 .. end[Len(sizes)]
      /\ At(got.io) = At(pf.io) + Len(got.bytes)
      /\ Len(got.bytes) > 0 => At(got.io) <= len
      /\ Len(got.bytes) = end[Len(sizes)] \/ At(got.io) >= len
  <2>1. ReadRight(pf.io, len, end[Len(sizes)], got)
    BY <1>2, <1>3, <1>5, ReadIsRight
  <2> QED
    BY <2>1, Zenon DEF ReadRight
<1> HIDE DEF got
<1>7. /\ last \in 0 .. m /\ end[last] \in Nat /\ end[last] <= Len(got.bytes)
      /\ \A j \in whole : j <= last
  <2>1. whole \in SUBSET (0 .. m) /\ 0 \in whole
    BY <1>1, <1>5, <1>6
  <2> HIDE DEF whole
  <2>2. \E k \in whole : \A j \in whole : j <= k
    BY <2>1, GreatestOf
  <2>3. last \in whole /\ \A j \in whole : j <= last
    BY <2>2, Zenon
  <2> HIDE DEF last
  <2>4. end[last] <= Len(got.bytes)
    BY <2>3 DEF whole
  <2> QED
    BY <1>1, <2>1, <2>3, <2>4
<1>8. Len(got.bytes) = end[m] => last = m
  <2>1. m \in 0 .. m
    OBVIOUS
  <2>2. Len(got.bytes) = end[m] => m \in whole
    BY <1>1, <2>1
  <2> HIDE DEF last, whole
  <2> QED
    BY <1>7, <2>2
<1> HIDE DEF last
<1> DEFINE x == pf.filepos + end[last]
<1>9. x \in Nat
  BY <1>3, <1>7
<1> DEFINE q == [pf EXCEPT !.io = got.io, !.filepos = x]
<1>10. DOMAIN q = Fields /\ q.io = got.io /\ q.filepos = x
  BY <1>3 DEF Fields
<1>11. w.pf = q
  BY <1>4
<1>12. Len(got.bytes) \in Nat /\ At(pf.io) \in Int /\ At(got.io) \in Int
  BY <1>3, <1>5, <1>6, PositionIsInt
<1> HIDE DEF whole, q
<1>13. At(got.io) = x \/ At(got.io) >= len
  <2>1. CASE At(pf.io) >= len
    BY <1>2, <1>6, <1>12, <2>1
  <2>2. CASE At(pf.io) = pf.filepos
    <3>1. CASE Len(got.bytes) = end[m]
      BY <1>6, <1>8, <2>2, <3>1
    <3>2. CASE Len(got.bytes) # end[m]
      BY <1>6, <3>2
    <3> QED
      BY <3>1, <3>2
  <2> QED
    BY <1>3, <2>1, <2>2
<1>14. Stands(f, w.pf)
  BY <1>6, <1>9, <1>10, <1>11, <1>13 DEF Stands, len
<1>15. end[last] > 0 => x > 0 /\ x <= len
  <2> SUFFICES ASSUME end[last] > 0 PROVE x > 0 /\ x <= len
    OBVIOUS
  <2>1. Len(got.bytes) > 0
    BY <1>7, <1>12
  <2>2. At(pf.io) + Len(got.bytes) <= len
    BY <1>6, <2>1
  <2>3. At(pf.io) < len
    BY <1>2, <1>12, <2>1, <2>2
  <2>4. At(pf.io) = pf.filepos
    BY <1>2, <1>3, <1>12, <2>3
  <2> QED
    BY <1>2, <1>3, <1>7, <1>12, <2>2, <2>4
<1>16. w.pf.filepos = pf.filepos \/ (w.pf.filepos > 0 /\ w.pf.filepos <= len)
  BY <1>3, <1>7, <1>10, <1>11, <1>15
<1>17. ASSUME NEW k \in 1 .. m
       PROVE  /\ w.words[k] \in Seq(0 .. 255) /\ Len(w.words[k]) = sizes[k]
              /\ \/ w.pf.filepos > 0 /\ w.pf.filepos <= len
                 \/ w.words[k] = [i \in 1 .. sizes[k] |-> 0]
  <2> DEFINE v == [i \in 1 .. sizes[k] |->
                      IF k \in whole THEN f.bytes[got.bytes[end[k - 1] + i] + 1] ELSE 0]
  <2>1. w.words[k] = v
    BY <1>4
  <2>2. ASSUME NEW i \in 1 .. sizes[k] PROVE v[i] \in 0 .. 255
    <3>1. CASE k \in whole
      <4>1. end[k] <= Len(got.bytes)
        BY <3>1 DEF whole
      <4>2. k - 1 \in 0 .. m /\ sizes[k] \in Nat
        OBVIOUS
      <4>3. end[k - 1] \in Nat /\ end[k] = end[k - 1] + sizes[k]
        BY <1>1, <4>2
      <4>4. end[k - 1] + i \in 1 .. Len(got.bytes)
        BY <1>12, <4>1, <4>2, <4>3, SMTT(30)
      <4>5. got.bytes[end[k - 1] + i] \in 0 .. len - 1
        BY <1>6, <4>4, ElementOfSeq
      <4>6. got.bytes[end[k - 1] + i] + 1 \in 1 .. len
        BY <1>2, <4>5, SMTT(20)
      <4>7. f.bytes[got.bytes[end[k - 1] + i] + 1] \in 0 .. 255
        BY <1>2, <4>6
      <4> QED
        BY <3>1, <4>7
    <3>2. CASE k \notin whole
      BY <3>2
    <3> QED
      BY <3>1, <3>2
  <2>3. v \in [1 .. sizes[k] -> 0 .. 255] /\ sizes[k] \in Nat
    BY <2>2
  <2>5. DOMAIN v = 1 .. sizes[k]
    OBVIOUS
  <2> DEFINE some == k \in whole
  <2>6. some => end[last] > 0
    <3>1. some => last \in 1 .. m
      BY <1>7 
    <3> QED
      BY <1>1, <3>1
  <2>7. ~some => v = [i \in 1 .. sizes[k] |-> 0]
    OBVIOUS
  <2> HIDE DEF v
  <2>4. v \in Seq(0 .. 255)
    <3> DEFINE S == 0 .. 255
    <3>1. v \in [1 .. sizes[k] -> S] /\ sizes[k] \in Nat
      BY <2>3
    <3> HIDE DEF S
    <3>2. v \in Seq(S)
      BY <3>1, IsASeq
    <3> QED
      BY <3>2 DEF S
  <2>8. Len(v) = sizes[k]
    BY <2>3, <2>4, <2>5, LenProperties
  <2>9. some => w.pf.filepos > 0 /\ w.pf.filepos <= len
    BY <1>10, <1>11, <1>15, <2>6
  <2> QED
    BY <2>1, <2>4, <2>7, <2>8, <2>9, Zenon
<1> QED
  BY <1>10, <1>11, <1>14, <1>16, <1>17 DEF q, len

\* Bytes, as far as the numbers made of them are concerned.
Numbers(b) == b \in Seq(Int)

\* The bytes of a file are numbers.
LEMMA BytesAreNumbers ==
    ASSUME NEW b \in Seq(0 .. 255)
    PROVE  Len(b) \in Nat /\ (\A i \in 1 .. Len(b) : b[i] \in Int) /\ Numbers(b)
<1> DEFINE S == 0 .. 255
<1>1. b \in Seq(S) /\ \A x \in S : x \in Int
  OBVIOUS
<1> HIDE DEF S
<1>2. Len(b) \in Nat /\ b \in [1 .. Len(b) -> S]
  BY <1>1, LenProperties
<1>3. \A i \in 1 .. Len(b) : b[i] \in Int
  BY <1>1, <1>2
<1>4. b \in [1 .. Len(b) -> Int]
  BY <1>2, <1>3
<1>5. Numbers(b)
  BY <1>2, <1>4, IsASeq DEF Numbers
<1> QED
  BY <1>2, <1>3, <1>5

\* Bytes as an integer.
LEMMA LittleIsInt ==
    ASSUME NEW b, Numbers(b)
    PROVE  Little(b) \in Int
<1> DEFINE B(i) == IF i <= Len(b) THEN b[i] ELSE 0
<1>1. \A i \in {1, 2, 3, 4} : B(i) \in Int
  <2>1. Len(b) \in Nat /\ \A i \in 1 .. Len(b) : b[i] \in Int
    BY DEF Numbers
  <2> QED
    BY <2>1
<1>2. Wrap(B(4), 8) \in Int
  <2>1. 2^8 = 256 /\ 2^(8 - 1) = 128
    BY SMT
  <2>2. B(4) \in Int
    BY <1>1
  <2> HIDE DEF B
  <2>3. B(4) % 256 \in Int
    BY <2>2
  <2> QED
    BY <2>1, <2>3 DEF Wrap
<1>3. Little(b) = B(1) + B(2) * 256 + B(3) * 2^16 + Wrap(B(4), 8) * 2^24
  BY DEF Little
<1>4. 2^16 = 65536 /\ 2^24 = 16777216
  BY SMT
<1>5. B(1) \in Int /\ B(2) \in Int /\ B(3) \in Int
  BY <1>1
<1> HIDE DEF B
<1> QED
  BY <1>2, <1>3, <1>4, <1>5

\* The same, the other way round.
LEMMA ReverseIsBytes ==
    ASSUME NEW b, Numbers(b)
    PROVE  Numbers(Reverse(b)) /\ Len(Reverse(b)) = Len(b)
<1>1. Len(b) \in Nat /\ \A i \in 1 .. Len(b) : b[i] \in Int
  BY DEF Numbers
<1> DEFINE n == Len(b)
           r == [i \in 1 .. n |-> b[(n - i) + 1]]
<1>2. Reverse(b) = r
  BY DEF Reverse
<1> HIDE DEF n
<1>3. n \in Nat /\ \A i \in 1 .. n : (n - i) + 1 \in 1 .. n
  BY <1>1 DEF n
<1>4. \A i \in 1 .. n : b[(n - i) + 1] \in Int
  BY <1>1, <1>3 DEF n
<1>5. r \in [1 .. n -> Int]
  BY <1>4
<1>6. DOMAIN r = 1 .. n
  OBVIOUS
<1> HIDE DEF r
<1>7. r \in Seq(Int)
  BY <1>3, <1>5, IsASeq
<1>8. Len(r) = n
  BY <1>3, <1>6, <1>7, LenProperties
<1> QED
  BY <1>2, <1>7, <1>8 DEF Numbers, n

\* A big-endian word is an integer.
LEMMA BigIsInt ==
    ASSUME NEW b, Numbers(b)
    PROVE  Big(b) \in Int
<1>1. Big(b) = Little(Reverse(b))
  BY DEF Big, Ordered
<1> QED
  BY <1>1, ReverseIsBytes, LittleIsInt

\* The zeros that stand for a word that is not there.
LEMMA ZerosAreZero ==
    ASSUME NEW b, b = [i \in 1 .. 4 |-> 0]
    PROVE  Little(b) = 0 /\ Big(b) = 0
<1>1. b \in Seq(Int) /\ Len(b) = 4
  <2>1. b \in [1 .. 4 -> Int] /\ DOMAIN b = 1 .. 4
    OBVIOUS
  <2>2. b \in Seq(Int)
    BY <2>1, IsASeq
  <2> QED
    BY <2>1, <2>2, LenProperties
<1>2. ASSUME NEW c, Numbers(c), Len(c) = 4, \A i \in 1 .. 4 : c[i] = 0
      PROVE  Little(c) = 0
  <2>1. 2^8 = 256 /\ 2^(8 - 1) = 128 /\ 2^16 = 65536 /\ 2^24 = 16777216
    BY SMT
  <2>2. Wrap(0, 8) = 0
    BY <2>1 DEF Wrap
  <2>3. c[1] = 0 /\ c[2] = 0 /\ c[3] = 0 /\ c[4] = 0
    BY <1>2
  <2>4. Little(c) = c[1] + c[2] * 256 + c[3] * 2^16 + Wrap(c[4], 8) * 2^24
    BY <1>2 DEF Little
  <2>5. Little(c) = 0 + 0 * 256 + 0 * 65536 + 0 * 16777216
    <3>1. Wrap(c[4], 8) = 0
      BY <2>2, <2>3
    <3> QED
      BY <2>1, <2>3, <2>4, <3>1
  <2> QED
    BY <2>5
<1>3. Little(b) = 0
  BY <1>1, <1>2 DEF Numbers
<1>4. Numbers(Reverse(b)) /\ Len(Reverse(b)) = 4 /\ \A i \in 1 .. 4 : Reverse(b)[i] = 0
  <2>1. Numbers(Reverse(b)) /\ Len(Reverse(b)) = 4
    BY <1>1, ReverseIsBytes DEF Numbers
  <2>2. Reverse(b) = [i \in 1 .. 4 |-> b[(4 - i) + 1]]
    BY <1>1 DEF Reverse
  <2>3. \A i \in 1 .. 4 : (4 - i) + 1 \in 1 .. 4
    OBVIOUS
  <2> QED
    BY <2>1, <2>2, <2>3
<1>5. Little(Reverse(b)) = 0
  BY <1>2, <1>4
<1> QED
  BY <1>3, <1>5 DEF Big, Ordered

\* The powers that scale a sample rate.
LEMMA SmallPowers ==
    ASSUME NEW k \in 0 .. 20
    PROVE  2^k \in Nat \ {0}
<1>1. k \in {0, 1, 2, 3, 4, 5, 6, 7, 8, 9, 10, 11, 12, 13, 14, 15, 16, 17, 18, 19, 20}
  OBVIOUS
<1> DEFINE P(j) == 2^j \in Nat \ {0}
<1>2. P(0) /\ P(1) /\ P(2) /\ P(3) /\ P(4) /\ P(5) /\ P(6)
  BY SMT
<1>3. P(7) /\ P(8) /\ P(9) /\ P(10) /\ P(11) /\ P(12) /\ P(13)
  BY SMT
<1>4. P(14) /\ P(15) /\ P(16) /\ P(17) /\ P(18) /\ P(19) /\ P(20)
  BY SMT
<1> HIDE DEF P
<1>5. P(k)
  BY <1>1, <1>2, <1>3, <1>4, Zenon
<1> QED
  BY <1>5 DEF P

\* The sample rate of an AIFF file is an integer.
LEMMA ExtIsInt ==
    ASSUME NEW b \in Seq(0 .. 255), Len(b) = 10
    PROVE  ext2dbl(b) \in Int
<1>1. b[1] \in Int /\ b[2] \in Int /\ b[3] \in Int /\ b[4] \in Int
  <2>1. 1 \in 1 .. Len(b) /\ 2 \in 1 .. Len(b) /\ 3 \in 1 .. Len(b) /\ 4 \in 1 .. Len(b)
    OBVIOUS
  <2>2. \A i \in 1 .. Len(b) : b[i] \in Int
    BY BytesAreNumbers
  <2> QED
    BY <2>1, <2>2, Zenon
<1> DEFINE e == (b[1] % 128) * 256 + b[2]
           mantissa == b[3] * 256 + b[4]
           m == IF b[1] >= 128 THEN (65536 - mantissa) % 65536 ELSE mantissa
<1>2. e \in Int /\ m \in Int
  BY <1>1
<1>3. ext2dbl(b) = IF e <= 16398 THEN m \div 2^Least(16398 - e, 16)
                   ELSE IF e <= 16413 THEN m * 2^(e - 16398) ELSE 0
  BY DEF ext2dbl
<1> HIDE DEF e, m
<1>4. CASE e > 16398 /\ e <= 16413
  <2>1. e - 16398 \in 0 .. 20
    BY <1>2, <1>4
  <2>2. 2^(e - 16398) \in Nat \ {0}
    <3> DEFINE k == e - 16398
    <3>1. k \in 0 .. 20
      BY <2>1
    <3> HIDE DEF k
    <3>2. 2^k \in Nat \ {0}
      BY <3>1, SmallPowers
    <3> QED
      BY <3>2 DEF k
  <2>3. \A p \in Nat \ {0} : m * p \in Int
    BY <1>2
  <2>4. ext2dbl(b) = m * 2^(e - 16398)
    BY <1>2, <1>3, <1>4
  <2> QED
    BY <2>2, <2>3, <2>4
<1>5. CASE e <= 16398
  <2>1. Least(16398 - e, 16) \in 0 .. 20
    BY <1>2, <1>5 DEF Least
  <2>2. 2^Least(16398 - e, 16) \in Nat \ {0}
    <3> DEFINE k == Least(16398 - e, 16)
    <3>1. k \in 0 .. 20
      BY <2>1
    <3> HIDE DEF k
    <3>2. 2^k \in Nat \ {0}
      BY <3>1, SmallPowers
    <3> QED
      BY <3>2 DEF k
  <2>3. \A p \in Nat \ {0} : m \div p \in Int
    BY <1>2
  <2> QED
    BY <1>3, <1>5, <2>2, <2>3
<1>6. CASE e > 16413
  BY <1>2, <1>3, <1>6
<1> QED
  BY <1>2, <1>4, <1>5, <1>6

\* The sample rate of a CAFF file is an integer.
LEMMA DblIsInt ==
    ASSUME NEW b \in Seq(0 .. 255), Len(b) = 8
    PROVE  read_dbl(b) \in Int
<1>1. b[1] \in Int /\ b[2] \in Int /\ b[3] \in Int /\ b[4] \in Int
  <2>1. 1 \in 1 .. Len(b) /\ 2 \in 1 .. Len(b) /\ 3 \in 1 .. Len(b) /\ 4 \in 1 .. Len(b)
    OBVIOUS
  <2>2. \A i \in 1 .. Len(b) : b[i] \in Int
    BY BytesAreNumbers
  <2> QED
    BY <2>1, <2>2, Zenon
<1> DEFINE e == (b[1] % 128) * 16 + (b[2] \div 16)
           m == 2^20 + (b[2] % 16) * 2^16 + b[3] * 256 + b[4]
<1>2. e \in Int
  BY <1>1
<1>6. 2^20 = 1048576 /\ 2^16 = 65536
  BY SMT
<1>7. m \in Int
  <2>1. 1048576 + (b[2] % 16) * 65536 + b[3] * 256 + b[4] \in Int
    BY <1>1
  <2> QED
    BY <1>6, <2>1
<1> DEFINE v == IF e \in 1023 .. 1043 THEN m \div 2^(1043 - e)
                ELSE IF e \in 1044 .. 1053 THEN m * 2^(e - 1043) ELSE 0
<1>3. read_dbl(b) = IF b[1] >= 128 THEN -v ELSE v
  BY DEF read_dbl
<1> HIDE DEF e, m
<1> SUFFICES v \in Int
  <2> HIDE DEF v
  <2> QED
    BY <1>1, <1>3
<1>4. CASE e \in 1023 .. 1043
  <2>1. 1043 - e \in 0 .. 20
    BY <1>2, <1>4
  <2>2. 2^(1043 - e) \in Nat \ {0}
    <3> DEFINE k == 1043 - e
    <3>1. k \in 0 .. 20
      BY <2>1
    <3> HIDE DEF k
    <3>2. 2^k \in Nat \ {0}
      BY <3>1, SmallPowers
    <3> QED
      BY <3>2 DEF k
  <2>3. \A p \in Nat \ {0} : m \div p \in Int
    BY <1>7
  <2>4. v = m \div 2^(1043 - e)
    BY <1>4
  <2> QED
    BY <2>2, <2>3, <2>4
<1>5. CASE e \in 1044 .. 1053
  <2>1. e - 1043 \in 0 .. 20
    BY <1>2, <1>5
  <2>2. 2^(e - 1043) \in Nat \ {0}
    <3> DEFINE k == e - 1043
    <3>1. k \in 0 .. 20
      BY <2>1
    <3> HIDE DEF k
    <3>2. 2^k \in Nat \ {0}
      BY <3>1, SmallPowers
    <3> QED
      BY <3>2 DEF k
  <2>3. \A p \in Nat \ {0} : m * p \in Int
    BY <1>7
  <2>4. v = m * 2^(e - 1043)
    BY <1>2, <1>5
  <2> QED
    BY <2>2, <2>3, <2>4
<1>8. CASE e \notin 1023 .. 1043 /\ e \notin 1044 .. 1053
  BY <1>8
<1> QED
  BY <1>4, <1>5, <1>8

\* A number as unsigned.
LEMMA UnsignedIsNat ==
    /\ NoFileIsLonger \in Nat
    /\ \A n \in Int : Unsigned(n) \in Nat
<1>1. NoFileIsLonger \in Nat
  BY SMT DEF NoFileIsLonger
<1> QED
  BY <1>1 DEF Unsigned

\* The sizes of chunks and the number of frames are integers.
LEMMA SizesAreInts ==
    ASSUME NEW b \in Seq(0 .. 255)
    PROVE  /\ Numbers(b) /\ Frames(b) \in Nat
           /\ Len(b) = 8 => Big8(b) \in Int
<1>1. Numbers(b)
  BY BytesAreNumbers
<1>2. NoFileIsLonger \in Nat
  BY UnsignedIsNat
<1>3. Frames(b) \in Nat
  BY <1>1, UnsignedIsNat, BigIsInt DEF Frames
<1>4. ASSUME Len(b) = 8 PROVE Big8(b) \in Int
  <2>1. SubSeq(b, 5, 8) \in Seq(Int)
    <3>1. 4 \in Nat /\ 4 + 4 <= Len(b) /\ b \in Seq(Int)
      BY <1>1, <1>4 DEF Numbers
    <3>2. SubSeq(b, 4 + 1, 4 + 4) \in Seq(Int)
      BY <3>1, PieceFacts, Zenon
    <3> QED
      BY <3>2
  <2>2. Big(SubSeq(b, 5, 8)) \in Int
    BY <2>1, BigIsInt DEF Numbers
  <2> DEFINE low == Big(SubSeq(b, 5, 8))
             high == Big(SubSeq(b, 1, 4))
  <2>3. Big8(b) = IF high = (IF low < 0 THEN -1 ELSE 0) THEN low
                  ELSE IF high < 0 THEN -NoFileIsLonger ELSE NoFileIsLonger
    BY DEF Big8
  <2> HIDE DEF low, high
  <2>4. low \in Int
    BY <2>2 DEF low
  <2> QED
    BY <1>2, <2>3, <2>4
<1> QED
  BY <1>1, <1>3, <1>4

\* The size in eight bytes that are not there is zero.
LEMMA NoSizeIsZero ==
    ASSUME NEW b, b = [i \in 1 .. 8 |-> 0]
    PROVE  Big8(b) = 0
<1> DEFINE z == [i \in 1 .. 4 |-> 0]
           low == SubSeq(b, 5, 8)
           high == SubSeq(b, 1, 4)
<1>1. b \in Seq(Int) /\ Len(b) = 8
  OBVIOUS
<1>2. low = z /\ high = z
  <2>1. /\ low \in Seq(Int) /\ Len(low) = 4 /\ IsPiece(low, b, 4, 4)
        /\ high \in Seq(Int) /\ Len(high) = 4 /\ IsPiece(high, b, 0, 4)
    <3>1. 0 \in Nat /\ 4 \in Nat /\ 4 + 4 <= Len(b) /\ 0 + 4 <= Len(b)
      BY <1>1
    <3>2. /\ SubSeq(b, 4 + 1, 4 + 4) \in Seq(Int) /\ Len(SubSeq(b, 4 + 1, 4 + 4)) = 4
          /\ IsPiece(SubSeq(b, 4 + 1, 4 + 4), b, 4, 4)
      BY <1>1, <3>1, PieceFacts, ZenonT(40)
    <3>3. /\ SubSeq(b, 0 + 1, 0 + 4) \in Seq(Int) /\ Len(SubSeq(b, 0 + 1, 0 + 4)) = 4
          /\ IsPiece(SubSeq(b, 0 + 1, 0 + 4), b, 0, 4)
      BY <1>1, <3>1, PieceFacts, ZenonT(40)
    <3>4. 4 + 1 = 5 /\ 4 + 4 = 8 /\ 0 + 1 = 1 /\ 0 + 4 = 4
      OBVIOUS
    <3> QED
      BY <3>2, <3>3, <3>4
  <2> HIDE DEF low, high
  <2>2. ASSUME NEW i \in 1 .. 4 PROVE low[i] = 0 /\ high[i] = 0
    <3>1. 4 + i \in 1 .. 8 /\ 0 + i \in 1 .. 8
      OBVIOUS
    <3>2. low[i] = b[4 + i] /\ high[i] = b[0 + i]
      BY <2>1, Zenon DEF IsPiece
    <3> QED
      BY <3>1, <3>2
  <2>3. \A u \in Seq(Int) : Len(u) = 4 /\ (\A i \in 1 .. 4 : u[i] = 0) => u = z
    <3> SUFFICES ASSUME NEW u \in Seq(Int), Len(u) = 4, \A i \in 1 .. 4 : u[i] = 0 PROVE u = z
      OBVIOUS
    <3>1. DOMAIN u = 1 .. 4 /\ u = [i \in DOMAIN u |-> u[i]]
      BY LenProperties
    <3> QED
      BY <3>1
  <2> QED
    BY <2>1, <2>2, <2>3
<1>3. Big(z) = 0
  BY ZerosAreZero
<1> HIDE DEF z, low, high
<1>4. Big(low) = 0 /\ Big(high) = 0
  BY <1>2, <1>3
<1>5. Big8(b) = IF Big(high) = (IF Big(low) < 0 THEN -1 ELSE 0) THEN Big(low)
                ELSE IF Big(high) < 0 THEN -NoFileIsLonger ELSE NoFileIsLonger
  BY DEF Big8, low, high
<1> QED
  BY <1>4, <1>5

-----------------------------------------------------------------------------
(* Seeking: pcmfile_seek_set.                                              *)

\* A file a PcmFile can read: bytes, fewer than an int counts, of a known format.
Fits(f) ==
    /\ f.bytes \in Seq(0 .. 255)
    /\ Len(f.bytes) <= INT32_MAX
    /\ f.format \in {PCM_FORMAT_RAW, PCM_FORMAT_WAVE, PCM_FORMAT_AIFF, PCM_FORMAT_CAFF}
    /\ f.channels \in Int /\ f.rate \in Int /\ f.fmt \in Int

\* Where a seek to a position leads.
Led(pf, to) == IF pf.seekable THEN to ELSE Unsigned(to)

\* A seek within the file, or forward, leads to where it should, or past the end.
SeekRight(f, pf, to, r) ==
    \/ ~r.ok /\ r.pf = pf
    \/ /\ r.ok /\ Stands(f, r.pf) /\ r.pf.filepos = Led(pf, to)
       /\ r.pf = [pf EXCEPT !.io = r.pf.io, !.filepos = r.pf.filepos]

\* pcmfile_seek_set is right.
LEMMA SeekIsRight ==
    ASSUME NEW f, Fits(f), INT32_MAX \in Nat, NEW pf, Stands(f, pf), NEW to \in Int,
           pf.seekable => to >= 0 /\ (to <= INT32_MAX \/ to >= pf.filepos)
    PROVE  SeekRight(f, pf, to, pcmfile_seek_set(f, pf, to))
<1> DEFINE r == pcmfile_seek_set(f, pf, to)
           dest == Led(pf, to)
<1>0. dest \in Int /\ (pf.seekable => dest >= 0 /\ (dest <= INT32_MAX \/ dest >= pf.filepos))
  BY UnsignedIsNat DEF Led
<1>7. dest = IF pf.seekable THEN to ELSE Unsigned(to)
  BY DEF Led
<1> HIDE DEF r, dest
<1> SUFFICES \/ ~r.ok /\ r.pf = pf
             \/ /\ r.ok /\ Stands(f, r.pf) /\ r.pf.filepos = dest
                /\ r.pf = [pf EXCEPT !.io = r.pf.io, !.filepos = r.pf.filepos]
  BY Zenon DEF SeekRight, r, dest
<1> DEFINE len == Len(f.bytes)
           offset == dest - pf.filepos
           far == dest \notin 0 .. INT32_MAX
           reach == offset \in -INT32_MAX - 1 .. INT32_MAX
           target == IF far THEN pf.io.fp + offset ELSE dest
           slow == ~pf.seekable \/ (far /\ ~reach)
           refused == IF slow THEN dest < pf.filepos ELSE target < 0
           sought == IF ~pf.seekable THEN pf ELSE Flushed(f, IF slow THEN pf ELSE Fseek(pf, target))
           io == IF slow THEN byteio_read(sought.io, len, offset).io ELSE sought.io
           moved == [sought EXCEPT !.filepos = dest, !.io = io]
<1>1. r = IF refused THEN [ok |-> FALSE, pf |-> pf] ELSE [ok |-> TRUE, pf |-> moved]
  BY <1>7 DEF pcmfile_seek_set, r
<1>2. /\ DOMAIN pf = Fields /\ IoOK(pf.io, len) /\ pf.filepos \in Nat
      /\ At(pf.io) = pf.filepos \/ At(pf.io) >= len
  BY DEF Stands
<1>3. len \in Nat /\ len <= INT32_MAX
  BY LenProperties DEF Fits
<1>4. pf.io.fp \in Nat /\ pf.io.size \in Nat /\ At(pf.io) = pf.io.fp - pf.io.size
  BY <1>2 DEF IoOK, At
<1>5. CASE refused
  <2>1. r = [ok |-> FALSE, pf |-> pf]
    BY <1>1, <1>5, Zenon
  <2> QED
    BY <2>1
<1>6. CASE ~refused
  <2>1. r.ok = TRUE /\ r.pf = moved
    BY <1>1, <1>6
  <2> SUFFICES /\ moved.filepos = dest /\ moved = [pf EXCEPT !.io = moved.io, !.filepos = moved.filepos]
               /\ Stands(f, moved)
    BY <2>1, Zenon
  <2>2. pf.seekable => pf.io.fp + offset >= len \/ ~far
    <3> HAVE pf.seekable
    <3>1. far => dest > INT32_MAX /\ dest >= pf.filepos
      BY <1>0
    <3>2. far => offset \in Nat
      BY <1>0, <1>2, <3>1
    <3>3. CASE At(pf.io) >= len
      <4>1. pf.io.fp >= len
        BY <1>3, <1>4, <3>3
      <4> QED
        BY <1>3, <1>4, <3>2, <4>1
    <3>4. CASE At(pf.io) = pf.filepos
      <4>1. far => pf.io.fp + offset >= dest
        BY <1>0, <1>2, <1>4, <3>4
      <4> HIDE DEF far, offset
      <4> QED
        BY <1>0, <1>2, <1>3, <1>4, <3>1, <3>2, <4>1
    <3> QED
      BY <1>2, <3>3, <3>4
  <2>3. CASE ~pf.seekable
    <3>1. sought = pf /\ slow
      BY <2>3
    <3>2. offset \in Nat
      BY <1>0, <1>2, <1>6, <3>1
    <3> DEFINE got == byteio_read(pf.io, len, offset)
    <3>3. io = got.io
      BY <3>1
    <3> HIDE DEF offset, len
    <3>9. got = byteio_read(pf.io, len, offset)
      OBVIOUS
    <3> HIDE DEF got
    <3>4. /\ IoOK(got.io, len)
          /\ got.bytes \in Seq(0 .. len - 1) /\ Len(got.bytes) \in 0 .. offset
          /\ At(got.io) = At(pf.io) + Len(got.bytes)
          /\ Len(got.bytes) > 0 => At(got.io) <= len
          /\ Len(got.bytes) = offset \/ At(got.io) >= len
      <4>1. ReadRight(pf.io, len, offset, got)
        BY <1>2, <1>3, <3>2, <3>9, ReadIsRight
      <4> QED
        BY <4>1, Zenon DEF ReadRight
    <3>5. At(got.io) = dest \/ At(got.io) >= len
      <4>1. At(pf.io) \in Int /\ Len(got.bytes) \in Nat /\ offset = dest - pf.filepos
        BY <1>4, <3>2, <3>4 DEF offset
      <4>2. CASE At(pf.io) = pf.filepos
        BY <1>0, <1>2, <3>4, <4>1, <4>2
      <4>3. CASE At(pf.io) >= len
        BY <1>0, <1>3, <3>4, <4>1, <4>3
      <4> QED
        BY <1>2, <4>2, <4>3
    <3>6. dest \in Nat
      BY <1>0, <1>2, <3>2 DEF offset
    <3>7. moved = [pf EXCEPT !.filepos = dest, !.io = got.io]
      BY <3>1, <3>3
    <3> HIDE DEF moved
    <3>8. DOMAIN moved = Fields /\ moved.io = got.io /\ moved.filepos = dest
          /\ moved = [pf EXCEPT !.io = moved.io, !.filepos = moved.filepos]
      BY <1>2, <3>7 DEF Fields
    <3> QED
      BY <3>4, <3>5, <3>6, <3>8 DEF Stands, len
  <2>4. CASE pf.seekable /\ ~slow
    <3>1. dest \in Nat /\ (far => dest > INT32_MAX) /\ target \in Nat
      BY <1>0, <1>2, <1>4, <1>6, <2>4
    <3> DEFINE from == Fseek(pf, target)
               next == byteio_flush(from.io, len)
    <3>2. /\ from.io = [pf.io EXCEPT !.fp = target] /\ from.io.fp = target
          /\ DOMAIN from = Fields /\ from = [pf EXCEPT !.io = from.io]
      BY <1>2, <1>4 DEF Fseek, Fields, IoOK
    <3> HIDE DEF from
    <3>3. sought = [from EXCEPT !.io = next]
      BY <2>4 DEF Flushed, from
    <3> HIDE DEF target
    <3>4. IoOK(next, len) /\ At(next) = target
      BY <1>3, <3>1, <3>2, FlushFacts
    <3> HIDE DEF next
    <3>5. sought = [pf EXCEPT !.io = next]
      BY <1>2, <3>2, <3>3 DEF Fields
    <3> HIDE DEF sought
    <3>6. io = next
      BY <1>2, <2>4, <3>5 DEF Fields
    <3>7. moved = [pf EXCEPT !.io = next, !.filepos = dest]
      BY <1>2, <3>5, <3>6 DEF Fields
    <3> HIDE DEF moved
    <3>8. DOMAIN moved = Fields /\ moved.io = next /\ moved.filepos = dest
          /\ moved = [pf EXCEPT !.io = moved.io, !.filepos = moved.filepos]
      BY <1>2, <3>7 DEF Fields
    <3>9. target = dest \/ target >= len
      BY <2>2, <2>4 DEF target
    <3> QED
      BY <3>1, <3>4, <3>8, <3>9 DEF Stands
  <2>5. CASE pf.seekable /\ slow
    <3>1. far /\ dest > INT32_MAX /\ offset \in Nat /\ dest \in Nat /\ pf.io.fp + offset >= len
      BY <1>0, <1>2, <1>6, <2>2, <2>5
    <3> DEFINE next == byteio_flush(pf.io, len)
               got == byteio_read(next, len, offset)
    <3>2. sought = [pf EXCEPT !.io = next]
      BY <2>5 DEF Flushed
    <3> HIDE DEF offset
    <3>3. IoOK(next, len) /\ At(next) = pf.io.fp
      BY <1>3, <1>4, FlushFacts
    <3> HIDE DEF next
    <3>5. sought.io = next
      BY <1>2, <3>2 DEF Fields
    <3>6. io = got.io
      BY <2>5, <3>5
    <3>10. got = byteio_read(next, len, offset)
      OBVIOUS
    <3> HIDE DEF got, sought, len
    <3>4. /\ IoOK(got.io, len)
          /\ got.bytes \in Seq(0 .. len - 1) /\ Len(got.bytes) \in 0 .. offset
          /\ At(got.io) = At(next) + Len(got.bytes)
          /\ Len(got.bytes) > 0 => At(got.io) <= len
          /\ Len(got.bytes) = offset \/ At(got.io) >= len
      <4>1. ReadRight(next, len, offset, got)
        BY <1>3, <3>1, <3>3, <3>10, ReadIsRight
      <4> QED
        BY <4>1, Zenon DEF ReadRight
    <3>7. moved = [pf EXCEPT !.io = got.io, !.filepos = dest]
      BY <1>2, <3>2, <3>6 DEF Fields
    <3> HIDE DEF moved
    <3>8. DOMAIN moved = Fields /\ moved.io = got.io /\ moved.filepos = dest
          /\ moved = [pf EXCEPT !.io = moved.io, !.filepos = moved.filepos]
      BY <1>2, <3>7 DEF Fields
    <3>9. At(got.io) >= len
      BY <3>1, <3>3, <3>4
    <3> QED
      BY <3>1, <3>4, <3>8, <3>9 DEF Stands, len
  <2> QED
    BY <2>3, <2>4, <2>5
<1> QED
  BY <1>5, <1>6

-----------------------------------------------------------------------------
(* A PcmFile and the headers it reads: pcm.c, wav.c, aiff.c, caff.c, raw.c.*)

\* What a PcmFile says about its file holds throughout.
Kept(f, pf) ==
    /\ Stands(f, pf)
    /\ pf.seekable => pf.file_size = Len(f.bytes)
    /\ pf.data_start \in Int /\ pf.data_size \in Int /\ pf.samples \in Int
    /\ pf.channels \in Int /\ pf.sample_rate \in Int /\ pf.block_align \in Int /\ pf.source_format \in Int

\* The audio of an open file: in whole blocks, and inside a file that can be sought in.
Opened(f, pf) ==
    /\ pf.block_align >= 1
    /\ pf.seekable => /\ pf.data_start >= 0 /\ pf.data_size >= 0
                      /\ pf.data_start + pf.data_size <= Len(f.bytes)

\* A PcmFile, from its first header chunk on.
PfOK(f, pf) ==
    /\ Kept(f, pf)
    /\ pf.phase \in {"chunks", "ready", "done", "error"}
    /\ pf.phase = "chunks" => pf.file_format \in {PCM_FORMAT_WAVE, PCM_FORMAT_AIFF, PCM_FORMAT_CAFF}
    /\ (pf.phase = "chunks" /\ pf.file_format = PCM_FORMAT_CAFF) => pf.block_align >= 1
    /\ (pf.phase = "chunks" /\ pf.file_format = PCM_FORMAT_AIFF) => pf.block_align >= 0 /\ pf.samples >= 0
    /\ pf.phase \in {"ready", "done"} => Opened(f, pf)

\* What setting the format of the source leaves alone, and what it sets.
SourceSet(pf, q) ==
    /\ DOMAIN q = Fields /\ q.io = pf.io /\ q.filepos = pf.filepos /\ q.seekable = pf.seekable
    /\ q.file_size = pf.file_size /\ q.data_start = pf.data_start /\ q.data_size = pf.data_size
    /\ q.channels \in Int /\ q.sample_rate \in Int
    /\ q.file_format = pf.file_format /\ q.phase = pf.phase
    /\ q.block_align \in Int /\ q.block_align >= 1 /\ q.samples \in Int /\ q.source_format \in Int

\* Setting the format of the source leaves alone where the file stands.
LEMMA SourceFormatSet ==
    ASSUME NEW pf, DOMAIN pf = Fields, pf.channels \in Int, pf.data_size \in Int, pf.sample_rate \in Int,
           NEW fmt \in Int
    PROVE  SourceSet(pf, pcmfile_set_source_format(pf, fmt))
<1> DEFINE q == pcmfile_set_source_format(pf, fmt)
           source == Clip(fmt, PCM_SAMPLE_FMT_U8, PCM_SAMPLE_FMT_DBL)
           align == Most(1, ((fmt_bits[source] + 7) \div 8) * pf.channels)
           frames == Unsigned(pf.data_size \div align)
           float == IsFloat(source)
           bits == fmt_bits[source]
<1>1. source \in 0 .. 7
  BY DEF Clip, Most, Least, PCM_SAMPLE_FMT_U8, PCM_SAMPLE_FMT_DBL
<1>2. q = [pf EXCEPT !.source_format = source, !.float = float, !.bit_width = bits,
                     !.block_align = align, !.samples = frames]
  BY DEF pcmfile_set_source_format
<1> HIDE DEF source
<1>3. bits \in Int
  <2>1. bits = <<8, 8, 16, 20, 24, 32, 32, 64>>[source + 1]
    BY <1>1 DEF fmt_bits, Formats, PCM_SAMPLE_FMT_U8, PCM_SAMPLE_FMT_DBL
  <2> QED
    BY <1>1, <2>1
<1>4. align \in Int /\ align >= 1
  <2>1. ((bits + 7) \div 8) * pf.channels \in Int
    BY <1>3
  <2> QED
    BY <2>1 DEF Most
<1> HIDE DEF align, float, bits
<1>5. frames \in Int
  <2>1. pf.data_size \div align \in Int
    BY <1>4
  <2> QED
    BY <2>1, UnsignedIsNat
<1> HIDE DEF q, frames
<1>6. /\ DOMAIN q = Fields /\ q.io = pf.io /\ q.filepos = pf.filepos /\ q.seekable = pf.seekable
      /\ q.file_size = pf.file_size /\ q.data_start = pf.data_start /\ q.data_size = pf.data_size
      /\ q.channels = pf.channels /\ q.sample_rate = pf.sample_rate
      /\ q.file_format = pf.file_format /\ q.phase = pf.phase
      /\ q.block_align = align /\ q.samples = frames /\ q.source_format = source
  BY <1>2 DEF Fields
<1>7. SourceSet(pf, q)
  BY <1>1, <1>4, <1>5, <1>6 DEF SourceSet
<1> QED
  BY <1>7 DEF q

\* So does setting the channels and the sample rate too.
LEMMA SourceParamsSet ==
    ASSUME NEW pf, DOMAIN pf = Fields, pf.data_size \in Int,
           NEW ch \in Int, NEW fmt \in Int, NEW order, NEW sr \in Int
    PROVE  SourceSet(pf, pcmfile_set_source_params(pf, ch, fmt, order, sr))
<1> DEFINE o == Clip(order, PCM_BYTE_ORDER_LE, PCM_BYTE_ORDER_BE)
           c == Most(ch, 1)
           s == Most(sr, 1)
           mask == pcm_get_default_ch_mask(ch)
           p == [pf EXCEPT !.channels = c, !.ch_mask = mask, !.order = o, !.sample_rate = s]
           q == pcmfile_set_source_format(p, fmt)
<1>1. pcmfile_set_source_params(pf, ch, fmt, order, sr) = q
  BY DEF pcmfile_set_source_params
<1>2. c \in Int /\ s \in Int
  BY DEF Most
<1> HIDE DEF o, c, s, mask
<1>3. /\ DOMAIN p = Fields /\ p.io = pf.io /\ p.filepos = pf.filepos /\ p.seekable = pf.seekable
      /\ p.file_size = pf.file_size /\ p.data_start = pf.data_start /\ p.data_size = pf.data_size
      /\ p.channels = c /\ p.sample_rate = s
      /\ p.file_format = pf.file_format /\ p.phase = pf.phase
  BY DEF Fields
<1> HIDE DEF p
<1>4. p.channels \in Int /\ p.sample_rate \in Int /\ p.data_size \in Int
  BY <1>2, <1>3
<1>5. SourceSet(p, q)
  BY <1>3, <1>4, SourceFormatSet
<1> HIDE DEF q
<1>6. SourceSet(pf, q)
  BY <1>3, <1>5, Zenon DEF SourceSet
<1> QED
  BY <1>1, <1>6

\* Skipping to a place in the file, or forward, keeps a PcmFile or reports an error; the
\* phase is the old one or that error.
LEMMA SkipLands ==
    ASSUME NEW f, Fits(f), INT32_MAX \in Nat, NEW pf, Kept(f, pf), NEW n \in Int,
           NEW dest, dest = pf.filepos + n,
           pf.seekable => dest >= 0 /\ (dest <= INT32_MAX \/ dest >= pf.filepos),
           NEW q, q = SkipBytes(f, pf, n)
    PROVE  /\ Kept(f, q) /\ q.phase \in {pf.phase, "error"}
           /\ q.file_format = pf.file_format /\ q.block_align = pf.block_align /\ q.samples = pf.samples
<1> DEFINE r == pcmfile_seek_set(f, pf, dest)
<1>1. /\ DOMAIN pf = Fields /\ Stands(f, pf) /\ pf.filepos \in Nat
  BY DEF Kept, Stands
<1>2. dest \in Int
  BY <1>1
<1>3. q = IF r.ok THEN r.pf ELSE [r.pf EXCEPT !.phase = "error"]
  BY DEF SkipBytes, Sought, Failed
<1>4. \/ ~r.ok /\ r.pf = pf
      \/ /\ r.ok /\ Stands(f, r.pf)
         /\ r.pf = [pf EXCEPT !.io = r.pf.io, !.filepos = r.pf.filepos]
  <2>2. SeekRight(f, pf, dest, r)
    BY <1>1, <1>2, SeekIsRight
  <2> QED
    BY <2>2, Zenon DEF SeekRight
<1> HIDE DEF r
<1>5. CASE ~r.ok /\ r.pf = pf
  <2>1. q = [pf EXCEPT !.phase = "error"]
    BY <1>3, <1>5
  <2> QED
    BY <1>1, <2>1 DEF Kept, Stands, Fields
<1>6. CASE /\ r.ok /\ Stands(f, r.pf)
           /\ r.pf = [pf EXCEPT !.io = r.pf.io, !.filepos = r.pf.filepos]
  <2>1. q = r.pf
    BY <1>3, <1>6
  <2> DEFINE x == r.pf.io
             y == r.pf.filepos
  <2>2. q = [pf EXCEPT !.io = x, !.filepos = y] /\ Stands(f, q)
    BY <1>6, <2>1, Zenon
  <2> HIDE DEF x, y
  <2> QED
    BY <1>1, <2>2 DEF Kept, Fields
<1> QED
  BY <1>4, <1>5, <1>6

\* Skipping forward does.
LEMMA SkipFacts ==
    ASSUME NEW f, Fits(f), INT32_MAX \in Nat, NEW pf, Kept(f, pf), NEW n \in Int, n >= 0,
           NEW q, q = SkipBytes(f, pf, n)
    PROVE  /\ Kept(f, q) /\ q.phase \in {pf.phase, "error"}
           /\ q.file_format = pf.file_format /\ q.block_align = pf.block_align /\ q.samples = pf.samples
<1> DEFINE dest == pf.filepos + n
<1>1. pf.filepos \in Nat
  BY DEF Kept, Stands
<1>2. dest = pf.filepos + n /\ dest >= 0 /\ dest >= pf.filepos
  BY <1>1
<1> HIDE DEF dest
<1> QED
  BY <1>2, SkipLands

\* What skipping keeps, named to be cited.
SkipKept(f, pf, q) ==
    /\ Kept(f, q) /\ q.phase \in {pf.phase, "error"}
    /\ q.file_format = pf.file_format /\ q.block_align = pf.block_align /\ q.samples = pf.samples

\* Skipping forward keeps what it should.
LEMMA SkipKeeps ==
    ASSUME NEW f, Fits(f), INT32_MAX \in Nat, NEW pf, Kept(f, pf), NEW n \in Int, n >= 0
    PROVE  SkipKept(f, pf, SkipBytes(f, pf, n))
<1> DEFINE q == SkipBytes(f, pf, n)
<1>1. q = SkipBytes(f, pf, n)
  OBVIOUS
<1> HIDE DEF q
<1>2. SkipKept(f, pf, q)
  BY <1>1, SkipFacts DEF SkipKept
<1> QED
  BY <1>1, <1>2

\* Fields that reading and seeking leave alone.
SameHeader(p, q) ==
    /\ q.phase = p.phase /\ q.file_format = p.file_format /\ q.seekable = p.seekable
    /\ q.block_align = p.block_align /\ q.samples = p.samples /\ q.channels = p.channels
    /\ q.sample_rate = p.sample_rate /\ q.file_size = p.file_size
    /\ q.data_start = p.data_start /\ q.data_size = p.data_size

\* A run of words keeps a PcmFile; its words are numbers, and those that are not there zero.
WordsKept(f, pf, sizes, w) ==
    /\ Kept(f, w.pf) /\ SameHeader(pf, w.pf)
    /\ w.pf.filepos = pf.filepos \/ w.pf.filepos \in 1 .. Len(f.bytes)
    /\ \A k \in 1 .. Len(sizes) :
          /\ w.words[k] \in Seq(0 .. 255) /\ Len(w.words[k]) = sizes[k]
          /\ Little(w.words[k]) \in Int /\ Big(w.words[k]) \in Int
          /\ sizes[k] = 4 => \/ w.pf.filepos \in 1 .. Len(f.bytes)
                             \/ Little(w.words[k]) = 0 /\ Big(w.words[k]) = 0

\* Words keeps a PcmFile.
LEMMA WordsKeep ==
    ASSUME NEW f, Fits(f), NEW pf, Kept(f, pf),
           NEW sizes, NEW m \in Nat, Len(sizes) = m, DOMAIN sizes = 1 .. m,
           \A k \in 1 .. m : sizes[k] \in Nat \ {0}
    PROVE  WordsKept(f, pf, sizes, Words(f, pf, sizes))
<1> DEFINE w == Words(f, pf, sizes)
<1> HIDE DEF w
<1> SUFFICES
           /\ Kept(f, w.pf) /\ SameHeader(pf, w.pf)
           /\ w.pf.filepos = pf.filepos \/ w.pf.filepos \in 1 .. Len(f.bytes)
           /\ \A k \in 1 .. m :
                /\ w.words[k] \in Seq(0 .. 255) /\ Len(w.words[k]) = sizes[k]
                /\ Little(w.words[k]) \in Int /\ Big(w.words[k]) \in Int
                /\ sizes[k] = 4 => \/ w.pf.filepos \in 1 .. Len(f.bytes)
                                   \/ Little(w.words[k]) = 0 /\ Big(w.words[k]) = 0
  BY Zenon DEF WordsKept, w
<1>1. Stands(f, pf) /\ DOMAIN pf = Fields /\ f.bytes \in Seq(0 .. 255)
  BY DEF Kept, Stands, Fits
<1>2. WordsRight(f, pf, sizes, w)
  BY <1>1, WordsAreRight, Zenon DEF w
<1> DEFINE x == w.pf.io
           y == w.pf.filepos
<1>3. /\ w.pf = [pf EXCEPT !.io = x, !.filepos = y] /\ Stands(f, w.pf)
      /\ y = pf.filepos \/ (y > 0 /\ y <= Len(f.bytes))
  BY <1>2, Zenon DEF WordsRight
<1>4. Len(f.bytes) \in Nat /\ y \in Nat
  BY <1>1, <1>3, LenProperties DEF Stands
<1> HIDE DEF x, y
<1> DEFINE q == w.pf
<1> HIDE DEF q
<1>5. Kept(f, q) /\ SameHeader(pf, q)
  <2>1. q = [pf EXCEPT !.io = x, !.filepos = y] /\ Stands(f, q)
    BY <1>3 DEF q
  <2> QED
    BY <1>1, <2>1 DEF Kept, SameHeader, Fields
<1>6. y = pf.filepos \/ y \in 1 .. Len(f.bytes)
  BY <1>3, <1>4
<1>7. ASSUME NEW k \in 1 .. m
      PROVE  /\ w.words[k] \in Seq(0 .. 255) /\ Len(w.words[k]) = sizes[k]
             /\ Little(w.words[k]) \in Int /\ Big(w.words[k]) \in Int
             /\ sizes[k] = 4 => \/ y \in 1 .. Len(f.bytes)
                                \/ Little(w.words[k]) = 0 /\ Big(w.words[k]) = 0
  <2>1. /\ w.words[k] \in Seq(0 .. 255) /\ Len(w.words[k]) = sizes[k]
        /\ (y > 0 /\ y <= Len(f.bytes)) \/ w.words[k] = [i \in 1 .. sizes[k] |-> 0]
    BY <1>2, Zenon DEF WordsRight, y
  <2>2. Little(w.words[k]) \in Int /\ Big(w.words[k]) \in Int
    BY <2>1, BytesAreNumbers, LittleIsInt, BigIsInt, Zenon
  <2>3. ASSUME sizes[k] = 4, w.words[k] = [i \in 1 .. sizes[k] |-> 0]
        PROVE  Little(w.words[k]) = 0 /\ Big(w.words[k]) = 0
    <3>1. w.words[k] = [i \in 1 .. 4 |-> 0]
      BY <2>3
    <3> QED
      BY <3>1, ZerosAreZero, Zenon
  <2>4. (y > 0 /\ y <= Len(f.bytes)) => y \in 1 .. Len(f.bytes)
    BY <1>4
  <2> QED
    BY <2>1, <2>2, <2>3, <2>4, Zenon
<1> QED
  BY <1>5, <1>6, <1>7, Zenon DEF q, y

\* A PcmFile whose header is refused.
LEMMA FailedIsOK ==
    ASSUME NEW f, NEW pf, Kept(f, pf)
    PROVE  PfOK(f, Failed(pf)) /\ Failed(pf).phase = "error"
<1> DEFINE q == Failed(pf)
<1>1. q = [pf EXCEPT !.phase = "error"] /\ DOMAIN pf = Fields
  BY DEF Failed, Kept, Stands
<1> HIDE DEF q
<1>2. Kept(f, q) /\ q.phase = "error"
  BY <1>1 DEF Kept, Stands, Fields
<1>3. PfOK(f, q)
  BY <1>2 DEF PfOK
<1> QED
  BY <1>2, <1>3 DEF q

\* The data chunk of a WAVE or CAFF file lies inside the file.
LEMMA DataAtFacts ==
    ASSUME NEW f, Fits(f), NEW pf, Kept(f, pf), pf.filepos \in 1 .. Len(f.bytes), NEW size \in Int,
           NEW q, q = DataAt(pf, size)
    PROVE  /\ Kept(f, q) /\ q.phase = "ready" /\ q.block_align = pf.block_align
           /\ q.file_format = pf.file_format
           /\ q.seekable => /\ q.data_start >= 0 /\ q.data_size >= 0
                            /\ q.data_start + q.data_size <= Len(f.bytes)
<1> DEFINE known == pf.seekable /\ pf.file_size > 0
           rest == pf.file_size - pf.filepos
           n == IF ~known THEN size ELSE IF size > 0 THEN Least(size, rest) ELSE rest
<1>1. q = [pf EXCEPT !.data_start = pf.filepos, !.phase = "ready", !.data_size = n]
  BY DEF DataAt
<1>2. /\ DOMAIN pf = Fields /\ Len(f.bytes) \in Nat /\ pf.filepos \in Int
      /\ pf.seekable => pf.file_size = Len(f.bytes)
  BY LenProperties DEF Kept, Stands, Fits
<1>3. /\ pf.seekable => n >= 0 /\ pf.filepos + n <= Len(f.bytes)
      /\ n \in Int
  BY <1>2 DEF Least
<1> HIDE DEF n
<1>4. Kept(f, q) /\ q.phase = "ready" /\ q.block_align = pf.block_align
      /\ q.file_format = pf.file_format
      /\ q.data_start = pf.filepos /\ q.data_size = n /\ q.seekable = pf.seekable
  BY <1>1, <1>2, <1>3 DEF Kept, Stands, Fields
<1> QED
  BY <1>2, <1>3, <1>4

\* A header of another format than it was taken for, and the start of a WAVE file.
LEMMA WaveStartIsOK ==
    ASSUME NEW f, Fits(f), NEW pf, Kept(f, pf), pf.file_format = PCM_FORMAT_WAVE
    PROVE  PfOK(f, wave_start(f, pf))
<1> DEFINE w == Words(f, pf, <<4, 4, 4>>)
           q == [w.pf EXCEPT !.phase = "chunks"]
<1>1. wave_start(f, pf) = Failed(pf) \/ wave_start(f, pf) = q
  BY DEF wave_start
<1>2. Kept(f, w.pf) /\ SameHeader(pf, w.pf)
  <2> DEFINE s == <<4, 4, 4>>
  <2>1. Len(s) = 3 /\ DOMAIN s = 1 .. 3 /\ \A k \in 1 .. 3 : s[k] \in Nat \ {0}
    OBVIOUS
  <2> HIDE DEF s
  <2>2. WordsKept(f, pf, s, Words(f, pf, s))
    BY <2>1, WordsKeep
  <2> QED
    BY <2>2, Zenon DEF WordsKept, s
<1> HIDE DEF w
<1>3. PfOK(f, q)
  BY <1>2, SMTT(30) DEF PfOK, Kept, Stands, SameHeader, Fields, PCM_FORMAT_WAVE, PCM_FORMAT_AIFF, PCM_FORMAT_CAFF
<1> QED
  BY <1>1, <1>3, FailedIsOK

\* The fmt chunk of a WAVE file.
LEMMA WaveFmtIsOK ==
    ASSUME NEW f, Fits(f), INT32_MAX \in Nat, NEW pf, Kept(f, pf), pf.file_format = PCM_FORMAT_WAVE,
           pf.phase = "chunks", NEW chunksize \in Int
    PROVE  PfOK(f, wave_fmt(f, pf, chunksize))
<1> DEFINE w == Words(f, pf, <<2, 2, 4, 4, 2, 2>>)
           extensible == Little(w.words[1]) = WAVE_FORMAT_EXTENSIBLE /\ chunksize >= 26
           more == IF extensible THEN <<4, 4, 2>> ELSE <<>>
           x == Words(f, w.pf, more)
           tag == Little(IF extensible THEN x.words[3] ELSE w.words[1])
           channels == Little(w.words[2])
           rate == Little(w.words[3])
           bits == Little(w.words[6])
           mask == IF extensible THEN Little(x.words[2]) ELSE pcm_get_default_ch_mask(channels)
           align == Most(1, ((bits + 7) \div 8) * channels)
           float == tag = WAVE_FORMAT_IEEEFLOAT
           p == [x.pf EXCEPT !.channels = channels, !.sample_rate = rate, !.bit_width = bits,
                    !.ch_mask = mask, !.block_align = align,
                    !.order = PCM_BYTE_ORDER_LE, !.float = float, !.found_fmt = TRUE]
           n == chunksize - (IF extensible THEN 26 ELSE 16)
<1>1. \/ wave_fmt(f, pf, chunksize) = Failed(pf)
      \/ chunksize >= 16 /\ wave_fmt(f, pf, chunksize) = SkipBytes(f, p, n)
  BY DEF wave_fmt
<1>2. /\ Kept(f, w.pf) /\ SameHeader(pf, w.pf)
      /\ channels \in Int /\ rate \in Int /\ bits \in Int
  <2> DEFINE s == <<2, 2, 4, 4, 2, 2>>
             v == Words(f, pf, s)
  <2>1. Len(s) = 6 /\ DOMAIN s = 1 .. 6 /\ \A k \in 1 .. 6 : s[k] \in Nat \ {0}
    OBVIOUS
  <2> HIDE DEF s
  <2>4. WordsKept(f, pf, s, v)
    BY <2>1, WordsKeep
  <2>2. /\ Kept(f, v.pf) /\ SameHeader(pf, v.pf)
        /\ \A k \in 1 .. 6 : Little(v.words[k]) \in Int
    BY <2>1, <2>4, Zenon DEF WordsKept
  <2>3. w = v
    BY DEF s
  <2> HIDE DEF v, w
  <2> QED
    BY <2>2, <2>3
<1>3. Kept(f, x.pf) /\ SameHeader(w.pf, x.pf)
  <2>1. CASE extensible
    <3> DEFINE s == <<4, 4, 2>>
    <3>1. more = s /\ Len(s) = 3 /\ DOMAIN s = 1 .. 3 /\ \A k \in 1 .. 3 : s[k] \in Nat \ {0}
      BY <2>1
    <3> HIDE DEF w, s, more
    <3>2. WordsKept(f, w.pf, s, Words(f, w.pf, s))
      BY <1>2, <3>1, WordsKeep
    <3> QED
      BY <3>1, <3>2, Zenon DEF WordsKept
  <2>2. CASE ~extensible
    <3> DEFINE s == <<>>
    <3>1. more = s /\ Len(s) = 0 /\ DOMAIN s = 1 .. 0 /\ \A k \in 1 .. 0 : s[k] \in Nat \ {0}
      BY <2>2
    <3> HIDE DEF w, s, more
    <3>2. WordsKept(f, w.pf, s, Words(f, w.pf, s))
      BY <1>2, <3>1, WordsKeep
    <3> QED
      BY <3>1, <3>2, Zenon DEF WordsKept
  <2> QED
    BY <2>1, <2>2
<1> HIDE DEF w, x, channels, rate, bits, mask, float, extensible
<1>4. align \in Int
  <2>1. ((bits + 7) \div 8) * channels \in Int
    BY <1>2
  <2> QED
    BY <2>1 DEF Most
<1> HIDE DEF align
<1>5. Kept(f, p) /\ p.phase = "chunks" /\ p.file_format = PCM_FORMAT_WAVE
  BY <1>2, <1>3, <1>4 DEF Kept, Stands, SameHeader, Fields
<1> HIDE DEF p
<1>6. CASE chunksize >= 16 /\ wave_fmt(f, pf, chunksize) = SkipBytes(f, p, n)
  <2> DEFINE q == SkipBytes(f, p, n)
  <2>1. n \in Int /\ n >= 0
    BY <1>6 DEF extensible
  <2> HIDE DEF n
  <2>2. /\ Kept(f, q) /\ q.phase \in {p.phase, "error"} /\ q.file_format = p.file_format
    BY <1>5, <2>1, SkipFacts
  <2> HIDE DEF q
  <2>3. PfOK(f, q)
    BY <1>5, <2>2 DEF PfOK, PCM_FORMAT_WAVE, PCM_FORMAT_AIFF, PCM_FORMAT_CAFF
  <2> QED
    BY <1>6, <2>3 DEF q
<1> QED
  BY <1>1, <1>6, FailedIsOK

\* The data chunk of a WAVE file.
LEMMA WaveDataIsOK ==
    ASSUME NEW f, Fits(f), NEW pf, Kept(f, pf), pf.filepos \in 1 .. Len(f.bytes), NEW chunksize \in Int
    PROVE  PfOK(f, wave_data(f, pf, chunksize))
<1> DEFINE eof == pf.read_to_eof \/ chunksize = 0
           p == [pf EXCEPT !.read_to_eof = eof]
           d == DataAt(p, chunksize)
           fmt == FormatOf(pf.bit_width, pf.float, PCM_SAMPLE_FMT_U8)
           q == pcmfile_set_source_format(d, fmt)
<1>1. wave_data(f, pf, chunksize) = Failed(pf) \/ wave_data(f, pf, chunksize) = q
  BY DEF wave_data
<1>2. fmt \in Int
  BY DEF FormatOf, PCM_SAMPLE_FMT_U8, PCM_SAMPLE_FMT_S16, PCM_SAMPLE_FMT_S20, PCM_SAMPLE_FMT_S24,
         PCM_SAMPLE_FMT_S32, PCM_SAMPLE_FMT_FLT, PCM_SAMPLE_FMT_DBL
<1> HIDE DEF eof, fmt
<1>3. Kept(f, p) /\ p.filepos = pf.filepos
  BY DEF Kept, Stands, Fields
<1> HIDE DEF p
<1>4. /\ Kept(f, d) /\ d.phase = "ready"
      /\ d.seekable => /\ d.data_start >= 0 /\ d.data_size >= 0
                       /\ d.data_start + d.data_size <= Len(f.bytes)
  BY <1>3, DataAtFacts
<1> HIDE DEF d
<1>5. DOMAIN d = Fields /\ d.channels \in Int /\ d.data_size \in Int /\ d.sample_rate \in Int
  BY <1>4 DEF Kept, Stands
<1>6. /\ DOMAIN q = Fields /\ q.io = d.io /\ q.filepos = d.filepos /\ q.seekable = d.seekable
      /\ q.file_size = d.file_size /\ q.data_start = d.data_start /\ q.data_size = d.data_size
      /\ q.channels \in Int /\ q.sample_rate \in Int
      /\ q.file_format = d.file_format /\ q.phase = d.phase
      /\ q.block_align \in Int /\ q.block_align >= 1 /\ q.samples \in Int /\ q.source_format \in Int
  <2>1. SourceSet(d, q)
    BY <1>2, <1>5, SourceFormatSet
  <2> HIDE DEF q
  <2> QED
    BY <2>1, Zenon DEF SourceSet
<1> HIDE DEF q
<1>7. PfOK(f, q)
  BY <1>4, <1>6 DEF PfOK, Opened, Kept, Stands
<1> QED
  BY <1>1, <1>7, FailedIsOK

\* A turn of the chunk loop of wave_init.
LEMMA WaveChunkIsOK ==
    ASSUME NEW f, Fits(f), INT32_MAX \in Nat, NEW pf, Kept(f, pf), pf.file_format = PCM_FORMAT_WAVE,
           pf.phase = "chunks"
    PROVE  PfOK(f, wave_chunk(f, pf))
<1> DEFINE h == Words(f, pf, <<4, 4>>)
           id == Little(h.words[1])
           chunksize == Little(h.words[2])
<1>1. wave_chunk(f, pf) = CASE id = FMT__ID -> wave_fmt(f, h.pf, chunksize)
                            [] id = WAVE_DATA_ID -> wave_data(f, h.pf, chunksize)
                            [] OTHER -> IF chunksize > 0 THEN SkipBytes(f, h.pf, chunksize) ELSE h.pf
  BY DEF wave_chunk
<1>2. /\ Kept(f, h.pf) /\ SameHeader(pf, h.pf)
      /\ id \in Int /\ chunksize \in Int /\ (h.pf.filepos \in 1 .. Len(f.bytes) \/ id = 0)
  <2> DEFINE s == <<4, 4>>
             v == Words(f, pf, s)
  <2>1. Len(s) = 2 /\ DOMAIN s = 1 .. 2 /\ s[1] = 4 /\ \A k \in 1 .. 2 : s[k] \in Nat \ {0}
    OBVIOUS
  <2> HIDE DEF s
  <2>4. WordsKept(f, pf, s, v)
    BY <2>1, WordsKeep
  <2>2. /\ Kept(f, v.pf) /\ SameHeader(pf, v.pf)
        /\ \A k \in 1 .. 2 :
             /\ Little(v.words[k]) \in Int
             /\ s[k] = 4 => v.pf.filepos \in 1 .. Len(f.bytes) \/ Little(v.words[k]) = 0
    BY <2>1, <2>4, Zenon DEF WordsKept
  <2>3. h = v
    BY DEF s
  <2> HIDE DEF v, h
  <2> QED
    BY <2>1, <2>2, <2>3
<1> HIDE DEF h, id, chunksize
<1>3. h.pf.file_format = PCM_FORMAT_WAVE /\ h.pf.phase = "chunks"
  BY <1>2 DEF SameHeader
<1>4. CASE id = FMT__ID
  <2>1. wave_chunk(f, pf) = wave_fmt(f, h.pf, chunksize)
    BY <1>1, <1>4 DEF FMT__ID, WAVE_DATA_ID
  <2> QED
    BY <1>2, <1>3, <2>1, WaveFmtIsOK
<1>5. CASE id = WAVE_DATA_ID
  <2>1. wave_chunk(f, pf) = wave_data(f, h.pf, chunksize)
    BY <1>1, <1>5 DEF FMT__ID, WAVE_DATA_ID
  <2>2. h.pf.filepos \in 1 .. Len(f.bytes)
    BY <1>2, <1>5 DEF WAVE_DATA_ID
  <2> QED
    BY <1>2, <2>1, <2>2, WaveDataIsOK
<1>6. CASE id # FMT__ID /\ id # WAVE_DATA_ID
  <2>1. wave_chunk(f, pf) = IF chunksize > 0 THEN SkipBytes(f, h.pf, chunksize) ELSE h.pf
    BY <1>1, <1>6
  <2> DEFINE q == SkipBytes(f, h.pf, chunksize)
  <2>2. chunksize > 0 => Kept(f, q) /\ q.phase \in {"chunks", "error"} /\ q.file_format = PCM_FORMAT_WAVE
    BY <1>2, <1>3, SkipFacts
  <2> HIDE DEF q
  <2>3. chunksize > 0 => PfOK(f, q)
    BY <2>2 DEF PfOK, PCM_FORMAT_WAVE, PCM_FORMAT_AIFF, PCM_FORMAT_CAFF
  <2>4. PfOK(f, h.pf)
    BY <1>2, <1>3 DEF PfOK, PCM_FORMAT_WAVE, PCM_FORMAT_AIFF, PCM_FORMAT_CAFF
  <2> QED
    BY <2>1, <2>3, <2>4 DEF q
<1> QED
  BY <1>4, <1>5, <1>6

\* aiff_init, up to its chunks.
LEMMA AiffStartIsOK ==
    ASSUME NEW f, Fits(f), NEW pf, Kept(f, pf), pf.file_format = PCM_FORMAT_AIFF,
           pf.block_align = 0, pf.samples = 0
    PROVE  PfOK(f, aiff_start(f, pf))
<1> DEFINE w == Words(f, pf, <<4, 4, 4>>)
           q == [w.pf EXCEPT !.phase = "chunks"]
<1>1. aiff_start(f, pf) = Failed(pf) \/ aiff_start(f, pf) = q
  BY DEF aiff_start
<1>2. Kept(f, w.pf) /\ SameHeader(pf, w.pf)
  <2> DEFINE s == <<4, 4, 4>>
  <2>1. Len(s) = 3 /\ DOMAIN s = 1 .. 3 /\ \A k \in 1 .. 3 : s[k] \in Nat \ {0}
    OBVIOUS
  <2> HIDE DEF s
  <2>2. WordsKept(f, pf, s, Words(f, pf, s))
    BY <2>1, WordsKeep
  <2> QED
    BY <2>2, Zenon DEF WordsKept, s
<1> HIDE DEF w
<1>3. PfOK(f, q)
  BY <1>2, SMTT(30) DEF PfOK, Kept, Stands, SameHeader, Fields, PCM_FORMAT_WAVE, PCM_FORMAT_AIFF, PCM_FORMAT_CAFF
<1> QED
  BY <1>1, <1>3, FailedIsOK

\* The COMM chunk of an AIFF file.
LEMMA AiffCommIsOK ==
    ASSUME NEW f, Fits(f), INT32_MAX \in Nat, NEW pf, Kept(f, pf), pf.file_format = PCM_FORMAT_AIFF,
           pf.phase = "chunks", NEW chunksize \in Int
    PROVE  PfOK(f, aiff_comm(f, pf, chunksize))
<1> DEFINE w == Words(f, pf, <<2, 4, 2, 10>>)
           channels == Big(w.words[1])
           frames == Frames(w.words[2])
           bits == Big(w.words[3])
           rate == ext2dbl(w.words[4])
           align == Most(1, ((bits + 7) \div 8) * channels)
           p == [w.pf EXCEPT !.channels = channels, !.samples = frames,
                    !.bit_width = bits, !.sample_rate = rate, !.found_fmt = TRUE, !.block_align = align]
           n == Even(chunksize - 18)
<1>1. \/ aiff_comm(f, pf, chunksize) = Failed(pf)
      \/ chunksize >= 18 /\ aiff_comm(f, pf, chunksize) = SkipBytes(f, p, n)
  BY DEF aiff_comm
<1>2. /\ Kept(f, w.pf) /\ SameHeader(pf, w.pf)
      /\ channels \in Int /\ frames \in Nat /\ bits \in Int /\ rate \in Int
  <2> DEFINE s == <<2, 4, 2, 10>>
             v == Words(f, pf, s)
  <2>1. Len(s) = 4 /\ DOMAIN s = 1 .. 4 /\ s[4] = 10 /\ \A k \in 1 .. 4 : s[k] \in Nat \ {0}
    OBVIOUS
  <2> HIDE DEF s
  <2>2. WordsKept(f, pf, s, v)
    BY <2>1, WordsKeep
  <2>3. /\ Kept(f, v.pf) /\ SameHeader(pf, v.pf)
        /\ \A k \in 1 .. 4 : /\ v.words[k] \in Seq(0 .. 255) /\ Len(v.words[k]) = s[k]
                             /\ Big(v.words[k]) \in Int
    BY <2>1, <2>2, Zenon DEF WordsKept
  <2>4. w = v
    BY DEF s
  <2> HIDE DEF v, w
  <2>5. /\ Big(w.words[1]) \in Int /\ Big(w.words[3]) \in Int
        /\ w.words[2] \in Seq(0 .. 255) /\ w.words[4] \in Seq(0 .. 255) /\ Len(w.words[4]) = 10
    <3>1. 1 \in 1 .. 4 /\ 2 \in 1 .. 4 /\ 3 \in 1 .. 4 /\ 4 \in 1 .. 4
      OBVIOUS
    <3> QED
      BY <2>1, <2>3, <2>4, <3>1, Zenon
  <2>6. Frames(w.words[2]) \in Nat /\ ext2dbl(w.words[4]) \in Int
    BY <2>5, SizesAreInts, ExtIsInt
  <2> QED
    BY <2>3, <2>4, <2>5, <2>6
<1> HIDE DEF w, channels, frames, bits, rate
<1>3. align \in Int /\ align >= 1
  <2>1. ((bits + 7) \div 8) * channels \in Int
    BY <1>2
  <2> QED
    BY <2>1 DEF Most
<1> HIDE DEF align
<1>4. /\ Kept(f, p) /\ p.phase = "chunks" /\ p.file_format = PCM_FORMAT_AIFF
      /\ p.block_align >= 0 /\ p.samples >= 0
  <2>1. DOMAIN w.pf = Fields /\ w.pf.phase = "chunks" /\ w.pf.file_format = PCM_FORMAT_AIFF
    BY <1>2 DEF Kept, Stands, SameHeader
  <2>2. /\ DOMAIN p = Fields /\ p.io = w.pf.io /\ p.filepos = w.pf.filepos /\ p.seekable = w.pf.seekable
        /\ p.file_size = w.pf.file_size /\ p.data_start = w.pf.data_start
        /\ p.data_size = w.pf.data_size /\ p.source_format = w.pf.source_format
        /\ p.channels = channels /\ p.samples = frames /\ p.sample_rate = rate
        /\ p.block_align = align /\ p.phase = w.pf.phase /\ p.file_format = w.pf.file_format
    BY <2>1 DEF Fields
  <2> HIDE DEF p
  <2> QED
    BY <1>2, <1>3, <2>1, <2>2 DEF Kept, Stands
<1> HIDE DEF p
<1>5. CASE chunksize >= 18 /\ aiff_comm(f, pf, chunksize) = SkipBytes(f, p, n)
  <2> DEFINE q == SkipBytes(f, p, n)
  <2>1. n \in Int /\ n >= 0
    BY <1>5 DEF Even
  <2> HIDE DEF n
  <2>2. /\ Kept(f, q) /\ q.phase \in {p.phase, "error"} /\ q.file_format = p.file_format
        /\ q.block_align = p.block_align /\ q.samples = p.samples
    BY <1>4, <2>1, SkipFacts
  <2> HIDE DEF q
  <2>3. PfOK(f, q)
    BY <1>4, <2>2 DEF PfOK, PCM_FORMAT_WAVE, PCM_FORMAT_AIFF, PCM_FORMAT_CAFF
  <2> QED
    BY <1>5, <2>3 DEF q
<1> QED
  BY <1>1, <1>5, FailedIsOK

\* A seek that is not refused leads to its destination, as far as filepos goes.
LEMMA SeekLeads ==
    ASSUME NEW f, NEW pf, DOMAIN pf = Fields, NEW to, NEW r, r = pcmfile_seek_set(f, pf, to)
    PROVE  /\ (r.ok /\ r.pf.filepos = Led(pf, to)) \/ (~r.ok /\ r.pf = pf)
           /\ r.pf.file_format = pf.file_format
<1> DEFINE dest == Led(pf, to)
           offset == dest - pf.filepos
           far == dest \notin 0 .. INT32_MAX
           reach == offset \in -INT32_MAX - 1 .. INT32_MAX
           target == IF far THEN pf.io.fp + offset ELSE dest
           slow == ~pf.seekable \/ (far /\ ~reach)
           refused == IF slow THEN dest < pf.filepos ELSE target < 0
           sought == IF ~pf.seekable THEN pf ELSE Flushed(f, IF slow THEN pf ELSE Fseek(pf, target))
           io == IF slow THEN byteio_read(sought.io, Len(f.bytes), offset).io ELSE sought.io
           moved == [sought EXCEPT !.filepos = dest, !.io = io]
<1>1. r = IF refused THEN [ok |-> FALSE, pf |-> pf] ELSE [ok |-> TRUE, pf |-> moved]
  BY DEF pcmfile_seek_set, Led
<1>2. DOMAIN sought = Fields /\ sought.file_format = pf.file_format
  BY DEF Flushed, Fseek, Fields
<1> HIDE DEF sought, io, refused, dest
<1>3. moved.filepos = dest /\ moved.file_format = pf.file_format
  BY <1>2 DEF Fields
<1> HIDE DEF moved
<1> QED
  BY <1>1, <1>3 DEF dest

\* The audio of an AIFF file starts inside the file.
AudioStartsInside(f, pf) ==
    (pf.phase \in {"ready", "done"} /\ pf.file_format = PCM_FORMAT_AIFF) => pf.data_start \in 0 .. Len(f.bytes)

\* The SSND chunk of an AIFF file, if its offset stays inside the file.
LEMMA AiffSsndIsOK ==
    ASSUME NEW f, Fits(f), INT32_MAX \in Nat, NEW pf, Kept(f, pf), pf.file_format = PCM_FORMAT_AIFF,
           pf.phase = "chunks", pf.filepos \in 1 .. Len(f.bytes), pf.block_align >= 0, pf.samples >= 0,
           NEW q, q = aiff_ssnd(f, pf), AudioStartsInside(f, q)
    PROVE  PfOK(f, q)
<1> DEFINE w == Words(f, pf, <<4, 4>>)
           off == Big(w.words[1])
           sought == SkipBytes(f, w.pf, off)
           size == pf.block_align * pf.samples
           rest == pf.file_size - sought.filepos
           n == IF pf.seekable /\ pf.file_size > 0 /\ rest >= 0 THEN Least(size, rest) ELSE size
           found == [sought EXCEPT !.data_start = sought.filepos, !.phase = "ready", !.data_size = n]
           fmt == FormatOf(pf.bit_width, FALSE, PCM_SAMPLE_FMT_S8)
           p == pcmfile_set_source_params(found, pf.channels, fmt, PCM_BYTE_ORDER_BE, pf.sample_rate)
<1>1. q = Failed(pf) \/ (sought.phase # "error" /\ q = p)
  BY DEF aiff_ssnd
<1>2. CASE q = Failed(pf)
  BY <1>2, FailedIsOK
<1>3. CASE sought.phase # "error" /\ q = p
  <2>1. /\ Kept(f, w.pf) /\ SameHeader(pf, w.pf) /\ off \in Int
    <3> DEFINE s == <<4, 4>>
               v == Words(f, pf, s)
    <3>1. Len(s) = 2 /\ DOMAIN s = 1 .. 2 /\ \A k \in 1 .. 2 : s[k] \in Nat \ {0}
      OBVIOUS
    <3> HIDE DEF s
    <3>2. WordsKept(f, pf, s, v)
      BY <3>1, WordsKeep
    <3>3. /\ Kept(f, v.pf) /\ SameHeader(pf, v.pf) /\ \A k \in 1 .. 2 : Big(v.words[k]) \in Int
      BY <3>1, <3>2, Zenon DEF WordsKept
    <3>4. w = v
      BY DEF s
    <3> HIDE DEF v, w
    <3> QED
      BY <3>3, <3>4
  <2> HIDE DEF w, off
  <2> DEFINE b == w.pf
             to == b.filepos + off
             dest == Led(b, to)
             r == pcmfile_seek_set(f, b, to)
  <2>2. sought = IF r.ok THEN r.pf ELSE [r.pf EXCEPT !.phase = "error"]
    BY DEF SkipBytes, Sought, Failed
  <2>3. DOMAIN b = Fields /\ Stands(f, b) /\ b.filepos \in Nat /\ to \in Int /\ dest \in Int
    <3>1. Kept(f, b)
      BY <2>1
    <3> HIDE DEF b
    <3>2. DOMAIN b = Fields /\ Stands(f, b) /\ b.filepos \in Nat
      BY <3>1, Zenon DEF Kept, Stands
    <3>3. to \in Int
      BY <2>1, <3>2
    <3> HIDE DEF to
    <3> QED
      BY <3>2, <3>3, UnsignedIsNat DEF Led
  <2> HIDE DEF b, to
  <2>4. /\ (r.ok /\ r.pf.filepos = dest) \/ (~r.ok /\ r.pf = b)
        /\ r.pf.file_format = b.file_format
    BY <2>3, SeekLeads
  <2> HIDE DEF dest
  <2>5. r.ok /\ r.pf.filepos = dest /\ sought = r.pf
    BY <1>3, <2>2, <2>3, <2>4 DEF Fields
  <2> HIDE DEF sought
  <2>6. fmt \in Int /\ n \in Int /\ pf.channels \in Int /\ pf.sample_rate \in Int
        /\ pf.data_size \in Int /\ size \in Int
    <3>1. fmt \in Int
      BY DEF FormatOf, PCM_SAMPLE_FMT_S8, PCM_SAMPLE_FMT_S16, PCM_SAMPLE_FMT_S20, PCM_SAMPLE_FMT_S24,
             PCM_SAMPLE_FMT_S32, PCM_SAMPLE_FMT_FLT, PCM_SAMPLE_FMT_DBL
    <3>2. pf.channels \in Int /\ pf.sample_rate \in Int /\ pf.data_size \in Int /\ size \in Int
          /\ (pf.seekable => pf.file_size \in Int)
      BY LenProperties DEF Kept, Fits
    <3>3. sought.filepos \in Int
      BY <2>3, <2>5
    <3> HIDE DEF size
    <3>4. n \in Int
      BY <3>2, <3>3 DEF Least
    <3> QED
      BY <3>1, <3>2, <3>4
  <2> DEFINE nn == n
  <2> HIDE DEF fmt, nn
  <2>7. found = [sought EXCEPT !.data_start = dest, !.phase = "ready", !.data_size = nn]
    BY <2>5 DEF nn
  <2>10. DOMAIN found = Fields /\ found.phase = "ready" /\ found.data_size = nn /\ found.data_start = dest
         /\ found.file_format = sought.file_format
    <3>1. DOMAIN r.pf = Fields
      BY <2>3 DEF pcmfile_seek_set, Flushed, Fseek
    <3>2. DOMAIN sought = Fields
      BY <2>5, <3>1
    <3> QED
      BY <2>7, <3>2 DEF Fields
  <2> HIDE DEF found
  <2>11. /\ DOMAIN q = Fields /\ q.io = found.io /\ q.filepos = found.filepos /\ q.seekable = found.seekable
         /\ q.file_size = found.file_size /\ q.data_start = found.data_start /\ q.data_size = found.data_size
         /\ q.channels \in Int /\ q.sample_rate \in Int
         /\ q.file_format = found.file_format /\ q.phase = found.phase
         /\ q.block_align \in Int /\ q.block_align >= 1 /\ q.samples \in Int /\ q.source_format \in Int
    <3>1. found.data_size \in Int
      BY <2>6, <2>10 DEF nn
    <3>2. q = pcmfile_set_source_params(found, pf.channels, fmt, PCM_BYTE_ORDER_BE, pf.sample_rate)
      BY <1>3
    <3> QED
      <4> DEFINE c == pf.channels
                 a == pf.sample_rate
                 o == PCM_BYTE_ORDER_BE
      <4>1. c \in Int /\ a \in Int /\ fmt \in Int /\ q = pcmfile_set_source_params(found, c, fmt, o, a)
        BY <2>6, <3>2
      <4> HIDE DEF c, a, o
      <4>2. SourceSet(found, pcmfile_set_source_params(found, c, fmt, o, a))
        BY <2>10, <3>1, <4>1, SourceParamsSet
      <4>3. SourceSet(found, q)
        BY <4>1, <4>2
      <4> QED
        BY <4>3, Zenon DEF SourceSet
  <2>9. q.data_start \in 0 .. Len(f.bytes)
    <3>1. b.file_format = PCM_FORMAT_AIFF
      BY <2>1 DEF SameHeader, b
    <3>2. q.file_format = PCM_FORMAT_AIFF
      BY <2>4, <2>5, <2>10, <2>11, <3>1
    <3> QED
      BY <2>10, <2>11, <3>2 DEF AudioStartsInside
  <2>12. dest \in 0 .. Len(f.bytes) /\ Len(f.bytes) \in Nat /\ Len(f.bytes) <= INT32_MAX
    BY <2>9, <2>10, <2>11, LenProperties DEF Fits
  <2>13. SeekRight(f, b, to, r)
    <3>1. b.seekable => to >= 0 /\ (to <= INT32_MAX \/ to >= b.filepos)
      BY <2>12 DEF dest, Led
    <3> QED
      BY <2>3, <3>1, SeekIsRight
  <2> HIDE DEF r
  <2> DEFINE x == r.pf.io
             y == r.pf.filepos
  <2>14. r.pf = [b EXCEPT !.io = x, !.filepos = y] /\ Stands(f, r.pf) /\ y = dest
    BY <2>5, <2>13, Zenon DEF SeekRight, dest
  <2> HIDE DEF x, y
  <2>15. /\ Stands(f, sought) /\ sought.seekable = pf.seekable /\ sought.file_size = pf.file_size
         /\ sought.filepos = dest
    <3>1. /\ b.seekable = pf.seekable /\ b.file_size = pf.file_size
      BY <2>1 DEF SameHeader, b
    <3> QED
      BY <2>3, <2>5, <2>14, <3>1 DEF Fields
  <2>16. /\ found.io = sought.io /\ found.filepos = sought.filepos /\ found.seekable = pf.seekable
         /\ found.file_size = pf.file_size
    BY <2>7, <2>15 DEF Fields, Stands, found
  <2>17. pf.seekable => pf.file_size = Len(f.bytes)
    BY DEF Kept
  <2>18. pf.seekable => nn >= 0 /\ dest + nn <= Len(f.bytes)
    <3> HAVE pf.seekable
    <3>1. size >= 0
      <4>1. pf.block_align \in Nat /\ pf.samples \in Nat
        BY DEF Kept
      <4> QED
        BY <4>1
    <3> HIDE DEF size
    <3>2. rest = Len(f.bytes) - dest /\ rest >= 0 /\ pf.file_size > 0 /\ rest \in Int
      BY <2>12, <2>15, <2>17
    <3> HIDE DEF rest
    <3>3. nn = Least(size, rest)
      BY <3>2 DEF nn
    <3> QED
      BY <2>3, <2>6, <2>12, <3>1, <3>2, <3>3 DEF Least
  <2>19. Kept(f, q)
    BY <2>6, <2>10, <2>11, <2>12, <2>15, <2>16, <2>17 DEF Kept, Stands, nn
  <2>20. Opened(f, q)
    BY <2>10, <2>11, <2>12, <2>16, <2>18 DEF Opened
  <2> QED
    BY <2>10, <2>11, <2>19, <2>20 DEF PfOK
<1> QED
  BY <1>1, <1>2, <1>3

\* A turn of the chunk loop of aiff_init.
LEMMA AiffChunkIsOK ==
    ASSUME NEW f, Fits(f), INT32_MAX \in Nat, NEW pf, Kept(f, pf), pf.file_format = PCM_FORMAT_AIFF,
           pf.phase = "chunks", pf.block_align >= 0, pf.samples >= 0,
           NEW q, q = aiff_chunk(f, pf), AudioStartsInside(f, q)
    PROVE  PfOK(f, q)
<1> DEFINE h == Words(f, pf, <<4, 4>>)
           id == Big(h.words[1])
           chunksize == Big(h.words[2])
<1>1. q = CASE id = COMM_ID -> aiff_comm(f, h.pf, chunksize)
            [] id = SSND_ID -> aiff_ssnd(f, h.pf)
            [] OTHER -> IF Even(chunksize) > 0 THEN SkipBytes(f, h.pf, Even(chunksize)) ELSE h.pf
  BY DEF aiff_chunk
<1>2. /\ Kept(f, h.pf) /\ SameHeader(pf, h.pf)
      /\ id \in Int /\ chunksize \in Int /\ (h.pf.filepos \in 1 .. Len(f.bytes) \/ id = 0)
  <2> DEFINE s == <<4, 4>>
             v == Words(f, pf, s)
  <2>1. Len(s) = 2 /\ DOMAIN s = 1 .. 2 /\ s[1] = 4 /\ \A k \in 1 .. 2 : s[k] \in Nat \ {0}
    OBVIOUS
  <2> HIDE DEF s
  <2>2. WordsKept(f, pf, s, v)
    BY <2>1, WordsKeep
  <2>3. /\ Kept(f, v.pf) /\ SameHeader(pf, v.pf)
        /\ \A k \in 1 .. 2 :
             /\ Big(v.words[k]) \in Int
             /\ s[k] = 4 => v.pf.filepos \in 1 .. Len(f.bytes) \/ Big(v.words[k]) = 0
    BY <2>1, <2>2, Zenon DEF WordsKept
  <2>4. h = v
    BY DEF s
  <2> HIDE DEF v, h
  <2> QED
    BY <2>1, <2>3, <2>4
<1> HIDE DEF h, id, chunksize
<1>3. /\ h.pf.file_format = PCM_FORMAT_AIFF /\ h.pf.phase = "chunks"
      /\ h.pf.block_align >= 0 /\ h.pf.samples >= 0
  BY <1>2 DEF SameHeader
<1>4. CASE id = COMM_ID
  <2>1. q = aiff_comm(f, h.pf, chunksize)
    BY <1>1, <1>4 DEF COMM_ID, SSND_ID
  <2> QED
    BY <1>2, <1>3, <2>1, AiffCommIsOK
<1>5. CASE id = SSND_ID
  <2>1. q = aiff_ssnd(f, h.pf)
    BY <1>1, <1>5 DEF COMM_ID, SSND_ID
  <2>2. h.pf.filepos \in 1 .. Len(f.bytes)
    BY <1>2, <1>5 DEF SSND_ID
  <2> QED
    BY <1>2, <1>3, <2>1, <2>2, AiffSsndIsOK
<1>6. CASE id # COMM_ID /\ id # SSND_ID
  <2> DEFINE n == Even(chunksize)
             p == SkipBytes(f, h.pf, n)
  <2>1. q = IF n > 0 THEN p ELSE h.pf
    BY <1>1, <1>6
  <2>2. n \in Int
    BY <1>2 DEF Even
  <2> HIDE DEF n
  <2>3. ASSUME n > 0
        PROVE  /\ Kept(f, p) /\ p.phase \in {"chunks", "error"} /\ p.file_format = PCM_FORMAT_AIFF
               /\ p.block_align = h.pf.block_align /\ p.samples = h.pf.samples
    <3>1. n >= 0
      BY <2>2, <2>3
    <3> DEFINE b == h.pf
    <3>2. Kept(f, b) /\ b.phase = "chunks" /\ b.file_format = PCM_FORMAT_AIFF
      BY <1>2, <1>3
    <3> HIDE DEF b
    <3>3. SkipKept(f, b, SkipBytes(f, b, n))
      BY <2>2, <3>1, <3>2, SkipKeeps
    <3>4. SkipKept(f, b, p)
      BY <3>3 DEF b
    <3> HIDE DEF p
    <3>5. /\ Kept(f, p) /\ p.phase \in {b.phase, "error"} /\ p.file_format = b.file_format
          /\ p.block_align = b.block_align /\ p.samples = b.samples
      BY <3>4, Zenon DEF SkipKept
    <3> QED
      BY <3>2, <3>5 DEF b
  <2> HIDE DEF p
  <2>4. n > 0 => PfOK(f, p)
    BY <1>3, <2>3 DEF PfOK, PCM_FORMAT_WAVE, PCM_FORMAT_AIFF, PCM_FORMAT_CAFF
  <2>5. PfOK(f, h.pf)
    BY <1>2, <1>3 DEF PfOK, PCM_FORMAT_WAVE, PCM_FORMAT_AIFF, PCM_FORMAT_CAFF
  <2> QED
    BY <2>1, <2>4, <2>5
<1> QED
  BY <1>4, <1>5, <1>6

\* The start of a CAFF file.
LEMMA CaffStartIsOK ==
    ASSUME NEW f, Fits(f), NEW pf, Kept(f, pf), pf.file_format = PCM_FORMAT_CAFF
    PROVE  PfOK(f, caff_start(f, pf))
<1> DEFINE w == Words(f, pf, <<4, 2, 2, 4, 8, 8, 4, 4, 4, 4, 4, 4>>)
           flags == Big(w.words[8])
           float == flags % 2 = 1
           channels == Big(w.words[11])
           bits == Big(w.words[12])
           rate == read_dbl(w.words[6])
           mask == pcm_get_default_ch_mask(channels)
           order == IF (flags \div 2) % 2 = 1 THEN PCM_BYTE_ORDER_LE ELSE PCM_BYTE_ORDER_BE
           fmt == FormatOf(bits, float, PCM_SAMPLE_FMT_S8)
           p == [w.pf EXCEPT !.phase = "chunks", !.channels = channels, !.sample_rate = rate,
                    !.float = float, !.ch_mask = mask, !.order = order]
           q == pcmfile_set_source_format(p, fmt)
<1>1. caff_start(f, pf) = Failed(pf) \/ caff_start(f, pf) = q
  BY DEF caff_start
<1>2. Kept(f, w.pf) /\ SameHeader(pf, w.pf) /\ channels \in Int /\ rate \in Int
  <2> DEFINE s == <<4, 2, 2, 4, 8, 8, 4, 4, 4, 4, 4, 4>>
             v == Words(f, pf, s)
  <2>1. Len(s) = 12 /\ DOMAIN s = 1 .. 12 /\ s[6] = 8 /\ \A k \in 1 .. 12 : s[k] \in Nat \ {0}
    OBVIOUS
  <2> HIDE DEF s
  <2>2. WordsKept(f, pf, s, v)
    BY <2>1, WordsKeep
  <2>3. /\ Kept(f, v.pf) /\ SameHeader(pf, v.pf)
        /\ \A k \in 1 .. 12 : /\ v.words[k] \in Seq(0 .. 255) /\ Len(v.words[k]) = s[k]
                              /\ Big(v.words[k]) \in Int
    BY <2>1, <2>2, Zenon DEF WordsKept
  <2>4. w = v
    BY DEF s
  <2> HIDE DEF v, w
  <2>5. Big(w.words[11]) \in Int /\ w.words[6] \in Seq(0 .. 255) /\ Len(w.words[6]) = 8
    <3>1. 11 \in 1 .. 12 /\ 6 \in 1 .. 12
      OBVIOUS
    <3> QED
      BY <2>1, <2>3, <2>4, <3>1, Zenon
  <2>6. read_dbl(w.words[6]) \in Int
    BY <2>5, DblIsInt
  <2> QED
    BY <2>3, <2>4, <2>5, <2>6
<1> HIDE DEF w, flags, channels, bits, rate, mask, order
<1>3. fmt \in Int
  <2> HIDE DEF float
  <2> QED
    BY DEF FormatOf, PCM_SAMPLE_FMT_S8, PCM_SAMPLE_FMT_S16, PCM_SAMPLE_FMT_S20, PCM_SAMPLE_FMT_S24,
           PCM_SAMPLE_FMT_S32, PCM_SAMPLE_FMT_FLT, PCM_SAMPLE_FMT_DBL
<1> HIDE DEF fmt, float
<1>4. /\ DOMAIN p = Fields /\ p.io = w.pf.io /\ p.filepos = w.pf.filepos /\ p.seekable = w.pf.seekable
      /\ p.file_size = w.pf.file_size /\ p.data_start = w.pf.data_start
      /\ p.data_size = w.pf.data_size /\ p.channels = channels /\ p.sample_rate = rate
      /\ p.phase = "chunks" /\ p.file_format = PCM_FORMAT_CAFF
  <2>1. DOMAIN w.pf = Fields /\ w.pf.file_format = PCM_FORMAT_CAFF
    BY <1>2 DEF Kept, Stands, SameHeader
  <2> QED
    BY <2>1 DEF Fields
<1> HIDE DEF p
<1>5. p.channels \in Int /\ p.data_size \in Int /\ p.sample_rate \in Int
  BY <1>2, <1>4 DEF Kept
<1>6. /\ DOMAIN q = Fields /\ q.io = p.io /\ q.filepos = p.filepos /\ q.seekable = p.seekable
      /\ q.file_size = p.file_size /\ q.data_start = p.data_start /\ q.data_size = p.data_size
      /\ q.channels \in Int /\ q.sample_rate \in Int
      /\ q.file_format = p.file_format /\ q.phase = p.phase
      /\ q.block_align \in Int /\ q.block_align >= 1 /\ q.samples \in Int /\ q.source_format \in Int
  <2>1. SourceSet(p, q)
    BY <1>3, <1>4, <1>5, SourceFormatSet
  <2> HIDE DEF q
  <2> QED
    BY <2>1, Zenon DEF SourceSet
<1> HIDE DEF q
<1>7. Kept(f, q)
  BY <1>2, <1>4, <1>6 DEF Kept, Stands
<1>8. PfOK(f, q)
  BY <1>4, <1>6, <1>7 DEF PfOK, PCM_FORMAT_WAVE, PCM_FORMAT_AIFF, PCM_FORMAT_CAFF
<1> QED
  BY <1>1, <1>8, FailedIsOK

\* A turn of the chunk loop of caff_init.
LEMMA CaffChunkIsOK ==
    ASSUME NEW f, Fits(f), INT32_MAX \in Nat, NEW pf, Kept(f, pf), pf.file_format = PCM_FORMAT_CAFF,
           pf.phase = "chunks", pf.block_align >= 1, caff_chunk(f, pf).filepos >= 0
    PROVE  PfOK(f, caff_chunk(f, pf))
<1> DEFINE h == Words(f, pf, <<4, 8>>)
           id == Big(h.words[1])
           chunksize == Big8(h.words[2])
           e == Words(f, h.pf, <<4>>)
           d == DataAt(e.pf, chunksize - 4)
           n == Unsigned(d.data_size \div d.block_align)
           q == [d EXCEPT !.samples = n]
           p == SkipBytes(f, h.pf, chunksize)
<1>1. \/ id = CAFF_DATA_ID /\ caff_chunk(f, pf) = q
      \/ chunksize # 0 /\ caff_chunk(f, pf) = p /\ p.filepos >= 0
      \/ caff_chunk(f, pf) = h.pf
  BY DEF caff_chunk
<1>2. /\ Kept(f, h.pf) /\ SameHeader(pf, h.pf)
      /\ id \in Int /\ chunksize \in Int /\ (h.pf.filepos \in 1 .. Len(f.bytes) \/ (id = 0 /\ chunksize = 0))
  <2> DEFINE s == <<4, 8>>
             v == Words(f, pf, s)
  <2>1. Len(s) = 2 /\ DOMAIN s = 1 .. 2 /\ s[1] = 4 /\ s[2] = 8 /\ \A k \in 1 .. 2 : s[k] \in Nat \ {0}
    OBVIOUS
  <2> HIDE DEF s
  <2>2. WordsKept(f, pf, s, v)
    BY <2>1, WordsKeep
  <2>3. /\ Kept(f, v.pf) /\ SameHeader(pf, v.pf)
        /\ \A k \in 1 .. 2 :
             /\ v.words[k] \in Seq(0 .. 255) /\ Len(v.words[k]) = s[k] /\ Big(v.words[k]) \in Int
             /\ s[k] = 4 => v.pf.filepos \in 1 .. Len(f.bytes) \/ Big(v.words[k]) = 0
    BY <2>1, <2>2, Zenon DEF WordsKept
  <2>4. h = v
    BY DEF s
  <2> HIDE DEF v, h
  <2>5. /\ Big(h.words[1]) \in Int /\ h.words[2] \in Seq(0 .. 255) /\ Len(h.words[2]) = 8
        /\ h.pf.filepos \in 1 .. Len(f.bytes) \/ Big(h.words[1]) = 0
    <3>1. 1 \in 1 .. 2 /\ 2 \in 1 .. 2
      OBVIOUS
    <3> QED
      BY <2>1, <2>3, <2>4, <3>1, Zenon
  <2>6. Big8(h.words[2]) \in Int
    BY <2>5, SizesAreInts
  <2>7. h.pf.filepos \in 1 .. Len(f.bytes) \/ Big8(h.words[2]) = 0
    <3>1. Stands(f, pf) /\ f.bytes \in Seq(0 .. 255)
      BY DEF Kept, Fits
    <3>2. WordsRight(f, pf, s, v)
      BY <2>1, <3>1, WordsAreRight, Zenon DEF v
    <3>3. (h.pf.filepos > 0 /\ h.pf.filepos <= Len(f.bytes)) \/ h.words[2] = [i \in 1 .. s[2] |-> 0]
      <4>1. 2 \in 1 .. Len(s)
        BY <2>1
      <4> QED
        BY <2>4, <3>2, <4>1, Zenon DEF WordsRight
    <3>4. h.pf.filepos \in Int /\ Len(f.bytes) \in Nat
      <4>1. Kept(f, h.pf)
        BY <2>3, <2>4, Zenon
      <4>2. h.pf.filepos \in Nat
        BY <4>1, Zenon DEF Kept, Stands
      <4> QED
        BY <3>1, <4>2, LenProperties
    <3>5. CASE h.pf.filepos > 0 /\ h.pf.filepos <= Len(f.bytes)
      BY <3>4, <3>5
    <3>6. CASE h.words[2] = [i \in 1 .. s[2] |-> 0]
      <4>1. h.words[2] = [i \in 1 .. 8 |-> 0]
        BY <2>1, <3>6
      <4> QED
        BY <4>1, NoSizeIsZero, Zenon
    <3> QED
      BY <3>3, <3>5, <3>6
  <2> QED
    BY <2>3, <2>4, <2>5, <2>6, <2>7
<1> HIDE DEF h, id, chunksize
<1>3. h.pf.file_format = PCM_FORMAT_CAFF /\ h.pf.phase = "chunks" /\ h.pf.block_align >= 1
  BY <1>2 DEF SameHeader
<1>4. PfOK(f, h.pf)
  BY <1>2, <1>3 DEF PfOK, PCM_FORMAT_WAVE, PCM_FORMAT_AIFF, PCM_FORMAT_CAFF
<1>5. ASSUME chunksize # 0, p.filepos >= 0 PROVE PfOK(f, p)
  <2>1. /\ Kept(f, p) /\ p.phase \in {"chunks", "error"} /\ p.file_format = PCM_FORMAT_CAFF
        /\ p.block_align = h.pf.block_align
    <3> DEFINE b == h.pf
               dest == b.filepos + chunksize
               r == pcmfile_seek_set(f, b, dest)
    <3>1. DOMAIN b = Fields /\ Kept(f, b) /\ b.filepos \in Nat /\ b.filepos <= INT32_MAX
          /\ b.phase = "chunks" /\ b.file_format = PCM_FORMAT_CAFF
      <4>1. Kept(f, b) /\ b.filepos \in 1 .. Len(f.bytes)
        BY <1>2, <1>5, Zenon
      <4>2. Len(f.bytes) \in Nat /\ Len(f.bytes) <= INT32_MAX
        BY LenProperties DEF Fits
      <4>3. b.phase = "chunks" /\ b.file_format = PCM_FORMAT_CAFF
        BY <1>3, Zenon
      <4> HIDE DEF b
      <4>4. DOMAIN b = Fields /\ b.filepos \in Nat
        BY <4>1, Zenon DEF Kept, Stands
      <4> QED
        BY <4>1, <4>2, <4>3, <4>4
    <3>2. p = IF r.ok THEN r.pf ELSE [r.pf EXCEPT !.phase = "error"]
      BY DEF SkipBytes, Sought, Failed
    <3>3. p = SkipBytes(f, b, chunksize) /\ dest \in Int
      BY <1>2, <3>1
    <3> HIDE DEF p, b
    <3>4. (r.ok /\ r.pf.filepos = Led(b, dest)) \/ (~r.ok /\ r.pf = b)
      BY <3>1, SeekLeads
    <3>5. CASE r.ok /\ r.pf.filepos = Led(b, dest)
      <4>1. b.seekable => dest >= 0
        BY <1>5, <3>2, <3>5 DEF Led
      <4>2. b.seekable => dest >= 0 /\ (dest <= INT32_MAX \/ dest >= b.filepos)
        BY <1>2, <3>1, <4>1
      <4> HIDE DEF dest, r
      <4>3. dest = b.filepos + chunksize
        BY DEF dest
      <4> QED
        BY <1>2, <3>1, <3>3, <4>2, <4>3, SkipLands DEF b
    <3>6. CASE ~r.ok /\ r.pf = b
      <4>1. p = [b EXCEPT !.phase = "error"]
        BY <3>2, <3>6
      <4> QED
        BY <3>1, <4>1 DEF Kept, Stands, Fields, b
    <3> QED
      BY <3>4, <3>5, <3>6
  <2> HIDE DEF p
  <2> QED
    BY <1>3, <2>1 DEF PfOK, PCM_FORMAT_WAVE, PCM_FORMAT_AIFF, PCM_FORMAT_CAFF
<1>6. ASSUME id = CAFF_DATA_ID PROVE PfOK(f, q)
  <2>1. h.pf.filepos \in 1 .. Len(f.bytes)
    BY <1>2, <1>6 DEF CAFF_DATA_ID
  <2>2. Kept(f, e.pf) /\ SameHeader(h.pf, e.pf) /\ e.pf.filepos \in 1 .. Len(f.bytes)
    <3> DEFINE s == <<4>>
               v == Words(f, h.pf, s)
    <3>1. Len(s) = 1 /\ DOMAIN s = 1 .. 1 /\ \A k \in 1 .. 1 : s[k] \in Nat \ {0}
      OBVIOUS
    <3> HIDE DEF s
    <3>2. WordsKept(f, h.pf, s, v)
      BY <1>2, <3>1, WordsKeep
    <3>3. /\ Kept(f, v.pf) /\ SameHeader(h.pf, v.pf)
          /\ v.pf.filepos = h.pf.filepos \/ v.pf.filepos \in 1 .. Len(f.bytes)
      BY <3>2, Zenon DEF WordsKept
    <3>4. e = v
      BY DEF s
    <3> HIDE DEF v, e
    <3> QED
      BY <2>1, <3>3, <3>4
  <2> HIDE DEF e
  <2>3. /\ Kept(f, d) /\ d.phase = "ready" /\ d.block_align = e.pf.block_align
        /\ d.file_format = e.pf.file_format
        /\ d.seekable => /\ d.data_start >= 0 /\ d.data_size >= 0
                         /\ d.data_start + d.data_size <= Len(f.bytes)
    <3> DEFINE k == chunksize - 4
    <3>1. k \in Int
      BY <1>2
    <3> HIDE DEF k
    <3>2. d = DataAt(e.pf, k)
      BY DEF k
    <3> HIDE DEF d
    <3> QED
      BY <2>2, <3>1, <3>2, DataAtFacts
  <2>4. e.pf.block_align >= 1
    BY <1>3, <2>2 DEF SameHeader
  <2> HIDE DEF d
  <2>5. DOMAIN d = Fields /\ d.block_align >= 1 /\ d.block_align \in Int /\ d.data_size \in Int
    BY <2>3, <2>4 DEF Kept, Stands
  <2>6. n \in Int
    <3>1. d.data_size \div d.block_align \in Int
      BY <2>5
    <3> QED
      BY <3>1, UnsignedIsNat
  <2> HIDE DEF n
  <2>7. /\ DOMAIN q = Fields /\ q.io = d.io /\ q.filepos = d.filepos /\ q.seekable = d.seekable
        /\ q.file_size = d.file_size /\ q.data_start = d.data_start
        /\ q.data_size = d.data_size /\ q.source_format = d.source_format /\ q.channels = d.channels
        /\ q.samples = n /\ q.sample_rate = d.sample_rate
        /\ q.block_align = d.block_align /\ q.phase = d.phase
    BY <2>5 DEF Fields
  <2> HIDE DEF q
  <2>8. Kept(f, q)
    BY <2>3, <2>6, <2>7 DEF Kept, Stands
  <2> QED
    BY <2>3, <2>5, <2>7, <2>8 DEF PfOK, Opened
<1> QED
  BY <1>1, <1>4, <1>5, <1>6

\* The format of a file is one of the four.
LEMMA ProbeFinds ==
    ASSUME NEW b
    PROVE  pcmfile_probe_format(b) \in {PCM_FORMAT_RAW, PCM_FORMAT_WAVE, PCM_FORMAT_AIFF, PCM_FORMAT_CAFF}
  BY DEF pcmfile_probe_format

\* A raw file: all of it is audio.
LEMMA RawInitIsOK ==
    ASSUME NEW f, Fits(f), NEW pf, Kept(f, pf), pf.data_start = 0
    PROVE  PfOK(f, raw_init(f, pf))
<1> DEFINE n == IF pf.seekable /\ pf.file_size > 0 THEN pf.file_size ELSE 0
           p == [pf EXCEPT !.data_size = n, !.read_to_eof = TRUE, !.phase = "ready"]
           s == PCM_SAMPLE_FMT_S16
           o == PCM_BYTE_ORDER_LE
           q == pcmfile_set_source_params(p, 1, s, o, 48000)
<1>1. raw_init(f, pf) = q
  BY DEF raw_init
<1>2. /\ DOMAIN pf = Fields /\ Len(f.bytes) \in Nat
      /\ pf.seekable => pf.file_size = Len(f.bytes)
  BY LenProperties DEF Kept, Stands, Fits
<1>3. n \in Int /\ (pf.seekable => n >= 0 /\ n <= Len(f.bytes))
  BY <1>2
<1> HIDE DEF n
<1>4. /\ DOMAIN p = Fields /\ p.io = pf.io /\ p.filepos = pf.filepos /\ p.seekable = pf.seekable
      /\ p.file_size = pf.file_size /\ p.data_start = 0 /\ p.data_size = n /\ p.phase = "ready"
  BY <1>2 DEF Fields
<1>5. s \in Int
  BY DEF PCM_SAMPLE_FMT_S16
<1> HIDE DEF p, s, o
<1>6. SourceSet(p, q)
  BY <1>3, <1>4, <1>5, SourceParamsSet
<1> HIDE DEF q
<1>7. /\ DOMAIN q = Fields /\ q.io = p.io /\ q.filepos = p.filepos /\ q.seekable = p.seekable
      /\ q.file_size = p.file_size /\ q.data_start = p.data_start /\ q.data_size = p.data_size
      /\ q.channels \in Int /\ q.sample_rate \in Int /\ q.phase = p.phase
      /\ q.block_align \in Int /\ q.block_align >= 1 /\ q.samples \in Int /\ q.source_format \in Int
  BY <1>6, Zenon DEF SourceSet
<1>8. Kept(f, q)
  BY <1>3, <1>4, <1>7 DEF Kept, Stands
<1>9. Opened(f, q)
  BY <1>2, <1>3, <1>4, <1>7 DEF Opened
<1> QED
  BY <1>1, <1>4, <1>7, <1>8, <1>9 DEF PfOK

\* pcmfile_init, up to the first chunk.
LEMMA InitIsOK ==
    ASSUME NEW f, Fits(f), NEW read_format,
           NEW file_format \in {PCM_FORMAT_UNKNOWN, PCM_FORMAT_RAW, PCM_FORMAT_WAVE,
                                PCM_FORMAT_AIFF, PCM_FORMAT_CAFF}
    PROVE  PfOK(f, pcmfile_init(f, read_format, file_format))
<1> DEFINE len == Len(f.bytes)
           new == PcmFileOf(f, read_format)
           peek == byteio_peek(new.io, len, 12)
           probe_data == [i \in 1 .. 12 |-> IF i <= Len(peek.bytes) THEN f.bytes[peek.bytes[i] + 1] ELSE 0]
           unknown == file_format = PCM_FORMAT_UNKNOWN
           format == IF unknown THEN pcmfile_probe_format(probe_data) ELSE file_format
           io == IF unknown THEN peek.io ELSE new.io
           pf == [new EXCEPT !.file_format = format, !.io = io]
<1>1. pcmfile_init(f, read_format, file_format) =
         CASE format = PCM_FORMAT_RAW -> raw_init(f, pf)
           [] format = PCM_FORMAT_WAVE -> wave_start(f, pf)
           [] format = PCM_FORMAT_AIFF -> aiff_start(f, pf)
           [] format = PCM_FORMAT_CAFF -> caff_start(f, pf)
  BY DEF pcmfile_init
<1>2. format \in {PCM_FORMAT_RAW, PCM_FORMAT_WAVE, PCM_FORMAT_AIFF, PCM_FORMAT_CAFF}
  BY ProbeFinds
<1>3. len \in Nat
  BY LenProperties DEF Fits
<1>4. /\ DOMAIN new = Fields /\ new.io = byteio_init(len) /\ new.filepos = 0 /\ new.seekable = f.seekable
      /\ new.file_size = (IF f.seekable THEN len ELSE 0)
      /\ new.data_start = 0 /\ new.data_size = 0 /\ new.samples = 0 /\ new.channels = 0
      /\ new.sample_rate = 0 /\ new.block_align = 0 /\ new.source_format = 0
  BY DEF PcmFileOf, Fields
<1> HIDE DEF new, format, len
<1>5. IoOK(new.io, len) /\ At(new.io) = 0 /\ new.io.size <= BYTEIO_BUFFER_SIZE
  <2> DEFINE z == [buffer |-> <<>>, index |-> 0, size |-> 0, fp |-> 0]
             next == byteio_flush(z, len)
  <2>1. z.fp \in Nat /\ z.fp = 0
    OBVIOUS
  <2>2. new.io = next
    BY <1>4 DEF byteio_init
  <2> HIDE DEF z
  <2>3. IoOK(next, len) /\ At(next) = z.fp /\ next.size <= BYTEIO_BUFFER_SIZE
    BY <1>3, <2>1, FlushFacts
  <2> QED
    BY <2>1, <2>2, <2>3
<1>6. IoOK(io, len) /\ At(io) = 0
  <2> DEFINE a == new.io
             r == byteio_peek(a, len, 12)
  <2>1. IoOK(a, len) /\ At(a) = 0 /\ a.size <= BYTEIO_BUFFER_SIZE
    BY <1>5
  <2> HIDE DEF a
  <2>2. IoOK(r.io, len) /\ At(r.io) = At(a)
    BY <1>3, <2>1, PeekFacts
  <2> HIDE DEF r
  <2>3. io = r.io \/ io = a
    BY DEF r, a
  <2> QED
    BY <2>1, <2>2, <2>3
<1> HIDE DEF io
<1>7. /\ DOMAIN pf = Fields /\ pf.io = io /\ pf.filepos = 0 /\ pf.seekable = f.seekable
      /\ pf.file_size = (IF f.seekable THEN len ELSE 0)
      /\ pf.data_start = 0 /\ pf.data_size = 0 /\ pf.samples = 0 /\ pf.channels = 0
      /\ pf.sample_rate = 0 /\ pf.block_align = 0 /\ pf.source_format = 0 /\ pf.file_format = format
  BY <1>4 DEF Fields
<1> HIDE DEF pf
<1>8. Kept(f, pf)
  BY <1>3, <1>6, <1>7 DEF Kept, Stands, len
<1>9. CASE format = PCM_FORMAT_RAW
  <2>1. pcmfile_init(f, read_format, file_format) = raw_init(f, pf)
    BY <1>1, <1>9 DEF PCM_FORMAT_RAW, PCM_FORMAT_WAVE, PCM_FORMAT_AIFF, PCM_FORMAT_CAFF
  <2> QED
    BY <1>7, <1>8, <2>1, RawInitIsOK
<1>10. CASE format = PCM_FORMAT_WAVE
  <2>1. pcmfile_init(f, read_format, file_format) = wave_start(f, pf)
    BY <1>1, <1>10 DEF PCM_FORMAT_RAW, PCM_FORMAT_WAVE, PCM_FORMAT_AIFF, PCM_FORMAT_CAFF
  <2> QED
    BY <1>7, <1>8, <1>10, <2>1, WaveStartIsOK
<1>11. CASE format = PCM_FORMAT_AIFF
  <2>1. pcmfile_init(f, read_format, file_format) = aiff_start(f, pf)
    BY <1>1, <1>11 DEF PCM_FORMAT_RAW, PCM_FORMAT_WAVE, PCM_FORMAT_AIFF, PCM_FORMAT_CAFF
  <2> QED
    BY <1>7, <1>8, <1>11, <2>1, AiffStartIsOK
<1>12. CASE format = PCM_FORMAT_CAFF
  <2>1. pcmfile_init(f, read_format, file_format) = caff_start(f, pf)
    BY <1>1, <1>12 DEF PCM_FORMAT_RAW, PCM_FORMAT_WAVE, PCM_FORMAT_AIFF, PCM_FORMAT_CAFF
  <2> QED
    BY <1>7, <1>8, <1>12, <2>1, CaffStartIsOK
<1> QED
  BY <1>2, <1>9, <1>10, <1>11, <1>12

\* A turn of the chunk loop keeps a PcmFile.
LEMMA ChunkIsOK ==
    ASSUME NEW f, Fits(f), INT32_MAX \in Nat, NEW pf, PfOK(f, pf), pf.phase = "chunks",
           NEW q, q = read_chunk(f, pf), AudioStartsInside(f, q), q.filepos >= 0
    PROVE  PfOK(f, q)
<1>1. /\ Kept(f, pf) /\ pf.file_format \in {PCM_FORMAT_WAVE, PCM_FORMAT_AIFF, PCM_FORMAT_CAFF}
      /\ pf.file_format = PCM_FORMAT_CAFF => pf.block_align >= 1
      /\ pf.file_format = PCM_FORMAT_AIFF => pf.block_align >= 0 /\ pf.samples >= 0
  BY DEF PfOK
<1>2. CASE pf.file_format = PCM_FORMAT_WAVE
  <2>1. q = wave_chunk(f, pf)
    BY <1>2 DEF read_chunk, PCM_FORMAT_WAVE, PCM_FORMAT_AIFF, PCM_FORMAT_CAFF
  <2> QED
    BY <1>1, <1>2, <2>1, WaveChunkIsOK
<1>3. CASE pf.file_format = PCM_FORMAT_CAFF
  <2>1. q = caff_chunk(f, pf)
    BY <1>3 DEF read_chunk, PCM_FORMAT_WAVE, PCM_FORMAT_AIFF, PCM_FORMAT_CAFF
  <2> QED
    BY <1>1, <1>3, <2>1, CaffChunkIsOK
<1>4. CASE pf.file_format = PCM_FORMAT_AIFF
  <2>1. q = aiff_chunk(f, pf)
    BY <1>4 DEF read_chunk, PCM_FORMAT_WAVE, PCM_FORMAT_AIFF, PCM_FORMAT_CAFF
  <2> QED
    BY <1>1, <1>4, <2>1, AiffChunkIsOK
<1> QED
  BY <1>1, <1>2, <1>3, <1>4

-----------------------------------------------------------------------------
(* What pcm_read_samples, the seeks and the settings leave behind.         *)

\* A file whose audio is being read.
InUse(f, pf) == Kept(f, pf) /\ Opened(f, pf) /\ pf.phase = "done"

\* Only what is buffered and filepos changed, and they changed together.
LEMMA MovedIsInUse ==
    ASSUME NEW f, NEW pf, InUse(f, pf), NEW x, NEW y, NEW q, q = [pf EXCEPT !.io = x, !.filepos = y], Stands(f, q)
    PROVE  InUse(f, q)
<1>1. DOMAIN pf = Fields
  BY DEF InUse, Kept, Stands
<1>2. /\ q.seekable = pf.seekable /\ q.file_size = pf.file_size /\ q.data_start = pf.data_start
      /\ q.data_size = pf.data_size /\ q.samples = pf.samples /\ q.channels = pf.channels
      /\ q.sample_rate = pf.sample_rate /\ q.block_align = pf.block_align
      /\ q.source_format = pf.source_format /\ q.phase = pf.phase
  BY <1>1 DEF Fields
<1> QED
  BY <1>2 DEF InUse, Kept, Opened

\* The source was set again.
LEMMA SetIsInUse ==
    ASSUME NEW f, NEW pf, InUse(f, pf), NEW p, NEW q, SourceSet(p, q),
           /\ p.io = pf.io /\ p.filepos = pf.filepos /\ p.seekable = pf.seekable
           /\ p.file_size = pf.file_size /\ p.data_start = pf.data_start /\ p.data_size = pf.data_size
           /\ p.phase = pf.phase
    PROVE  InUse(f, q)
<1>1. /\ DOMAIN q = Fields /\ q.io = pf.io /\ q.filepos = pf.filepos /\ q.seekable = pf.seekable
      /\ q.file_size = pf.file_size /\ q.data_start = pf.data_start /\ q.data_size = pf.data_size
      /\ q.channels \in Int /\ q.sample_rate \in Int /\ q.phase = pf.phase
      /\ q.block_align \in Int /\ q.block_align >= 1 /\ q.samples \in Int /\ q.source_format \in Int
  BY Zenon DEF SourceSet
<1> QED
  BY <1>1 DEF InUse, Kept, Opened, Stands

\* The product of two naturals, left to no solver.
LEMMA ProductIsNat ==
    ASSUME NEW a \in Nat, NEW b \in Nat
    PROVE  a * b \in Nat
  OBVIOUS

\* What pcmfile_read_samples leaves behind.
LEMMA ReadSamplesIsOK ==
    ASSUME NEW f, Fits(f), NEW pf, InUse(f, pf), NEW asked \in Nat, PCM_MAX_READ \in Int
    PROVE  InUse(f, pcmfile_read_samples(f, pf, asked).pf)
<1> DEFINE wanted == Least(asked, PCM_MAX_READ)
           left == pf.data_start + pf.data_size - pf.filepos
           limited == ~pf.read_to_eof /\ pf.block_align * wanted >= left
           bytes_needed == IF limited THEN left ELSE pf.block_align * wanted
           num_samples == IF limited THEN left \div pf.block_align ELSE wanted
           got == byteio_read(pf.io, Len(f.bytes), bytes_needed)
           bytes == [i \in DOMAIN got.bytes |-> f.bytes[got.bytes[i] + 1]]
           p == [pf EXCEPT !.io = got.io, !.filepos = pf.filepos + Len(bytes)]
<1>1. \/ pcmfile_read_samples(f, pf, asked).pf = pf
      \/ num_samples > 0 /\ pcmfile_read_samples(f, pf, asked).pf = p
  <2>1. num_samples \in Int
    BY DEF InUse, Kept, Stands, Opened, Least
  <2> HIDE DEF num_samples
  <2> DEFINE goes == num_samples <= 0
  <2>2. goes \/ num_samples > 0
    BY <2>1
  <2>3. goes => pcmfile_read_samples(f, pf, asked).pf = pf
    BY DEF pcmfile_read_samples, num_samples
  <2>4. ~goes => pcmfile_read_samples(f, pf, asked).pf = p
    BY DEF pcmfile_read_samples, num_samples
  <2> QED
    BY <2>2, <2>3, <2>4
<1>2. /\ Stands(f, pf) /\ DOMAIN pf = Fields /\ IoOK(pf.io, Len(f.bytes)) /\ pf.filepos \in Nat
      /\ pf.block_align \in Nat /\ pf.block_align >= 1 /\ left \in Int /\ Len(f.bytes) \in Nat
      /\ f.bytes \in Seq(0 .. 255) /\ wanted \in Int
  <2>1. /\ Stands(f, pf) /\ DOMAIN pf = Fields /\ IoOK(pf.io, Len(f.bytes)) /\ pf.filepos \in Nat
        /\ pf.block_align \in Int /\ pf.block_align >= 1 /\ pf.data_start \in Int /\ pf.data_size \in Int
    BY DEF InUse, Kept, Stands, Opened
  <2> QED
    BY <2>1, LenProperties DEF Fits, Least
<1>3. CASE num_samples > 0 /\ pcmfile_read_samples(f, pf, asked).pf = p
  <2> DEFINE len == Len(f.bytes)
             need == bytes_needed
  <2>1. need \in Nat
    <3>1. CASE limited
      <4> DEFINE a == pf.block_align
                 l == left
      <4>1. l \div a > 0 /\ a \in Int /\ a >= 1 /\ l \in Int
        BY <1>2, <1>3, <3>1
      <4> HIDE DEF a, l
      <4>2. l >= 0
        BY <4>1
      <4> QED
        BY <3>1, <4>1, <4>2 DEF l
    <3>2. CASE ~limited
      <4> HIDE DEF limited
      <4>1. wanted \in Nat
        BY <1>2, <1>3, <3>2
      <4> HIDE DEF wanted
      <4>2. pf.block_align * wanted \in Nat
        BY <1>2, <4>1, ProductIsNat
      <4> QED
        BY <3>2, <4>2
    <3> QED
      BY <3>1, <3>2
  <2>2. got = byteio_read(pf.io, len, need)
    OBVIOUS
  <2> HIDE DEF need, bytes_needed
  <2>3. ReadRight(pf.io, len, need, byteio_read(pf.io, len, need))
    BY <1>2, <2>1, ReadIsRight
  <2> HIDE DEF got
  <2>4. ReadRight(pf.io, len, need, got)
    BY <2>2, <2>3
  <2>5. /\ IoOK(got.io, len) /\ got.bytes \in Seq(0 .. len - 1)
        /\ At(got.io) = At(pf.io) + Len(got.bytes)
    BY <2>4, Zenon DEF ReadRight
  <2> DEFINE m == Len(got.bytes)
  <2>6. m \in Nat /\ DOMAIN got.bytes = 1 .. m
    BY <2>5, LenProperties
  <2>7. Len(bytes) = m
    <3> DEFINE e(i) == f.bytes[got.bytes[i] + 1]
    <3>1. bytes = [i \in 1 .. m |-> e(i)]
      BY <2>6
    <3> HIDE DEF e, m
    <3>2. Len([i \in 1 .. m |-> e(i)]) = m
      BY <2>6
    <3> QED
      BY <3>1, <3>2
  <2> DEFINE x == got.io
             y == pf.filepos + m
  <2>8. p = [pf EXCEPT !.io = x, !.filepos = y]
    BY <2>7
  <2>9. IoOK(x, len) /\ At(x) = At(pf.io) + m /\ y \in Nat
    BY <1>2, <2>5, <2>6
  <2> HIDE DEF x, m, bytes
  <2>10. DOMAIN p = Fields /\ p.io = x /\ p.filepos = y
    BY <1>2, <2>8 DEF Fields
  <2> HIDE DEF p
  <2>11. Stands(f, p)
    <3>1. At(x) = y \/ At(x) >= len
      <4>1. At(pf.io) = pf.filepos \/ At(pf.io) >= len
        BY <1>2 DEF Stands
      <4>2. At(pf.io) \in Int
        BY <1>2, PositionIsInt
      <4> QED
        BY <1>2, <2>6, <2>9, <4>1, <4>2
    <3> QED
      BY <2>9, <2>10, <3>1 DEF Stands
  <2> QED
    BY <1>3, <2>8, <2>11, MovedIsInUse
<1> QED
  BY <1>1, <1>3

\* The positions a seek may lead to lie in the audio.
LEMMA SeekStaysInside ==
    ASSUME NEW pos \in Nat, NEW start \in Int, NEW size \in Int, NEW bytes \in Int, NEW len \in Nat,
           start >= 0, size >= 0, start + size <= len, pos >= start
    PROVE  /\ start + Clip(bytes, 0, size) \in 0 .. len
           /\ Least(pos - Least(-bytes, pos - start), start + size) \in 0 .. len
           /\ (start + size) - Clip(bytes, 0, size) \in 0 .. len
  BY DEF Clip, Most, Least

\* What pcmfile_seek_samples leaves behind.
LEMMA SeekSamplesIsOK ==
    ASSUME NEW f, Fits(f), INT32_MAX \in Nat, NEW pf, InUse(f, pf), NEW offset \in Int,
           NEW whence \in {PCM_SEEK_SET, PCM_SEEK_CUR, PCM_SEEK_END}
    PROVE  InUse(f, pcmfile_seek_samples(f, pf, offset, whence).pf)
<1> DEFINE bytes == offset * pf.block_align
           end == pf.data_start + pf.data_size
           newpos == CASE whence = PCM_SEEK_SET -> pf.data_start + Clip(bytes, 0, pf.data_size)
                       [] whence = PCM_SEEK_CUR ->
                            Least(pf.filepos - Least(-bytes, pf.filepos - pf.data_start), end)
                       [] whence = PCM_SEEK_END -> end - Clip(bytes, 0, pf.data_size)
           q == pcmfile_seek_samples(f, pf, offset, whence)
           r == pcmfile_seek_set(f, pf, newpos)
<1>1. q.pf = pf \/ (pf.filepos >= pf.data_start /\ q = r)
  <2>1. pf.filepos \in Int /\ pf.data_start \in Int /\ pf.block_align \in Int
    BY DEF InUse, Kept, Stands
  <2> DEFINE no == pf.block_align <= 0 \/ pf.filepos < pf.data_start
  <2>2. q = IF no THEN [ok |-> FALSE, pf |-> pf] ELSE IF pf.data_size = 0 THEN [ok |-> TRUE, pf |-> pf] ELSE r
    BY DEF pcmfile_seek_samples
  <2>3. ~no => pf.filepos >= pf.data_start
    BY <2>1
  <2> HIDE DEF no, r, q
  <2> QED
    BY <2>2, <2>3
<1>2. /\ Stands(f, pf) /\ pf.filepos \in Nat /\ pf.block_align \in Int /\ pf.data_start \in Int
      /\ pf.data_size \in Int /\ Len(f.bytes) \in Nat /\ Len(f.bytes) <= INT32_MAX
      /\ pf.seekable => /\ pf.data_start >= 0 /\ pf.data_size >= 0
                        /\ pf.data_start + pf.data_size <= Len(f.bytes)
  <2>1. f.bytes \in Seq(0 .. 255) /\ Len(f.bytes) <= INT32_MAX
    BY DEF Fits
  <2> QED
    BY <2>1, LenProperties DEF InUse, Kept, Stands, Opened
<1> HIDE DEF q
<1>3. CASE pf.filepos >= pf.data_start /\ q = r
  <2>1. bytes \in Int
    BY <1>2
  <2> DEFINE s == pf.data_start
             z == pf.data_size
             u == pf.filepos
             len == Len(f.bytes)
  <2>2. newpos \in {s + Clip(bytes, 0, z), Least(u - Least(-bytes, u - s), s + z), (s + z) - Clip(bytes, 0, z)}
    BY DEF PCM_SEEK_SET, PCM_SEEK_CUR, PCM_SEEK_END
  <2> HIDE DEF bytes, newpos
  <2>3. newpos \in Int
    <3>1. s \in Int /\ z \in Int /\ u \in Int
      BY <1>2
    <3> HIDE DEF s, z, u
    <3> QED
      BY <2>1, <2>2, <3>1 DEF Clip, Most, Least
  <2>4. pf.seekable => newpos \in 0 .. len
    <3> HAVE pf.seekable
    <3>1. /\ s \in Int /\ z \in Int /\ u \in Nat /\ len \in Nat
          /\ s >= 0 /\ z >= 0 /\ s + z <= len /\ u >= s
      BY <1>2, <1>3
    <3> HIDE DEF s, z, u, len
    <3>2. /\ s + Clip(bytes, 0, z) \in 0 .. len
          /\ Least(u - Least(-bytes, u - s), s + z) \in 0 .. len
          /\ (s + z) - Clip(bytes, 0, z) \in 0 .. len
      BY <2>1, <3>1, SeekStaysInside
    <3> QED
      BY <2>2, <3>2
  <2>5. pf.seekable => newpos >= 0 /\ (newpos <= INT32_MAX \/ newpos >= pf.filepos)
    BY <1>2, <2>4
  <2>6. SeekRight(f, pf, newpos, r)
    BY <1>2, <2>3, <2>5, SeekIsRight
  <2> HIDE DEF r
  <2> DEFINE x == r.pf.io
             y == r.pf.filepos
  <2>7. r.pf = pf \/ (Stands(f, r.pf) /\ r.pf = [pf EXCEPT !.io = x, !.filepos = y])
    BY <2>6, Zenon DEF SeekRight
  <2> HIDE DEF x, y
  <2>8. InUse(f, r.pf)
    <3> DEFINE v == r.pf
    <3>1. v = pf \/ (Stands(f, v) /\ v = [pf EXCEPT !.io = x, !.filepos = y])
      BY <2>7
    <3> HIDE DEF v
    <3>2. InUse(f, v)
      BY <3>1, MovedIsInUse
    <3> QED
      BY <3>2 DEF v
  <2> QED
    BY <1>3, <2>8 DEF q
<1> QED
  BY <1>1, <1>3 DEF q

\* What pcmfile_seek_time_ms leaves behind.
LEMMA SeekTimeIsOK ==
    ASSUME NEW f, Fits(f), INT32_MAX \in Nat, NEW pf, InUse(f, pf), NEW ms \in Int
    PROVE  InUse(f, pcmfile_seek_time_ms(f, pf, ms, PCM_SEEK_SET).pf)
<1> DEFINE samples == ms * pf.sample_rate
           offset == IF samples >= 0 THEN samples \div 1000 ELSE -((-samples) \div 1000)
<1>1. samples \in Int
  BY DEF InUse, Kept
<1>2. pcmfile_seek_time_ms(f, pf, ms, PCM_SEEK_SET) = pcmfile_seek_samples(f, pf, offset, PCM_SEEK_SET)
  BY DEF pcmfile_seek_time_ms
<1> HIDE DEF samples
<1>3. offset \in Int
  BY <1>1
<1> HIDE DEF offset
<1> DEFINE whence == PCM_SEEK_SET
<1>4. whence \in {PCM_SEEK_SET, PCM_SEEK_CUR, PCM_SEEK_END}
  OBVIOUS
<1> HIDE DEF whence
<1>5. InUse(f, pcmfile_seek_samples(f, pf, offset, whence).pf)
  BY <1>3, <1>4, SeekSamplesIsOK
<1> QED
  BY <1>2, <1>5 DEF whence

\* The settings of a program before its first read.
LEMMA SettingsAreOK ==
    ASSUME NEW f, NEW pf, InUse(f, pf)
    PROVE  /\ InUse(f, [pf EXCEPT !.read_to_eof = TRUE])
           /\ \A fmt \in Int : InUse(f, pcmfile_set_read_format(pf, fmt))
           /\ \A ch, fmt, sr \in Int : \A order : InUse(f, pcmfile_set_source_params(pf, ch, fmt, order, sr))
<1>1. /\ DOMAIN pf = Fields /\ pf.data_size \in Int /\ pf.channels \in Int /\ pf.source_format \in Int
      /\ pf.sample_rate \in Int
  BY DEF InUse, Kept, Stands
<1>2. InUse(f, [pf EXCEPT !.read_to_eof = TRUE])
  <2> DEFINE q == [pf EXCEPT !.read_to_eof = TRUE]
  <2>1. /\ DOMAIN q = Fields /\ q.io = pf.io /\ q.filepos = pf.filepos /\ q.seekable = pf.seekable
        /\ q.file_size = pf.file_size /\ q.data_start = pf.data_start
        /\ q.data_size = pf.data_size /\ q.samples = pf.samples /\ q.channels = pf.channels
        /\ q.sample_rate = pf.sample_rate /\ q.block_align = pf.block_align
        /\ q.source_format = pf.source_format /\ q.phase = pf.phase
    BY <1>1 DEF Fields
  <2> HIDE DEF q
  <2>2. InUse(f, q)
    BY <2>1 DEF InUse, Kept, Opened, Stands
  <2> QED
    BY <2>2 DEF q
<1>3. ASSUME NEW fmt \in Int
      PROVE  InUse(f, pcmfile_set_read_format(pf, fmt))
  <2> DEFINE c == Clip(fmt, PCM_SAMPLE_FMT_U8, PCM_SAMPLE_FMT_DBL)
             p == [pf EXCEPT !.read_format = c]
             s == pf.source_format
             q == pcmfile_set_source_format(p, s)
  <2>1. pcmfile_set_read_format(pf, fmt) = q
    BY DEF pcmfile_set_read_format
  <2> HIDE DEF c
  <2>2. /\ DOMAIN p = Fields /\ p.io = pf.io /\ p.filepos = pf.filepos /\ p.seekable = pf.seekable
        /\ p.file_size = pf.file_size /\ p.data_start = pf.data_start /\ p.data_size = pf.data_size
        /\ p.channels = pf.channels /\ p.sample_rate = pf.sample_rate /\ p.phase = pf.phase
    BY <1>1 DEF Fields
  <2> HIDE DEF p
  <2>3. p.channels \in Int /\ p.data_size \in Int /\ s \in Int /\ p.sample_rate \in Int
    BY <1>1, <2>2
  <2> HIDE DEF s
  <2>5. SourceSet(p, q)
    BY <2>2, <2>3, SourceFormatSet
  <2> HIDE DEF q
  <2>6. InUse(f, q)
    BY <2>2, <2>5, SetIsInUse
  <2> QED
    BY <2>1, <2>6
<1>4. ASSUME NEW ch \in Int, NEW fmt \in Int, NEW sr \in Int, NEW order
      PROVE  InUse(f, pcmfile_set_source_params(pf, ch, fmt, order, sr))
  <2> DEFINE q == pcmfile_set_source_params(pf, ch, fmt, order, sr)
  <2>1. SourceSet(pf, q)
    BY <1>1, SourceParamsSet
  <2> HIDE DEF q
  <2>2. InUse(f, q)
    BY <2>1, SetIsInUse
  <2> QED
    BY <2>2 DEF q
<1> QED
  BY <1>2, <1>3, <1>4

-----------------------------------------------------------------------------
(* Several files as one input: pcm_init, pcm_close and the inductive invariant.*)

\* The fields of a PcmContext.
PcFields == {"phase", "files", "read_format", "file_format", "samples", "channels", "ch_mask", "sample_rate"}

\* A function on 1 .. n is a sequence of length n.
IsList(s, n) == s = [i \in 1 .. n |-> s[i]]

\* Such a function is in Seq, with the length it should have.
LEMMA IsSequence ==
    ASSUME NEW n \in Nat, NEW s, IsList(s, n)
    PROVE  (\E S : s \in Seq(S)) /\ Len(s) = n /\ DOMAIN s = 1 .. n
<1> DEFINE S == {s[i] : i \in 1 .. n}
<1>1. s \in Seq(S)
  BY IsASeq DEF IsList
<1>2. DOMAIN s = 1 .. n
  BY DEF IsList
<1> HIDE DEF S
<1>3. Len(s) = n
  BY <1>1, <1>2, LenProperties
<1> QED
  BY <1>1, <1>2, <1>3

\* The files that are open, one by one.
FilesAre(fps, files) ==
    /\ \E S : files \in Seq(S)
    /\ Len(files) <= Len(fps)
    /\ \A i \in 1 .. Len(files) : PfOK(fps[i], files[i])

\* All but the last of them are done with.
Done(files, n) == \A i \in 1 .. n : files[i].phase = "done"

\* The inductive invariant.
InputInv ==
    /\ fp_list \in Inputs
    /\ DOMAIN pc = PcFields
    /\ pc.phase \in {"init", "ready", "failed", "closed", "crashed"}
    /\ pc.file_format \in {PCM_FORMAT_UNKNOWN, PCM_FORMAT_RAW, PCM_FORMAT_WAVE, PCM_FORMAT_AIFF, PCM_FORMAT_CAFF}
    /\ FilesAre(fp_list, pc.files)
    /\ pc.phase = "init" => Done(pc.files, Len(pc.files) - 1)
    /\ pc.phase = "ready" => Len(pc.files) = Len(fp_list) /\ Done(pc.files, Len(pc.files))

\* The files an input may have: bytes, no more than an int32_t counts, of a known format.
FilesFit ==
    /\ INT32_MAX \in Nat
    /\ PCM_MAX_READ \in Int
    /\ Seeks \subseteq Int /\ Times \subseteq Int
    /\ \A input \in Inputs : \A i \in 1 .. Len(input) : Fits(input[i])

\* The SSND chunk of an AIFF file does not point out of the file, and no chunk of a CAFF
\* file leads back before its start.
AudioInside ==
    \A i \in DOMAIN pc.files : AudioStartsInside(fp_list[i], pc.files[i]) /\ pc.files[i].filepos >= 0

\* A file that is done with is a file in use, and the other way round.
LEMMA DoneIsInUse ==
    ASSUME NEW f, NEW pf
    PROVE  (PfOK(f, pf) /\ pf.phase = "done") <=> InUse(f, pf)
  BY DEF PfOK, InUse

\* Nothing is open.
LEMMA NoFiles ==
    ASSUME NEW fps, Len(fps) \in Nat
    PROVE  FilesAre(fps, <<>>) /\ Done(<<>>, Len(<<>>)) /\ Done(<<>>, Len(<<>>) - 1) /\ Len(<<>>) = 0
<1>1. <<>> \in Seq({}) /\ Len(<<>>) = 0
  BY EmptySeq
<1> QED
  BY <1>1 DEF FilesAre, Done

\* One more file is open.
LEMMA OneMore ==
    ASSUME NEW fps, Len(fps) \in Nat, NEW files, FilesAre(fps, files), NEW n \in Nat, n = Len(files),
           n < Len(fps), Done(files, n), NEW pf, PfOK(fps[n + 1], pf)
    PROVE  LET more == Append(files, pf)
           IN  FilesAre(fps, more) /\ Len(more) = n + 1 /\ Done(more, n)
<1> DEFINE more == Append(files, pf)
<1>1. PICK S : files \in Seq(S)
  BY DEF FilesAre
<1> DEFINE T == S \cup {pf}
<1>2. files \in Seq(T) /\ pf \in T
  BY <1>1, SeqMonotonic
<1> HIDE DEF T
<1>3. /\ more \in Seq(T) /\ Len(more) = n + 1
      /\ \A i \in 1 .. n : more[i] = files[i]
      /\ more[n + 1] = pf
  BY <1>2, AppendProperties
<1> HIDE DEF more
<1>4. ASSUME NEW i \in 1 .. n + 1
      PROVE  PfOK(fps[i], more[i])
  <2>1. CASE i = n + 1
    BY <1>3, <2>1
  <2>2. CASE i # n + 1
    <3>1. i \in 1 .. n
      BY <2>2
    <3>2. PfOK(fps[i], files[i])
      BY <3>1 DEF FilesAre
    <3> QED
      BY <1>3, <3>1, <3>2
  <2> QED
    BY <2>1, <2>2
<1>5. FilesAre(fps, more)
  <2>1. \E U : more \in Seq(U)
    BY <1>3
  <2>2. Len(more) <= Len(fps)
    BY <1>3
  <2> QED
    BY <1>3, <1>4, <2>1, <2>2 DEF FilesAre
<1>6. Done(more, n)
  BY <1>3 DEF Done
<1> QED
  BY <1>3, <1>5, <1>6 DEF more

\* The last of the files has changed.
Replaced(files, n, pf) == [files EXCEPT ![n] = pf]

\* The files are the old ones but for the last.
LastChanged(fps, files, n, pf, new) ==
    /\ FilesAre(fps, new) /\ Len(new) = n /\ new[n] = pf
    /\ \A i \in 1 .. n - 1 : new[i] = files[i]

\* Replacing the last file by one that is in order leaves all of them in order.
LEMMA OneChanged ==
    ASSUME NEW fps, Len(fps) \in Nat, NEW files, FilesAre(fps, files), NEW n \in Nat, n = Len(files), n > 0,
           NEW pf, PfOK(fps[n], pf)
    PROVE  LastChanged(fps, files, n, pf, Replaced(files, n, pf))
<1> DEFINE new == Replaced(files, n, pf)
<1>1. PICK S : files \in Seq(S)
  BY DEF FilesAre
<1>2. DOMAIN files = 1 .. n
  BY <1>1, LenProperties
<1>3. IsList(new, n) /\ new[n] = pf /\ \A i \in 1 .. n - 1 : new[i] = files[i]
  <2>1. new = [i \in 1 .. n |-> IF i = n THEN pf ELSE files[i]]
    BY <1>2 DEF Replaced
  <2> HIDE DEF new
  <2>2. \A i \in 1 .. n : new[i] = IF i = n THEN pf ELSE files[i]
    BY <2>1
  <2>3. IsList(new, n)
    BY <2>1, <2>2 DEF IsList
  <2>4. new[n] = pf /\ \A i \in 1 .. n - 1 : new[i] = files[i]
    BY <2>2
  <2> QED
    BY <2>3, <2>4
<1> HIDE DEF new
<1>4. (\E U : new \in Seq(U)) /\ Len(new) = n
  BY <1>3, IsSequence, Zenon
<1>5. ASSUME NEW i \in 1 .. n PROVE PfOK(fps[i], new[i])
  <2>1. CASE i = n
    BY <1>3, <2>1
  <2>2. CASE i # n
    <3>1. i \in 1 .. n - 1
      BY <2>2
    <3>2. PfOK(fps[i], files[i])
      BY DEF FilesAre
    <3> QED
      BY <1>3, <3>1, <3>2
  <2> QED
    BY <2>1, <2>2
<1>6. FilesAre(fps, new)
  <2>1. Len(new) <= Len(fps)
    BY <1>4 DEF FilesAre
  <2> QED
    BY <1>4, <1>5, <2>1 DEF FilesAre
<1>7. LastChanged(fps, files, n, pf, new)
  BY <1>3, <1>4, <1>6, Zenon DEF LastChanged
<1> QED
  BY <1>7 DEF new

\* All of the files have changed, and are still in use.
LEMMA AllChanged ==
    ASSUME NEW fps, NEW n \in Nat, n = Len(fps), NEW new, IsList(new, n),
           \A i \in 1 .. n : InUse(fps[i], new[i])
    PROVE  FilesAre(fps, new) /\ Len(new) = n /\ Done(new, n)
<1>1. (\E U : new \in Seq(U)) /\ Len(new) = n
  BY IsSequence, Zenon
<1>2. \A i \in 1 .. n : PfOK(fps[i], new[i]) /\ new[i].phase = "done"
  BY DoneIsInUse, Zenon
<1> QED
  BY <1>1, <1>2 DEF FilesAre, Done

\* The files of a context that is ready are in use.
LEMMA ReadyFacts ==
    ASSUME FilesFit, InputInv, pc.phase = "ready", NEW n, n = Len(fp_list)
    PROVE  /\ n \in Nat /\ n >= 1 /\ Len(pc.files) = n /\ DOMAIN pc.files = 1 .. n
           /\ \A i \in 1 .. n : Fits(fp_list[i]) /\ InUse(fp_list[i], pc.files[i])
<1>1. n \in Nat /\ n >= 1 /\ \A i \in 1 .. n : Fits(fp_list[i])
  BY InputAssumption DEF FilesFit, InputInv
<1>2. Len(pc.files) = n /\ Done(pc.files, n) /\ FilesAre(fp_list, pc.files)
  BY DEF InputInv
<1>3. DOMAIN pc.files = 1 .. n
  <2>1. PICK S : pc.files \in Seq(S)
    BY <1>2 DEF FilesAre
  <2> QED
    BY <1>2, <2>1, LenProperties
<1>4. ASSUME NEW i \in 1 .. n
      PROVE  InUse(fp_list[i], pc.files[i])
  <2>1. PfOK(fp_list[i], pc.files[i]) /\ pc.files[i].phase = "done"
    BY <1>2 DEF FilesAre, Done
  <2> QED
    BY <2>1, DoneIsInUse, Zenon
<1> QED
  BY <1>1, <1>2, <1>3, <1>4

\* A step that leaves the context ready keeps the invariant if it keeps the files in use.
LEMMA ReadyStays ==
    ASSUME FilesFit, InputInv, pc.phase = "ready", NEW n, n = Len(fp_list), UNCHANGED fp_list,
           DOMAIN pc' = PcFields, pc'.phase = "ready", pc'.file_format = pc.file_format,
           IsList(pc'.files, n),
           \A i \in 1 .. n : InUse(fp_list[i], pc'.files[i])
    PROVE  InputInv'
<1> DEFINE new == pc'.files
<1>1. n \in Nat
  BY ReadyFacts
<1>2. IsList(new, n) /\ \A i \in 1 .. n : InUse(fp_list[i], new[i])
  OBVIOUS
<1> HIDE DEF new
<1>3. FilesAre(fp_list, new) /\ Len(new) = n /\ Done(new, n)
  BY <1>1, <1>2, AllChanged, Zenon
<1>4. FilesAre(fp_list, pc'.files) /\ Len(pc'.files) = n /\ Done(pc'.files, n)
  BY <1>3 DEF new
<1> QED
  BY <1>4 DEF InputInv

\* What Init gives.
LEMMA InputInit ==
    ASSUME FilesFit, Init
    PROVE  InputInv
<1>1. fp_list \in Inputs /\ Len(fp_list) \in Nat /\ Len(fp_list) >= 1
  BY InputAssumption DEF Init
<1>2. Fits(fp_list[1])
  BY <1>1 DEF FilesFit
<1>3. PICK fmt \in ReadFormats, file_format \in {PCM_FORMAT_UNKNOWN, fp_list[1].format} :
         pc = [phase |-> "init", files |-> <<>>, read_format |-> fmt, file_format |-> file_format,
               samples |-> 0, channels |-> 0, ch_mask |-> 0, sample_rate |-> 0]
  BY DEF Init
<1>4. /\ DOMAIN pc = PcFields /\ pc.phase = "init" /\ pc.files = <<>> /\ pc.file_format = file_format
  BY <1>3 DEF PcFields
<1>5. FilesAre(fp_list, <<>>) /\ Done(<<>>, Len(<<>>) - 1)
  BY <1>1, NoFiles
<1> QED
  BY <1>1, <1>2, <1>4, <1>5 DEF InputInv, Fits

\* The context while pcm_init runs.
LEMMA OpeningFacts ==
    ASSUME FilesFit, InputInv, pc.phase = "init", NEW n, n = Len(pc.files)
    PROVE  /\ n \in Nat /\ n <= Len(fp_list) /\ Len(fp_list) \in Nat /\ DOMAIN pc.files = 1 .. n
           /\ \A i \in 1 .. Len(fp_list) : Fits(fp_list[i])
           /\ \A i \in 1 .. n : PfOK(fp_list[i], pc.files[i])
           /\ \A i \in 1 .. n - 1 : pc.files[i].phase = "done"
<1>1. Len(fp_list) \in Nat /\ \A i \in 1 .. Len(fp_list) : Fits(fp_list[i])
  BY InputAssumption DEF FilesFit, InputInv
<1>2. Done(pc.files, n - 1) /\ FilesAre(fp_list, pc.files)
  BY DEF InputInv
<1>3. PICK S : pc.files \in Seq(S)
  BY <1>2 DEF FilesAre
<1>4. n \in Nat /\ DOMAIN pc.files = 1 .. n
  BY <1>3, LenProperties
<1> QED
  BY <1>1, <1>2, <1>4 DEF FilesAre, Done

\* OpenFile: pcm_init opens the next file, up to its first chunk.
LEMMA OpenFileKeeps ==
    ASSUME FilesFit, InputInv, OpenFile
    PROVE  InputInv'
<1> DEFINE n == Len(pc.files)
           f == fp_list[n + 1]
           pf == pcmfile_init(f, pc.read_format, pc.file_format)
           more == Append(pc.files, pf)
<1>1. pc.phase = "init" /\ n < Len(fp_list) /\ (n > 0 => pc.files[n].phase = "done")
      /\ pc' = [pc EXCEPT !.files = more] /\ UNCHANGED fp_list
  BY DEF OpenFile, Current, num_files
<1>2. /\ n \in Nat /\ Len(fp_list) \in Nat
      /\ \A i \in 1 .. Len(fp_list) : Fits(fp_list[i])
      /\ \A i \in 1 .. n - 1 : pc.files[i].phase = "done"
  BY <1>1, OpeningFacts
<1>3. Fits(f)
  BY <1>1, <1>2
<1>4. PfOK(f, pf)
  <2> DEFINE a == pc.read_format
             b == pc.file_format
  <2>1. b \in {PCM_FORMAT_UNKNOWN, PCM_FORMAT_RAW, PCM_FORMAT_WAVE, PCM_FORMAT_AIFF, PCM_FORMAT_CAFF}
    BY DEF InputInv
  <2> HIDE DEF a, b, f
  <2>2. PfOK(f, pcmfile_init(f, a, b))
    BY <1>3, <2>1, InitIsOK
  <2> QED
    BY <2>2 DEF a, b
<1>5. Done(pc.files, n) /\ FilesAre(fp_list, pc.files)
  BY <1>1, <1>2 DEF Done, InputInv
<1> HIDE DEF pf
<1>6. FilesAre(fp_list, more) /\ Len(more) = n + 1 /\ Done(more, n)
  BY <1>1, <1>2, <1>4, <1>5, OneMore
<1> HIDE DEF more
<1>7. /\ DOMAIN pc' = PcFields /\ pc'.files = more /\ pc'.phase = pc.phase /\ pc'.file_format = pc.file_format
  BY <1>1 DEF InputInv, PcFields
<1>8. Done(pc'.files, Len(pc'.files) - 1) /\ FilesAre(fp_list, pc'.files)
  BY <1>2, <1>6, <1>7 DEF Done
<1> QED
  BY <1>1, <1>7, <1>8 DEF InputInv

\* ReadChunk: the file being opened takes a turn of its chunk loop.
LEMMA ReadChunkKeeps ==
    ASSUME FilesFit, InputInv, ReadChunk, AudioInside'
    PROVE  InputInv'
<1> DEFINE n == Len(pc.files)
           f == fp_list[n]
           p == pc.files[n]
           q == read_chunk(f, p)
           new == [pc.files EXCEPT ![n] = q]
<1>1. pc.phase = "init" /\ n > 0 /\ p.phase = "chunks" /\ UNCHANGED fp_list
  BY DEF ReadChunk, Current
<1>2. /\ n \in Nat /\ Len(fp_list) \in Nat /\ n <= Len(fp_list) /\ DOMAIN pc.files = 1 .. n
      /\ \A i \in 1 .. Len(fp_list) : Fits(fp_list[i])
      /\ \A i \in 1 .. n : PfOK(fp_list[i], pc.files[i])
      /\ \A i \in 1 .. n - 1 : pc.files[i].phase = "done"
  BY <1>1, OpeningFacts
<1>3. DOMAIN pc = PcFields
  BY DEF InputInv
<1>4. pc' = [pc EXCEPT !.files = new]
  BY <1>1, <1>2, <1>3 DEF ReadChunk, Current, PcFields
<1>5. /\ DOMAIN pc' = PcFields /\ pc'.files = new /\ pc'.phase = pc.phase /\ pc'.file_format = pc.file_format
  BY <1>3, <1>4 DEF PcFields
<1>6. DOMAIN new = 1 .. n /\ new[n] = q
  BY <1>1, <1>2
<1>7. AudioStartsInside(f, q) /\ q.filepos >= 0
  <2>1. n \in DOMAIN pc'.files
    BY <1>1, <1>2, <1>5, <1>6
  <2>2. AudioStartsInside(fp_list'[n], pc'.files[n]) /\ pc'.files[n].filepos >= 0
    BY <2>1 DEF AudioInside
  <2> QED
    BY <1>1, <1>5, <1>6, <2>2
<1>8. Fits(f) /\ PfOK(f, p)
  BY <1>1, <1>2
<1>9. PfOK(f, q)
  <2>1. INT32_MAX \in Nat
    BY DEF FilesFit
  <2>2. q = read_chunk(f, p)
    OBVIOUS
  <2> HIDE DEF f, p, q
  <2> QED
    BY <1>1, <1>7, <1>8, <2>1, <2>2, ChunkIsOK
<1>10. FilesAre(fp_list, pc.files)
  BY DEF InputInv
<1>11. /\ FilesAre(fp_list, new) /\ Len(new) = n
       /\ \A i \in 1 .. n - 1 : new[i] = pc.files[i]
  <2> DEFINE fps == fp_list
             old == pc.files
  <2>1. /\ Len(fps) \in Nat /\ FilesAre(fps, old) /\ n = Len(old) /\ PfOK(fps[n], q)
        /\ n \in Nat /\ n > 0
    BY <1>1, <1>2, <1>9, <1>10
  <2>2. new = Replaced(old, n, q)
    BY DEF Replaced
  <2> HIDE DEF fps, old, q, new, n
  <2>3. LastChanged(fps, old, n, q, new)
    BY <2>1, <2>2, OneChanged
  <2>4. FilesAre(fps, new) /\ Len(new) = n /\ \A i \in 1 .. n - 1 : new[i] = old[i]
    BY <2>3, Zenon DEF LastChanged
  <2> QED
    BY <2>4 DEF fps, old
<1>12. Done(new, n - 1)
  BY <1>2, <1>11 DEF Done
<1> HIDE DEF new
<1> QED
  BY <1>1, <1>5, <1>11, <1>12 DEF InputInv

\* Every file is closed.
LEMMA CloseKeeps ==
    ASSUME FilesFit, InputInv, FileFails \/ pcm_close
    PROVE  InputInv'
<1>1. PICK ph \in {"failed", "closed"} : pc' = [pc EXCEPT !.phase = ph, !.files = <<>>] /\ UNCHANGED fp_list
  BY DEF FileFails, pcm_close
<1>2. /\ DOMAIN pc' = PcFields /\ pc'.files = <<>> /\ pc'.phase = ph /\ pc'.file_format = pc.file_format
  BY <1>1 DEF InputInv, PcFields
<1>3. Len(fp_list) \in Nat
  BY InputAssumption DEF InputInv
<1>4. FilesAre(fp_list, pc'.files)
  BY <1>2, <1>3, NoFiles
<1> QED
  BY <1>1, <1>2, <1>4 DEF InputInv

\* A file that is ready is done with; its sample rate is the first file's.
LEMMA OpenedIsInUse ==
    ASSUME NEW f, NEW pf, PfOK(f, pf), pf.phase = "ready"
    PROVE  InUse(f, [pf EXCEPT !.phase = "done"])
<1> DEFINE q == [pf EXCEPT !.phase = "done"]
<1>1. DOMAIN pf = Fields /\ Kept(f, pf) /\ Opened(f, pf)
  BY DEF PfOK, Kept, Stands
<1>2. /\ DOMAIN q = Fields /\ q.io = pf.io /\ q.filepos = pf.filepos /\ q.seekable = pf.seekable
      /\ q.file_size = pf.file_size /\ q.data_start = pf.data_start
      /\ q.data_size = pf.data_size /\ q.samples = pf.samples /\ q.channels = pf.channels
      /\ q.sample_rate = pf.sample_rate /\ q.block_align = pf.block_align
      /\ q.source_format = pf.source_format /\ q.phase = "done"
  BY <1>1 DEF Fields
<1> HIDE DEF q
<1>3. InUse(f, q)
  BY <1>1, <1>2 DEF InUse, Kept, Opened, Stands
<1> QED
  BY <1>3 DEF q

\* The sample rate that pcm_init copies has no say in where a file stands.
LEMMA RateIsOK ==
    ASSUME NEW f, NEW pf, InUse(f, pf), NEW rate \in Int
    PROVE  InUse(f, [pf EXCEPT !.sample_rate = rate])
<1> DEFINE q == [pf EXCEPT !.sample_rate = rate]
<1>1. DOMAIN pf = Fields
  BY DEF InUse, Kept, Stands
<1>2. /\ DOMAIN q = Fields /\ q.io = pf.io /\ q.filepos = pf.filepos /\ q.seekable = pf.seekable
      /\ q.file_size = pf.file_size /\ q.data_start = pf.data_start
      /\ q.data_size = pf.data_size /\ q.samples = pf.samples /\ q.channels = pf.channels
      /\ q.sample_rate = rate /\ q.block_align = pf.block_align
      /\ q.source_format = pf.source_format /\ q.phase = pf.phase
  BY <1>1 DEF Fields
<1> HIDE DEF q
<1>3. InUse(f, q)
  BY <1>2 DEF InUse, Kept, Opened, Stands
<1> QED
  BY <1>3 DEF q

\* FileOpened: the file is opened; after the last one the input is ready.
LEMMA FileOpenedKeeps ==
    ASSUME FilesFit, InputInv, FileOpened
    PROVE  InputInv'
<1> DEFINE n == Len(pc.files)
           p == pc.files[n]
           q == [p EXCEPT !.phase = "done"]
           new == Replaced(pc.files, n, q)
           rate == pc.files[1].sample_rate
           all == SetRate(new, rate)
<1>1. pc.phase = "init" /\ n > 0 /\ p.phase = "ready" /\ UNCHANGED fp_list
  BY DEF FileOpened, Current
<1>2. /\ n \in Nat /\ Len(fp_list) \in Nat /\ n <= Len(fp_list) /\ DOMAIN pc.files = 1 .. n
      /\ \A i \in 1 .. n : PfOK(fp_list[i], pc.files[i])
      /\ \A i \in 1 .. n - 1 : pc.files[i].phase = "done"
  BY <1>1, OpeningFacts
<1>3. DOMAIN pc = PcFields /\ FilesAre(fp_list, pc.files)
  BY DEF InputInv
<1>4. /\ DOMAIN pc' = PcFields /\ pc'.file_format = pc.file_format
      /\ \/ n # Len(fp_list) /\ pc'.phase = "init" /\ pc'.files = new
         \/ n = Len(fp_list) /\ pc'.phase = "ready" /\ pc'.files = all
  <2> DEFINE samples == Most(pc.samples, pc.files[n].samples)
             done == [pc EXCEPT !.files = new, !.samples = samples]
             first == pc.files[1]
             ch == IF num_files = 1 THEN first.channels ELSE num_files
             mask == IF num_files = 1 THEN first.ch_mask ELSE pcm_get_default_ch_mask(num_files)
  <2>1. [pc EXCEPT !.files[Current].phase = "done", !.samples = Most(@, pc.files[Current].samples)] = done
    BY <1>1, <1>2, <1>3 DEF Current, PcFields, Replaced
  <2>2. done.files = new
    BY <1>3 DEF PcFields
  <2>3. pc' = IF ~(Current = num_files) THEN done
              ELSE [done EXCEPT !.phase = "ready", !.files = SetRate(done.files, first.sample_rate),
                                !.sample_rate = first.sample_rate, !.channels = ch, !.ch_mask = mask]
    BY <2>1, Zenon DEF FileOpened
  <2>4. pc' = IF ~(n = Len(fp_list)) THEN done
              ELSE [done EXCEPT !.phase = "ready", !.files = all,
                                !.sample_rate = rate, !.channels = ch, !.ch_mask = mask]
    BY <2>2, <2>3 DEF Current, num_files
  <2> HIDE DEF new, all, samples, ch, mask, rate
  <2>5. DOMAIN done = PcFields /\ done.phase = pc.phase /\ done.files = new /\ done.file_format = pc.file_format
    BY <1>3 DEF PcFields
  <2> HIDE DEF done
  <2>6. CASE n # Len(fp_list)
    BY <1>1, <2>4, <2>5, <2>6
  <2>7. CASE n = Len(fp_list)
    BY <2>4, <2>5, <2>7 DEF PcFields
  <2> QED
    BY <2>6, <2>7
<1>5. InUse(fp_list[n], q) /\ PfOK(fp_list[n], q)
  <2>1. PfOK(fp_list[n], p)
    BY <1>1, <1>2
  <2>2. InUse(fp_list[n], q)
    BY <1>1, <2>1, OpenedIsInUse
  <2> HIDE DEF q
  <2> QED
    BY <2>2, DoneIsInUse, Zenon
<1>6. rate \in Int
  <2>1. PfOK(fp_list[1], pc.files[1])
    BY <1>1, <1>2
  <2> QED
    BY <2>1 DEF PfOK, Kept
<1>7. /\ FilesAre(fp_list, new) /\ Len(new) = n /\ new[n] = q
      /\ \A i \in 1 .. n - 1 : new[i] = pc.files[i]
  <2> DEFINE fps == fp_list
             old == pc.files
  <2>1. /\ Len(fps) \in Nat /\ FilesAre(fps, old) /\ n = Len(old) /\ PfOK(fps[n], q)
        /\ n \in Nat /\ n > 0
    BY <1>1, <1>2, <1>3, <1>5
  <2>2. new = Replaced(old, n, q)
    OBVIOUS
  <2> HIDE DEF fps, old, q, new, n
  <2>3. LastChanged(fps, old, n, q, new)
    BY <2>1, <2>2, OneChanged
  <2>4. FilesAre(fps, new) /\ Len(new) = n /\ new[n] = q /\ \A i \in 1 .. n - 1 : new[i] = old[i]
    BY <2>3, Zenon DEF LastChanged
  <2> QED
    BY <2>4 DEF fps, old
<1> HIDE DEF new, rate
<1>8. ASSUME NEW i \in 1 .. n PROVE InUse(fp_list[i], new[i])
  <2>1. CASE i = n
    BY <1>5, <1>7, <2>1
  <2>2. CASE i # n
    <3>1. i \in 1 .. n - 1
      BY <1>2, <2>2
    <3>2. PfOK(fp_list[i], pc.files[i]) /\ pc.files[i].phase = "done"
      BY <1>2, <3>1
    <3>3. InUse(fp_list[i], pc.files[i])
      BY <3>2, DoneIsInUse, Zenon
    <3> QED
      BY <1>7, <3>1, <3>3
  <2> QED
    BY <2>1, <2>2
<1>9. CASE n # Len(fp_list) /\ pc'.phase = "init" /\ pc'.files = new
  <2>1. Done(new, n - 1)
    BY <1>2, <1>7 DEF Done
  <2> QED
    BY <1>1, <1>4, <1>7, <1>9, <2>1 DEF InputInv
<1>10. CASE n = Len(fp_list) /\ pc'.phase = "ready" /\ pc'.files = all
  <2>1. DOMAIN new = 1 .. n
    <3>1. PICK S : new \in Seq(S)
      BY <1>7 DEF FilesAre
    <3> QED
      BY <1>7, <3>1, LenProperties
  <2>2. all = [i \in 1 .. n |-> [new[i] EXCEPT !.sample_rate = rate]]
    BY <2>1 DEF SetRate
  <2> HIDE DEF all
  <2>3. \A i \in 1 .. n : all[i] = [new[i] EXCEPT !.sample_rate = rate]
    BY <2>2
  <2>4. IsList(all, n)
    BY <2>2, <2>3 DEF IsList
  <2>5. ASSUME NEW i \in 1 .. n PROVE InUse(fp_list[i], all[i])
    <3>1. InUse(fp_list[i], [new[i] EXCEPT !.sample_rate = rate])
      BY <1>6, <1>8, RateIsOK
    <3> QED
      BY <2>3, <3>1
  <2>6. FilesAre(fp_list, all) /\ Len(all) = n /\ Done(all, n)
    BY <1>2, <1>10, <2>4, <2>5, AllChanged, Zenon
  <2> QED
    BY <1>1, <1>4, <1>10, <2>6 DEF InputInv
<1> QED
  BY <1>4, <1>9, <1>10

-----------------------------------------------------------------------------
(* The steps of the program, and the theorem.                              *)

\* The settings of a program, before its first read.
LEMMA SettingsKeep ==
    ASSUME FilesFit, InputInv, pcm_set_read_to_eof \/ pcm_set_source_params \/ pcm_set_read_format
    PROVE  InputInv'
<1> DEFINE n == Len(fp_list)
<1>1. pc.phase = "ready" /\ UNCHANGED fp_list
  BY DEF pcm_set_read_to_eof, pcm_set_source_params, pcm_set_read_format, Fresh
<1>2. /\ n \in Nat /\ n >= 1 /\ DOMAIN pc.files = 1 .. n
      /\ \A i \in 1 .. n : Fits(fp_list[i]) /\ InUse(fp_list[i], pc.files[i])
  BY <1>1, ReadyFacts
<1>3. DOMAIN pc = PcFields
  BY DEF InputInv
<1>4. CASE pcm_set_read_to_eof
  <2> DEFINE g == [i \in 1 .. n |-> [pc.files[i] EXCEPT !.read_to_eof = TRUE]]
  <2>1. pc' = [pc EXCEPT !.files = g]
    BY <1>2, <1>4 DEF pcm_set_read_to_eof
  <2>2. \A i \in 1 .. n : g[i] = [pc.files[i] EXCEPT !.read_to_eof = TRUE]
    OBVIOUS
  <2>3. IsList(g, n)
    BY DEF IsList
  <2> HIDE DEF g
  <2>4. /\ DOMAIN pc' = PcFields /\ pc'.phase = "ready" /\ pc'.file_format = pc.file_format /\ pc'.files = g
    BY <1>1, <1>3, <2>1 DEF PcFields
  <2>5. ASSUME NEW i \in 1 .. n PROVE InUse(fp_list[i], g[i])
    <3>1. InUse(fp_list[i], [pc.files[i] EXCEPT !.read_to_eof = TRUE])
      BY <1>2, SettingsAreOK, Zenon
    <3> QED
      BY <2>2, <3>1
  <2>6. IsList(pc'.files, n) /\ \A i \in 1 .. n : InUse(fp_list[i], pc'.files[i])
    BY <2>3, <2>4, <2>5
  <2> QED
    BY <1>1, <2>4, <2>6, ReadyStays
<1>5. CASE pcm_set_read_format
  <2>1. PICK fmt \in ReadFormats :
          pc' = [pc EXCEPT !.read_format = fmt,
                           !.files = [i \in DOMAIN pc.files |-> pcmfile_set_read_format(pc.files[i], fmt)]]
    BY <1>5 DEF pcm_set_read_format
  <2> DEFINE g == [i \in 1 .. n |-> pcmfile_set_read_format(pc.files[i], fmt)]
  <2>2. pc' = [pc EXCEPT !.read_format = fmt, !.files = g] /\ fmt \in Int
    BY <1>2, <2>1, InputAssumption DEF Formats, PCM_SAMPLE_FMT_U8, PCM_SAMPLE_FMT_DBL
  <2>3. \A i \in 1 .. n : g[i] = pcmfile_set_read_format(pc.files[i], fmt)
    OBVIOUS
  <2>4. IsList(g, n)
    BY DEF IsList
  <2> HIDE DEF g
  <2>5. /\ DOMAIN pc' = PcFields /\ pc'.phase = "ready" /\ pc'.file_format = pc.file_format /\ pc'.files = g
    BY <1>1, <1>3, <2>2 DEF PcFields
  <2>6. ASSUME NEW i \in 1 .. n PROVE InUse(fp_list[i], g[i])
    <3>1. InUse(fp_list[i], pcmfile_set_read_format(pc.files[i], fmt))
      BY <1>2, <2>2, SettingsAreOK, Zenon
    <3> QED
      BY <2>3, <3>1
  <2>7. IsList(pc'.files, n) /\ \A i \in 1 .. n : InUse(fp_list[i], pc'.files[i])
    BY <2>4, <2>5, <2>6
  <2> QED
    BY <1>1, <2>5, <2>7, ReadyStays
<1>6. CASE pcm_set_source_params
  <2> DEFINE f == fp_list[1]
             ch == f.channels
             fmt == f.fmt
             order == f.order
             rate == f.rate
             g == [i \in DOMAIN pc.files |-> pcmfile_set_source_params(pc.files[i], ch, fmt, order, rate)]
             c == IF num_files = 1 THEN g[1].channels ELSE pc.channels
             m == IF num_files = 1 THEN pcm_get_default_ch_mask(g[1].channels) ELSE pc.ch_mask
             next == [pc EXCEPT !.files = g, !.sample_rate = rate, !.channels = c, !.ch_mask = m]
  <2>1. pc' = pc \/ pc' = next
    <3>2. pc' = IF num_files > 1 /\ f.channels # 1 THEN pc
                ELSE [pc EXCEPT !.files = g, !.sample_rate = f.rate,
                          !.channels = IF num_files = 1 THEN g[1].channels ELSE @,
                          !.ch_mask = IF num_files = 1 THEN pcm_get_default_ch_mask(g[1].channels) ELSE @]
      BY <1>6, Zenon DEF pcm_set_source_params
    <3> HIDE DEF g
    <3>3. [pc EXCEPT !.files = g, !.sample_rate = f.rate,
                     !.channels = IF num_files = 1 THEN g[1].channels ELSE @,
                     !.ch_mask = IF num_files = 1 THEN pcm_get_default_ch_mask(g[1].channels) ELSE @] = next
      OBVIOUS
    <3> QED
      BY <3>2, <3>3, Zenon
  <2>2. ch \in Int /\ fmt \in Int /\ rate \in Int
    <3>1. Fits(f)
      BY <1>2
    <3> QED
      BY <3>1 DEF Fits
  <2> HIDE DEF ch, fmt, order, rate, f
  <2>3. \A i \in 1 .. n : g[i] = pcmfile_set_source_params(pc.files[i], ch, fmt, order, rate)
    BY <1>2
  <2>4. IsList(g, n)
    BY <1>2 DEF IsList
  <2> HIDE DEF g, c, m
  <2>5. ASSUME NEW i \in 1 .. n PROVE InUse(fp_list[i], g[i])
    <3>1. InUse(fp_list[i], pcmfile_set_source_params(pc.files[i], ch, fmt, order, rate))
      BY <1>2, <2>2, SettingsAreOK, Zenon
    <3> QED
      BY <2>3, <3>1
  <2>6. CASE pc' = pc
    BY <1>1, <2>6 DEF InputInv
  <2>7. CASE pc' = next
    <3>1. /\ DOMAIN pc' = PcFields /\ pc'.phase = "ready" /\ pc'.file_format = pc.file_format /\ pc'.files = g
      BY <1>1, <1>3, <2>7 DEF PcFields
    <3>2. IsList(pc'.files, n) /\ \A i \in 1 .. n : InUse(fp_list[i], pc'.files[i])
      BY <2>4, <2>5, <3>1
    <3> QED
      BY <1>1, <3>1, <3>2, ReadyStays
  <2> QED
    BY <2>1, <2>6, <2>7
<1> QED
  BY <1>4, <1>5, <1>6

\* A read.
LEMMA ReadKeeps ==
    ASSUME FilesFit, InputInv, NEW k \in Asks, pcm_read_samples(k)
    PROVE  InputInv'
<1> DEFINE n == Len(fp_list)
           reads == [i \in DOMAIN pc.files |-> pcmfile_read_samples(fp_list[i], pc.files[i], k)]
           g == [i \in 1 .. n |-> reads[i].pf]
<1>1. pc.phase = "ready" /\ UNCHANGED fp_list /\ pc' = [pc EXCEPT !.files = [i \in DOMAIN reads |-> reads[i].pf]]
  BY DEF pcm_read_samples
<1>2. /\ n \in Nat /\ n >= 1 /\ DOMAIN pc.files = 1 .. n
      /\ \A i \in 1 .. n : Fits(fp_list[i]) /\ InUse(fp_list[i], pc.files[i])
  BY <1>1, ReadyFacts
<1>3. DOMAIN pc = PcFields
  BY DEF InputInv
<1>4. pc' = [pc EXCEPT !.files = g]
  BY <1>1, <1>2
<1>5. \A i \in 1 .. n : g[i] = pcmfile_read_samples(fp_list[i], pc.files[i], k).pf
  BY <1>2
<1>6. IsList(g, n)
  BY DEF IsList
<1> HIDE DEF g
<1>7. /\ DOMAIN pc' = PcFields /\ pc'.phase = "ready" /\ pc'.file_format = pc.file_format /\ pc'.files = g
  BY <1>1, <1>3, <1>4 DEF PcFields
<1>8. ASSUME NEW i \in 1 .. n PROVE InUse(fp_list[i], g[i])
  <2>1. k \in Nat /\ PCM_MAX_READ \in Int
    BY InputAssumption DEF FilesFit
  <2>2. InUse(fp_list[i], pcmfile_read_samples(fp_list[i], pc.files[i], k).pf)
    BY <1>2, <2>1, ReadSamplesIsOK, Zenon
  <2> QED
    BY <1>5, <2>2
<1>9. IsList(pc'.files, n) /\ \A i \in 1 .. n : InUse(fp_list[i], pc'.files[i])
  BY <1>6, <1>7, <1>8
<1> QED
  BY <1>1, <1>7, <1>9, ReadyStays

\* A read that does not come back.
LEMMA CrashKeeps ==
    ASSUME FilesFit, InputInv, NEW k \in Asks, ReadCrashes(k)
    PROVE  InputInv'
<1>1. UNCHANGED fp_list /\ pc' = [pc EXCEPT !.phase = "crashed"]
  BY DEF ReadCrashes
<1>2. /\ DOMAIN pc' = PcFields /\ pc'.phase = "crashed" /\ pc'.file_format = pc.file_format
      /\ pc'.files = pc.files
  BY <1>1 DEF InputInv, PcFields
<1> QED
  BY <1>1, <1>2 DEF InputInv

\* A seek.
LEMMA MovedKeeps ==
    ASSUME FilesFit, InputInv, pc.phase = "ready", num_files = 1, NEW r, NEW target, Moved(r, target),
           InUse(fp_list[1], r.pf)
    PROVE  InputInv'
<1> DEFINE n == Len(fp_list)
<1>1. UNCHANGED fp_list /\ pc' = [pc EXCEPT !.files = <<r.pf>>] /\ n = 1
  BY DEF Moved, num_files
<1>2. DOMAIN pc = PcFields
  BY DEF InputInv
<1> DEFINE g == <<r.pf>>
<1>3. g[1] = r.pf /\ IsList(g, 1)
  BY DEF IsList
<1> HIDE DEF g
<1>4. /\ DOMAIN pc' = PcFields /\ pc'.phase = "ready" /\ pc'.file_format = pc.file_format /\ pc'.files = g
  BY <1>1, <1>2 DEF PcFields, g
<1>5. IsList(pc'.files, n) /\ \A i \in 1 .. n : InUse(fp_list[i], pc'.files[i])
  BY <1>1, <1>3, <1>4
<1> QED
  BY <1>1, <1>4, <1>5, ReadyStays

\* pcm_seek_samples: SeekSamples.
LEMMA SeekKeeps ==
    ASSUME FilesFit, InputInv, NEW offset \in Seeks, NEW whence \in {PCM_SEEK_SET, PCM_SEEK_CUR, PCM_SEEK_END},
           SeekSamples(offset, whence)
    PROVE  InputInv'
<1> DEFINE r == pcmfile_seek_samples(fp_list[1], pc.files[1], offset, whence)
           target == Target(offset, whence, r)
<1>1. pc.phase = "ready" /\ num_files = 1 /\ Moved(r, target)
  BY DEF SeekSamples
<1>2. Fits(fp_list[1]) /\ InUse(fp_list[1], pc.files[1])
  <2> DEFINE n == Len(fp_list)
  <2>1. n = 1 /\ \A i \in 1 .. n : Fits(fp_list[i]) /\ InUse(fp_list[i], pc.files[i])
    BY <1>1, ReadyFacts DEF num_files
  <2> QED
    BY <2>1
<1>3. offset \in Int /\ INT32_MAX \in Nat
  BY DEF FilesFit
<1>4. InUse(fp_list[1], r.pf)
  BY <1>2, <1>3, SeekSamplesIsOK, Zenon
<1> HIDE DEF r, target
<1> QED
  BY <1>1, <1>4, MovedKeeps

\* pcm_seek_time_ms: SeekTime.
LEMMA SeekTimeKeeps ==
    ASSUME FilesFit, InputInv, NEW ms \in Times, SeekTime(ms)
    PROVE  InputInv'
<1> DEFINE r == pcmfile_seek_time_ms(fp_list[1], pc.files[1], ms, PCM_SEEK_SET)
           target == Aim((ms * pc.files[1].sample_rate) \div 1000, PCM_SEEK_SET)
<1>1. pc.phase = "ready" /\ num_files = 1 /\ Moved(r, target)
  BY DEF SeekTime
<1>2. Fits(fp_list[1]) /\ InUse(fp_list[1], pc.files[1])
  <2> DEFINE n == Len(fp_list)
  <2>1. n = 1 /\ \A i \in 1 .. n : Fits(fp_list[i]) /\ InUse(fp_list[i], pc.files[i])
    BY <1>1, ReadyFacts DEF num_files
  <2> QED
    BY <2>1
<1>3. ms \in Int /\ INT32_MAX \in Nat
  BY DEF FilesFit
<1>4. InUse(fp_list[1], r.pf)
  BY <1>2, <1>3, SeekTimeIsOK, Zenon
<1> HIDE DEF r, target
<1> QED
  BY <1>1, <1>4, MovedKeeps

\* Every step keeps the invariant.
LEMMA InputNext ==
    ASSUME FilesFit, InputInv, [Next]_vars, AudioInside'
    PROVE  InputInv'
<1>1. CASE OpenFile
  BY <1>1, OpenFileKeeps
<1>2. CASE ReadChunk
  BY <1>2, ReadChunkKeeps
<1>3. CASE FileFails \/ pcm_close
  BY <1>3, CloseKeeps
<1>4. CASE FileOpened
  BY <1>4, FileOpenedKeeps
<1>5. CASE pcm_set_read_to_eof \/ pcm_set_source_params \/ pcm_set_read_format
  BY <1>5, SettingsKeep
<1>6. CASE \E n \in Asks : pcm_read_samples(n)
  BY <1>6, ReadKeeps
<1>10. CASE \E n \in Asks : ReadCrashes(n)
  BY <1>10, CrashKeeps
<1>7. CASE \E offset \in Seeks, whence \in {PCM_SEEK_SET, PCM_SEEK_CUR, PCM_SEEK_END} : SeekSamples(offset, whence)
  BY <1>7, SeekKeeps
<1>8. CASE \E ms \in Times : SeekTime(ms)
  BY <1>8, SeekTimeKeeps
<1>9. CASE UNCHANGED vars
  BY <1>9 DEF vars, InputInv
<1> QED
  BY <1>1, <1>2, <1>3, <1>4, <1>5, <1>6, <1>7, <1>8, <1>9, <1>10 DEF Next

\* The invariant says where each file stands.
LEMMA InputInvKeeps ==
    ASSUME FilesFit, InputInv
    PROVE  PositionKept
<1> SUFFICES ASSUME NEW i \in DOMAIN pc.files
             PROVE  /\ \/ pc.files[i].io.fp - pc.files[i].io.size = pc.files[i].filepos
                       \/ pc.files[i].io.size = 0 /\ pc.files[i].io.fp >= Len(fp_list[i].bytes)
                    /\ \A j \in 1 .. pc.files[i].io.size :
                          pc.files[i].io.buffer[pc.files[i].io.index + j] = pc.files[i].filepos + j - 1
  BY DEF PositionKept
<1> DEFINE pf == pc.files[i]
           f == fp_list[i]
<1>1. FilesAre(fp_list, pc.files)
  BY DEF InputInv
<1>2. PICK S : pc.files \in Seq(S)
  BY <1>1 DEF FilesAre
<1>3. i \in 1 .. Len(pc.files) /\ Len(pc.files) \in Nat
  BY <1>2, LenProperties
<1>4. PfOK(f, pf)
  BY <1>1, <1>3 DEF FilesAre
<1>5. Fits(f)
  <2>1. Len(fp_list) \in Nat /\ Len(pc.files) <= Len(fp_list)
    BY <1>1, InputAssumption DEF FilesAre, InputInv
  <2>2. i \in 1 .. Len(fp_list)
    BY <1>3, <2>1
  <2> QED
    BY <2>2 DEF FilesFit, InputInv
<1> HIDE DEF f, pf
<1>6. /\ IoOK(pf.io, Len(f.bytes)) /\ Len(f.bytes) \in Nat
      /\ At(pf.io) = pf.filepos \/ At(pf.io) >= Len(f.bytes)
  BY <1>4, <1>5, LenProperties DEF PfOK, Kept, Stands, Fits
<1>7. \/ pf.io.fp - pf.io.size = pf.filepos
      \/ pf.io.size = 0 /\ pf.io.fp >= Len(f.bytes)
  BY <1>6, PastTheEnd DEF At
<1>8. ASSUME NEW j \in 1 .. pf.io.size PROVE pf.io.buffer[pf.io.index + j] = pf.filepos + j - 1
  <2>1. pf.io.size \in Nat /\ pf.io.size > 0
    BY <1>6 DEF IoOK
  <2>2. pf.io.fp - pf.io.size = pf.filepos
    BY <1>7, <2>1
  <2>3. pf.io.buffer[pf.io.index + j] = (pf.io.fp - pf.io.size) + j - 1
    BY <1>6 DEF IoOK, Holds
  <2> QED
    BY <2>2, <2>3, Zenon
<1> QED
  BY <1>7, <1>8 DEF f, pf

(* After any calls of pcm_init, reads, seeks and settings, every file of an input stands
   where its filepos says, and what byteio.c has buffered are the bytes that come next:
   PositionKept.  It takes that the header does not lead astray: the offset of the SSND
   chunk of an AIFF file, a signed int in aiff.c, stays inside the file, and no chunk
   size of a CAFF file, a uint64_t that wraps in caff.c, leads back before its start. *)
THEOREM PositionIsKept == FilesFit => (Spec /\ []AudioInside => []PositionKept)
<1> SUFFICES ASSUME FilesFit PROVE Spec /\ []AudioInside => []PositionKept
  OBVIOUS
<1>1. Init => InputInv
  BY InputInit
<1>2. InputInv /\ [Next]_vars /\ AudioInside' => InputInv'
  BY InputNext
<1>3. InputInv => PositionKept
  BY InputInvKeeps
<1> QED
  BY <1>1, <1>2, <1>3, PTL DEF Spec
=============================================================================
