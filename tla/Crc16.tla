-------------------------------- MODULE Crc16 --------------------------------
(* libaften/crc.c.  The table and the running value are byte-swapped, which on a
   little-endian machine puts the byte that leaves the register into its low half. *)
EXTENDS Integers, Sequences, Bitwise

CRC16_POLY == 98309                                          \* 0x18005
bswap_16(x) == (x % 256) * 256 + x \div 256

RECURSIVE CrcOfByte(_, _)
CrcOfByte(crc, j) ==
    IF j = 16 THEN crc % 65536
    ELSE CrcOfByte(IF (crc \div 32768) % 2 = 1 THEN (2 * crc) ^^ (CRC16_POLY + 65536) ELSE 2 * crc,
                   j + 1)

crc16tab == [i \in 0 .. 255 |-> bswap_16(CrcOfByte(i, 0))]

(* The union crc_t: HIGH_BYTE and LOW_BYTE of the running word w.  The loop over
   the bytes first .. last is taken in halves. *)
calc_crc16(data) ==
    LET run[w \in Nat, first \in Nat, last \in Nat] ==
            CASE first > last -> w
              [] first = last -> (w \div 256) ^^ crc16tab[(w % 256) ^^ data[first]]
              [] OTHER -> LET mid == (first + last) \div 2
                          IN  run[run[w, first, mid], mid + 1, last]
    IN  bswap_16(run[0, 1, Len(data)])

RECURSIVE MulPoly(_, _, _)
MulPoly(a, b, c) ==
    IF a = 0 THEN c % 65536
    ELSE MulPoly(a \div 2,
                 IF 2 * b >= 65536 THEN (2 * b) ^^ CRC16_POLY ELSE 2 * b,
                 IF a % 2 = 1 THEN c ^^ b ELSE c)
mul_poly(a, b) == MulPoly(a, b, 0)

RECURSIVE PowPoly(_, _, _)
PowPoly(n, a, r) ==
    IF n = 0 THEN r
    ELSE PowPoly(n \div 2, mul_poly(a, a), IF n % 2 = 1 THEN mul_poly(r, a) ELSE r)
pow_poly(n) == PowPoly(n, CRC16_POLY \div 2, 1)

(* The value that, put before data with checksum crc, makes the checksum of size
   bytes zero. *)
crc16_zero(crc, size) == mul_poly(pow_poly(size * 8), crc)
=============================================================================
