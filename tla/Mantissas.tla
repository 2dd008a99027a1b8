------------------------------ MODULE Mantissas ------------------------------
(* Quantization and grouping of the mantissas of one block (quantize_mantissas)
   and the number of bits they were predicted to take (compute_mantissa_size).
   The coefficients of a block are one sequence of records [c, e, b]: the
   coefficient scaled by 2^24, its exponent and its bit allocation pointer,
   channel after channel; groups go on from one channel to the next. *)
EXTENDS Integers, Sequences, FiniteSets

(* Three kinds of group: bap 1 and 2 (three mantissas), bap 4 (two). *)
Kind(b) == CASE b = 1 -> 1 [] b = 2 -> 2 [] b = 4 -> 3 [] OTHER -> 0
GroupLength == <<3, 3, 2>>
Weights == << <<9, 3, 1>>, <<25, 5, 1>>, <<11, 1>> >>
Levels(b) == CASE b = 1 -> 3 [] b = 2 -> 5 [] b = 3 -> 7 [] b = 4 -> 11 [] b = 5 -> 15
Merge == 128                               \* marks a mantissa coded in its group

sym_quant(c, e, levels) == ((((levels * c) \div 2^(24 - e)) + 1) \div 2) + (levels \div 2)

asym_quant(c, e, qbits) ==
    LET lshift == e + (qbits - 1) - 24
        v == IF lshift >= 0 THEN c * 2^lshift ELSE c \div 2^(-lshift)
        m == 2^(qbits - 1)
    IN  IF v > m - 1 THEN m - 1 ELSE IF v < -m THEN -m ELSE v

Width(b) == CASE b = 0 -> 0 [] b = 14 -> 14 [] b = 15 -> 16 [] OTHER -> b - 1

Quantized(x) ==
    CASE x.b = 0 -> 0
      [] x.b \in 1 .. 5 -> sym_quant(x.c, x.e, Levels(x.b))
      [] OTHER -> asym_quant(x.c, x.e, Width(x.b))

(* qmant is uint16_t.  cnt counts the members of the group of each kind in
   progress, ptr is where its code is built. *)
RECURSIVE QuantMant(_, _, _, _)
QuantMant(xs, qmant, cnt, ptr) ==
    IF Len(qmant) = Len(xs) THEN qmant
    ELSE LET x == xs[Len(qmant) + 1]
             v == Quantized(x)
             k == Kind(x.b)
         IN  IF k = 0 THEN QuantMant(xs, Append(qmant, v % 65536), cnt, ptr)
             ELSE LET w == Weights[k][cnt[k] + 1] * v
                      more == [cnt EXCEPT ![k] = (@ + 1) % GroupLength[k]]
                  IN  IF cnt[k] = 0
                      THEN QuantMant(xs, Append(qmant, w), more, [ptr EXCEPT ![k] = Len(qmant) + 1])
                      ELSE QuantMant(xs, Append([qmant EXCEPT ![ptr[k]] = @ + w], Merge), more, ptr)

(* Mutant: the counters of the groups start where the block before left them. *)
QuantizeKeepsCounters(xs) == QuantMant(xs, <<>>, <<1, 0, 0>>, <<1, 1, 1>>)

quantize_mantissas(xs) == QuantMant(xs, <<>>, <<0, 0, 0>>, <<0, 0, 0>>)

(* The field of a mantissa as output_audio_blocks writes it: none for a mantissa
   that another one carries. *)
MantissaField(b, q) ==
    CASE Kind(b) # 0 /\ q = Merge -> <<0, 0>>
      [] Kind(b) # 0 /\ q # Merge -> <<IF b = 1 THEN 5 ELSE 7, q>>
      [] b = 3 -> <<3, q>>
      [] OTHER -> <<Width(b), q>>

Count(baps, b) == Cardinality({i \in DOMAIN baps : baps[i] = b})

(* The counts start at 2, 2 and 1, so that a group that is not full counts. *)
compute_mantissa_size(baps) ==
    LET wide[i \in 0 .. Len(baps)] ==
            IF i = 0 THEN 0 ELSE wide[i - 1] + (IF baps[i] <= 4 THEN 0 ELSE Width(baps[i]))
    IN  wide[Len(baps)]
          + ((Count(baps, 1) + 2) \div 3) * 5
          + (((Count(baps, 2) + 2) \div 3) + (Count(baps, 4) + 1) \div 2) * 7
          + Count(baps, 3) * 3
=============================================================================
