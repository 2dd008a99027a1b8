------------------------------ MODULE Exponents ------------------------------
(* The exponents of one channel: libaften/exponent.c and its MMX and SSE2
   versions.  An array of exponents is a sequence (exp[i] is element i + 1) of up
   to 256 entries; blocks are 1 .. 6. *)
EXTENDS A52Tables, Bitwise

NumBlocks == 6
Lesser(a, b) == IF a > b THEN b ELSE a

(* Groups of three exponents, each standing for GroupSize coefficients. *)
GroupSize(str) == IF str = EXP_D45 THEN 4 ELSE str
nexpgrptab(str, n) ==
    IF n = 7 THEN 2 ELSE (n + 3 * GroupSize(str) - 4) \div (3 * GroupSize(str))

(* log2i reads the same from a table of bytes. *)
log2i(v) == CHOOSE n \in 0 .. 30 : 2^n <= v /\ v < 2 * 2^n
extract_exponents(c) == IF c = 0 THEN 24 ELSE 23 - log2i(IF c < 0 THEN -c ELSE c)

(* The first n entries of target become the minimum. *)
exponent_min(target, exp, exp1, n) ==
    [i \in 1 .. Len(target) |-> IF i <= n THEN Lesser(exp[i], exp1[i]) ELSE target[i]]

(* Exponents that differ from a neighbour by more than 2 are lowered, from the
   left, then from the right. *)
RECURSIVE FromLeft(_, _)
FromLeft(exp, acc) ==
    IF Len(acc) = Len(exp) THEN acc
    ELSE FromLeft(exp, Append(acc, Lesser(exp[Len(acc) + 1], acc[Len(acc)] + 2)))

RECURSIVE FromRight(_, _)
FromRight(exp, acc) ==
    IF Len(acc) = Len(exp) THEN acc
    ELSE FromRight(exp, <<Lesser(exp[Len(exp) - Len(acc)], acc[1] + 2)>> \o acc)

(* Mutant: differences are limited in one direction only. *)
LimitLeftOnly(exp) == FromLeft(exp, <<exp[1]>>)

LimitDeltas(exp) ==
    LET left == FromLeft(exp, <<exp[1]>>)
    IN  FromRight(left, <<left[Len(left)]>>)

(* In place in the code: entry i is written after entries 1 + (i - 1) * g and up,
   which are not below it, have been read. *)
GroupMin(exp, g, i) ==
    LET k == 2 + (i - 1) * g
    IN  IF g = 1 THEN exp[k]
        ELSE IF g = 2 THEN Lesser(exp[k], exp[k + 1])
        ELSE Lesser(Lesser(exp[k], exp[k + 1]), Lesser(exp[k + 2], exp[k + 3]))

(* The exponents a decoder will see, for a block whose strategy is str. *)
encode_exp_blk_ch(exp, ncoefs, str) ==
    LET g == GroupSize(str)
        ngrps == nexpgrptab(str, ncoefs) * 3
        final == LimitDeltas(<<Lesser(exp[1], 15)>> \o [i \in 1 .. ngrps |-> GroupMin(exp, g, i)])
    IN  [i \in 1 .. Len(exp) |->
            CASE i = 1 -> final[1]
              [] i \in 2 .. ngrps * g + 1 -> final[((i - 2) \div g) + 2]
              [] OTHER -> exp[i]]

exponent_sum_square_error(exp0, exp1, ncoefs) ==
    LET square[i \in 0 .. ncoefs] ==
            IF i = 0 THEN 0 ELSE square[i - 1] + (exp0[i] - exp1[i]) * (exp0[i] - exp1[i])
    IN  square[ncoefs]

(* The blocks that share the exponents of block i under the strategies strs: i and
   the blocks after it that reuse. *)
Run(strs, i) == {k \in i .. NumBlocks : \A j \in i + 1 .. k : strs[j] = EXP_REUSE}
RunStart(strs, k) == CHOOSE i \in 1 .. k : k \in Run(strs, i) /\ (i = 1 \/ strs[i] # EXP_REUSE)

Merged(exp, run, target, ncoefs) ==
    [e \in 1 .. Len(target) |->
        IF e <= ncoefs THEN CHOOSE x \in {exp[k][e] : k \in run} : \A k \in run : x <= exp[k][e]
        ELSE target[e]]

(* The exponents of all blocks as a decoder will see them.  The minimum is taken
   in the array of the first block of a run, and copied to the others. *)
encode_exponents(exp, ncoefs, strs) ==
    LET first == [i \in 1 .. NumBlocks |->
                    IF i > 1 /\ strs[i] = EXP_REUSE THEN <<>>
                    ELSE encode_exp_blk_ch(Merged(exp, Run(strs, i), exp[i], ncoefs), ncoefs, strs[i])]
    IN  [k \in 1 .. NumBlocks |->
            LET i == RunStart(strs, k)
            IN  [e \in 1 .. Len(exp[k]) |-> IF k = i \/ e <= ncoefs THEN first[i][e] ELSE exp[k][e]]]

(* compute_expstr_ch works in the array exponents on its stack (here: stack).  A
   block whose successor does not reuse its exponents is encoded in that array
   without having been copied to it. *)
TrySet(exp, ncoefs, strs, stack) ==
    [i \in 1 .. NumBlocks |->
        IF i > 1 /\ strs[i] = EXP_REUSE THEN stack[i]
        ELSE encode_exp_blk_ch(
               IF Run(strs, i) = {i} THEN stack[i] ELSE Merged(exp, Run(strs, i), stack[i], ncoefs),
               ncoefs, strs[i])]

SetError(exp, ncoefs, strs, encoded) ==
    LET error[k \in 0 .. NumBlocks] ==
            IF k = 0 THEN 0
            ELSE error[k - 1]
                 + exponent_sum_square_error(exp[k], encoded[RunStart(strs, k)], ncoefs)
    IN  error[NumBlocks]

expstr_set_search_order_tab ==
    << 0, 31, 10,  2,  8, 17, 24, 22,  3, 21, 26, 13, 14, 23, 29, 11,
      30, 27, 15, 16,  1,  9, 12,  4,  5,  6,  7, 18, 19, 20, 25, 28>>

(* Searched sets s, s + 1, ... search_size, the best so far and its error. *)
RECURSIVE SearchSets(_, _, _, _, _, _)
SearchSets(exp, ncoefs, search_size, s, stack, best) ==
    IF s > search_size THEN best.str
    ELSE LET str == expstr_set_search_order_tab[s]
             strs == a52_expstr_set_tab[str + 1]
             tried == TrySet(exp, ncoefs, strs, stack)
             error == SetError(exp, ncoefs, strs, tried)
         IN  SearchSets(exp, ncoefs, search_size, s + 1, tried,
                        IF s = 1 \/ error < best.error THEN [str |-> str, error |-> error] ELSE best)

compute_expstr_ch(exp, ncoefs, search_size, stack) ==
    SearchSets(exp, ncoefs, search_size, 1, stack, [str |-> 0, error |-> 0])

(* Seven bits for three differences. *)
group_exponents(exp, ncoefs, str) ==
    LET g == GroupSize(str)
        at(m) == exp[2 + (m - 1) * g]
        delta(m) == at(m) - (IF m = 1 THEN exp[1] ELSE at(m - 1)) + 2
    IN  <<exp[1]>> \o [i \in 1 .. nexpgrptab(str, ncoefs) |->
                          (delta(3 * i - 2) * 5 + delta(3 * i - 1)) * 5 + delta(3 * i)]
-----------------------------------------------------------------------------
(* Vector versions: W bytes at a time (8 for MMX, 16 for SSE2), the rest one by
   one.  A vector is a sequence of bytes, lowest address first. *)
Load(exp, k, W) == [b \in 1 .. W |-> exp[k + b - 1]]
ShiftDown(v, n) == [b \in 1 .. Len(v) |-> IF b + n <= Len(v) THEN v[b + n] ELSE 0]
ShiftUp(v, n) == [b \in 1 .. Len(v) |-> IF b > n THEN v[b - n] ELSE 0]
Masked(v, lane) == [b \in 1 .. Len(v) |-> IF (b - 1) % lane = 0 THEN v[b] ELSE 0]
OrBytes(v, w) == [b \in 1 .. Len(v) |-> v[b] | w[b]]
Signed8(x) == IF x >= 128 THEN x - 256 ELSE x

(* MMX has only a signed comparison of bytes, SSE2 an unsigned minimum. *)
MinBytes(v, w, W) ==
    [b \in 1 .. Len(v) |->
        IF W = 8 THEN (IF Signed8(v[b]) > Signed8(w[b]) THEN w[b] ELSE v[b])
        ELSE Lesser(v[b], w[b])]

(* The minima of W / g groups of g bytes each, one per lane of g bytes. *)
LaneMin(exp, k, g, W) ==
    LET v1 == Load(exp, k, W)
        two == IF g = 2 THEN MinBytes(Masked(v1, 2), ShiftDown(v1, 1), W)
               ELSE MinBytes(v1, ShiftDown(v1, 1), W)
    IN  IF g = 2 THEN two ELSE Masked(MinBytes(two, ShiftDown(two, 2), W), 4)

LaneValue(v, q, g) ==
    LET byte(b) == v[q * g + b]
    IN  IF g = 2 THEN byte(1) + 256 * byte(2)
        ELSE byte(1) + 256 * (byte(2) + 256 * (byte(3) + 256 * byte(4)))

VectorMin(exp, g, i, ngrps, W) ==
    LET per == W \div g
        q == (i - 1) \div per
    IN  IF i <= (ngrps \div per) * per
        THEN LaneValue(LaneMin(exp, 2 + q * W, g, W), (i - 1) % per, g)
        ELSE GroupMin(exp, g, i)

(* Mutant: a lane of four bytes is filled by half. *)
CopyHalf(exp1, i, g, W) ==
    LET v1 == [b \in 1 .. W |-> (exp1[i + (b - 1) \div g] \div 256^((b - 1) % g)) % 256]
    IN  OrBytes(v1, ShiftUp(v1, 1))

(* Each lane holds one exponent; shifted copies are or'ed over its other bytes. *)
LaneCopies(exp1, i, g, W) ==
    LET v1 == [b \in 1 .. W |-> (exp1[i + (b - 1) \div g] \div 256^((b - 1) % g)) % 256]
        two == OrBytes(v1, ShiftUp(v1, 1))
    IN  IF g = 2 THEN two ELSE OrBytes(two, ShiftUp(two, 2))

VectorByte(exp1, m, g, ngrps, W) ==
    LET per == W \div g
        i == (m - 1) \div g + 1
        q == (i - 1) \div per
    IN  IF i <= (ngrps \div per) * per
        THEN LaneCopies(exp1, 1 + q * per, g, W)[m - q * W]
        ELSE exp1[i] % 256

EncodeVector(exp, ncoefs, str, W) ==
    LET g == GroupSize(str)
        ngrps == nexpgrptab(str, ncoefs) * 3
        exp1 == IF g = 1 THEN SubSeq(exp, 2, ngrps + 1)
                ELSE [i \in 1 .. ngrps |-> VectorMin(exp, g, i, ngrps, W)]
        final == LimitDeltas(<<Lesser(exp[1], 15)>> \o exp1)
        groups == Tail(final)
    IN  [i \in 1 .. Len(exp) |->
            CASE i = 1 -> final[1]
              [] i > 1 /\ i <= ngrps * g + 1 ->
                    IF g = 1 THEN groups[i - 1] ELSE VectorByte(groups, i - 1, g, ngrps, W)
              [] OTHER -> exp[i]]

encode_exp_blk_ch_mmx(exp, ncoefs, str) == EncodeVector(exp, ncoefs, str, 8)
encode_exp_blk_ch_sse2(exp, ncoefs, str) == EncodeVector(exp, ncoefs, str, 16)

ExponentMinVector(target, exp, exp1, n, W) ==
    LET whole == (n \div W) * W
        min(i) == MinBytes(<<exp[i]>>, <<exp1[i]>>, W)[1]
    IN  [i \in 1 .. Len(target) |->
            CASE i <= whole -> min(i)
              [] i > whole /\ i <= n -> Lesser(exp[i], exp1[i])
              [] OTHER -> target[i]]

exponent_min_mmx(target, exp, exp1, n) == ExponentMinVector(target, exp, exp1, n, 8)
exponent_min_sse2(target, exp, exp1, n) == ExponentMinVector(target, exp, exp1, n, 16)

(* The difference is taken in a signed byte before it is squared. *)
SumSquareVector(exp0, exp1, ncoefs, W) ==
    LET whole == (ncoefs \div W) * W
        err(i) == IF i <= whole THEN Signed8((exp0[i] - exp1[i]) % 256) ELSE exp0[i] - exp1[i]
        square[i \in 0 .. ncoefs] == IF i = 0 THEN 0 ELSE square[i - 1] + err(i) * err(i)
    IN  square[ncoefs]

exponent_sum_square_error_mmx(exp0, exp1, ncoefs) == SumSquareVector(exp0, exp1, ncoefs, 8)
exponent_sum_square_error_sse2(exp0, exp1, ncoefs) == SumSquareVector(exp0, exp1, ncoefs, 16)
=============================================================================
