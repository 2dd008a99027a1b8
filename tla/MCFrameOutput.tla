---------------------------- MODULE MCFrameOutput ----------------------------
(* FrameOutput for TLC. *)
EXTENDS FrameOutput

Plain == [acmod |-> 2, lfe |-> 0, halfratecod |-> 0, fscod |-> 0, xbsi1e |-> 0, xbsi2e |-> 0,
          dynrng |-> FALSE, bwcode |-> 0, expstr_search |-> 1]

(* Every channel mode, with and without the LFE channel and dynamic range words;
   extra information at full and at half rate; and searches for a set of exponent
   strategies, at a bandwidth where the groups end beyond the last bin. *)
MCSettings ==
    {[Plain EXCEPT !.acmod = a, !.lfe = (a + 1) % 2, !.dynrng = a \in {0, 1, 2}] : a \in 0 .. 3}
    \cup {[Plain EXCEPT !.acmod = a, !.lfe = a % 2, !.fscod = (a - 4) % 3] : a \in 4 .. 7}
    \cup {[Plain EXCEPT !.xbsi1e = 1, !.xbsi2e = 1, !.halfratecod = h] : h \in {0, 1}}
    \cup {[Plain EXCEPT !.acmod = 1, !.bwcode = 1, !.expstr_search = n] : n \in {4, 8}}

SearchSettings == {s \in MCSettings : s.expstr_search > 1}

(* Spectra: a falling one with a spike that moves from block to block, noise of
   varying size with silent bins, and silence. *)
MCCoef(p, b, ch, i) ==
    CASE p = "spike" -> IF i % 11 = (b + ch) % 11 THEN (IF i % 2 = 0 THEN 1 ELSE -1) * 8388608
                        ELSE 4000000 \div ((i + 1) * (b + 1))
      [] p = "noise" -> LET x == (i * 7919 + b * 3571 + ch * 104729) % 4096
                        IN  ((x % 5) - 2) * 4^(x % 11)
      [] OTHER -> 0
MCFlags == {<<0, 0, 0, 0>>, <<1, 0, 1, 1>>}
MCBlksw(p, b, ch) == IF p = "noise" /\ (b + ch) % 3 = 0 THEN 1 ELSE 0
=============================================================================
