---------------------------- MODULE ChannelLayout ----------------------------
(* Which channels a stream has and in which order (libaften/util.c).  A WAVE channel
   mask is the set of its bits: bit n stands for speaker n of the WAVE order. *)
EXTENDS A52Tables, FiniteSets

A52_MAX_CHANNELS == 6

(* acmod by number of channels, for files that do not say more. *)
ch_to_acmod == <<1, 2, 3, 6, 7, 7>>

LFE == 3    \* the bit of the LFE channel, 0x08

(* The masks A/52 has an acmod for: the bits of 0x004, 0x003, 0x007, 0x103, 0x107, and
   both the back and the side speakers of 0x033 | 0x603 and 0x037 | 0x607. *)
LayoutOf(mask) ==
    CASE mask = {2} -> 1
      [] mask = {0, 1} -> 2
      [] mask = {0, 1, 2} -> 3
      [] mask = {0, 1, 8} -> 4
      [] mask = {0, 1, 2, 8} -> 5
      [] mask \in {{0, 1, 4, 5}, {0, 1, 9, 10}} -> 6
      [] mask \in {{0, 1, 2, 4, 5}, {0, 1, 2, 9, 10}} -> 7
      [] OTHER -> -1

Refused == [ret |-> -1, acmod |-> -1, lfe |-> -1]

(* The high bit of a mask (31) is ignored. *)
aften_wav_channels_to_acmod(ch, chmask) ==
    LET mask == chmask \ {31}
        fbw == mask \ {LFE}
        plain == IF ch = 6 THEN [ret |-> 0, acmod |-> ch_to_acmod[5], lfe |-> 1]
                 ELSE [ret |-> 0, acmod |-> ch_to_acmod[ch], lfe |-> 0]
        known == [ret |-> 0, acmod |-> IF LayoutOf(fbw) >= 0 THEN LayoutOf(fbw) ELSE ch_to_acmod[ch],
                  lfe |-> IF LFE \in mask THEN 1 ELSE 0]
    IN  IF ch \notin 1 .. A52_MAX_CHANNELS THEN Refused
        ELSE IF mask = {} THEN plain
        ELSE IF Cardinality(mask) # ch THEN Refused
        ELSE known

(* [acmod][lfe][ch], as in the source. *)
wav_chmap == <<
    << <<0, 1>>, <<0, 1, 2>> >>,
    << <<0>>, <<0, 1>> >>,
    << <<0, 1>>, <<0, 1, 2>> >>,
    << <<0, 2, 1>>, <<0, 2, 1, 3>> >>,
    << <<0, 1, 2>>, <<0, 1, 3, 2>> >>,
    << <<0, 2, 1, 3>>, <<0, 2, 1, 4, 3>> >>,
    << <<0, 1, 2, 3, 4>>, <<0, 1, 3, 4, 2>> >>,
    << <<0, 2, 1, 3, 4>>, <<0, 2, 1, 4, 5, 3>> >> >>

(* Mutant: the table is used the other way round. *)
RemapInverse(smp, acmod) ==
    LET lfe == IF Len(smp) > a52_channels_tab[acmod + 1] THEN 1 ELSE 0
        map == wav_chmap[acmod + 1][lfe + 1]
    IN  [j \in DOMAIN smp |-> smp[CHOOSE k \in DOMAIN smp : map[k] + 1 = j]]

(* One sample of every channel, reordered in place.  The table row of 2/2 without LFE
   names a fifth channel: it is not used. *)
aften_remap_wav_to_a52(smp, acmod) ==
    LET lfe == IF Len(smp) > a52_channels_tab[acmod + 1] THEN 1 ELSE 0
    IN  IF acmod < 3 \/ (acmod \in {4, 6} /\ lfe = 0) THEN smp
        ELSE [j \in DOMAIN smp |-> smp[wav_chmap[acmod + 1][lfe + 1][j] + 1]]

aften_remap_mpeg_to_a52(smp, acmod) ==
    IF acmod <= 2 \/ acmod % 2 = 0 THEN smp
    ELSE [smp EXCEPT ![1] = smp[2], ![2] = smp[1]]
=============================================================================
