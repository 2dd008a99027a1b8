----------------------------- MODULE A52Tables -----------------------------
(* The constant tables of the A/52 format as libaften/a52tab.c has them, and the
   two band tables that a52_common_init derives from the band sizes.  A C table
   starts at 0: t[i + 1] here is t[i] there. *)
EXTENDS Integers, Sequences

EXP_REUSE == 0
EXP_D15 == 1
EXP_D25 == 2
EXP_D45 == 3

a52_channels_tab == <<2, 1, 2, 3, 3, 4, 4, 5>>

a52_sample_rate_tab == <<48000, 44100, 32000>>

a52_bitrate_tab == <<32, 40, 48, 56, 64, 80, 96, 112, 128, 160, 192, 224, 256,
                     320, 384, 448, 512, 576, 640>>

(* The six strategies of each pre-defined set (one set per row in the source). *)
a52_expstr_set_tab == <<
    <<1, 0, 0, 0, 0, 0>>, <<1, 0, 0, 0, 0, 3>>, <<1, 0, 0, 0, 2, 0>>, <<1, 0, 0, 0, 3, 3>>,
    <<2, 0, 0, 2, 0, 0>>, <<2, 0, 0, 2, 0, 3>>, <<2, 0, 0, 3, 2, 0>>, <<2, 0, 0, 3, 3, 3>>,
    <<2, 0, 1, 0, 0, 0>>, <<2, 0, 2, 0, 0, 3>>, <<2, 0, 2, 0, 2, 0>>, <<2, 0, 2, 0, 3, 3>>,
    <<2, 0, 3, 2, 0, 0>>, <<2, 0, 3, 2, 0, 3>>, <<2, 0, 3, 3, 2, 0>>, <<2, 0, 3, 3, 3, 3>>,
    <<3, 1, 0, 0, 0, 0>>, <<3, 1, 0, 0, 0, 3>>, <<3, 2, 0, 0, 2, 0>>, <<3, 2, 0, 0, 3, 3>>,
    <<3, 2, 0, 2, 0, 0>>, <<3, 2, 0, 2, 0, 3>>, <<3, 2, 0, 3, 2, 0>>, <<3, 2, 0, 3, 3, 3>>,
    <<3, 3, 1, 0, 0, 0>>, <<3, 3, 2, 0, 0, 3>>, <<3, 3, 2, 0, 2, 0>>, <<3, 3, 2, 0, 3, 3>>,
    <<3, 3, 3, 2, 0, 0>>, <<3, 3, 3, 2, 0, 3>>, <<3, 3, 3, 3, 2, 0>>, <<3, 3, 3, 3, 3, 3>>>>

(* 220 initialisers for 260 entries: C sets the rest to 0. *)
a52_log_add_tab == <<
    64, 63, 62, 61, 60, 59, 58, 57, 56, 55, 54, 53, 52, 52, 51, 50, 49, 48, 47, 47,
    46, 45, 44, 44, 43, 42, 41, 41, 40, 39, 38, 38, 37, 36, 36, 35, 35, 34, 33, 33,
    32, 32, 31, 30, 30, 29, 29, 28, 28, 27, 27, 26, 26, 25, 25, 24, 24, 23, 23, 22,
    22, 21, 21, 21, 20, 20, 19, 19, 19, 18, 18, 18, 17, 17, 17, 16, 16, 16, 15, 15,
    15, 14, 14, 14, 13, 13, 13, 13, 12, 12, 12, 12, 11, 11, 11, 11, 10, 10, 10, 10,
    10, 9, 9, 9, 9, 9, 8, 8, 8, 8, 8, 8, 7, 7, 7, 7, 7, 7, 6, 6,
    6, 6, 6, 6, 6, 6, 5, 5, 5, 5, 5, 5, 5, 5, 4, 4, 4, 4, 4, 4,
    4, 4, 4, 4, 4, 3, 3, 3, 3, 3, 3, 3, 3, 3, 3, 3, 3, 3, 3, 2,
    2, 2, 2, 2, 2, 2, 2, 2, 2, 2, 2, 2, 2, 2, 2, 2, 2, 2, 1, 1,
    1, 1, 1, 1, 1, 1, 1, 1, 1, 1, 1, 1, 1, 1, 1, 1, 1, 1, 1, 1,
    1, 1, 1, 1, 1, 1, 1, 1, 1, 1, 0, 0, 0, 0, 0, 0, 0, 0, 0, 0>> \o [i \in 1 .. 40 |-> 0]

(* One row per base sample rate: 48, 44.1 and 32 kHz. *)
a52_hearing_threshold_tab == <<
  << 1232, 1232, 1088, 1024, 992, 960, 944, 944, 928, 928, 928, 928, 928, 912, 912, 912, 896,
     896, 880, 880, 864, 864, 848, 848, 832, 832, 816, 800, 784, 768, 752, 752, 752, 752,
     768, 784, 832, 912, 992, 1056, 1120, 1168, 1184, 1120, 1088, 1088, 1312, 2048, 2112, 2112>>,
  << 1264, 1264, 1120, 1040, 992, 976, 960, 944, 944, 928, 928, 928, 928, 928, 912, 912, 912,
     896, 896, 896, 880, 880, 864, 864, 848, 848, 832, 832, 800, 784, 768, 752, 752, 752,
     752, 768, 800, 848, 912, 992, 1056, 1104, 1184, 1168, 1120, 1088, 1152, 1584, 2112, 2112>>,
  << 1408, 1408, 1200, 1104, 1056, 1008, 992, 976, 960, 944, 944, 944, 928, 928, 928, 928, 928,
     928, 928, 928, 912, 912, 912, 912, 896, 896, 896, 880, 864, 848, 832, 816, 800, 784,
     768, 752, 752, 752, 768, 784, 816, 848, 960, 1040, 1136, 1184, 1120, 1088, 1104, 1248>> >>

a52_bap_tab == <<
    0, 1, 1, 1, 1, 1, 2, 2, 3, 3, 3, 4, 4, 5, 5, 6, 6, 6, 6, 7,
    7, 7, 7, 8, 8, 8, 8, 9, 9, 9, 9, 10, 10, 10, 10, 11, 11, 11, 11, 12,
    12, 12, 12, 13, 13, 13, 13, 14, 14, 14, 14, 14, 14, 14, 14, 15, 15, 15, 15, 15,
    15, 15, 15, 15>>

a52_slow_decay_tab == <<15, 17, 19, 21>>
a52_fast_decay_tab == <<63, 83, 103, 123>>
a52_slow_gain_tab == <<1344, 1240, 1144, 1040>>
a52_db_per_bit_tab == <<0, 1792, 2304, 2816>>
a52_floor_tab == <<752, 688, 624, 560, 496, 368, 240, -2048>>
a52_fast_gain_tab == <<128, 256, 384, 512, 640, 768, 896, 1024>>

a52_critical_band_size_tab == <<
    1, 1, 1, 1, 1, 1, 1, 1, 1, 1, 1, 1, 1, 1, 1, 1, 1, 1, 1, 1, 1, 1, 1, 1, 1,
    1, 1, 1, 3, 3, 3, 3, 3, 3, 3, 6, 6, 6, 6, 6, 6, 12, 12, 12, 12, 24, 24, 24, 24, 24>>

(* band_start_tab[b]: the first bin of band b; band_start_tab[50] ends the last. *)
band_start_tab[b \in 0 .. 50] ==
    IF b = 0 THEN 0 ELSE band_start_tab[b - 1] + a52_critical_band_size_tab[b]

(* bin_to_band_tab[i]: the band that bin i lies in. *)
bin_to_band_tab ==
    [i \in 0 .. 252 |->
        CHOOSE b \in 0 .. 49 : band_start_tab[b] <= i /\ i < band_start_tab[b + 1]]
=============================================================================
