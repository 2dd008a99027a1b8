--------------------------- MODULE MCFramePacing ---------------------------
(* Instances of FramePacing for TLC: every rate and every sample rate. *)
EXTENDS FramePacing

AllRates     == 0 .. 18
AllFsCods    == 0 .. 2
AllHalfRates == 0 .. 2
=============================================================================
